------------------------------- MODULE MCOutFifo -------------------------------
(* Instances of OutFifo for TLC. *)
EXTENDS OutFifo
=============================================================================
