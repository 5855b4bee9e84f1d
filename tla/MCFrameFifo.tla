------------------------------ MODULE MCFrameFifo ------------------------------
(* Instances of FrameFifo for TLC. *)
EXTENDS FrameFifo
=============================================================================
