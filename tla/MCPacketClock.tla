----------------------------- MODULE MCPacketClock -----------------------------
(* Instances of PacketClock for TLC. *)
EXTENDS PacketClock

(* Far from every timestamp, as 0x8000000000000000 is. *)
NoTime == -100000
=============================================================================
