-------------------------------- MODULE MCAvToEs --------------------------------
(* Instances of AvToEs for TLC. *)
EXTENDS AvToEs, TLC

NoTime == -1024

V(i, pts) == [stream |-> i, pts |-> pts, dts |-> pts - 1]
S(id, type) == [id |-> id, type |-> type]

(* In the order of the Readme's options, or with audio first; a stream     *)
(* that is not wanted, first, in the middle or last; ids of 0, which a     *)
(* slot has that no option set.                                            *)
Inputs == {
  << S(64, "video"), S(68, "audio"), S(50, "data") >>,
  << S(68, "audio"), S(64, "video"), S(50, "data") >>,
  << S(99, "data"), S(64, "video"), S(68, "audio") >>,
  << S(64, "video"), S(99, "audio"), S(68, "audio") >>,
  << S(0, "video"), S(0, "audio"), S(50, "data") >>,
  << S(0, "video"), S(99, "audio"), S(50, "data") >> }

Options == { << 64, 68, 50 >>, << 64, 68 >>, << 64 >>, << >> }

(* Across a wrap at 16, presented out of order, and with a pts missing.    *)
Packets == {
  << V(1, 10), V(2, 9), V(1, 15), V(3, 12), V(2, 14), V(1, 18) >>,
  << V(1, 14), V(2, 15), V(1, 20), V(1, 17), V(2, NoTime), V(3, 21) >> }

McJobs ==
  { [options |-> o, input |-> i, packets |-> p, pipes |-> FALSE, exist |-> FALSE, reader |-> "each"] :
      o \in Options, i \in Inputs, p \in Packets } \cup
  { [options |-> o, input |-> i, packets |-> p, pipes |-> TRUE, exist |-> e, reader |-> r] :
      o \in {<< 64, 68, 50 >>, << 64, 68 >>, << >>}, i \in Inputs, p \in Packets,
      e \in BOOLEAN, r \in {"ts_muxer", "python", "each"} }

(* The Readme's command line, on an input with audio first.                *)
ReadmeJobs ==
  { [options |-> << 64, 68, 50 >>, input |-> i, packets |-> p, pipes |-> FALSE,
     exist |-> FALSE, reader |-> "each"] : i \in Inputs, p \in Packets }
=============================================================================
