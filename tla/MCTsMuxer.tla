------------------------------- MODULE MCTsMuxer -------------------------------
(* Instances of TsMuxer for TLC. *)
EXTENDS TsMuxer, TLC

NoTime == -100000

F(size, pts, dts) == [size |-> size, pts |-> pts, dts |-> dts]

(* The same frames, t later.                                               *)
Later(frames, t) ==
  [n \in DOMAIN frames |->
     F(frames[n].size, frames[n].pts + t,
       IF frames[n].dts = Unset THEN Unset ELSE frames[n].dts + t)]

(* Video in decoding order, with frames presented out of it, with and      *)
(* without dts; small frames before a large one; and frames of two sizes. *)
VideoFiles == {
  << F(2, 2, 0), F(2, 6, 2), F(2, 4, 4), F(3, 8, 6), F(3, 12, 8), F(3, 10, 10), F(3, 14, 12) >>,
  << F(1, 2, -1), F(1, 4, -1), F(1, 6, -1), F(1, 8, -1), F(7, 10, -1), F(1, 12, -1) >>,
  << F(3, 2, -1), F(1, 4, -1), F(1, 6, -1), F(3, 8, -1), F(1, 10, -1), F(3, 12, -1) >> }

(* Audio all along, ending early, beginning late, and with a frame larger  *)
(* than its FIFO.                                                          *)
Audio == << F(1, 1, 1), F(1, 3, 3), F(1, 5, 5), F(1, 7, 7), F(1, 9, 9), F(1, 11, 11) >>
Early == << F(1, 1, 1), F(1, 2, 2) >>
Late  == << F(1, 7, 7), F(2, 10, 10) >>
Large == << F(1, 1, 1), F(9, 3, 3), F(1, 7, 7) >>

(* More than fits into its FIFO at once, and less.                         *)
Scte == << F(1, 5, 5), F(1, 8, 8), F(1, 9, 9) >>
Few  == << F(1, 5, 5), F(1, 9, 9) >>

(* One audio and one SCTE-35 track, and SCTE-35 without audio, in C; two   *)
(* audio tracks, or none, in Python; and files that wrap, the video first  *)
(* or the audio first.                                                     *)
McInputs ==
  { [program |-> "c", audio |-> 1, scte |-> 1, file |-> (0 :> v) @@ (1 :> a) @@ (2 :> Scte)] :
      v \in VideoFiles, a \in {Audio, Large} } \cup
  { [program |-> "c", audio |-> 1, scte |-> 1, file |-> (0 :> v) @@ (1 :> a) @@ (2 :> Few)] :
      v \in VideoFiles, a \in {Early, Late} } \cup
  { [program |-> "c", audio |-> 0, scte |-> 1, file |-> (0 :> v) @@ (1 :> Scte)] :
      v \in VideoFiles } \cup
  { [program |-> "python", audio |-> 2, scte |-> 0, file |-> (0 :> v) @@ (1 :> a) @@ (2 :> Audio)] :
      v \in VideoFiles, a \in {Audio, Early, Late, Large} } \cup
  { [program |-> "python", audio |-> 0, scte |-> 0, file |-> (0 :> v)] : v \in VideoFiles } \cup
  { [program |-> p, audio |-> 1, scte |-> 0, file |-> (0 :> Later(v, t)) @@ (1 :> Later(Audio, t))] :
      p \in {"c", "python"}, v \in VideoFiles, t \in {995, 996} }

Stack == {-1, 0, 1000}
=============================================================================
