----------------------------- MODULE MCTranscoder -----------------------------
(* Instances of Transcoder for TLC. *)
EXTENDS Transcoder

(* Encoders that hold back and others, streams that are copied, a stream   *)
(* that cannot be, and one that is found late.                             *)
MCInputs ==
  { [kinds |-> <<"video", "audio">>, delay |-> {1}, late |-> FALSE],
    [kinds |-> <<"audio", "other", "video">>, delay |-> {1, 3}, late |-> FALSE],
    [kinds |-> <<"other", "other">>, delay |-> {}, late |-> FALSE],
    [kinds |-> <<"audio", "unknown">>, delay |-> {}, late |-> FALSE],
    [kinds |-> <<"video">>, delay |-> {1}, late |-> TRUE] }

=============================================================================
