------------------------------- MODULE Timestamps -------------------------------
(***************************************************************************)
(* The timestamp arithmetic of ts_muxer.c as pure operators:               *)
(* unroll_timestamp, which turns 33-bit timestamps into ones that never    *)
(* wrap, and the part of init_next_av_packet that fills in a video frame's *)
(* missing dts.  They read and write mux->base_ts, which all streams       *)
(* share, and last_pts, last_dts and min_dts_diff of a stream.             *)
(*                                                                         *)
(* Timestamps are 64-bit in the program and stay far from its limits; they *)
(* are unbounded here.                                                     *)
(***************************************************************************)
EXTENDS Integers

CONSTANTS
  Wrap,            \* timestamps wrap here: 2^33
  Lead,            \* 120*90, how far the first guessed dts is before the pts
  FrameTicks,      \* (int)(90000/frame_rate)
  AV_NOPTS_VALUE   \* libavutil's "no timestamp"

ASSUME WrapAssumption == Wrap \in Nat \ {0} /\ Wrap % 2 = 0
ASSUME TicksAssumption == Lead \in Nat /\ FrameTicks \in Nat \ {0}
(* It is the most negative integer.                                        *)
ASSUME NoPtsAssumption == AV_NOPTS_VALUE \in Int /\ AV_NOPTS_VALUE < 0

(* "None yet" in base_ts, last_pts and last_dts, and "missing" in hdr.dts. *)
Unset == -1

(* A difference cut to 33 bits, then sign-extended from bit 32.            *)
Extended(d) ==
  LET low == d % Wrap IN IF low >= Wrap \div 2 THEN low - Wrap ELSE low

(* Mutation: the first timestamp is unrolled from 0.                       *)
base_for_Zero(base_ts, t) == IF base_ts = Unset THEN 0 ELSE base_ts

(* The base that t is unrolled from.                                       *)
base_for(base_ts, t) == IF base_ts = Unset THEN t ELSE base_ts

(* unroll_timestamp's result.                                              *)
unroll_timestamp(base_ts, t) ==
  IF t = AV_NOPTS_VALUE
  THEN t
  ELSE base_for(base_ts, t) + Extended(t - base_for(base_ts, t))

(* base_ts afterwards.                                                     *)
base_after(base_ts, t) ==
  IF t = AV_NOPTS_VALUE THEN base_ts ELSE unroll_timestamp(base_ts, t)

-----------------------------------------------------------------------------
(* add_stream's timestamps of a stream.                                    *)
new_stream == [last_pts |-> Unset, last_dts |-> Unset, min_dts_diff |-> FrameTicks]

(* The smallest distance of two dts seen.  hdr.dts is as it was read while *)
(* last_dts is unrolled, and Unset before the first frame.                 *)
min_dts_diff_after(st, hdr) ==
  LET diff == hdr.dts - st.last_dts
  IN  IF hdr.dts # Unset /\ diff > 0 /\ diff < st.min_dts_diff
      THEN diff
      ELSE st.min_dts_diff

(* Mutation: a missing dts is always guessed from the pts.                 *)
video_dts_FromPts(st, hdr) ==
  IF hdr.dts # Unset THEN hdr.dts ELSE hdr.pts - Lead

(* The dts of a video frame before unrolling: its own, or a guess.         *)
video_dts(st, hdr) ==
  IF hdr.dts # Unset THEN hdr.dts
  ELSE IF st.last_dts = Unset THEN hdr.pts - Lead
  ELSE st.last_dts + min_dts_diff_after(st, hdr)

(* What init_next_av_packet does with the timestamps of a header: the pts  *)
(* is unrolled first, the dts from there.                                  *)
Stamped(base_ts, st, hdr, video) ==
  LET dts0  == IF video THEN video_dts(st, hdr) ELSE hdr.pts
      base1 == base_after(base_ts, hdr.pts)
      pts   == unroll_timestamp(base_ts, hdr.pts)
      dts   == unroll_timestamp(base1, dts0)
  IN  [pts  |-> pts,
       dts  |-> dts,
       base |-> base_after(base1, dts0),
       st   |-> [last_pts     |-> pts,
                 last_dts     |-> dts,
                 min_dts_diff |-> IF video THEN min_dts_diff_after(st, hdr)
                                           ELSE st.min_dts_diff]]
=============================================================================
