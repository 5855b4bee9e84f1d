------------------------------ MODULE PacketClock ------------------------------
(***************************************************************************)
(* The timestamps that the muxing thread gives to a video stream and an    *)
(* audio stream as it takes their frames in turn (init_next_av_packet of   *)
(* ts_muxer.c), and whether libavformat accepts the packets.  The frames'  *)
(* true times grow without end; the headers hold them modulo Wrap.         *)
(*                                                                         *)
(* The headers of one behaviour have one writer.  av_to_es writes the pts  *)
(* for the dts too; another caller of write_video_frame gives the decoding *)
(* time, or no dts.  The order of the frames is free up to a skew between  *)
(* the streams, which the muxer's gates keep small (TsMuxer).              *)
(***************************************************************************)
EXTENDS Timestamps

CONSTANTS
  Writers,      \* who may have written the headers: "av_to_es", "caller"
  Starts,       \* true times at which the video may begin
  Spacing,      \* distances of successive video frames in decoding order
  Reorder,      \* how much later than decoded a video frame is presented
  AudioTicks,   \* distance of successive audio frames
  Skew,         \* how far the streams are apart at most
  DtsThere,     \* whether a caller gives a video frame's dts: a subset of BOOLEAN
  Horizon       \* bound: no frame begins later than this

ASSUME StreamAssumption == /\ Writers \subseteq {"av_to_es", "caller"}
                           /\ Starts \subseteq Nat
                           /\ Spacing \subseteq Nat \ {0}
                           /\ Reorder \subseteq Nat
                           /\ AudioTicks \in Nat \ {0}
                           /\ Skew \in Nat
                           /\ DtsThere \subseteq BOOLEAN
                           /\ Horizon \in Nat

VARIABLES
  writer,       \* who writes this behaviour's headers
  base_ts,      \* mux->base_ts
  video,        \* last_pts, last_dts, min_dts_diff of st_video
  audio,        \* and of st_audio[0]
  vtime,        \* true decoding time of the next video frame
  atime,        \* true time of the next audio frame
  origin,       \* the true time that is 0 for the unrolled timestamps
  pkt,          \* the packet built last, with the true times of its frame
  cur_dts,      \* per stream, the dts libavformat accepted last, if any
  accepted,     \* whether it accepted the packet built last
  shown,        \* history: the latest true pts of a video frame, if any
  collided      \* history: an unrolled timestamp was Unset

stamps == <<base_ts, video, audio, vtime, atime, origin, pkt, collided>>
checks == <<cur_dts, accepted, shown>>
vars == <<writer, stamps, checks>>

NoPacket == [kind |-> "none", pts |-> 0, dts |-> 0, true_pts |-> 0,
             true_dts |-> 0, own_dts |-> TRUE]

StreamState == [last_pts : Int, last_dts : Int, min_dts_diff : Nat \ {0}]

TypeOK ==
  /\ writer \in Writers
  /\ base_ts \in Int
  /\ video \in StreamState
  /\ audio \in StreamState
  /\ vtime \in Nat
  /\ atime \in Nat
  /\ origin \in Int
  /\ pkt \in [kind : {"none", "video", "audio"}, pts : Int, dts : Int,
              true_pts : Int, true_dts : Int, own_dts : BOOLEAN]
  /\ cur_dts \in [{"video", "audio"} -> SUBSET Int]
  /\ accepted \in BOOLEAN
  /\ shown \in SUBSET Nat
  /\ collided \in BOOLEAN

Init ==
  /\ writer \in Writers
  /\ base_ts = Unset
  /\ video = new_stream
  /\ audio = new_stream
  /\ vtime \in Starts
  /\ atime \in {t \in 0 .. vtime + Skew : vtime - Skew <= t}
  /\ origin = 0
  /\ pkt = NoPacket
  /\ cur_dts = [kind \in {"video", "audio"} |-> {}]
  /\ accepted = TRUE
  /\ shown = {}
  /\ collided = FALSE

(* The origin is where the wrap period of the very first timestamp begins. *)
OriginAfter(true_pts) ==
  IF pkt.kind = "none" THEN true_pts - (true_pts % Wrap) ELSE origin

(* libavformat's test of a packet: its dts is not after its pts, and after *)
(* the last one of the stream.                                             *)
Accepts(kind, pts, dts) == dts <= pts /\ \A last \in cur_dts[kind] : last < dts

(* The packet of a header whose true times are given, stamped and written. *)
(* write_frame's result is ignored: a refused packet is dropped.           *)
Take(kind, st, hdr, true_pts, true_dts, own_dts) ==
  LET s == Stamped(base_ts, st, hdr, kind = "video")
  IN  /\ base_ts' = s.base
      /\ pkt' = [kind |-> kind, pts |-> s.pts, dts |-> s.dts,
                 true_pts |-> true_pts, true_dts |-> true_dts, own_dts |-> own_dts]
      /\ origin' = OriginAfter(true_pts)
      /\ collided' = (collided \/ s.pts = Unset \/ s.dts = Unset)
      /\ accepted' = Accepts(kind, s.pts, s.dts)
      /\ cur_dts' = IF Accepts(kind, s.pts, s.dts)
                    THEN [cur_dts EXCEPT ![kind] = {s.dts}]
                    ELSE cur_dts
      /\ UNCHANGED writer

(* An earlier video frame is presented no sooner than one at true_pts.     *)
Behind(true_pts) == \E latest \in shown : true_pts <= latest

(* The next video frame, while audio is not too far behind.                *)
VideoPacket(late, dts, own_dts) ==
  LET hdr == [pts |-> (vtime + late) % Wrap, dts |-> dts]
  IN  /\ vtime <= atime + Skew
      /\ vtime <= Horizon
      /\ Take("video", video, hdr, vtime + late, vtime, own_dts)
      /\ video' = Stamped(base_ts, video, hdr, TRUE).st
      /\ \E gap \in Spacing : vtime' = vtime + gap
      /\ shown' = IF Behind(vtime + late) THEN shown ELSE {vtime + late}
      /\ UNCHANGED <<audio, atime>>

(* av_to_es masks both timestamps and then writes the pts twice: the test  *)
(* for a missing dts comes after the mask, which has removed it.           *)
VideoFromAvToEs(late) ==
  /\ writer = "av_to_es"
  /\ VideoPacket(late, (vtime + late) % Wrap, FALSE)

(* Another caller's frame has its decoding time, or no dts.                *)
VideoFromCaller(late, own_dts) ==
  /\ writer = "caller"
  /\ VideoPacket(late, IF own_dts THEN vtime % Wrap ELSE Unset, own_dts)

(* The next audio frame, while video is not too far behind.                *)
AudioPacket ==
  LET hdr == [pts |-> atime % Wrap, dts |-> atime % Wrap]
  IN  /\ atime <= vtime + Skew
      /\ atime <= Horizon
      /\ Take("audio", audio, hdr, atime, atime, TRUE)
      /\ audio' = Stamped(base_ts, audio, hdr, FALSE).st
      /\ atime' = atime + AudioTicks
      /\ UNCHANGED <<video, vtime, shown>>

Next ==
  \/ \E late \in Reorder : VideoFromAvToEs(late)
  \/ \E late \in Reorder, own_dts \in DtsThere : VideoFromCaller(late, own_dts)
  \/ AudioPacket

Spec == Init /\ [][Next]_vars

-----------------------------------------------------------------------------
(* The streams are close and their steps small beside half a wrap.         *)
Near(reach) ==
  /\ \A gap \in Spacing : gap <= reach
  /\ \A late \in Reorder : late <= reach
  /\ AudioTicks <= reach
  /\ 2 * (Skew + 3 * reach) < Wrap

(* Lip sync: both streams' unrolled timestamps are the true ones counted   *)
(* from one origin, across any number of wraps and in whatever order the   *)
(* streams reach them, so that a distance between two packets is the       *)
(* distance of their frames.  (A timestamp that unrolls to -1 makes        *)
(* unroll_timestamp start over.)                                           *)
InStep ==
  (pkt.kind # "none" /\ ~collided) =>
     /\ pkt.pts = pkt.true_pts - origin
     /\ pkt.own_dts => pkt.dts = pkt.true_dts - origin

(* libavformat accepts every packet, whether its dts was read or guessed,  *)
(* except that of the video that av_to_es extracted it refuses, and so the *)
(* muxer loses, exactly the frames that are not presented after all those  *)
(* decoded before them: with the pts for its dts, reordered video goes     *)
(* back in time.                                                           *)
DtsAccepted ==
  [][~collided' =>
       (accepted' <=> ~ (/\ writer = "av_to_es"
                         /\ pkt'.kind = "video"
                         /\ Behind(pkt'.true_pts)))]_vars

=============================================================================
