-------------------------------- MODULE TsMuxer --------------------------------
(***************************************************************************)
(* The multiplexer of apps/ts_muxer at the level of frames: the            *)
(* application (muxer_process of ts_muxer_app.c, or its Python sibling in  *)
(* ts_muxer_app.py), which reads the elementary-stream files and fills one *)
(* FIFO per stream, and the muxing thread (ts_muxer_entry of ts_muxer.c),  *)
(* which takes frames from the FIFOs, stamps them and gives them to        *)
(* libavformat.  Each thread holds frames back by the pts of another       *)
(* stream:                                                                 *)
(*   - the application writes a track's frames up to the pts of the video  *)
(*     header it read last.  In C it waits for room for video, and writes  *)
(*     all it may of each track; in Python it goes on to the tracks when   *)
(*     there is no room, writes at most one frame of each, and leaves out  *)
(*     the tracks behind the first one that gives none;                    *)
(*   - the muxing thread takes track frames up to the pts of the video     *)
(*     packet it made last, and video frames up to five seconds past the   *)
(*     last packet of the first audio track.                               *)
(*                                                                         *)
(* A FIFO is a queue of frames with a byte budget; FrameFifo shows that    *)
(* the bytes and the critical sections behind it make one, except that a   *)
(* write that fills it exactly empties it, which Stored keeps.  One step   *)
(* asks for room and writes: the other thread only makes room in between,  *)
(* so asking at the time of the write gives the same answer.  The output   *)
(* side is OutFifo's: the application drains it in every pass of its loop, *)
(* and libavformat's writes return.                                        *)
(***************************************************************************)
EXTENDS Timestamps, Sequences

CONSTANTS
  Inputs,       \* programs and the files they may be given
  video_fifo_size, audio_fifo_size, scte_fifo_size,
  Overhead,     \* gsi_header_size
  Gate,         \* 5000*90
  Rounds,       \* rounds of draining after the end of the video file
  Garbage       \* what memory that nobody wrote may hold as a timestamp

Video == 0

(* size: its bytes; pts and dts: its true times, of which the files have   *)
(* the low bits, as the extractor cut them.                                *)
Frame == [size : Nat \ {0}, pts : Nat, dts : Nat \cup {Unset}]

ASSUME LimitsAssumption ==
  /\ {video_fifo_size, audio_fifo_size, scte_fifo_size, Overhead, Rounds} \subseteq Nat \ {0}
  /\ Gate \in Nat
ASSUME GarbageAssumption == Garbage \subseteq Int /\ Garbage # {}
(* No video frame is larger than its FIFO (1000000 and 4000000 bytes), and *)
(* the Python program has no SCTE-35 tracks.                               *)
ASSUME InputsAssumption ==
  \A in \in Inputs :
    /\ in.program \in {"c", "python"}
    /\ in.audio \in Nat /\ in.scte \in Nat
    /\ in.program = "python" => in.scte = 0
    /\ DOMAIN in.file = 0 .. in.audio + in.scte
    /\ \A s \in DOMAIN in.file : in.file[s] \in Seq(Frame)
    /\ \A i \in 1 .. Len(in.file[Video]) : in.file[Video][i].size < video_fifo_size

VARIABLES
  input,        \* the program, how many audio and SCTE-35 tracks, and the
                \* frames of each stream's file
  pos,          \* the next frame of each file
  fifo,         \* the frames in each FIFO
  free,         \* its writable bytes
  apc,          \* the application: "video", "tracks", "rounds" or "exited"
  atrack,       \* the track it is at
  video_pts,    \* video_frame_hdr.pts
  rounds,       \* rounds of draining done
  mstream,      \* the stream the muxing thread is at
  last_vid_pts, \* its local
  st,           \* last_pts, last_dts, min_dts_diff of each stream
  stray,        \* st_audio[0].last_pts when there is no audio track
  base_ts,      \* mux->base_ts
  sent,         \* packets of each stream given to libavformat
  filled,       \* history: some write took a FIFO's last byte
  dropped       \* history: some frame fitted, but not with its header

appvars == <<pos, apc, atrack, video_pts, rounds>>
muxvars == <<mstream, last_vid_pts, st, base_ts, sent>>
fifovars == <<fifo, free, filled, dropped>>
vars == <<input, stray, fifovars, appvars, muxvars>>

file == input.file
NumAud == input.audio
Tracks == 1 .. input.audio + input.scte
Streams == {Video} \cup Tracks
FirstAudio == 1

Capacity(s) == IF s = Video THEN video_fifo_size
               ELSE IF s <= NumAud THEN audio_fifo_size
               ELSE scte_fifo_size

TypeOK ==
  /\ input \in Inputs
  /\ pos \in [Streams -> Nat \ {0}]
  /\ \A s \in Streams : fifo[s] \in Seq(Frame)
  /\ \A s \in Streams : free[s] \in 1 .. Capacity(s)
  /\ apc \in {"video", "tracks", "rounds", "exited"}
  /\ apc = "tracks" => atrack \in Tracks
  /\ video_pts \in Nat
  /\ rounds \in 0 .. Rounds
  /\ mstream \in Streams
  /\ last_vid_pts \in Int
  /\ st \in [Streams -> [last_pts : Int, last_dts : Int, min_dts_diff : Nat \ {0}]]
  /\ stray \in Int
  /\ base_ts \in Int
  /\ sent \in [Streams -> Nat]
  /\ filled \in BOOLEAN /\ dropped \in BOOLEAN

Init ==
  /\ input \in Inputs
  /\ pos = [s \in Streams |-> 1]
  /\ fifo = [s \in Streams |-> << >>]
  /\ free = [s \in Streams |-> Capacity(s)]
  /\ apc = "video"
  /\ atrack = 1
  /\ video_pts = 0
  /\ rounds = 0
  /\ mstream = Video
  /\ last_vid_pts \in Garbage
  /\ st = [s \in Streams |-> new_stream]
  /\ stray \in IF NumAud = 0 THEN Garbage ELSE {Unset}
  /\ base_ts = Unset
  /\ sent = [s \in Streams |-> 0]
  /\ filled = FALSE /\ dropped = FALSE

-----------------------------------------------------------------------------
(***************************************************************************)
(* The FIFOs.                                                              *)
(***************************************************************************)

Need(f) == f.size + Overhead

Room(s, f) == free[s] > f.size

(* Mutation: the header's bytes are left out of the check.                 *)
Stored_NoHeader(s, f) ==
  /\ f.size < free[s]
  /\ fifo' = [fifo EXCEPT ![s] = Append(@, f)]
  /\ free' = [free EXCEPT ![s] = @ - Need(f)]
  /\ UNCHANGED <<filled, dropped>>

(* write_fifo_with_hdr: a frame that does not fit with its header is       *)
(* dropped, and one that fits exactly takes the whole FIFO with it.        *)
Stored(s, f) ==
  \/ /\ Need(f) < free[s]
     /\ fifo' = [fifo EXCEPT ![s] = Append(@, f)]
     /\ free' = [free EXCEPT ![s] = @ - Need(f)]
     /\ UNCHANGED <<filled, dropped>>
  \/ /\ Need(f) = free[s]
     /\ fifo' = [fifo EXCEPT ![s] = << >>]
     /\ free' = [free EXCEPT ![s] = Capacity(s)]
     /\ filled' = TRUE
     /\ UNCHANGED dropped
  \/ /\ Need(f) > free[s]
     /\ dropped' = TRUE
     /\ UNCHANGED <<fifo, free, filled>>

-----------------------------------------------------------------------------
(***************************************************************************)
(* The application thread.                                                 *)
(***************************************************************************)

AtEnd(s) == pos[s] > Len(file[s])
NextFrame(s) == file[s][pos[s]]

(* & 0x1ffffffff, by the extractor.                                        *)
Cut(t) == t % Wrap

(* The times in a frame's header.                                          *)
HdrPts(f) == Cut(f.pts)
HdrDts(f) == IF f.dts = Unset THEN Unset ELSE Cut(f.dts)

(* The pass goes on with the tracks, or is over.                           *)
ToTrack(i) ==
  IF i \in Tracks THEN apc' = "tracks" /\ atrack' = i
                  ELSE apc' = "video" /\ atrack' = 1

(* There is room for the next video frame.  When there is none the C       *)
(* application seeks back, sleeps 40 ms and starts its pass again, without *)
(* a look at the tracks: nothing changes.                                  *)
WriteVideo ==
  /\ apc = "video"
  /\ ~AtEnd(Video)
  /\ Room(Video, NextFrame(Video))
  /\ Stored(Video, NextFrame(Video))
  /\ video_pts' = HdrPts(NextFrame(Video))
  /\ pos' = [pos EXCEPT ![Video] = @ + 1]
  /\ ToTrack(1)
  /\ UNCHANGED <<input, stray, rounds, muxvars>>

(* The Python one seeks back and sleeps too, but goes on with the tracks,  *)
(* by the pts of the frame that it did not write.                          *)
PeekVideo ==
  /\ input.program = "python"
  /\ apc = "video"
  /\ ~AtEnd(Video)
  /\ ~Room(Video, NextFrame(Video))
  /\ video_pts' = HdrPts(NextFrame(Video))
  /\ ToTrack(1)
  /\ UNCHANGED <<input, stray, fifovars, pos, rounds, muxvars>>

(* Mutation: the video pts is not looked at.                               *)
TrackReady_AnyPts(i) == ~AtEnd(i) /\ Room(i, NextFrame(i))

(* A track's next frame can be written in this pass.                       *)
TrackReady(i) ==
  /\ ~AtEnd(i)
  /\ Room(i, NextFrame(i))
  /\ HdrPts(NextFrame(i)) <= video_pts

(* In C the next frame of the same track follows.                          *)
WriteTrack ==
  /\ apc = "tracks"
  /\ TrackReady(atrack)
  /\ Stored(atrack, NextFrame(atrack))
  /\ pos' = [pos EXCEPT ![atrack] = @ + 1]
  /\ IF input.program = "c" THEN UNCHANGED <<apc, atrack>> ELSE ToTrack(atrack + 1)
  /\ UNCHANGED <<input, stray, video_pts, rounds, muxvars>>

(* Mutation: the application waits for room for a track's frame.           *)
LeaveTrack_Waits ==
  /\ apc = "tracks"
  /\ ~(~AtEnd(atrack) /\ HdrPts(NextFrame(atrack)) <= video_pts)
  /\ IF input.program = "c" THEN ToTrack(atrack + 1) ELSE ToTrack(Video)
  /\ UNCHANGED <<input, stray, fifovars, pos, video_pts, rounds, muxvars>>

(* Mutation: continue instead of break, in Python.                         *)
LeaveTrack_GoesOn ==
  /\ apc = "tracks"
  /\ ~TrackReady(atrack)
  /\ ToTrack(atrack + 1)
  /\ UNCHANGED <<input, stray, fifovars, pos, video_pts, rounds, muxvars>>

(* Mutation: a track that gives no frame ends the pass, in C.              *)
LeaveTrack_Ends ==
  /\ apc = "tracks"
  /\ ~TrackReady(atrack)
  /\ ToTrack(Video)
  /\ UNCHANGED <<input, stray, fifovars, pos, video_pts, rounds, muxvars>>

(* The end of the file, a later frame or no room: on to the next track in  *)
(* C, while in Python `break` leaves the loop over the tracks.             *)
LeaveTrack ==
  /\ apc = "tracks"
  /\ ~TrackReady(atrack)
  /\ IF input.program = "c" THEN ToTrack(atrack + 1) ELSE ToTrack(Video)
  /\ UNCHANGED <<input, stray, fifovars, pos, video_pts, rounds, muxvars>>

(* The end of the video file ends the loop, wherever the tracks are.       *)
VideoEnds ==
  /\ apc = "video"
  /\ AtEnd(Video)
  /\ apc' = "rounds"
  /\ UNCHANGED <<input, stray, fifovars, pos, atrack, video_pts, rounds, muxvars>>

(* A last round of draining, then main returns and the process ends.       *)
DrainRound ==
  /\ apc = "rounds"
  /\ rounds' = rounds + 1
  /\ apc' = IF rounds' = Rounds THEN "exited" ELSE "rounds"
  /\ UNCHANGED <<input, stray, fifovars, pos, atrack, video_pts, muxvars>>

App == WriteVideo \/ PeekVideo \/ WriteTrack \/ LeaveTrack \/ VideoEnds \/ DrainRound

-----------------------------------------------------------------------------
(***************************************************************************)
(* The muxing thread.                                                      *)
(***************************************************************************)

Alive == apc # "exited"

(* Mutation: video may not go past the first audio track at all.           *)
VideoLimit_NoGate ==
  IF NumAud > 0 THEN st[FirstAudio].last_pts ELSE stray + Gate

(* Mutation: the track that is furthest counts.                            *)
VideoLimit_AnyTrack ==
  IF NumAud = 0 THEN stray + Gate
  ELSE LET last(i) == st[i].last_pts
           i == CHOOSE i \in Tracks : \A j \in Tracks : last(j) <= last(i)
       IN  last(i) + Gate

(* The latest pts of a video frame that may be taken.                      *)
VideoLimit ==
  IF NumAud > 0 THEN st[FirstAudio].last_pts + Gate ELSE stray + Gate

(* Nothing limits the video before the first audio packet.                 *)
Unlimited ==
  IF NumAud > 0 THEN st[FirstAudio].last_pts = Unset ELSE stray = Unset

(* The head of a FIFO may be taken.                                        *)
VideoReady ==
  /\ fifo[Video] # << >>
  /\ Unlimited \/ HdrPts(Head(fifo[Video])) <= VideoLimit

TrackTakable(i) ==
  /\ fifo[i] # << >>
  /\ HdrPts(Head(fifo[i])) <= last_vid_pts

(* init_next_av_packet on a frame that passes, and write_frame.            *)
Take(s) ==
  LET f == Head(fifo[s])
      p == Stamped(base_ts, st[s], [pts |-> HdrPts(f), dts |-> HdrDts(f)], s = Video)
  IN  /\ fifo' = [fifo EXCEPT ![s] = Tail(@)]
      /\ free' = [free EXCEPT ![s] = @ + Need(f)]
      /\ UNCHANGED <<filled, dropped>>
      /\ base_ts' = p.base
      /\ st' = [st EXCEPT ![s] = p.st]
      /\ sent' = [sent EXCEPT ![s] = @ + 1]
      /\ last_vid_pts' = IF s = Video THEN p.pts ELSE last_vid_pts

(* The stream looked at after s.                                           *)
After(s) == IF s + 1 \in Tracks THEN s + 1 ELSE Video

TakeVideo ==
  /\ Alive
  /\ mstream = Video
  /\ VideoReady
  /\ Take(Video)
  /\ mstream' = After(Video)
  /\ UNCHANGED <<input, stray, appvars>>

(* No video frame, or none that may be taken: the thread sleeps 40 ms and  *)
(* goes on to the tracks all the same.                                     *)
NoVideo ==
  /\ Alive
  /\ mstream = Video
  /\ ~VideoReady
  /\ mstream' = After(Video)
  /\ UNCHANGED <<input, stray, fifovars, last_vid_pts, st, base_ts, sent, appvars>>

TakeTrack ==
  /\ Alive
  /\ mstream \in Tracks
  /\ TrackTakable(mstream)
  /\ Take(mstream)
  /\ UNCHANGED <<input, stray, mstream, appvars>>

NoTrack ==
  /\ Alive
  /\ mstream \in Tracks
  /\ ~TrackTakable(mstream)
  /\ mstream' = After(mstream)
  /\ UNCHANGED <<input, stray, fifovars, last_vid_pts, st, base_ts, sent, appvars>>

Mux == TakeVideo \/ NoVideo \/ TakeTrack \/ NoTrack

Next == App \/ Mux

Spec == Init /\ [][Next]_vars

(* Both loops sleep for bounded times only, no mutex is held across a      *)
(* sleep, and libavformat's writes return: each thread runs again.         *)
FairSpec == Spec /\ WF_vars(App) /\ WF_vars(Mux)

-----------------------------------------------------------------------------
(* No timestamp of the files has wrapped.                                  *)
Unwrapped ==
  \A s \in Streams : \A n \in 1 .. Len(file[s]) : file[s][n].pts < Wrap

(* The times in the files.                                                 *)
TimesOf(s) ==
  {file[s][n].pts : n \in 1 .. Len(file[s])} \cup
  ({file[s][n].dts : n \in 1 .. Len(file[s])} \ {Unset})

(* None of them has wrapped, and no two are half a wrap apart (13 hours),  *)
(* the dts that are guessed for the video included.                        *)
Short ==
  \A r, s \in Streams : \A t \in TimesOf(r), u \in TimesOf(s) :
    t < Wrap /\ 2 * (t - u + Lead + Len(file[Video]) * FrameTicks) < Wrap

(* No track packet leaves before the application read a video header of    *)
(* its time or later, even while last_vid_pts still is what the stack      *)
(* held: the application's gate covers for the muxing thread's.  Files     *)
(* that wrap are another matter: a track that wraps first runs ahead.      *)
TracksBehindVideo ==
  Short =>
    \A i \in Tracks :
      st[i].last_pts # Unset =>
        \E n \in 1 .. Len(file[Video]) :
          /\ n <= IF input.program = "c" THEN pos[Video] - 1 ELSE pos[Video]
          /\ file[Video][n].pts >= st[i].last_pts

(* The times of the n-th video frame and the first track's n-th frame.     *)
VTime(n) == file[Video][n].pts
ATime(n) == file[FirstAudio][n].pts

(* The first audio track goes forward, and a video frame is at most a gate *)
(* ahead of its beginning if there are less than two frames before it, or  *)
(* one of the two before it is not as far yet.                             *)
Paced ==
  /\ \A m, n \in 1 .. Len(file[FirstAudio]) : m < n => ATime(m) <= ATime(n)
  /\ file[FirstAudio] # << >> =>
       \A n \in 1 .. Len(file[Video]) :
         (n <= 2 \/ VTime(n - 1) < ATime(1) \/ VTime(n - 2) < ATime(1)) =>
           VTime(n) <= ATime(1) + Gate

(* Once both have been sent, the video is at most five seconds ahead of    *)
(* the first audio track, although nothing limits it before the first      *)
(* audio packet: the muxing thread is never more than a frame ahead of the *)
(* application's pass over the tracks.  (Unless a FIFO lost some frames,   *)
(* or the video wrapped: then its gate stays open.)                        *)
VideoWithinGate ==
  (Short /\ ~filled /\ ~dropped /\ NumAud > 0 /\ Paced
     /\ sent[Video] > 0 /\ sent[FirstAudio] > 0) =>
        last_vid_pts <= st[FirstAudio].last_pts + Gate

(* The tracks stay behind the video and the video near the audio.          *)
Interleaved == TracksBehindVideo /\ VideoWithinGate

(* The bytes that a stream's first n frames need.                          *)
BytesTo(s, n) ==
  LET sum[m \in 0 .. Len(file[s])] == IF m = 0 THEN 0 ELSE sum[m - 1] + Need(file[s][m])
  IN  sum[n]

(* All of the track's frames fit into its FIFO at once.                    *)
Roomy(s) == BytesTo(s, Len(file[s])) < Capacity(s)

(* When the C application has come to the end of the video file, the FIFOs *)
(* were given every frame of a track that is due by then: passes that the  *)
(* full video FIFO cut short are made up for.  Only room may have lacked,  *)
(* or the 33 bits have wrapped: a track whose next frame is before the     *)
(* wrap gets nothing once the video is behind it (ts_muxer_app.c:258).     *)
TracksCaughtUp ==
  (input.program = "c" /\ Unwrapped /\ apc \in {"rounds", "exited"}) =>
    \A i \in Tracks : Roomy(i) =>
      \/ AtEnd(i)
      \/ \A n \in 1 .. Len(file[Video]) : file[Video][n].pts < NextFrame(i).pts

(* In Python no track gets more frames than one before it, whatever their  *)
(* times are: the first track that ends, or has no room, ends those behind *)
(* it as well (ts_muxer_app.py:101, 115).                                  *)
FedInTurn ==
  input.program = "python" => \A i, j \in Tracks : i < j => pos[j] <= pos[i]

(* The application can not give the muxing thread a frame of the first     *)
(* audio track either, for the pts of the video header that it is at.      *)
FirstAudioStuck ==
  \/ AtEnd(FirstAudio)
  \/ ~Room(FirstAudio, NextFrame(FirstAudio))
  \/ /\ HdrPts(NextFrame(FirstAudio)) > HdrPts(NextFrame(Video))
     /\ apc = "tracks" => HdrPts(NextFrame(FirstAudio)) > video_pts

(* Each thread waits for the other: the application for room for a video   *)
(* frame, in C with no look at the tracks, and the muxing thread for a     *)
(* packet of the first audio track, of which it has nothing it may take.   *)
Starved ==
  /\ apc = "video" \/ (input.program = "python" /\ apc = "tracks")
  /\ ~AtEnd(Video)
  /\ ~Room(Video, NextFrame(Video))
  /\ ~VideoReady
  /\ NumAud > 0 => ~TrackTakable(FirstAudio)
  /\ (NumAud > 0 /\ input.program = "python") => FirstAudioStuck

(* The program comes to its end, or the two threads starve each other:     *)
(* nothing else stops it, not even a wrap.                                 *)
DoneOrStarved == <>(apc = "exited" \/ Starved)

(* And that is for ever.                                                   *)
StarvedForever == [][Starved => Starved']_vars

(* Every video frame but the first is at most a gate past an audio frame   *)
(* that is due by then: the frame before it, and each one that follows, is *)
(* not earlier than that.                                                  *)
Covered ==
  \A n \in 2 .. Len(file[Video]) : \E m \in 1 .. Len(file[FirstAudio]) :
    /\ \A q \in n - 1 .. Len(file[Video]) : ATime(m) <= VTime(q)
    /\ VTime(n) <= ATime(m) + Gate

(* Audio frames j to k that leave no room for another one in their FIFO    *)
(* last as long as video frames n to r that fit into theirs, counted from  *)
(* frames before them.                                                     *)
Outlasts ==
  \A j, k \in 1 .. Len(file[FirstAudio]) - 1 :
    (j <= k /\ BytesTo(FirstAudio, k) - BytesTo(FirstAudio, j - 1)
                 + file[FirstAudio][k + 1].size >= audio_fifo_size) =>
    \A n, r \in 1 .. Len(file[Video]) :
      (n <= r /\ BytesTo(Video, r) - BytesTo(Video, n - 1) < video_fifo_size) =>
      \E p \in 1 .. r :
        /\ p = 1 \/ p < n
        /\ VTime(r) - VTime(p) <= ATime(k) - ATime(IF j = 1 THEN 1 ELSE j - 1)

(* Regular files: no timestamp wraps; there is audio, and each of its      *)
(* frames fits into the FIFO; both streams are Paced and the video is      *)
(* Covered; and in C, whose passes do not come to the audio while there is *)
(* no room for video, a full audio FIFO Outlasts the video's.              *)
Regular ==
  /\ Short
  /\ NumAud > 0
  /\ \A m \in 1 .. Len(file[FirstAudio]) : file[FirstAudio][m].size < audio_fifo_size
  /\ Paced
  /\ Covered
  /\ input.program = "c" => Outlasts

(* With regular files the program comes to its end, unless a FIFO lost     *)
(* some of their frames.                                                   *)
Finishes == Regular => <>(apc = "exited" \/ filled \/ dropped)
=============================================================================
