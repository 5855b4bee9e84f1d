----------------------------- MODULE TsMuxerProofs -----------------------------
(***************************************************************************)
(* Theorems about TsMuxer, for all files and sizes: in which order the     *)
(* Python program feeds its tracks, that threads which starve each other   *)
(* have nothing that could end it, that the C program catches up with the  *)
(* tracks, and how far video and audio are apart when they are sent.       *)
(***************************************************************************)
EXTENDS TsMuxer, WellFoundedInduction, TLAPS

(* The variables are functions of the streams, and the application is at a *)
(* track when it is at the tracks.                                         *)
Shaped ==
  /\ input \in Inputs
  /\ pos \in [Streams -> Nat \ {0}]
  /\ video_pts \in Int
  /\ DOMAIN fifo = Streams /\ DOMAIN free = Streams /\ DOMAIN st = Streams
  /\ apc = "tracks" => atrack \in Tracks

(* Tracks are numbered from 1, the video is none of them, and the Python   *)
(* program has audio tracks only.                                          *)
LEMMA TracksAre ==
  ASSUME input \in Inputs
  PROVE  /\ input.audio \in Nat /\ input.scte \in Nat
         /\ Tracks = 1 .. input.audio + input.scte
         /\ Tracks \subseteq Nat \ {Video} /\ Video \notin Tracks
         /\ Tracks \subseteq Streams /\ Video \in Streams
         /\ NumAud > 0 => FirstAudio \in Tracks
         /\ input.program \in {"c", "python"}
         /\ input.program = "python" => input.scte = 0
BY InputsAssumption DEF Tracks, Video, Streams, NumAud, FirstAudio

(* The time in the header that a file goes on with is a number.            *)
LEMMA NextPts ==
  ASSUME Shaped, NEW s \in Streams, ~AtEnd(s)
  PROVE  HdrPts(NextFrame(s)) \in Int
<1>1. file[s] \in Seq(Frame)
  BY InputsAssumption DEF Shaped, file, Streams, Tracks, Video
<1>2. pos[s] \in 1 .. Len(file[s])
  BY <1>1 DEF Shaped, AtEnd
<1>3. file[s][pos[s]] \in Frame
  BY <1>1, <1>2
<1>4. file[s][pos[s]].pts \in Nat
  BY <1>3 DEF Frame
<1>5. \A t \in Nat : (t % Wrap) \in Int
  BY WrapAssumption
<1>. QED  BY <1>4, <1>5, Zenon DEF HdrPts, Cut, NextFrame

(* Where the application goes, and that nothing else of it moves.          *)
LEMMA ToTrackIs ==
  ASSUME NEW i, ToTrack(i)
  PROVE  \/ i \in Tracks /\ apc' = "tracks" /\ atrack' = i
         \/ i \notin Tracks /\ apc' = "video" /\ atrack' = 1
BY DEF ToTrack

(* No step changes what was given to the program.                          *)
LEMMA InputStays ==
  ASSUME [Next]_vars
  PROVE  /\ input' = input /\ stray' = stray
         /\ Tracks' = Tracks /\ Streams' = Streams /\ NumAud' = NumAud
<1>1. App => input' = input /\ stray' = stray
  BY DEF App, WriteVideo, PeekVideo, WriteTrack, LeaveTrack, VideoEnds, DrainRound
<1>2. Mux => input' = input /\ stray' = stray
  BY DEF Mux, TakeVideo, NoVideo, TakeTrack, NoTrack
<1>3. UNCHANGED vars => input' = input /\ stray' = stray
  BY DEF vars
<1>4. input' = input /\ stray' = stray
  BY <1>1, <1>2, <1>3 DEF Next
<1>. QED  BY <1>4 DEF Tracks, Streams, NumAud

(* What a write to a FIFO leaves alone: the other ones.                    *)
LEMMA StoredElsewhere ==
  ASSUME NEW STATE s, NEW STATE f, Stored(s, f),
         DOMAIN fifo = Streams, DOMAIN free = Streams
  PROVE  /\ DOMAIN fifo' = Streams /\ DOMAIN free' = Streams
         /\ \A o \in Streams : o # s => fifo'[o] = fifo[o] /\ free'[o] = free[o]
BY DEF Stored, fifovars

(* And what taking a frame leaves alone.                                   *)
LEMMA TakeElsewhere ==
  ASSUME NEW STATE s, Take(s),
         DOMAIN fifo = Streams, DOMAIN free = Streams, DOMAIN st = Streams
  PROVE  /\ DOMAIN fifo' = Streams /\ DOMAIN free' = Streams /\ DOMAIN st' = Streams
         /\ \A o \in Streams :
              o # s => fifo'[o] = fifo[o] /\ free'[o] = free[o] /\ st'[o] = st[o]
         /\ s # Video => last_vid_pts' = last_vid_pts
<1>. DEFINE p == Stamped(base_ts, st[s],
                   [pts |-> HdrPts(Head(fifo[s])), dts |-> HdrDts(Head(fifo[s]))], s = Video)
<1>1. /\ fifo' = [fifo EXCEPT ![s] = Tail(@)]
      /\ free' = [free EXCEPT ![s] = @ + Need(Head(fifo[s]))]
      /\ st' = [st EXCEPT ![s] = p.st]
      /\ last_vid_pts' = IF s = Video THEN p.pts ELSE last_vid_pts
  BY Zenon DEF Take
<1>. HIDE DEF p
<1>. QED  BY <1>1

(* Every step keeps the shape.                                             *)
LEMMA ShapedStep ==
  ASSUME Shaped, [Next]_vars
  PROVE  Shaped'
<1>1. input' = input /\ Tracks' = Tracks /\ Streams' = Streams
  BY InputStays
<1>2. /\ Tracks \subseteq Nat \ {Video} /\ Tracks \subseteq Streams /\ Video \in Streams
      /\ input.audio + input.scte \in Int /\ Tracks = 1 .. input.audio + input.scte
  BY TracksAre DEF Shaped
<1>3. \A s \in Streams : [pos EXCEPT ![s] = @ + 1] \in [Streams -> Nat \ {0}]
  BY DEF Shaped
<1>4. CASE WriteVideo
  <2>1. DOMAIN fifo' = Streams /\ DOMAIN free' = Streams
    BY <1>4, StoredElsewhere DEF WriteVideo, Shaped
  <2>2. st' = st /\ pos' \in [Streams -> Nat \ {0}]
    BY <1>2, <1>3, <1>4 DEF WriteVideo, muxvars
  <2>3. apc' = "tracks" => atrack' \in Tracks
    BY <1>4, ToTrackIs DEF WriteVideo
  <2>4. video_pts' \in Int
    BY <1>2, <1>4, NextPts DEF WriteVideo
  <2>. QED  BY <1>1, <2>1, <2>2, <2>3, <2>4 DEF Shaped
<1>5. CASE PeekVideo
  <2>1. apc' = "tracks" => atrack' \in Tracks
    BY <1>5, ToTrackIs DEF PeekVideo
  <2>2. video_pts' \in Int
    BY <1>2, <1>5, NextPts DEF PeekVideo
  <2>. QED  BY <1>1, <1>5, <2>1, <2>2 DEF Shaped, PeekVideo, fifovars, muxvars
<1>6. CASE WriteTrack
  <2>1. DOMAIN fifo' = Streams /\ DOMAIN free' = Streams
    BY <1>6, StoredElsewhere DEF WriteTrack, Shaped
  <2>2. st' = st /\ pos' \in [Streams -> Nat \ {0}]
    BY <1>2, <1>3, <1>6 DEF WriteTrack, muxvars, Shaped
  <2>3. ASSUME ToTrack(atrack + 1)
        PROVE  apc' = "tracks" => atrack' \in Tracks
    BY <2>3, ToTrackIs
  <2>4. apc' = "tracks" => atrack' \in Tracks
    BY <1>6, <2>3 DEF WriteTrack, Shaped
  <2>. QED  BY <1>1, <1>6, <2>1, <2>2, <2>4 DEF Shaped, WriteTrack
<1>7. CASE LeaveTrack
  <2>1. ASSUME ToTrack(atrack + 1)
        PROVE  apc' = "tracks" => atrack' \in Tracks
    BY <2>1, ToTrackIs
  <2>2. ASSUME ToTrack(Video)
        PROVE  apc' = "tracks" => atrack' \in Tracks
    BY <2>2, ToTrackIs
  <2>. QED  BY <1>1, <1>7, <2>1, <2>2 DEF Shaped, LeaveTrack, fifovars, muxvars
<1>8. CASE VideoEnds \/ DrainRound
  BY <1>1, <1>8 DEF Shaped, VideoEnds, DrainRound, fifovars, muxvars
<1>9. CASE TakeVideo
  BY <1>1, <1>9, TakeElsewhere DEF Shaped, TakeVideo, appvars
<1>10. CASE TakeTrack
  BY <1>1, <1>10, TakeElsewhere DEF Shaped, TakeTrack, appvars
<1>11. CASE NoVideo \/ NoTrack
  BY <1>1, <1>11 DEF Shaped, NoVideo, NoTrack, appvars, fifovars
<1>12. CASE UNCHANGED vars
  BY <1>1, <1>12 DEF Shaped, vars, appvars, fifovars, muxvars
<1>. QED  BY <1>4, <1>5, <1>6, <1>7, <1>8, <1>9, <1>10, <1>11, <1>12 DEF Next, App, Mux

(* So it is kept.                                                          *)
LEMMA ShapedAlways == Spec => []Shaped
<1>1. Init => Shaped
  BY DEF Init, Shaped, Streams
<1>2. Shaped /\ [Next]_vars => Shaped'
  BY ShapedStep
<1>. QED  BY <1>1, <1>2, PTL DEF Spec

-----------------------------------------------------------------------------
(* In a pass the tracks before the one it is at have got their frame.      *)
Turns ==
  input.program = "python" =>
    /\ \A i, j \in Tracks : i < j => pos[j] <= pos[i]
    /\ apc = "tracks" =>
         \A i, j \in Tracks : i < atrack /\ atrack <= j => pos[j] + 1 <= pos[i]

(* Every step keeps the turns.                                             *)
LEMMA TurnsStep ==
  ASSUME Shaped, Turns, [Next]_vars
  PROVE  Turns'
<1>. SUFFICES ASSUME input.program = "python" PROVE Turns'
  BY InputStays DEF Turns
<1>1. input' = input /\ Tracks' = Tracks
  BY InputStays
<1>2. /\ Tracks \subseteq Nat \ {Video} /\ Tracks \subseteq Streams /\ Video \in Streams
      /\ Tracks = 1 .. input.audio + input.scte /\ Video \notin Tracks
      /\ input.audio \in Nat /\ input.scte \in Nat
  BY TracksAre DEF Shaped
<1>3. \A i \in Tracks : pos[i] \in Int /\ i \in Int
  BY <1>2 DEF Shaped
<1>4. ASSUME \A i \in Tracks : pos'[i] = pos[i], apc' # "tracks" \/ atrack' = 1
      PROVE  Turns'
  BY <1>1, <1>2, <1>4 DEF Turns
<1>5. CASE WriteVideo
  <2>1. \A i \in Tracks : pos'[i] = pos[i]
    BY <1>2, <1>5 DEF WriteVideo, Shaped
  <2>. QED  BY <1>4, <1>5, <2>1, ToTrackIs DEF WriteVideo
<1>6. CASE PeekVideo
  BY <1>4, <1>6, ToTrackIs DEF PeekVideo
<1>7. CASE WriteTrack
  <2>1. apc = "tracks" /\ ToTrack(atrack + 1) /\ pos' = [pos EXCEPT ![atrack] = @ + 1]
    BY <1>7 DEF WriteTrack
  <2>2. \A i \in Tracks : pos'[i] = IF i = atrack THEN pos[i] + 1 ELSE pos[i]
    BY <1>2, <2>1 DEF Shaped
  <2>3. atrack \in Tracks /\ atrack \in Int
    BY <1>2, <2>1 DEF Shaped
  <2>4. \A i, j \in Tracks : i < j => pos'[j] <= pos'[i]
    BY <1>3, <2>1, <2>2, <2>3 DEF Turns
  <2>5. apc' = "tracks" => atrack' = atrack + 1
    BY <2>1, ToTrackIs
  <2>6. apc' = "tracks" =>
          \A i, j \in Tracks : i < atrack' /\ atrack' <= j => pos'[j] + 1 <= pos'[i]
    BY <1>3, <2>1, <2>2, <2>3, <2>5 DEF Turns
  <2>. QED  BY <1>1, <2>4, <2>6 DEF Turns
<1>8. CASE LeaveTrack
  <2>1. pos' = pos /\ ToTrack(Video)
    BY <1>8 DEF LeaveTrack
  <2>2. apc' # "tracks"
    BY <1>2, <2>1, ToTrackIs
  <2>. QED  BY <1>4, <2>1, <2>2
<1>9. CASE VideoEnds \/ DrainRound
  BY <1>4, <1>9 DEF VideoEnds, DrainRound
<1>10. CASE Mux \/ UNCHANGED vars
  <2>1. pos' = pos /\ apc' = apc /\ atrack' = atrack
    BY <1>10 DEF Mux, TakeVideo, NoVideo, TakeTrack, NoTrack, vars, appvars
  <2>. QED  BY <1>1, <2>1 DEF Turns
<1>. QED  BY <1>5, <1>6, <1>7, <1>8, <1>9, <1>10 DEF Next, App

(* Whatever the times of its frames, no track of the Python program gets   *)
(* more of them than one before it.                                        *)
THEOREM FedInTurnAlways == Spec => []FedInTurn
<1>1. Init => Turns
  BY DEF Init, Turns, Streams
<1>2. Shaped /\ Turns /\ [Next]_vars => Turns'
  BY TurnsStep
<1>3. Turns => FedInTurn
  BY DEF Turns, FedInTurn
<1>. QED  BY <1>1, <1>2, <1>3, ShapedAlways, PTL DEF Spec

-----------------------------------------------------------------------------
(* What starving depends on: the video, and the first audio track.         *)
Watched(s) == s = Video \/ (NumAud > 0 /\ s = FirstAudio)

(* A step that leaves these two streams, and the application, as they are. *)
LEMMA StarvedKept ==
  ASSUME Shaped, Starved, input' = input, stray' = stray, last_vid_pts' = last_vid_pts,
         \A s \in Streams : Watched(s) => /\ pos'[s] = pos[s] /\ fifo'[s] = fifo[s]
                                          /\ free'[s] = free[s] /\ st'[s] = st[s],
         apc' = "video" \/ (input.program = "python" /\ apc' = "tracks"),
         apc' = "tracks" =>
           (apc = "tracks" /\ video_pts' = video_pts) \/ video_pts' = HdrPts(NextFrame(Video))
  PROVE  Starved'
<1>1. NumAud' = NumAud /\ (\A s \in Streams : file'[s] = file[s])
  BY DEF NumAud, file
<1>2. Video \in Streams /\ (NumAud > 0 => FirstAudio \in Streams)
  BY TracksAre DEF Shaped
<1>3. /\ pos'[Video] = pos[Video] /\ fifo'[Video] = fifo[Video] /\ free'[Video] = free[Video]
      /\ NumAud > 0 => /\ pos'[FirstAudio] = pos[FirstAudio]
                       /\ fifo'[FirstAudio] = fifo[FirstAudio]
                       /\ free'[FirstAudio] = free[FirstAudio]
                       /\ st'[FirstAudio] = st[FirstAudio]
  BY <1>2 DEF Watched
<1>4. /\ AtEnd(Video)' <=> AtEnd(Video)
      /\ NextFrame(Video)' = NextFrame(Video)
      /\ NumAud > 0 => (AtEnd(FirstAudio)' <=> AtEnd(FirstAudio))
      /\ NumAud > 0 => NextFrame(FirstAudio)' = NextFrame(FirstAudio)
  BY <1>1, <1>2, <1>3 DEF AtEnd, NextFrame, file, Video, FirstAudio
<1>5. /\ Room(Video, NextFrame(Video))' <=> Room(Video, NextFrame(Video))
      /\ NumAud > 0 =>
           (Room(FirstAudio, NextFrame(FirstAudio))' <=> Room(FirstAudio, NextFrame(FirstAudio)))
  BY <1>3, <1>4 DEF Room, Video, FirstAudio
<1>6. VideoReady' <=> VideoReady
  BY <1>1, <1>3 DEF VideoReady, Unlimited, VideoLimit, HdrPts, Cut, Video, FirstAudio
<1>7. NumAud > 0 => (TrackTakable(FirstAudio)' <=> TrackTakable(FirstAudio))
  BY <1>3 DEF TrackTakable, HdrPts, Cut, FirstAudio
<1>8. (NumAud > 0 /\ input.program = "python") => FirstAudioStuck'
  <2>. SUFFICES ASSUME NumAud > 0, input.program = "python" PROVE FirstAudioStuck'
    OBVIOUS
  <2>1. FirstAudioStuck
    BY DEF Starved
  <2>2. /\ HdrPts(NextFrame(FirstAudio))' = HdrPts(NextFrame(FirstAudio))
        /\ HdrPts(NextFrame(Video))' = HdrPts(NextFrame(Video))
    BY <1>4 DEF HdrPts, Cut
  <2>. QED  BY <1>4, <1>5, <2>1, <2>2 DEF FirstAudioStuck
<1>. QED  BY <1>1, <1>4, <1>5, <1>6, <1>7, <1>8 DEF Starved

(* No step feeds threads that starve.                                      *)
LEMMA StarvedStep ==
  ASSUME Shaped, Starved, [Next]_vars
  PROVE  Starved'
<1>1. input' = input /\ stray' = stray
  BY InputStays
<1>2. /\ Tracks \subseteq Streams /\ Video \in Streams /\ Video \notin Tracks
      /\ NumAud > 0 => FirstAudio \in Tracks
      /\ input.program \in {"c", "python"}
      /\ input.program = "python" => Tracks = 1 .. NumAud
      /\ NumAud \in Nat
  BY TracksAre DEF Shaped, NumAud
<1>3. /\ apc = "video" \/ (input.program = "python" /\ apc = "tracks")
      /\ ~AtEnd(Video) /\ ~Room(Video, NextFrame(Video)) /\ ~VideoReady
      /\ NumAud > 0 => ~TrackTakable(FirstAudio)
      /\ (NumAud > 0 /\ input.program = "python") => FirstAudioStuck
  BY DEF Starved
<1>4. ~WriteVideo /\ ~VideoEnds /\ ~DrainRound /\ ~TakeVideo
  BY <1>3 DEF WriteVideo, VideoEnds, DrainRound, TakeVideo
<1>5. CASE PeekVideo
  <2>1. /\ UNCHANGED <<fifo, free, pos, st, last_vid_pts>>
        /\ video_pts' = HdrPts(NextFrame(Video)) /\ input.program = "python"
    BY <1>5 DEF PeekVideo, fifovars, muxvars
  <2>2. apc' \in {"video", "tracks"}
    BY <1>5, ToTrackIs DEF PeekVideo
  <2>. QED  BY <1>1, <2>1, <2>2, StarvedKept
<1>6. CASE WriteTrack
  <2>1. /\ apc = "tracks" /\ TrackReady(atrack) /\ Stored(atrack, NextFrame(atrack))
        /\ pos' = [pos EXCEPT ![atrack] = @ + 1]
        /\ st' = st /\ last_vid_pts' = last_vid_pts /\ video_pts' = video_pts
    BY <1>6 DEF WriteTrack, muxvars
  <2>2. input.program = "python" /\ atrack \in Tracks /\ NumAud > 0
    <3>1. input.program = "python" /\ atrack \in Tracks
      BY <1>3, <2>1 DEF Shaped
    <3>2. atrack \in 1 .. NumAud
      BY <1>2, <3>1
    <3>. QED  BY <1>2, <3>1, <3>2
  <2>3. atrack # FirstAudio
    <3>1. TrackReady(FirstAudio) =>
            /\ HdrPts(NextFrame(FirstAudio)) <= video_pts
            /\ HdrPts(NextFrame(FirstAudio)) \in Int /\ video_pts \in Int
      BY <1>2, <2>2, NextPts DEF TrackReady, Shaped
    <3>2. ~TrackReady(FirstAudio)
      BY <1>3, <2>1, <2>2, <3>1 DEF FirstAudioStuck, TrackReady
    <3>. QED  BY <2>1, <3>2
  <2>4. ~Watched(atrack)
    BY <1>2, <2>2, <2>3 DEF Watched
  <2>5. \A s \in Streams : s # atrack => fifo'[s] = fifo[s] /\ free'[s] = free[s]
    BY <2>1, StoredElsewhere DEF Shaped
  <2>6. \A s \in Streams : Watched(s) => /\ pos'[s] = pos[s] /\ fifo'[s] = fifo[s]
                                         /\ free'[s] = free[s] /\ st'[s] = st[s]
    BY <2>1, <2>4, <2>5 DEF Shaped
  <2>7. apc' \in {"video", "tracks"}
    BY <1>6, <2>2, ToTrackIs DEF WriteTrack
  <2>. QED  BY <1>1, <2>1, <2>2, <2>6, <2>7, StarvedKept
<1>7. CASE LeaveTrack
  <2>1. /\ UNCHANGED <<fifo, free, pos, st, last_vid_pts, video_pts>>
        /\ apc = "tracks" /\ input.program = "python"
    BY <1>3, <1>7 DEF LeaveTrack, fifovars, muxvars
  <2>2. apc' \in {"video", "tracks"}
    BY <1>7, <2>1, ToTrackIs DEF LeaveTrack
  <2>. QED  BY <1>1, <2>1, <2>2, StarvedKept
<1>8. CASE TakeTrack
  <2>1. /\ mstream \in Tracks /\ TrackTakable(mstream) /\ Take(mstream)
        /\ pos' = pos /\ apc' = apc /\ video_pts' = video_pts
    BY <1>8 DEF TakeTrack, appvars
  <2>2. ~Watched(mstream) /\ mstream # Video
    BY <1>2, <1>3, <2>1 DEF Watched
  <2>3. /\ \A s \in Streams :
             s # mstream => fifo'[s] = fifo[s] /\ free'[s] = free[s] /\ st'[s] = st[s]
        /\ last_vid_pts' = last_vid_pts
    BY <2>1, <2>2, TakeElsewhere DEF Shaped
  <2>4. \A s \in Streams : Watched(s) => /\ pos'[s] = pos[s] /\ fifo'[s] = fifo[s]
                                         /\ free'[s] = free[s] /\ st'[s] = st[s]
    BY <2>1, <2>2, <2>3
  <2>. QED  BY <1>1, <1>3, <2>1, <2>3, <2>4, StarvedKept
<1>9. CASE NoVideo \/ NoTrack \/ UNCHANGED vars
  <2>1. UNCHANGED <<fifo, free, pos, st, last_vid_pts, video_pts, apc>>
    BY <1>9 DEF NoVideo, NoTrack, vars, fifovars, appvars, muxvars
  <2>. QED  BY <1>1, <1>3, <2>1, StarvedKept
<1>. QED  BY <1>4, <1>5, <1>6, <1>7, <1>8, <1>9 DEF Next, App, Mux

(* Once the two threads wait for each other, no step of either ends it,    *)
(* whatever the other tracks still have to give.                           *)
THEOREM StarvedForeverHolds == Spec => StarvedForever
<1>1. Shaped /\ [Next]_vars => [Starved => Starved']_vars
  BY StarvedStep
<1>. QED  BY <1>1, ShapedAlways, PTL DEF Spec, StarvedForever

-----------------------------------------------------------------------------
(* What the muxing thread keeps of a stream.                               *)
StreamState == [last_pts : Int, last_dts : Int, min_dts_diff : Nat \ {0}]

(* Remainders of Wrap.                                                     *)
LEMMA CutType ==
  ASSUME NEW t \in Int
  PROVE  t % Wrap \in Nat
BY WrapAssumption

(* Unrolling gives integers.                                               *)
LEMMA UnrollType ==
  ASSUME NEW base \in Int, NEW t \in Int
  PROVE  unroll_timestamp(base, t) \in Int /\ base_after(base, t) \in Int
<1>1. base_for(base, t) \in Int
  BY DEF base_for, Unset
<1>2. t - base_for(base, t) \in Int
  BY <1>1
<1>3. (t - base_for(base, t)) % Wrap \in Int
  BY <1>2, CutType
<1>4. Extended(t - base_for(base, t)) \in Int
  BY <1>3, WrapAssumption DEF Extended
<1>. QED  BY <1>1, <1>4 DEF unroll_timestamp, base_after

(* A stamped packet and the state of its stream are of their types.        *)
LEMMA StampType ==
  ASSUME NEW base \in Int, NEW ss \in StreamState,
         NEW hdr \in [pts : Int, dts : Int], NEW isVideo \in BOOLEAN
  PROVE  LET p == Stamped(base, ss, hdr, isVideo)
         IN  p.pts \in Int /\ p.dts \in Int /\ p.base \in Int /\ p.st \in StreamState
<1>. DEFINE diff == hdr.dts - ss.last_dts
            dts0 == IF isVideo THEN video_dts(ss, hdr) ELSE hdr.pts
            base1 == base_after(base, hdr.pts)
            p == Stamped(base, ss, hdr, isVideo)
<1>1. hdr.pts \in Int /\ hdr.dts \in Int
  OBVIOUS
<1>2. ss.last_dts \in Int /\ ss.min_dts_diff \in Nat \ {0}
  BY DEF StreamState
<1>3. diff \in Int
  BY <1>1, <1>2
<1>4. min_dts_diff_after(ss, hdr) \in Nat \ {0}
  BY <1>2, <1>3 DEF min_dts_diff_after
<1>5. video_dts(ss, hdr) \in Int
  BY <1>1, <1>2, <1>4, TicksAssumption DEF video_dts
<1>6. dts0 \in Int
  BY <1>1, <1>5
<1>7. unroll_timestamp(base, hdr.pts) \in Int /\ base1 \in Int
  BY <1>1, UnrollType
<1>. HIDE DEF dts0, base1
<1>8. unroll_timestamp(base1, dts0) \in Int /\ base_after(base1, dts0) \in Int
  BY <1>6, <1>7, UnrollType
<1>9. /\ p.pts = unroll_timestamp(base, hdr.pts)
      /\ p.dts = unroll_timestamp(base1, dts0)
      /\ p.base = base_after(base1, dts0)
  BY DEF Stamped, dts0, base1
<1>10. p.st = [last_pts |-> unroll_timestamp(base, hdr.pts),
               last_dts |-> unroll_timestamp(base1, dts0),
               min_dts_diff |-> IF isVideo THEN min_dts_diff_after(ss, hdr)
                                           ELSE ss.min_dts_diff]
  BY DEF Stamped, dts0, base1
<1>11. p.st \in StreamState
  BY <1>2, <1>4, <1>7, <1>8, <1>10 DEF StreamState
<1>. QED  BY <1>7, <1>8, <1>9, <1>11

(* The times in a frame's header are numbers.                              *)
LEMMA HeaderType ==
  ASSUME NEW f \in Frame
  PROVE  /\ HdrPts(f) \in Nat /\ HdrDts(f) \in Int
         /\ [pts |-> HdrPts(f), dts |-> HdrDts(f)] \in [pts : Int, dts : Int]
         /\ f.size \in Nat \ {0} /\ Need(f) \in Nat \ {0} /\ f.size < Need(f)
         /\ f.pts \in Nat
<1>1. f.pts \in Nat /\ f.dts \in Nat \cup {Unset} /\ f.size \in Nat \ {0}
  BY DEF Frame
<1>2. HdrPts(f) \in Nat
  BY <1>1, CutType DEF HdrPts, Cut
<1>3. HdrDts(f) \in Int
  BY <1>1, CutType DEF HdrDts, Cut, Unset
<1>4. Need(f) \in Nat \ {0} /\ f.size < Need(f)
  BY <1>1, LimitsAssumption DEF Need
<1>. QED  BY <1>1, <1>2, <1>3, <1>4

(* The files consist of frames.                                            *)
LEMMA FilesAre ==
  ASSUME input \in Inputs, NEW s \in Streams
  PROVE  /\ file[s] \in Seq(Frame) /\ Len(file[s]) \in Nat
         /\ \A n \in 1 .. Len(file[s]) : file[s][n] \in Frame
<1>1. file[s] \in Seq(Frame)
  BY InputsAssumption DEF file, Streams, Tracks, Video
<1>. QED  BY <1>1

(* A FIFO's size is positive.                                              *)
LEMMA CapacityType ==
  ASSUME NEW s
  PROVE  Capacity(s) \in Nat \ {0}
BY LimitsAssumption DEF Capacity

-----------------------------------------------------------------------------
(* The frames take so many bytes of a FIFO: b[n] are those of the frames   *)
(* behind the n-th.                                                        *)
Holds(frames, bytes) ==
  \E b \in [0 .. Len(frames) -> Nat] :
    /\ b[Len(frames)] = 0
    /\ \A n \in 1 .. Len(frames) : b[n - 1] = b[n] + Need(frames[n])
    /\ bytes = b[0]

(* An empty FIFO holds nothing.                                            *)
LEMMA HoldsNone == Holds(<< >>, 0)
<1>. DEFINE b == [n \in 0 .. 0 |-> 0]
<1>1. b \in [0 .. Len(<< >>) -> Nat] /\ b[Len(<< >>)] = 0 /\ b[0] = 0
  OBVIOUS
<1>2. \A n \in 1 .. Len(<< >>) : b[n - 1] = b[n] + Need((<< >>)[n])
  OBVIOUS
<1>. HIDE DEF b
<1>. QED  BY <1>1, <1>2 DEF Holds

(* A frame that is appended adds its bytes.                                *)
LEMMA HoldsMore ==
  ASSUME NEW q \in Seq(Frame), NEW bytes, Holds(q, bytes), NEW f \in Frame
  PROVE  Holds(Append(q, f), bytes + Need(f))
<1>1. PICK b \in [0 .. Len(q) -> Nat] :
        /\ b[Len(q)] = 0
        /\ \A n \in 1 .. Len(q) : b[n - 1] = b[n] + Need(q[n])
        /\ bytes = b[0]
  BY DEF Holds
<1>. DEFINE r == Append(q, f)
            c == [n \in 0 .. Len(q) + 1 |-> IF n <= Len(q) THEN b[n] + Need(f) ELSE 0]
<1>2. Len(q) \in Nat /\ Len(r) = Len(q) + 1 /\ Need(f) \in Nat
  BY HeaderType
<1>3. /\ \A n \in 1 .. Len(q) : r[n] = q[n]
      /\ r[Len(q) + 1] = f
  OBVIOUS
<1>. HIDE DEF r
<1>4. c \in [0 .. Len(r) -> Nat] /\ c[Len(r)] = 0 /\ c[0] = b[0] + Need(f)
  BY <1>1, <1>2
<1>5. ASSUME NEW n \in 1 .. Len(r)
      PROVE  c[n - 1] = c[n] + Need(r[n])
  <2>1. CASE n = Len(q) + 1
    <3>1. c[n] = 0 /\ c[n - 1] = b[Len(q)] + Need(f) /\ r[n] = f
      BY <1>2, <1>3, <2>1
    <3>. HIDE DEF c
    <3>. QED  BY <1>1, <1>2, <3>1
  <2>2. CASE n # Len(q) + 1
    <3>1. n \in 1 .. Len(q) /\ n - 1 \in 0 .. Len(q)
      BY <1>2, <2>2
    <3>2. c[n] = b[n] + Need(f) /\ c[n - 1] = b[n - 1] + Need(f) /\ r[n] = q[n]
      BY <1>2, <1>3, <3>1
    <3>. HIDE DEF c
    <3>3. b[n - 1] = b[n] + Need(q[n])
      BY <1>1, <3>1
    <3>4. b[n] \in Nat /\ b[n - 1] \in Nat /\ Need(q[n]) \in Nat
      <4>1. n \in 0 .. Len(q) /\ q[n] \in Frame
        BY <1>2, <3>1
      <4>. QED  BY <1>1, <3>1, <4>1, HeaderType
    <3>. QED  BY <1>2, <3>2, <3>3, <3>4
  <2>. QED  BY <2>1, <2>2
<1>. HIDE DEF c
<1>. QED  BY <1>1, <1>4, <1>5 DEF Holds, r

(* The frame that is taken gives its bytes back.                           *)
LEMMA HoldsLess ==
  ASSUME NEW q \in Seq(Frame), q # << >>, NEW bytes, Holds(q, bytes)
  PROVE  /\ Holds(Tail(q), bytes - Need(Head(q)))
         /\ bytes \in Nat /\ Need(Head(q)) <= bytes
<1>1. PICK b \in [0 .. Len(q) -> Nat] :
        /\ b[Len(q)] = 0
        /\ \A n \in 1 .. Len(q) : b[n - 1] = b[n] + Need(q[n])
        /\ bytes = b[0]
  BY DEF Holds
<1>. DEFINE r == Tail(q)
            c == [n \in 0 .. Len(q) - 1 |-> b[n + 1]]
<1>2. Len(q) \in Nat \ {0} /\ Len(r) = Len(q) - 1 /\ Head(q) = q[1]
  OBVIOUS
<1>3. \A n \in 1 .. Len(r) : r[n] = q[n + 1]
  OBVIOUS
<1>. HIDE DEF r
<1>4. c \in [0 .. Len(r) -> Nat] /\ c[Len(r)] = 0 /\ c[0] = b[1]
  BY <1>1, <1>2
<1>5. ASSUME NEW n \in 1 .. Len(r)
      PROVE  c[n - 1] = c[n] + Need(r[n])
  <2>1. n + 1 \in 1 .. Len(q) /\ (n + 1) - 1 = n
    BY <1>2
  <2>2. c[n - 1] = b[n] /\ c[n] = b[n + 1] /\ r[n] = q[n + 1]
    BY <1>2, <1>3
  <2>. HIDE DEF c
  <2>. QED  BY <1>1, <2>1, <2>2
<1>6. b[0] = b[1] + Need(Head(q)) /\ b[1] \in Nat /\ b[0] \in Nat /\ Need(Head(q)) \in Nat
  <2>1. 1 \in 1 .. Len(q) /\ 1 - 1 = 0 /\ q[1] \in Frame
    BY <1>2
  <2>2. b[1 - 1] = b[1] + Need(q[1])
    BY <1>1, <2>1
  <2>3. b[1] \in Nat /\ b[0] \in Nat /\ Need(q[1]) \in Nat
    <3>1. 0 \in 0 .. Len(q) /\ 1 \in 0 .. Len(q)
      BY <1>2
    <3>. QED  BY <1>1, <2>1, <3>1, HeaderType
  <2>. QED  BY <1>2, <2>2, <2>3
<1>7. c[0] = bytes - Need(Head(q)) /\ Need(Head(q)) <= bytes /\ bytes \in Nat
  BY <1>1, <1>4, <1>6
<1>. HIDE DEF c
<1>. QED  BY <1>4, <1>5, <1>7 DEF Holds, r

-----------------------------------------------------------------------------
(* The FIFOs' free bytes are those that their frames do not take.          *)
Fifos ==
  /\ DOMAIN fifo = Streams /\ DOMAIN free = Streams
  /\ \A s \in Streams : fifo[s] \in Seq(Frame)
  /\ \A s \in Streams : free[s] \in 1 .. Capacity(s)
  /\ \A s \in Streams : Holds(fifo[s], Capacity(s) - free[s])
  /\ filled \in BOOLEAN /\ dropped \in BOOLEAN

(* A write keeps the bytes of the FIFOs right.                             *)
LEMMA StoredKeeps ==
  ASSUME Fifos, NEW STATE s, s \in Streams, NEW STATE f, f \in Frame, Stored(s, f),
         Streams' = Streams, NumAud' = NumAud
  PROVE  Fifos'
<1>. USE DEF Fifos
<1>1. \A o : Capacity(o)' = Capacity(o)
  BY DEF Capacity
<1>2. Capacity(s) \in Nat \ {0} /\ free[s] \in 1 .. Capacity(s) /\ Need(f) \in Nat \ {0}
  BY CapacityType, HeaderType
<1>3. /\ DOMAIN fifo' = Streams /\ DOMAIN free' = Streams
      /\ \A o \in Streams : o # s => fifo'[o] = fifo[o] /\ free'[o] = free[o]
  BY StoredElsewhere
<1>4. SUFFICES /\ fifo'[s] \in Seq(Frame) /\ free'[s] \in 1 .. Capacity(s)
               /\ Holds(fifo'[s], Capacity(s) - free'[s])
               /\ filled' \in BOOLEAN /\ dropped' \in BOOLEAN
  <2>1. ASSUME NEW o \in Streams
        PROVE  /\ fifo'[o] \in Seq(Frame) /\ free'[o] \in 1 .. Capacity(o)
               /\ Holds(fifo'[o], Capacity(o) - free'[o])
    <3>1. CASE o = s
      BY <1>4, <3>1
    <3>2. CASE o # s
      BY <1>3, <3>2
    <3>. QED  BY <3>1, <3>2
  <2>2. \A o \in Streams : Holds(fifo[o], Capacity(o) - free[o])'
    BY <1>1, <2>1 DEF Holds
  <2>. QED  BY <1>1, <1>3, <1>4, <2>1, <2>2
<1>5. CASE /\ Need(f) < free[s]
           /\ fifo' = [fifo EXCEPT ![s] = Append(@, f)]
           /\ free' = [free EXCEPT ![s] = @ - Need(f)]
           /\ UNCHANGED <<filled, dropped>>
  <2>1. fifo'[s] = Append(fifo[s], f) /\ free'[s] = free[s] - Need(f)
    BY <1>5
  <2>2. free'[s] \in 1 .. Capacity(s)
    BY <1>2, <1>5, <2>1
  <2>3. Capacity(s) - free'[s] = (Capacity(s) - free[s]) + Need(f)
    BY <1>2, <2>1
  <2>4. Holds(Append(fifo[s], f), (Capacity(s) - free[s]) + Need(f))
    BY HoldsMore
  <2>. QED  BY <1>5, <2>1, <2>2, <2>3, <2>4
<1>6. CASE /\ fifo' = [fifo EXCEPT ![s] = << >>]
           /\ free' = [free EXCEPT ![s] = Capacity(s)]
           /\ filled' = TRUE /\ UNCHANGED dropped
  <2>1. fifo'[s] = << >> /\ free'[s] = Capacity(s)
    BY <1>6
  <2>2. Capacity(s) - free'[s] = 0
    BY <1>2, <2>1
  <2>. QED  BY <1>2, <1>6, <2>1, <2>2, HoldsNone
<1>7. CASE dropped' = TRUE /\ UNCHANGED <<fifo, free, filled>>
  BY <1>7
<1>. QED  BY <1>5, <1>6, <1>7 DEF Stored

(* And so does a read.                                                     *)
LEMMA TakeKeeps ==
  ASSUME Fifos, DOMAIN st = Streams, NEW STATE s, s \in Streams, fifo[s] # << >>, Take(s),
         Streams' = Streams, NumAud' = NumAud
  PROVE  Fifos'
<1>. USE DEF Fifos
<1>1. \A o : Capacity(o)' = Capacity(o)
  BY DEF Capacity
<1>2. Capacity(s) \in Nat \ {0} /\ free[s] \in 1 .. Capacity(s) /\ Head(fifo[s]) \in Frame
  BY CapacityType
<1>3. /\ DOMAIN fifo' = Streams /\ DOMAIN free' = Streams
      /\ \A o \in Streams : o # s => fifo'[o] = fifo[o] /\ free'[o] = free[o]
  BY TakeElsewhere
<1>4. /\ fifo' = [fifo EXCEPT ![s] = Tail(@)]
      /\ free' = [free EXCEPT ![s] = @ + Need(Head(fifo[s]))]
      /\ filled' = filled /\ dropped' = dropped
  BY Zenon DEF Take
<1>5. fifo'[s] = Tail(fifo[s]) /\ free'[s] = free[s] + Need(Head(fifo[s]))
  BY <1>4
<1>6. Need(Head(fifo[s])) \in Nat \ {0}
  BY <1>2, HeaderType
<1>7. /\ Holds(Tail(fifo[s]), (Capacity(s) - free[s]) - Need(Head(fifo[s])))
      /\ Need(Head(fifo[s])) <= Capacity(s) - free[s]
  BY HoldsLess
<1>8. /\ (Capacity(s) - free[s]) - Need(Head(fifo[s])) = Capacity(s) - free'[s]
      /\ free'[s] \in 1 .. Capacity(s)
  BY <1>2, <1>5, <1>6, <1>7
<1>9. Tail(fifo[s]) \in Seq(Frame)
  OBVIOUS
<1>10. ASSUME NEW o \in Streams
       PROVE  /\ fifo'[o] \in Seq(Frame) /\ free'[o] \in 1 .. Capacity(o)
              /\ Holds(fifo'[o], Capacity(o) - free'[o])
  <2>1. CASE o = s
    BY <1>5, <1>7, <1>8, <1>9, <2>1
  <2>2. CASE o # s
    BY <1>3, <2>2
  <2>. QED  BY <2>1, <2>2
<1>11. \A o \in Streams : Holds(fifo[o], Capacity(o) - free[o])'
  BY <1>1, <1>10 DEF Holds
<1>. QED  BY <1>1, <1>3, <1>4, <1>10, <1>11

-----------------------------------------------------------------------------
(* The types, and what keeps them.                                         *)
Types == Shaped /\ TypeOK /\ Fifos /\ (apc = "exited" \/ rounds < Rounds)

(* The frame that a file goes on with.                                     *)
LEMMA NextFrameType ==
  ASSUME Shaped, NEW s \in Streams, ~AtEnd(s)
  PROVE  /\ pos[s] \in 1 .. Len(file[s]) /\ pos[s] \in Nat
         /\ NextFrame(s) \in Frame /\ NextFrame(s) = file[s][pos[s]]
<1>1. Len(file[s]) \in Nat /\ pos[s] \in Nat \ {0}
  BY FilesAre DEF Shaped
<1>2. pos[s] \in 1 .. Len(file[s])
  BY <1>1 DEF AtEnd
<1>. QED  BY <1>1, <1>2, FilesAre DEF NextFrame, Shaped

(* What taking a frame makes of the timestamps.                            *)
LEMMA TakeTypes ==
  ASSUME Types, NEW STATE s, s \in Streams, fifo[s] # << >>, Take(s)
  PROVE  /\ st' \in [Streams -> StreamState]
         /\ base_ts' \in Int /\ last_vid_pts' \in Int
         /\ sent' \in [Streams -> Nat]
<1>. DEFINE f == Head(fifo[s])
            hdr == [pts |-> HdrPts(f), dts |-> HdrDts(f)]
            p == Stamped(base_ts, st[s], hdr, s = Video)
<1>1. /\ base_ts \in Int /\ last_vid_pts \in Int
      /\ st \in [Streams -> StreamState] /\ sent \in [Streams -> Nat]
      /\ f \in Frame
  BY DEF Types, TypeOK, StreamState
<1>2. st[s] \in StreamState
  BY <1>1
<1>. HIDE DEF f
<1>3. hdr \in [pts : Int, dts : Int]
  BY <1>1, HeaderType
<1>. HIDE DEF hdr
<1>4. (s = Video) \in BOOLEAN
  OBVIOUS
<1>5. p.pts \in Int /\ p.base \in Int /\ p.st \in StreamState
  BY <1>1, <1>2, <1>3, <1>4, StampType
<1>6. /\ base_ts' = p.base /\ st' = [st EXCEPT ![s] = p.st]
      /\ sent' = [sent EXCEPT ![s] = @ + 1]
      /\ last_vid_pts' = IF s = Video THEN p.pts ELSE last_vid_pts
  BY Zenon DEF Take, hdr, f
<1>. HIDE DEF p
<1>7. st' \in [Streams -> StreamState] /\ sent' \in [Streams -> Nat]
  BY <1>1, <1>5, <1>6
<1>. QED  BY <1>1, <1>5, <1>6, <1>7

(* Where the thread goes on.                                               *)
LEMMA AfterType ==
  ASSUME input \in Inputs, NEW s
  PROVE  After(s) \in Streams
BY TracksAre DEF After

(* Every step keeps the types.                                             *)
LEMMA TypesStep ==
  ASSUME Types, [Next]_vars
  PROVE  Types'
<1>1. /\ input' = input /\ stray' = stray /\ Tracks' = Tracks /\ Streams' = Streams
      /\ NumAud' = NumAud
  BY InputStays
<1>2. Shaped'
  BY ShapedStep DEF Types
<1>3. /\ Tracks \subseteq Streams /\ Video \in Streams /\ input \in Inputs
  BY TracksAre DEF Types, Shaped
<1>4. input' \in Inputs /\ stray' \in Int
  BY <1>1, <1>3 DEF Types, TypeOK
<1>5. UNCHANGED <<fifo, free, filled, dropped>> => Fifos'
  BY <1>1 DEF Types, Fifos, Holds, Capacity
<1>6. UNCHANGED <<mstream, last_vid_pts, st, base_ts, sent>> =>
        /\ mstream' \in Streams /\ last_vid_pts' \in Int
        /\ st' \in [Streams -> StreamState] /\ base_ts' \in Int
        /\ sent' \in [Streams -> Nat]
  BY DEF Types, TypeOK, StreamState
<1>7. UNCHANGED <<pos, apc, atrack, video_pts, rounds>> =>
        /\ apc' \in {"video", "tracks", "rounds", "exited"}
        /\ video_pts' \in Nat /\ rounds' \in 0 .. Rounds
        /\ apc' = "exited" \/ rounds' < Rounds
  BY DEF Types, TypeOK
<1>8. SUFFICES /\ Fifos'
               /\ apc' \in {"video", "tracks", "rounds", "exited"}
               /\ video_pts' \in Nat /\ rounds' \in 0 .. Rounds
               /\ mstream' \in Streams /\ last_vid_pts' \in Int
               /\ st' \in [Streams -> StreamState] /\ base_ts' \in Int
               /\ sent' \in [Streams -> Nat]
               /\ apc' = "exited" \/ rounds' < Rounds
  <2>1. /\ \A s \in Streams : Capacity(s)' = Capacity(s)
    BY <1>1 DEF Capacity
  <2>2. /\ pos' \in [Streams -> Nat \ {0}]
        /\ apc' = "tracks" => atrack' \in Tracks
    BY <1>1, <1>2 DEF Shaped
  <2>3. /\ \A s \in Streams : fifo'[s] \in Seq(Frame)
        /\ \A s \in Streams : free'[s] \in 1 .. Capacity(s)
        /\ filled' \in BOOLEAN /\ dropped' \in BOOLEAN
    BY <1>1, <1>8, <2>1 DEF Fifos
  <2>4. TypeOK'
    BY <1>1, <1>4, <1>8, <2>1, <2>2, <2>3 DEF TypeOK, StreamState
  <2>. QED  BY <1>2, <1>8, <2>4 DEF Types
<1>9. /\ rounds \in 0 .. Rounds /\ video_pts \in Nat /\ mstream \in Streams
      /\ apc \in {"video", "tracks", "rounds", "exited"} /\ Rounds \in Nat \ {0}
      /\ apc = "exited" \/ rounds < Rounds
  BY LimitsAssumption DEF Types, TypeOK
<1>10. \A i : ToTrack(i) => apc' \in {"video", "tracks"}
  BY ToTrackIs
<1>11. ASSUME NEW s \in Streams, ~AtEnd(s)
       PROVE  NextFrame(s) \in Frame /\ HdrPts(NextFrame(s)) \in Nat
  <2>1. NextFrame(s) \in Frame
    BY <1>11, NextFrameType DEF Types
  <2>. QED  BY <2>1, HeaderType
<1>12. CASE WriteVideo
  <2>1. /\ Stored(Video, NextFrame(Video)) /\ ~AtEnd(Video)
        /\ video_pts' = HdrPts(NextFrame(Video))
        /\ ToTrack(1) /\ rounds' = rounds /\ apc = "video"
        /\ UNCHANGED <<mstream, last_vid_pts, st, base_ts, sent>>
    BY <1>12 DEF WriteVideo, muxvars
  <2>2. Fifos'
    BY <1>1, <1>3, <1>11, <2>1, StoredKeeps DEF Types
  <2>. QED  BY <1>3, <1>6, <1>9, <1>10, <1>11, <2>1, <2>2
<1>13. CASE PeekVideo
  <2>1. /\ ~AtEnd(Video) /\ video_pts' = HdrPts(NextFrame(Video))
        /\ ToTrack(1) /\ rounds' = rounds /\ apc = "video"
        /\ UNCHANGED <<mstream, last_vid_pts, st, base_ts, sent>>
        /\ UNCHANGED <<fifo, free, filled, dropped>>
    BY <1>13 DEF PeekVideo, muxvars, fifovars
  <2>. QED  BY <1>3, <1>5, <1>6, <1>9, <1>10, <1>11, <2>1
<1>14. CASE WriteTrack
  <2>1. /\ Stored(atrack, NextFrame(atrack)) /\ ~AtEnd(atrack) /\ apc = "tracks"
        /\ video_pts' = video_pts /\ rounds' = rounds
        /\ apc' = apc \/ ToTrack(atrack + 1)
        /\ UNCHANGED <<mstream, last_vid_pts, st, base_ts, sent>>
    BY <1>14 DEF WriteTrack, muxvars, TrackReady
  <2>2. atrack \in Streams
    BY <1>3, <2>1 DEF Types, Shaped
  <2>3. Fifos'
    BY <1>1, <1>11, <2>1, <2>2, StoredKeeps DEF Types
  <2>. QED  BY <1>6, <1>9, <1>10, <2>1, <2>3
<1>15. CASE LeaveTrack
  <2>1. /\ video_pts' = video_pts /\ rounds' = rounds /\ apc = "tracks"
        /\ ToTrack(atrack + 1) \/ ToTrack(Video)
        /\ UNCHANGED <<mstream, last_vid_pts, st, base_ts, sent>>
        /\ UNCHANGED <<fifo, free, filled, dropped>>
    BY <1>15 DEF LeaveTrack, muxvars, fifovars
  <2>. QED  BY <1>5, <1>6, <1>9, <1>10, <2>1
<1>16. CASE VideoEnds \/ DrainRound
  <2>1. /\ video_pts' = video_pts /\ apc' \in {"rounds", "exited"} /\ apc # "exited"
        /\ UNCHANGED <<mstream, last_vid_pts, st, base_ts, sent>>
        /\ UNCHANGED <<fifo, free, filled, dropped>>
    BY <1>16 DEF VideoEnds, DrainRound, muxvars, fifovars
  <2>2. rounds' \in 0 .. Rounds /\ (apc' = "exited" \/ rounds' < Rounds)
    <3>1. CASE VideoEnds
      BY <1>9, <3>1 DEF VideoEnds
    <3>2. CASE DrainRound
      <4>1. /\ apc = "rounds" /\ rounds' = rounds + 1
            /\ rounds' # Rounds \/ apc' = "exited"
        BY <3>2 DEF DrainRound
      <4>2. rounds + 1 <= Rounds
        BY <4>1, <1>9
      <4>. QED  BY <1>9, <4>1, <4>2
    <3>. QED  BY <1>16, <3>1, <3>2
  <2>. QED  BY <1>5, <1>6, <1>9, <2>1, <2>2
<1>17. CASE TakeVideo \/ TakeTrack
  <2>1. /\ mstream \in Streams /\ fifo[mstream] # << >> /\ Take(mstream)
        /\ mstream' = After(Video) \/ mstream' = mstream
        /\ UNCHANGED <<pos, apc, atrack, video_pts, rounds>>
    BY <1>9, <1>17 DEF TakeVideo, TakeTrack, VideoReady, TrackTakable, appvars
  <2>2. Fifos'
    BY <1>1, <2>1, TakeKeeps DEF Types, Shaped
  <2>3. /\ st' \in [Streams -> StreamState] /\ base_ts' \in Int /\ last_vid_pts' \in Int
        /\ sent' \in [Streams -> Nat]
    BY <2>1, TakeTypes
  <2>. QED  BY <1>3, <1>7, <1>9, <2>1, <2>2, <2>3, AfterType
<1>18. CASE NoVideo \/ NoTrack
  <2>1. /\ mstream' = After(Video) \/ mstream' = After(mstream)
        /\ UNCHANGED <<pos, apc, atrack, video_pts, rounds>>
        /\ UNCHANGED <<fifo, free, filled, dropped>>
        /\ UNCHANGED <<last_vid_pts, st, base_ts, sent>>
    BY <1>18 DEF NoVideo, NoTrack, appvars, fifovars
  <2>2. /\ last_vid_pts' \in Int /\ st' \in [Streams -> StreamState] /\ base_ts' \in Int
        /\ sent' \in [Streams -> Nat]
    BY <2>1 DEF Types, TypeOK, StreamState
  <2>. QED  BY <1>3, <1>5, <1>7, <2>1, <2>2, AfterType
<1>19. CASE UNCHANGED vars
  BY <1>5, <1>6, <1>7, <1>19 DEF vars, appvars, muxvars, fifovars
<1>. QED  BY <1>12, <1>13, <1>14, <1>15, <1>16, <1>17, <1>18, <1>19 DEF Next, App, Mux

(* They hold at first.                                                     *)
LEMMA TypesInit == Init => Types
<1>. SUFFICES ASSUME Init PROVE Types
  OBVIOUS
<1>1. input \in Inputs
  BY DEF Init
<1>2. /\ Video \in Streams /\ 1 \in Nat \ {0}
  BY <1>1, TracksAre
<1>3. \A s \in Streams : /\ Capacity(s) \in Nat \ {0}
                         /\ fifo[s] = << >> /\ free[s] = Capacity(s)
  BY CapacityType DEF Init
<1>4. \A s \in Streams : Holds(fifo[s], Capacity(s) - free[s])
  <2>1. ASSUME NEW s \in Streams
        PROVE  Holds(fifo[s], Capacity(s) - free[s])
    <3>1. Capacity(s) - free[s] = 0 /\ fifo[s] = << >>
      BY <1>3
    <3>. QED  BY <3>1, HoldsNone
  <2>. QED  BY <2>1
<1>5. /\ \A s \in Streams : fifo[s] \in Seq(Frame)
      /\ \A s \in Streams : free[s] \in 1 .. Capacity(s)
  <2>1. << >> \in Seq(Frame)
    OBVIOUS
  <2>2. \A n \in Nat \ {0} : n \in 1 .. n
    OBVIOUS
  <2>. QED  BY <1>3, <2>1, <2>2, Zenon
<1>6. Fifos
  BY <1>4, <1>5 DEF Fifos, Init
<1>7. Shaped
  BY <1>1 DEF Init, Shaped
<1>8. new_stream \in StreamState
  BY TicksAssumption DEF new_stream, StreamState, Unset
<1>9. st \in [Streams -> StreamState] /\ sent \in [Streams -> Nat]
  BY <1>8 DEF Init
<1>10. last_vid_pts \in Int /\ stray \in Int /\ base_ts \in Int
  BY GarbageAssumption DEF Init, Unset
<1>11. TypeOK
  <2>1. rounds = 0 /\ video_pts = 0 /\ apc = "video" /\ mstream = Video
        /\ filled = FALSE /\ dropped = FALSE
    BY DEF Init
  <2>2. rounds \in 0 .. Rounds
    BY <2>1, LimitsAssumption
  <2>3. pos \in [Streams -> Nat \ {0}]
    BY <1>7 DEF Shaped
  <2>. QED  BY <1>1, <1>2, <1>5, <1>9, <1>10, <2>1, <2>2, <2>3 DEF TypeOK, StreamState
<1>12. rounds < Rounds
  BY LimitsAssumption DEF Init
<1>. QED  BY <1>6, <1>7, <1>11, <1>12 DEF Types

(* And always.                                                             *)
LEMMA TypesAlways == Spec => []Types
<1>. QED  BY TypesInit, TypesStep, PTL DEF Spec

(* The variables have their types: no FIFO is overdrawn, the times that    *)
(* the muxing thread makes up are numbers (ts_muxer.c:148-217), and the    *)
(* drain rounds are as many as there are (ts_muxer_app.c:319).             *)
THEOREM TypeOKHolds == Spec => []TypeOK
<1>1. Types => TypeOK
  BY DEF Types
<1>. QED  BY <1>1, TypesAlways, PTL

-----------------------------------------------------------------------------
(* A set of naturals that is not empty has a least element.                *)
LEMMA LeastElement ==
  ASSUME NEW T \in SUBSET Nat, T # {}
  PROVE  \E x \in T : \A y \in T : x <= y
<1>. DEFINE R == OpToRel(<, Nat)
<1>1. \A x, y \in Nat : y < x => <<y, x>> \in R
  BY DEF OpToRel
<1>2. IsWellFoundedOn(R, Nat)
  BY NatLessThanWellFounded
<1>. HIDE DEF R
<1>3. PICK x \in T : \A y \in T : ~ (<<y, x>> \in R)
  BY <1>2, WFMin
<1>4. ASSUME NEW y \in T
      PROVE  x <= y
  <2>1. x \in Nat /\ y \in Nat
    OBVIOUS
  <2>2. ~ (y < x)
    BY <1>1, <1>3, <2>1
  <2>. QED  BY <2>1, <2>2
<1>. QED  BY <1>4

(* Induction up to m, for a set in place of a predicate.                   *)
LEMMA InductionTo ==
  ASSUME NEW m \in Nat, NEW T,
         0 \in T,
         \A i \in 0 .. m - 1 : i \in T => i + 1 \in T
  PROVE  \A i \in 0 .. m : i \in T
<1>. DEFINE U == {i \in 0 .. m : i \notin T}
<1>1. SUFFICES ASSUME U # {}
               PROVE  FALSE
  OBVIOUS
<1>2. PICK x \in U : \A y \in U : x <= y
  <2>1. U \in SUBSET Nat
    OBVIOUS
  <2>. HIDE DEF U
  <2>. QED  BY <1>1, <2>1, LeastElement
<1>3. x # 0
  OBVIOUS
<1>4. x - 1 \in 0 .. m - 1 /\ x - 1 \in T
  BY <1>2, <1>3
<1>. QED  BY <1>4

-----------------------------------------------------------------------------
(* The bytes that the first frames need.                                   *)
IsSum(sum, q) ==
  sum = [n \in 0 .. Len(q) |-> IF n = 0 THEN 0 ELSE sum[n - 1] + Need(q[n])]

Sum(q) == CHOOSE sum : IsSum(sum, q)

(* That sum, up to the m-th frame.                                         *)
SumTo(sum, q, m) ==
  sum = [n \in 0 .. m |-> IF n = 0 THEN 0 ELSE sum[n - 1] + Need(q[n])]

(* There is such a sum.                                                    *)
LEMMA SumExists ==
  ASSUME NEW q \in Seq(Frame)
  PROVE  \E sum \in [0 .. Len(q) -> Nat] : IsSum(sum, q)
<1>. DEFINE T == {m \in 0 .. Len(q) : \E sum \in [0 .. m -> Nat] : SumTo(sum, q, m)}
<1>1. 0 \in T
  <2>. DEFINE zero == [k \in 0 .. 0 |-> 0]
  <2>1. zero \in [0 .. 0 -> Nat]
    OBVIOUS
  <2>2. SumTo(zero, q, 0)
    BY DEF SumTo
  <2>. QED  BY <2>1, <2>2
<1>2. ASSUME NEW i \in 0 .. Len(q) - 1, i \in T
      PROVE  i + 1 \in T
  <2>1. PICK g \in [0 .. i -> Nat] : SumTo(g, q, i)
    BY <1>2
  <2>2. Need(q[i + 1]) \in Nat
    <3>1. q[i + 1] \in Frame
      OBVIOUS
    <3>. QED  BY <3>1, HeaderType
  <2>. DEFINE h == [k \in 0 .. i + 1 |-> IF k = i + 1 THEN g[i] + Need(q[i + 1]) ELSE g[k]]
  <2>3. h \in [0 .. i + 1 -> Nat]
    BY <2>1, <2>2
  <2>4. ASSUME NEW k \in 0 .. i + 1
        PROVE  h[k] = IF k = 0 THEN 0 ELSE h[k - 1] + Need(q[k])
    BY <2>1 DEF SumTo
  <2>5. SumTo(h, q, i + 1)
    BY <2>4 DEF SumTo
  <2>. HIDE DEF h
  <2>6. i + 1 \in 0 .. Len(q)
    OBVIOUS
  <2>. QED  BY <2>3, <2>5, <2>6
<1>3. Len(q) \in Nat
  OBVIOUS
<1>. HIDE DEF T
<1>4. \A i \in 0 .. Len(q) : i \in T
  BY <1>1, <1>2, <1>3, InductionTo
<1>5. Len(q) \in T
  BY <1>3, <1>4
<1>. QED  BY <1>5 DEF T, SumTo, IsSum

(* The sum of no frames, and of one more.                                  *)
LEMMA SumIs ==
  ASSUME NEW q \in Seq(Frame)
  PROVE  /\ Sum(q) \in [0 .. Len(q) -> Nat] /\ Sum(q)[0] = 0
         /\ \A n \in 1 .. Len(q) : Sum(q)[n] = Sum(q)[n - 1] + Need(q[n])
<1>1. IsSum(Sum(q), q)
  <2>1. \E sum : IsSum(sum, q)
    BY SumExists
  <2>. QED  BY <2>1, Zenon DEF Sum
<1>. DEFINE P == Sum(q)
<1>. HIDE DEF P
<1>2. P = [n \in 0 .. Len(q) |-> IF n = 0 THEN 0 ELSE P[n - 1] + Need(q[n])]
  BY <1>1 DEF IsSum, P
<1>3. Len(q) \in Nat
  OBVIOUS
<1>4. P[0] = 0 /\ \A n \in 1 .. Len(q) : P[n] = P[n - 1] + Need(q[n])
  BY <1>2, <1>3
<1>. DEFINE T == {k \in 0 .. Len(q) : P[k] \in Nat}
<1>5. 0 \in T
  BY <1>3, <1>4
<1>6. ASSUME NEW i \in 0 .. Len(q) - 1, i \in T
      PROVE  i + 1 \in T
  <2>1. i + 1 \in 1 .. Len(q) /\ (i + 1) - 1 = i /\ q[i + 1] \in Frame
    BY <1>3
  <2>2. P[i + 1] = P[i] + Need(q[i + 1])
    BY <1>4, <2>1
  <2>3. P[i] \in Nat /\ Need(q[i + 1]) \in Nat
    BY <1>6, <2>1, HeaderType
  <2>. QED  BY <2>1, <2>2, <2>3
<1>7. \A i \in 0 .. Len(q) : i \in T
  <2>. HIDE DEF T
  <2>. QED  BY <1>3, <1>5, <1>6, InductionTo
<1>8. P \in [0 .. Len(q) -> Nat]
  <2>1. DOMAIN P = 0 .. Len(q)
    BY <1>2
  <2>2. P = [n \in 0 .. Len(q) |-> P[n]]
    BY <1>2
  <2>. QED  BY <1>7, <2>1, <2>2
<1>. QED  BY <1>4, <1>8 DEF P

(* The first frames need no more than more of them.                        *)
LEMMA SumGrows ==
  ASSUME NEW q \in Seq(Frame), NEW m \in 0 .. Len(q), NEW n \in 0 .. m
  PROVE  Sum(q)[n] <= Sum(q)[m]
<1>. DEFINE P == Sum(q)
<1>1. /\ P \in [0 .. Len(q) -> Nat]
      /\ \A k \in 1 .. Len(q) : P[k] = P[k - 1] + Need(q[k])
  BY SumIs
<1>2. Len(q) \in Nat /\ m \in Nat /\ \A k \in 1 .. Len(q) : q[k] \in Frame
  OBVIOUS
<1>. DEFINE T == {k \in 0 .. m : P[m - k] <= P[m]}
<1>. HIDE DEF P
<1>3. 0 \in T
  BY <1>1, <1>2
<1>4. ASSUME NEW i \in 0 .. m - 1, i \in T
      PROVE  i + 1 \in T
  <2>1. m - i \in 1 .. Len(q) /\ (m - i) - 1 = m - (i + 1) /\ i + 1 \in 0 .. m
        /\ m - i \in 0 .. Len(q) /\ m - (i + 1) \in 0 .. Len(q) /\ m \in 0 .. Len(q)
    BY <1>2
  <2>2. P[m - i] = P[(m - i) - 1] + Need(q[m - i])
    BY <1>1, <2>1
  <2>3. Need(q[m - i]) \in Nat
    BY <1>2, <2>1, HeaderType
  <2>4. P[m - i] \in Nat /\ P[m - (i + 1)] \in Nat /\ P[m] \in Nat
    BY <1>1, <2>1
  <2>5. P[m - i] <= P[m]
    BY <1>4
  <2>6. P[m - (i + 1)] <= P[m]
    <3>1. P[m - i] = P[m - (i + 1)] + Need(q[m - i])
      BY <2>1, <2>2
    <3>. QED  BY <2>3, <2>4, <2>5, <3>1
  <2>. QED  BY <2>1, <2>6
<1>5. \A i \in 0 .. m : i \in T
  <2>. HIDE DEF T
  <2>. QED  BY <1>2, <1>3, <1>4, InductionTo
<1>6. m - n \in T
  BY <1>2, <1>5
<1>7. m - (m - n) = n
  BY <1>2
<1>. QED  BY <1>6, <1>7 DEF P

(* They are that sum.                                                      *)
LEMMA BytesAre ==
  ASSUME NEW s, NEW n
  PROVE  BytesTo(s, n) = Sum(file[s])[n]
BY DEF BytesTo, Sum, IsSum

-----------------------------------------------------------------------------
(* A FIFO never holds more than its file gave.                             *)
Fed ==
  \A s \in Streams : /\ pos[s] <= Len(file[s]) + 1
                     /\ Capacity(s) - free[s] <= Sum(file[s])[pos[s] - 1]

(* How a write changes the free bytes.                                     *)
LEMMA StoredFree ==
  ASSUME Fifos, NEW STATE s, s \in Streams, NEW STATE f, f \in Frame, Stored(s, f)
  PROVE  free'[s] \in Int /\ free[s] - Need(f) <= free'[s]
<1>1. Capacity(s) \in Nat \ {0} /\ free[s] \in 1 .. Capacity(s) /\ Need(f) \in Nat \ {0}
  BY CapacityType, HeaderType DEF Fifos
<1>2. DOMAIN free = Streams
  BY DEF Fifos
<1>3. CASE free' = [free EXCEPT ![s] = @ - Need(f)]
  BY <1>1, <1>2, <1>3
<1>4. CASE free' = [free EXCEPT ![s] = Capacity(s)]
  BY <1>1, <1>2, <1>4
<1>5. CASE free' = free
  BY <1>1, <1>5
<1>. QED  BY <1>3, <1>4, <1>5 DEF Stored

(* Every step keeps that.                                                  *)
LEMMA FedStep ==
  ASSUME Types, Fed, [Next]_vars
  PROVE  Fed'
<1>1. /\ input' = input /\ Tracks' = Tracks /\ Streams' = Streams /\ NumAud' = NumAud
      /\ file' = file
  BY InputStays DEF file
<1>2. /\ \A s \in Streams : Capacity(s)' = Capacity(s) /\ Sum(file[s])' = Sum(file[s])
      /\ \A s \in Streams : Len(file[s])' = Len(file[s])
  BY <1>1 DEF Capacity
<1>3. /\ Tracks \subseteq Streams /\ Video \in Streams
      /\ DOMAIN pos = Streams /\ DOMAIN free = Streams /\ DOMAIN fifo = Streams
      /\ DOMAIN st = Streams
      /\ \A s \in Streams : pos[s] \in Nat \ {0} /\ free[s] \in Int
  BY TracksAre DEF Types, Shaped, Fifos
<1>4. \A s \in Streams : Capacity(s) \in Int
  BY CapacityType
<1>5. ASSUME NEW STATE s, s \in Streams, ~AtEnd(s), Stored(s, NextFrame(s)),
             pos' = [pos EXCEPT ![s] = @ + 1]
      PROVE  Fed'
  <2>1. /\ pos[s] \in 1 .. Len(file[s]) /\ pos[s] \in Nat /\ NextFrame(s) \in Frame
        /\ NextFrame(s) = file[s][pos[s]] /\ file[s] \in Seq(Frame) /\ Len(file[s]) \in Nat
    BY <1>5, NextFrameType, FilesAre DEF Types, Shaped
  <2>. DEFINE f == NextFrame(s)
              P == Sum(file[s])
  <2>2. free'[s] \in Int /\ free[s] - Need(f) <= free'[s]
    BY <1>5, <2>1, StoredFree DEF Types
  <2>3. P[pos[s]] = P[pos[s] - 1] + Need(f) /\ P[pos[s] - 1] \in Nat
    <3>1. pos[s] - 1 \in 0 .. Len(file[s])
      BY <2>1
    <3>. QED  BY <2>1, <3>1, SumIs
  <2>4. Need(f) \in Nat
    BY <2>1, HeaderType
  <2>. HIDE DEF P, f
  <2>5. Capacity(s) - free[s] <= P[pos[s] - 1]
    BY <1>5 DEF Fed, P
  <2>6. Capacity(s) - free'[s] <= P[pos[s]]
    BY <1>3, <1>4, <1>5, <2>2, <2>3, <2>4, <2>5
  <2>7. pos'[s] = pos[s] + 1 /\ pos'[s] - 1 = pos[s] /\ pos'[s] <= Len(file[s]) + 1
    BY <1>3, <1>5, <2>1
  <2>8. \A o \in Streams : o # s => pos'[o] = pos[o] /\ free'[o] = free[o]
    BY <1>3, <1>5, StoredElsewhere
  <2>9. ASSUME NEW o \in Streams
        PROVE  pos'[o] <= Len(file[o]) + 1 /\ Capacity(o) - free'[o] <= Sum(file[o])[pos'[o] - 1]
    <3>1. CASE o = s
      BY <2>6, <2>7, <3>1 DEF P
    <3>2. CASE o # s
      BY <2>8, <3>2 DEF Fed
    <3>. QED  BY <3>1, <3>2
  <2>. QED  BY <1>1, <1>2, <2>9 DEF Fed
<1>6. ASSUME NEW STATE s, s \in Streams, fifo[s] # << >>, Take(s), pos' = pos
      PROVE  Fed'
  <2>1. Head(fifo[s]) \in Frame
    BY <1>6 DEF Types, Fifos
  <2>2. Need(Head(fifo[s])) \in Nat
    BY <2>1, HeaderType
  <2>3. free' = [free EXCEPT ![s] = @ + Need(Head(fifo[s]))]
    BY <1>6, Zenon DEF Take
  <2>4. free'[s] = free[s] + Need(Head(fifo[s]))
    BY <1>3, <1>6, <2>3
  <2>5. \A o \in Streams : o # s => free'[o] = free[o]
    BY <1>3, <1>6, <2>3
  <2>6. ASSUME NEW o \in Streams
        PROVE  pos'[o] <= Len(file[o]) + 1 /\ Capacity(o) - free'[o] <= Sum(file[o])[pos'[o] - 1]
    <3>1. /\ pos'[o] = pos[o] /\ pos[o] <= Len(file[o]) + 1
          /\ Capacity(o) - free[o] <= Sum(file[o])[pos[o] - 1]
      BY <1>6 DEF Fed
    <3>2. Sum(file[o])[pos[o] - 1] \in Nat
      <4>1. file[o] \in Seq(Frame) /\ Len(file[o]) \in Nat
        BY FilesAre DEF Types, Shaped
      <4>2. pos[o] - 1 \in 0 .. Len(file[o])
        BY <1>3, <3>1, <4>1
      <4>. QED  BY <4>1, <4>2, SumIs
    <3>3. free[o] <= free'[o] /\ free'[o] \in Int /\ free[o] \in Int
      BY <1>3, <2>2, <2>4, <2>5
    <3>. QED  BY <1>4, <3>1, <3>2, <3>3
  <2>. QED  BY <1>1, <1>2, <2>6 DEF Fed
<1>7. ASSUME pos' = pos, free' = free
      PROVE  Fed'
  BY <1>1, <1>2, <1>7 DEF Fed
<1>8. CASE WriteVideo
  BY <1>3, <1>5, <1>8 DEF WriteVideo
<1>9. CASE WriteTrack
  <2>1. /\ atrack \in Streams /\ ~AtEnd(atrack) /\ Stored(atrack, NextFrame(atrack))
        /\ pos' = [pos EXCEPT ![atrack] = @ + 1]
    BY <1>3, <1>9 DEF WriteTrack, TrackReady, Types, Shaped
  <2>. QED  BY <1>5, <2>1
<1>10. CASE TakeVideo
  BY <1>3, <1>6, <1>10 DEF TakeVideo, VideoReady, appvars
<1>11. CASE TakeTrack
  BY <1>3, <1>6, <1>11 DEF TakeTrack, TrackTakable, appvars
<1>12. CASE PeekVideo \/ LeaveTrack \/ VideoEnds \/ DrainRound \/ NoVideo \/ NoTrack
            \/ UNCHANGED vars
  BY <1>7, <1>12 DEF PeekVideo, LeaveTrack, VideoEnds, DrainRound, NoVideo, NoTrack, vars,
                     appvars, fifovars
<1>. QED  BY <1>8, <1>9, <1>10, <1>11, <1>12 DEF Next, App, Mux

(* Nothing was read at first.                                              *)
LEMMA FedInit == Init => Fed
<1>. SUFFICES ASSUME Init, NEW s \in Streams
              PROVE  /\ pos[s] <= Len(file[s]) + 1
                     /\ Capacity(s) - free[s] <= Sum(file[s])[pos[s] - 1]
  BY DEF Fed
<1>1. file[s] \in Seq(Frame) /\ Len(file[s]) \in Nat
  BY FilesAre DEF Init
<1>2. pos[s] = 1 /\ free[s] = Capacity(s) /\ Capacity(s) \in Nat
  BY CapacityType DEF Init
<1>3. Sum(file[s])[0] = 0
  BY <1>1, SumIs
<1>4. pos[s] - 1 = 0 /\ Capacity(s) - free[s] = 0
  BY <1>2
<1>. QED  BY <1>1, <1>2, <1>3, <1>4

-----------------------------------------------------------------------------
(* A track whose frames all fit has room for the next one.                 *)
LEMMA RoomForNext ==
  ASSUME Types, Fed, NEW i \in Streams, Roomy(i), ~AtEnd(i)
  PROVE  Room(i, NextFrame(i))
<1>1. /\ pos[i] \in 1 .. Len(file[i]) /\ pos[i] \in Nat /\ NextFrame(i) \in Frame
      /\ NextFrame(i) = file[i][pos[i]] /\ file[i] \in Seq(Frame) /\ Len(file[i]) \in Nat
  BY NextFrameType, FilesAre DEF Types, Shaped
<1>. DEFINE f == NextFrame(i)
            P == Sum(file[i])
<1>2. /\ P[pos[i]] = P[pos[i] - 1] + Need(f) /\ P[pos[i] - 1] \in Nat
      /\ P[pos[i]] <= P[Len(file[i])] /\ P[pos[i]] \in Nat /\ P[Len(file[i])] \in Nat
  <2>1. pos[i] - 1 \in 0 .. Len(file[i]) /\ pos[i] \in 0 .. Len(file[i])
        /\ Len(file[i]) \in 0 .. Len(file[i])
    BY <1>1
  <2>. QED  BY <1>1, <2>1, SumIs, SumGrows
<1>3. f.size \in Nat /\ Need(f) \in Nat /\ f.size < Need(f)
  BY <1>1, HeaderType
<1>4. P[Len(file[i])] < Capacity(i)
  BY BytesAre DEF Roomy
<1>5. Capacity(i) - free[i] <= P[pos[i] - 1] /\ Capacity(i) \in Int /\ free[i] \in Int
  <2>1. Capacity(i) \in Int /\ free[i] \in Int
    BY CapacityType DEF Types, Fifos
  <2>. QED  BY <2>1 DEF Fed
<1>. HIDE DEF P, f
<1>6. free[i] > f.size
  BY <1>2, <1>3, <1>4, <1>5
<1>. QED  BY <1>6 DEF Room, f

(* The headers of files that do not wrap hold the true times.              *)
LEMMA UnwrappedPts ==
  ASSUME input \in Inputs, Unwrapped, NEW s \in Streams, NEW n \in 1 .. Len(file[s])
  PROVE  HdrPts(file[s][n]) = file[s][n].pts /\ file[s][n].pts \in Nat
<1>1. file[s][n].pts \in Nat
  BY FilesAre, HeaderType
<1>2. file[s][n].pts < Wrap
  BY DEF Unwrapped
<1>3. file[s][n].pts % Wrap = file[s][n].pts
  BY <1>1, <1>2, WrapAssumption
<1>. QED  BY <1>1, <1>3 DEF HdrPts, Cut

-----------------------------------------------------------------------------
(* All video frames before the k-th are before the track's next frame.     *)
Behind(i, k) ==
  \A n \in 1 .. Len(file[Video]) : n < k => file[Video][n].pts < NextFrame(i).pts

(* The pass has come to the track and is at a pts that none was beyond.    *)
Reaching(i) ==
  /\ apc = "tracks" /\ atrack = i
  /\ \A n \in 1 .. Len(file[Video]) : n < pos[Video] => file[Video][n].pts <= video_pts

(* What a track with room still has is behind the video: all that was      *)
(* read, or all before this pass if that has not been at the track.        *)
TrackUp(i) ==
  \/ AtEnd(i)
  \/ Behind(i, pos[Video])
  \/ apc = "tracks" /\ atrack <= i /\ Behind(i, pos[Video] - 1)
  \/ Reaching(i)

(* In a pass over the tracks, the pts is that of the last video frame.     *)
InPass ==
  apc = "tracks" => /\ pos[Video] - 1 \in 1 .. Len(file[Video])
                    /\ video_pts = file[Video][pos[Video] - 1].pts

CaughtInv ==
  (input.program = "c" /\ Unwrapped) =>
    /\ InPass
    /\ apc \in {"rounds", "exited"} => AtEnd(Video)
    /\ \A i \in Tracks : Roomy(i) => TrackUp(i)

(* Every step keeps the tracks up with the video.                          *)
LEMMA CaughtStep ==
  ASSUME Types, Fed, CaughtInv, [Next]_vars
  PROVE  CaughtInv'
<1>1. /\ input' = input /\ Tracks' = Tracks /\ Streams' = Streams /\ NumAud' = NumAud
      /\ file' = file
  BY InputStays DEF file
<1>2. /\ Unwrapped' <=> Unwrapped
      /\ \A i \in Tracks : Roomy(i)' <=> Roomy(i)
  BY <1>1 DEF Unwrapped, Roomy, BytesTo, Capacity
<1>. SUFFICES ASSUME input.program = "c", Unwrapped
              PROVE  /\ InPass'
                     /\ apc' \in {"rounds", "exited"} => AtEnd(Video)'
                     /\ \A i \in Tracks : Roomy(i) => TrackUp(i)'
  BY <1>1, <1>2 DEF CaughtInv
<1>3. /\ InPass
      /\ apc \in {"rounds", "exited"} => AtEnd(Video)
      /\ \A i \in Tracks : Roomy(i) => TrackUp(i)
  BY DEF CaughtInv
<1>4. /\ Tracks \subseteq Nat \ {Video} /\ Video \notin Tracks
      /\ Tracks \subseteq Streams /\ Video \in Streams
      /\ DOMAIN pos = Streams /\ \A s \in Streams : pos[s] \in Nat \ {0}
      /\ Tracks = 1 .. input.audio + input.scte
      /\ input.audio + input.scte \in Nat
      /\ input \in Inputs
  BY TracksAre DEF Types, Shaped
<1>5. /\ Len(file[Video]) \in Nat
      /\ \A n \in 1 .. Len(file[Video]) : file[Video][n].pts \in Nat
      /\ \A s \in Streams : ~AtEnd(s) => /\ HdrPts(NextFrame(s)) = NextFrame(s).pts
                                         /\ NextFrame(s).pts \in Nat
  <2>1. ASSUME NEW s \in Streams, ~AtEnd(s)
        PROVE  HdrPts(NextFrame(s)) = NextFrame(s).pts /\ NextFrame(s).pts \in Nat
    <3>1. pos[s] \in 1 .. Len(file[s]) /\ NextFrame(s) = file[s][pos[s]]
      BY <2>1, NextFrameType DEF Types
    <3>. QED  BY <1>4, <3>1, UnwrappedPts
  <2>. QED  BY <1>4, <2>1, FilesAre, UnwrappedPts
<1>6. /\ \A k : \A i \in Tracks : (pos'[i] = pos[i] /\ Behind(i, k)) => Behind(i, k)'
      /\ \A s \in Streams : pos'[s] = pos[s] => (AtEnd(s)' <=> AtEnd(s))
  BY <1>1 DEF Behind, NextFrame, AtEnd
<1>7. ASSUME pos' = pos, apc' = apc, atrack' = atrack, video_pts' = video_pts
      PROVE  /\ InPass'
             /\ apc' \in {"rounds", "exited"} => AtEnd(Video)'
             /\ \A i \in Tracks : Roomy(i) => TrackUp(i)'
  BY <1>1, <1>3, <1>7 DEF InPass, TrackUp, Reaching, Behind, NextFrame, AtEnd
<1>8. CASE WriteVideo
  <2>1. /\ apc = "video" /\ ~AtEnd(Video) /\ pos' = [pos EXCEPT ![Video] = @ + 1]
        /\ video_pts' = HdrPts(NextFrame(Video)) /\ ToTrack(1)
    BY <1>8 DEF WriteVideo
  <2>2. /\ pos'[Video] = pos[Video] + 1 /\ \A i \in Tracks : pos'[i] = pos[i]
        /\ pos'[Video] - 1 = pos[Video]
    BY <1>4, <2>1
  <2>3. /\ pos[Video] \in 1 .. Len(file[Video]) /\ NextFrame(Video) = file[Video][pos[Video]]
    BY <1>4, <2>1, NextFrameType DEF Types
  <2>4. video_pts' = file[Video][pos[Video]].pts
    BY <1>4, <1>5, <2>1, <2>3
  <2>5. InPass'
    BY <1>1, <2>2, <2>3, <2>4 DEF InPass
  <2>6. \/ 1 \in Tracks /\ apc' = "tracks" /\ atrack' = 1
        \/ 1 \notin Tracks /\ apc' = "video"
    BY <2>1, ToTrackIs
  <2>7. ASSUME NEW i \in Tracks, Roomy(i)
        PROVE  TrackUp(i)'
    <3>1. AtEnd(i) \/ Behind(i, pos[Video])
      BY <1>3, <2>1, <2>7 DEF TrackUp, Reaching
    <3>2. apc' = "tracks" /\ atrack' <= i
      BY <1>4, <2>6
    <3>3. AtEnd(i)' \/ Behind(i, pos[Video] - 1)'
      BY <1>4, <1>6, <2>2, <3>1
    <3>. QED  BY <3>2, <3>3 DEF TrackUp, Behind
  <2>. QED  BY <2>5, <2>6, <2>7
<1>9. CASE WriteTrack
  <2>1. /\ apc = "tracks" /\ TrackReady(atrack) /\ pos' = [pos EXCEPT ![atrack] = @ + 1]
        /\ apc' = apc /\ atrack' = atrack /\ video_pts' = video_pts /\ atrack \in Tracks
    BY <1>9 DEF WriteTrack, Types, Shaped
  <2>2. pos'[Video] = pos[Video] /\ \A i \in Tracks : i # atrack => pos'[i] = pos[i]
    BY <1>4, <2>1
  <2>3. /\ ~AtEnd(atrack) /\ NextFrame(atrack).pts <= video_pts
        /\ NextFrame(atrack).pts \in Nat
    BY <1>4, <1>5, <2>1 DEF TrackReady
  <2>4. InPass'
    BY <1>1, <1>3, <2>1, <2>2 DEF InPass
  <2>5. ASSUME NEW i \in Tracks, Roomy(i)
        PROVE  TrackUp(i)'
    <3>1. TrackUp(i)
      BY <1>3, <2>5
    <3>2. CASE i # atrack
      BY <1>1, <1>4, <1>6, <2>1, <2>2, <3>1, <3>2 DEF TrackUp, Reaching, Behind, NextFrame
    <3>3. CASE i = atrack
      <4>1. ASSUME NEW n \in 1 .. Len(file[Video]), n < pos[Video]
            PROVE  file[Video][n].pts <= video_pts
        <5>1. CASE Reaching(i)
          BY <4>1, <5>1 DEF Reaching
        <5>2. CASE Behind(i, pos[Video])
          <6>1. file[Video][n].pts < NextFrame(i).pts
            BY <4>1, <5>2 DEF Behind
          <6>2. file[Video][n].pts \in Nat /\ video_pts \in Nat
            BY <1>5 DEF Types, TypeOK
          <6>. QED  BY <2>3, <3>3, <6>1, <6>2
        <5>3. CASE Behind(i, pos[Video] - 1)
          <6>1. CASE n = pos[Video] - 1
            BY <1>3, <1>5, <2>1, <6>1 DEF InPass
          <6>2. CASE n # pos[Video] - 1
            <7>1. n < pos[Video] - 1
              BY <1>4, <4>1, <6>2
            <7>2. file[Video][n].pts < NextFrame(i).pts
              BY <5>3, <7>1 DEF Behind
            <7>3. file[Video][n].pts \in Nat /\ video_pts \in Nat
              BY <1>5 DEF Types, TypeOK
            <7>. QED  BY <2>3, <3>3, <7>2, <7>3
          <6>. QED  BY <6>1, <6>2
        <5>. QED  BY <2>3, <3>1, <3>3, <5>1, <5>2, <5>3 DEF TrackUp
      <4>2. Reaching(i)'
        BY <1>1, <2>1, <2>2, <3>3, <4>1 DEF Reaching
      <4>. QED  BY <4>2 DEF TrackUp
    <3>. QED  BY <3>2, <3>3
  <2>. QED  BY <2>1, <2>4, <2>5
<1>10. CASE LeaveTrack
  <2>1. /\ apc = "tracks" /\ ~TrackReady(atrack) /\ ToTrack(atrack + 1)
        /\ pos' = pos /\ video_pts' = video_pts /\ atrack \in Tracks
    BY <1>10 DEF LeaveTrack, Types, Shaped
  <2>2. \/ atrack + 1 \in Tracks /\ apc' = "tracks" /\ atrack' = atrack + 1
        \/ atrack + 1 \notin Tracks /\ apc' = "video"
    BY <2>1, ToTrackIs
  <2>3. InPass'
    BY <1>1, <1>3, <2>1 DEF InPass
  <2>4. ASSUME NEW i \in Tracks, Roomy(i)
        PROVE  TrackUp(i)'
    <3>1. TrackUp(i)
      BY <1>3, <2>4
    <3>2. ASSUME AtEnd(i) \/ Behind(i, pos[Video])
          PROVE  TrackUp(i)'
      <4>1. AtEnd(i)' \/ Behind(i, pos[Video])'
        BY <1>4, <1>6, <2>1, <3>2
      <4>. QED  BY <2>1, <4>1 DEF TrackUp, Behind
    <3>3. CASE i = atrack
      <4>. SUFFICES ASSUME ~AtEnd(i) PROVE Behind(i, pos[Video])
        BY <3>2
      <4>1. Room(i, NextFrame(i))
        BY <1>4, <2>4, RoomForNext
      <4>2. video_pts < NextFrame(i).pts /\ NextFrame(i).pts \in Nat /\ video_pts \in Nat
        <5>1. video_pts \in Nat
          BY DEF Types, TypeOK
        <5>2. HdrPts(NextFrame(i)) = NextFrame(i).pts /\ NextFrame(i).pts \in Nat
          BY <1>4, <1>5
        <5>3. ~(HdrPts(NextFrame(i)) <= video_pts)
          BY <2>1, <3>3, <4>1 DEF TrackReady
        <5>. QED  BY <5>1, <5>2, <5>3
      <4>3. ASSUME NEW n \in 1 .. Len(file[Video]), n < pos[Video]
            PROVE  file[Video][n].pts < NextFrame(i).pts
        <5>1. CASE Reaching(i)
          <6>1. file[Video][n].pts <= video_pts
            BY <4>3, <5>1 DEF Reaching
          <6>. QED  BY <1>5, <4>2, <6>1
        <5>2. CASE Behind(i, pos[Video])
          BY <4>3, <5>2 DEF Behind
        <5>3. CASE Behind(i, pos[Video] - 1)
          <6>1. CASE n = pos[Video] - 1
            BY <1>3, <2>1, <4>2, <6>1 DEF InPass
          <6>2. CASE n # pos[Video] - 1
            <7>1. n < pos[Video] - 1
              BY <1>4, <4>3, <6>2
            <7>. QED  BY <5>3, <7>1 DEF Behind
          <6>. QED  BY <6>1, <6>2
        <5>. QED  BY <3>1, <5>1, <5>2, <5>3 DEF TrackUp
      <4>. QED  BY <4>3 DEF Behind
    <3>4. CASE i # atrack
      <4>. SUFFICES ASSUME ~AtEnd(i), ~Behind(i, pos[Video]) PROVE TrackUp(i)'
        BY <3>2
      <4>1. atrack <= i /\ Behind(i, pos[Video] - 1)
        BY <3>1, <3>4 DEF TrackUp, Reaching
      <4>2. atrack + 1 <= i /\ atrack + 1 \in Tracks
        BY <1>4, <2>1, <3>4, <4>1
      <4>3. apc' = "tracks" /\ atrack' <= i
        BY <2>2, <4>2
      <4>4. Behind(i, pos[Video] - 1)'
        BY <1>6, <2>1, <4>1
      <4>. QED  BY <2>1, <4>3, <4>4 DEF TrackUp, Behind
    <3>. QED  BY <3>3, <3>4
  <2>. QED  BY <2>2, <2>3, <2>4
<1>11. CASE VideoEnds \/ DrainRound
  <2>1. /\ pos' = pos /\ apc \notin {"tracks"} /\ AtEnd(Video)
        /\ apc' \in {"rounds", "exited"}
    BY <1>3, <1>11 DEF VideoEnds, DrainRound
  <2>2. ASSUME NEW i \in Tracks, Roomy(i)
        PROVE  TrackUp(i)'
    <3>1. AtEnd(i) \/ Behind(i, pos[Video])
      BY <1>3, <2>1, <2>2 DEF TrackUp, Reaching
    <3>2. AtEnd(i)' \/ Behind(i, pos[Video])'
      BY <1>4, <1>6, <2>1, <3>1
    <3>. QED  BY <2>1, <3>2 DEF TrackUp, Behind
  <2>. QED  BY <1>4, <1>6, <2>1, <2>2 DEF InPass
<1>12. CASE PeekVideo
  BY <1>12 DEF PeekVideo
<1>13. CASE Mux \/ UNCHANGED vars
  BY <1>7, <1>13 DEF Mux, TakeVideo, NoVideo, TakeTrack, NoTrack, vars, appvars
<1>. QED  BY <1>8, <1>9, <1>10, <1>11, <1>12, <1>13 DEF Next, App

(* At first there is nothing to catch up with.                             *)
LEMMA CaughtInit == Init => CaughtInv
<1>. SUFFICES ASSUME Init PROVE CaughtInv
  OBVIOUS
<1>1. apc = "video" /\ Video \in Streams /\ input \in Inputs
  BY TracksAre DEF Init
<1>2. pos[Video] = 1
  BY <1>1 DEF Init
<1>3. \A i : Behind(i, pos[Video])
  BY <1>2 DEF Behind
<1>. QED  BY <1>1, <1>3 DEF CaughtInv, InPass, TrackUp

(* When the C program is done with the video, the tracks with room have    *)
(* been given all that is due, however often a pass was cut short because  *)
(* the video had none (ts_muxer_app.c:229-280).                            *)
THEOREM TracksCaughtUpHolds == Spec => []TracksCaughtUp
<1>1. Init => Fed /\ CaughtInv
  BY FedInit, CaughtInit
<1>2. Types /\ Fed /\ CaughtInv /\ [Next]_vars => Fed' /\ CaughtInv'
  BY FedStep, CaughtStep
<1>3. Types /\ CaughtInv => TracksCaughtUp
  <2>. SUFFICES ASSUME Types, CaughtInv, input.program = "c", Unwrapped,
                       apc \in {"rounds", "exited"}, NEW i \in Tracks, Roomy(i), ~AtEnd(i),
                       NEW n \in 1 .. Len(file[Video])
                PROVE  file[Video][n].pts < NextFrame(i).pts
    BY DEF TracksCaughtUp
  <2>1. AtEnd(Video) /\ TrackUp(i)
    BY DEF CaughtInv
  <2>2. Behind(i, pos[Video])
    BY <2>1 DEF TrackUp, Reaching
  <2>3. n < pos[Video]
    <3>1. Video \in Streams /\ pos[Video] \in Nat
      BY TracksAre DEF Types, Shaped
    <3>2. Len(file[Video]) \in Nat /\ Len(file[Video]) < pos[Video]
      BY <2>1, <3>1, FilesAre DEF AtEnd, Types, Shaped
    <3>. QED  BY <3>1, <3>2
  <2>. QED  BY <2>2, <2>3 DEF Behind
<1>. QED  BY <1>1, <1>2, <1>3, TypesAlways, PTL DEF Spec

-----------------------------------------------------------------------------
(* A difference of less than half a wrap is what it was.                   *)
LEMMA ExtendedSmall ==
  ASSUME NEW e \in Int, 2 * e < Wrap, -Wrap < 2 * e
  PROVE  Extended(e) = e
<1>1. Wrap \in Nat \ {0} /\ Wrap = 2 * (Wrap \div 2) /\ Wrap \div 2 \in Nat
  BY WrapAssumption
<1>2. CASE e >= 0
  <2>1. e % Wrap = e
    BY <1>1, <1>2
  <2>2. ~ (e >= Wrap \div 2)
    BY <1>1
  <2>. QED  BY <2>1, <2>2 DEF Extended
<1>3. CASE e < 0
  <2>1. e % Wrap = e + Wrap
    BY <1>1, <1>3
  <2>2. e + Wrap >= Wrap \div 2 /\ (e + Wrap) - Wrap = e
    BY <1>1
  <2>. QED  BY <2>1, <2>2 DEF Extended
<1>. QED  BY <1>2, <1>3

(* Two times are less than half a wrap apart.                              *)
HalfNear(a, b) == 2 * (a - b) < Wrap /\ -Wrap < 2 * (a - b)

(* Unrolling from a base nearby changes nothing.                           *)
LEMMA UnrollSame ==
  ASSUME NEW base \in Int, NEW t \in Int, base = Unset \/ HalfNear(t, base)
  PROVE  /\ unroll_timestamp(base, t) = t
         /\ base_after(base, t) \in {base, t}
         /\ t # AV_NOPTS_VALUE => base_after(base, t) = t
<1>1. base_for(base, t) \in Int
  BY DEF base_for
<1>. DEFINE e == t - base_for(base, t)
<1>2. e \in Int /\ 2 * e < Wrap /\ -Wrap < 2 * e
  <2>1. CASE base = Unset
    <3>1. base_for(base, t) = t
      BY <2>1 DEF base_for
    <3>. QED  BY <3>1, WrapAssumption
  <2>2. CASE base # Unset
    <3>1. base_for(base, t) = base
      BY <2>2 DEF base_for
    <3>. QED  BY <2>2, <3>1 DEF HalfNear
  <2>. QED  BY <2>1, <2>2
<1>. HIDE DEF e
<1>3. Extended(e) = e
  BY <1>2, ExtendedSmall
<1>4. base_for(base, t) + e = t
  BY <1>1 DEF e
<1>5. unroll_timestamp(base, t) = t
  BY <1>3, <1>4 DEF unroll_timestamp, e
<1>. QED  BY <1>5 DEF base_after

-----------------------------------------------------------------------------
(* x is less than half a wrap away from all times of the files, even if so *)
(* much is added to it.                                                    *)
NearAll(x, more) ==
  \A s \in Streams : \A u \in TimesOf(s) :
    2 * (x + more - u) < Wrap /\ -Wrap < 2 * (x - u)

(* What is still to be added to the dts of the video.                      *)
Left(n) == (Len(file[Video]) - n) * FrameTicks

(* A frame less is left.                                                   *)
LEMMA LeftStep ==
  ASSUME input \in Inputs, NEW n \in Nat, n < Len(file[Video])
  PROVE  /\ Left(n) \in Int /\ Left(n + 1) \in Int /\ 0 <= Left(n + 1)
         /\ Left(n) = Left(n + 1) + FrameTicks
         /\ Left(n + 1) <= Len(file[Video]) * FrameTicks
         /\ Len(file[Video]) * FrameTicks \in Nat
<1>. DEFINE L == Len(file[Video])
            T == FrameTicks
<1>1. L \in Nat /\ T \in Nat /\ n < L
  BY FilesAre, TracksAre, TicksAssumption
<1>. DEFINE k == L - (n + 1)
<1>2. Left(n + 1) = k * T /\ Left(n) = (L - n) * T
  BY DEF Left
<1>. HIDE DEF L, T
<1>3. k \in Nat /\ L - n = k + 1 /\ L = k + (n + 1)
  BY <1>1
<1>. HIDE DEF k
<1>4. k * T \in Nat /\ (k + 1) * T = k * T + T /\ (n + 1) * T \in Nat
  BY <1>1, <1>3
<1>5. (k + (n + 1)) * T = k * T + (n + 1) * T
  BY <1>1, <1>3
<1>. QED  BY <1>1, <1>2, <1>3, <1>4, <1>5 DEF L, T

(* Cutting a time that has not wrapped changes nothing.                    *)
LEMMA CutSmall ==
  ASSUME NEW t \in Nat, t < Wrap
  PROVE  t % Wrap = t
BY WrapAssumption

(* The times of a frame are among those of its file.                       *)
LEMMA FrameTimes ==
  ASSUME input \in Inputs, Short, NEW s \in Streams, NEW n \in 1 .. Len(file[s])
  PROVE  LET f == file[s][n]
         IN  /\ f \in Frame
             /\ f.pts \in TimesOf(s) /\ HdrPts(f) = f.pts /\ f.pts \in Nat
             /\ f.dts # Unset => f.dts \in TimesOf(s) /\ f.dts \in Nat
             /\ HdrDts(f) = f.dts
<1>. DEFINE f == file[s][n]
<1>1. f \in Frame
  BY FilesAre
<1>2. f.pts \in Nat /\ f.dts \in Nat \cup {Unset}
  BY <1>1 DEF Frame
<1>3. f.pts \in TimesOf(s) /\ (f.dts # Unset => f.dts \in TimesOf(s))
  BY DEF TimesOf
<1>4. \A t \in TimesOf(s) : t < Wrap
  BY DEF Short
<1>. HIDE DEF f
<1>5. f.pts % Wrap = f.pts
  <2>1. f.pts \in Nat /\ f.pts < Wrap
    BY <1>2, <1>3, <1>4
  <2>. QED  BY <2>1, CutSmall
<1>6. f.dts # Unset => f.dts % Wrap = f.dts
  <2>. SUFFICES ASSUME f.dts # Unset PROVE f.dts % Wrap = f.dts
    OBVIOUS
  <2>1. f.dts \in Nat /\ f.dts < Wrap
    BY <1>2, <1>3, <1>4
  <2>. QED  BY <2>1, CutSmall
<1>. QED  BY <1>1, <1>2, <1>3, <1>5, <1>6 DEF HdrPts, HdrDts, Cut, f

(* The times are numbers.                                                  *)
LEMMA TimesAre ==
  ASSUME input \in Inputs, NEW s \in Streams
  PROVE  \A u \in TimesOf(s) : u \in Nat
<1>1. \A n \in 1 .. Len(file[s]) : file[s][n].pts \in Nat /\ file[s][n].dts \in Nat \cup {Unset}
  BY FilesAre DEF Frame
<1>. QED  BY <1>1 DEF TimesOf

(* A time of the files is near all, and so is one that is a lead earlier.  *)
LEMMA TimeNear ==
  ASSUME input \in Inputs, Short, NEW s \in Streams, NEW t \in TimesOf(s),
         NEW more \in Int, 0 <= more, more <= Len(file[Video]) * FrameTicks
  PROVE  NearAll(t, more) /\ NearAll(t - Lead, more)
<1>1. Len(file[Video]) \in Nat /\ Len(file[Video]) * FrameTicks \in Nat /\ Lead \in Nat /\ Wrap \in Nat
  <2>1. Len(file[Video]) \in Nat /\ FrameTicks \in Nat
    BY FilesAre, TracksAre, TicksAssumption
  <2>. HIDE DEF file
  <2>. QED  BY <2>1, TicksAssumption, WrapAssumption
<1>. DEFINE K == Len(file[Video]) * FrameTicks
<1>2. ASSUME NEW o \in Streams, NEW u \in TimesOf(o)
      PROVE  /\ 2 * (t + more - u) < Wrap /\ -Wrap < 2 * (t - u)
             /\ 2 * ((t - Lead) + more - u) < Wrap /\ -Wrap < 2 * ((t - Lead) - u)
  <2>1. t \in Nat /\ u \in Nat
    BY TimesAre
  <2>2. 2 * (t - u + Lead + K) < Wrap /\ 2 * (u - t + Lead + K) < Wrap
    BY DEF Short
  <2>. HIDE DEF K
  <2>3. K \in Nat /\ more <= K
    BY <1>1 DEF K
  <2>. QED  BY <1>1, <2>1, <2>2, <2>3
<1>. QED  BY <1>2 DEF NearAll

-----------------------------------------------------------------------------
(* The frames in a FIFO are from its file, and no more of them than were   *)
(* read and not sent.                                                      *)
Queued ==
  \A s \in Streams :
    /\ \A k \in 1 .. Len(fifo[s]) :
         \E n \in 1 .. Len(file[s]) : n < pos[s] /\ fifo[s][k] = file[s][n]
    /\ sent[s] + Len(fifo[s]) < pos[s]

(* If none were lost, they are those that were read and not sent.          *)
Intact ==
  (~filled /\ ~dropped) =>
    \A s \in Streams :
      /\ sent[s] + Len(fifo[s]) + 1 = pos[s]
      /\ \A k \in 1 .. Len(fifo[s]) : fifo[s][k] = file[s][sent[s] + k]

(* Every step keeps the order of the frames.                               *)
LEMMA QueuedStep ==
  ASSUME Types, Queued, Intact, [Next]_vars
  PROVE  Queued' /\ Intact'
<1>1. /\ input' = input /\ Tracks' = Tracks /\ Streams' = Streams /\ file' = file
  BY InputStays DEF file
<1>2. /\ Tracks \subseteq Streams /\ Video \in Streams
      /\ DOMAIN pos = Streams /\ DOMAIN free = Streams /\ DOMAIN fifo = Streams
      /\ DOMAIN st = Streams /\ sent \in [Streams -> Nat]
      /\ \A s \in Streams : pos[s] \in Nat \ {0} /\ sent[s] \in Nat /\ fifo[s] \in Seq(Frame)
  BY TracksAre DEF Types, TypeOK, Shaped, Fifos
<1>3. ASSUME NEW STATE s, s \in Streams, ~AtEnd(s), Stored(s, NextFrame(s)),
             pos' = [pos EXCEPT ![s] = @ + 1], sent' = sent
      PROVE  Queued' /\ Intact'
  <2>1. /\ pos[s] \in 1 .. Len(file[s]) /\ NextFrame(s) \in Frame
        /\ NextFrame(s) = file[s][pos[s]] /\ pos[s] \in Nat /\ Len(file[s]) \in Nat
    BY <1>3, NextFrameType, FilesAre DEF Types, Shaped
  <2>2. \A o \in Streams : o # s => pos'[o] = pos[o] /\ fifo'[o] = fifo[o]
    BY <1>2, <1>3, StoredElsewhere
  <2>3. pos'[s] = pos[s] + 1
    BY <1>2, <1>3
  <2>. DEFINE q == fifo[s]
              f == NextFrame(s)
  <2>4. q \in Seq(Frame) /\ Len(q) \in Nat
    BY <1>2, <1>3
  <2>5. \/ fifo'[s] = Append(q, f) /\ filled' = filled /\ dropped' = dropped
        \/ fifo'[s] = << >> /\ filled'
        \/ fifo'[s] = q /\ dropped'
    BY <1>2, <1>3 DEF Stored
  <2>6. \A k \in 1 .. Len(q) :
          \E n \in 1 .. Len(file[s]) : n < pos[s] /\ q[k] = file[s][n]
    BY <1>3 DEF Queued
  <2>7. sent[s] + Len(q) < pos[s] /\ sent[s] \in Nat
    BY <1>2, <1>3 DEF Queued
  <2>8. (~filled /\ ~dropped) =>
          sent[s] + Len(q) + 1 = pos[s] /\ \A k \in 1 .. Len(q) : q[k] = file[s][sent[s] + k]
    BY <1>3 DEF Intact
  <2>9. /\ Len(Append(q, f)) = Len(q) + 1
        /\ \A k \in 1 .. Len(q) : Append(q, f)[k] = q[k]
        /\ Append(q, f)[Len(q) + 1] = f
    BY <2>1, <2>4
  <2>. HIDE DEF q, f
  <2>10. /\ \A k \in 1 .. Len(fifo'[s]) :
              \E n \in 1 .. Len(file[s]) : n < pos'[s] /\ fifo'[s][k] = file[s][n]
         /\ sent[s] + Len(fifo'[s]) < pos'[s]
    <3>1. CASE fifo'[s] = Append(q, f)
      <4>1. ASSUME NEW k \in 1 .. Len(q) + 1
            PROVE  \E n \in 1 .. Len(file[s]) : n < pos'[s] /\ Append(q, f)[k] = file[s][n]
        <5>1. CASE k = Len(q) + 1
          <6>1. pos[s] < pos'[s] /\ Append(q, f)[k] = file[s][pos[s]]
            BY <2>1, <2>3, <2>9, <5>1 DEF f
          <6>. QED  BY <2>1, <6>1
        <5>2. CASE k # Len(q) + 1
          <6>1. k \in 1 .. Len(q)
            BY <2>4, <5>2
          <6>2. PICK n \in 1 .. Len(file[s]) : n < pos[s] /\ q[k] = file[s][n]
            BY <2>6, <6>1
          <6>3. n < pos'[s] /\ Append(q, f)[k] = file[s][n]
            BY <2>1, <2>3, <2>9, <6>1, <6>2
          <6>. QED  BY <6>3
        <5>. QED  BY <5>1, <5>2
      <4>2. sent[s] + (Len(q) + 1) < pos'[s]
        BY <2>1, <2>3, <2>4, <2>7
      <4>. QED  BY <2>9, <3>1, <4>1, <4>2
    <3>2. CASE fifo'[s] = << >>
      <4>1. Len(<< >>) = 0 /\ sent[s] + 0 < pos'[s]
        BY <2>1, <2>3, <2>4, <2>7
      <4>. QED  BY <3>2, <4>1
    <3>3. CASE fifo'[s] = q
      <4>1. ASSUME NEW k \in 1 .. Len(q)
            PROVE  \E n \in 1 .. Len(file[s]) : n < pos'[s] /\ q[k] = file[s][n]
        <5>1. PICK n \in 1 .. Len(file[s]) : n < pos[s] /\ q[k] = file[s][n]
          BY <2>6
        <5>2. n < pos'[s]
          BY <2>1, <2>3, <5>1
        <5>. QED  BY <5>1, <5>2
      <4>2. sent[s] + Len(q) < pos'[s]
        BY <2>1, <2>3, <2>4, <2>7
      <4>. QED  BY <3>3, <4>1, <4>2
    <3>. QED  BY <2>5, <3>1, <3>2, <3>3
  <2>11. (~filled' /\ ~dropped') =>
           /\ ~filled /\ ~dropped
           /\ sent[s] + Len(fifo'[s]) + 1 = pos'[s]
           /\ \A k \in 1 .. Len(fifo'[s]) : fifo'[s][k] = file[s][sent[s] + k]
    <3>. SUFFICES ASSUME ~filled', ~dropped'
                  PROVE  /\ ~filled /\ ~dropped
                         /\ sent[s] + Len(fifo'[s]) + 1 = pos'[s]
                         /\ \A k \in 1 .. Len(fifo'[s]) : fifo'[s][k] = file[s][sent[s] + k]
      OBVIOUS
    <3>1. fifo'[s] = Append(q, f) /\ ~filled /\ ~dropped
      BY <2>5
    <3>2. sent[s] + Len(fifo'[s]) + 1 = pos'[s]
      <4>1. sent[s] + Len(q) + 1 = pos[s] /\ Len(fifo'[s]) = Len(q) + 1
        BY <2>8, <2>9, <3>1
      <4>2. sent[s] \in Nat /\ Len(q) \in Nat
        BY <2>4, <2>7
      <4>. QED  BY <2>3, <4>1, <4>2
    <3>3. ASSUME NEW k \in 1 .. Len(q) + 1
          PROVE  Append(q, f)[k] = file[s][sent[s] + k]
      <4>1. CASE k = Len(q) + 1
        <5>1. sent[s] + k = pos[s]
          BY <2>1, <2>4, <2>7, <2>8, <3>1, <4>1
        <5>. QED  BY <2>1, <2>9, <4>1, <5>1 DEF f
      <4>2. CASE k # Len(q) + 1
        <5>1. k \in 1 .. Len(q)
          BY <2>4, <4>2
        <5>. QED  BY <2>8, <2>9, <3>1, <5>1
      <4>. QED  BY <4>1, <4>2
    <3>. QED  BY <2>9, <3>1, <3>2, <3>3
  <2>12. ASSUME NEW o \in Streams
         PROVE  /\ \A k \in 1 .. Len(fifo'[o]) :
                     \E n \in 1 .. Len(file[o]) : n < pos'[o] /\ fifo'[o][k] = file[o][n]
                /\ sent[o] + Len(fifo'[o]) < pos'[o]
    <3>1. CASE o = s
      BY <2>10, <3>1
    <3>2. CASE o # s
      BY <2>2, <3>2 DEF Queued
    <3>. QED  BY <3>1, <3>2
  <2>13. ASSUME ~filled', ~dropped', NEW o \in Streams
         PROVE  /\ sent[o] + Len(fifo'[o]) + 1 = pos'[o]
                /\ \A k \in 1 .. Len(fifo'[o]) : fifo'[o][k] = file[o][sent[o] + k]
    <3>1. CASE o = s
      BY <2>11, <2>13, <3>1
    <3>2. CASE o # s
      BY <2>2, <2>11, <2>13, <3>2 DEF Intact
    <3>. QED  BY <3>1, <3>2
  <2>14. Queued'
    BY <1>1, <1>3, <2>12 DEF Queued
  <2>15. Intact'
    BY <1>1, <1>3, <2>13 DEF Intact
  <2>. QED  BY <2>14, <2>15
<1>4. ASSUME NEW STATE s, s \in Streams, fifo[s] # << >>, Take(s), pos' = pos
      PROVE  Queued' /\ Intact'
  <2>. DEFINE q == fifo[s]
  <2>1. /\ fifo' = [fifo EXCEPT ![s] = Tail(@)]
        /\ filled' = filled /\ dropped' = dropped
        /\ sent' = [sent EXCEPT ![s] = @ + 1]
    BY <1>4, Zenon DEF Take
  <2>2. \A o \in Streams : o # s => sent'[o] = sent[o] /\ fifo'[o] = fifo[o]
    BY <1>2, <1>4, <2>1
  <2>3. fifo'[s] = Tail(q) /\ sent'[s] = sent[s] + 1 /\ sent[s] \in Nat /\ pos[s] \in Nat
    BY <1>2, <1>4, <2>1
  <2>4. /\ q \in Seq(Frame) /\ Len(q) \in Nat \ {0} /\ Len(Tail(q)) = Len(q) - 1
        /\ \A k \in 1 .. Len(q) - 1 : Tail(q)[k] = q[k + 1]
    BY <1>2, <1>4
  <2>5. \A k \in 1 .. Len(q) :
          \E n \in 1 .. Len(file[s]) : n < pos[s] /\ q[k] = file[s][n]
    BY <1>4 DEF Queued
  <2>6. sent[s] + Len(q) < pos[s]
    BY <1>4 DEF Queued
  <2>7. (~filled /\ ~dropped) =>
          sent[s] + Len(q) + 1 = pos[s] /\ \A k \in 1 .. Len(q) : q[k] = file[s][sent[s] + k]
    BY <1>4 DEF Intact
  <2>. HIDE DEF q
  <2>8. /\ \A k \in 1 .. Len(Tail(q)) :
              \E n \in 1 .. Len(file[s]) : n < pos[s] /\ Tail(q)[k] = file[s][n]
        /\ sent'[s] + Len(Tail(q)) < pos[s]
    <3>1. ASSUME NEW k \in 1 .. Len(q) - 1
          PROVE  \E n \in 1 .. Len(file[s]) : n < pos[s] /\ Tail(q)[k] = file[s][n]
      <4>1. k + 1 \in 1 .. Len(q) /\ Tail(q)[k] = q[k + 1]
        BY <2>4
      <4>. QED  BY <2>5, <4>1
    <3>2. sent'[s] + Len(Tail(q)) < pos[s]
      BY <2>3, <2>4, <2>6
    <3>. QED  BY <2>4, <3>1, <3>2
  <2>9. (~filled /\ ~dropped) =>
          /\ sent'[s] + Len(Tail(q)) + 1 = pos[s]
          /\ \A k \in 1 .. Len(Tail(q)) : Tail(q)[k] = file[s][sent'[s] + k]
    <3>. SUFFICES ASSUME ~filled, ~dropped
                  PROVE  /\ sent'[s] + Len(Tail(q)) + 1 = pos[s]
                         /\ \A k \in 1 .. Len(Tail(q)) : Tail(q)[k] = file[s][sent'[s] + k]
      OBVIOUS
    <3>1. ASSUME NEW k \in 1 .. Len(q) - 1
          PROVE  Tail(q)[k] = file[s][sent'[s] + k]
      <4>1. k + 1 \in 1 .. Len(q) /\ Tail(q)[k] = q[k + 1]
        BY <2>4
      <4>2. sent'[s] + k = sent[s] + (k + 1)
        <5>1. k \in Nat
          BY <2>4
        <5>2. \A m, j \in Nat : (m + 1) + j = m + (j + 1)
          OBVIOUS
        <5>. QED  BY <2>3, <5>1, <5>2, Zenon
      <4>3. q[k + 1] = file[s][sent[s] + (k + 1)]
        BY <2>7, <4>1
      <4>. QED  BY <4>1, <4>2, <4>3
    <3>2. sent'[s] + Len(Tail(q)) + 1 = pos[s]
      BY <2>3, <2>4, <2>7
    <3>. QED  BY <2>4, <3>1, <3>2
  <2>10. ASSUME NEW o \in Streams
         PROVE  /\ \A k \in 1 .. Len(fifo'[o]) :
                     \E n \in 1 .. Len(file[o]) : n < pos'[o] /\ fifo'[o][k] = file[o][n]
                /\ sent'[o] + Len(fifo'[o]) < pos'[o]
    <3>. pos' = pos
      BY <1>4
    <3>1. CASE o = s
      <4>1. fifo'[s] = Tail(q)
        BY <2>3
      <4>. QED  BY <2>8, <3>1, <4>1
    <3>2. CASE o # s
      BY <2>2, <3>2 DEF Queued
    <3>. QED  BY <3>1, <3>2
  <2>11. ASSUME ~filled, ~dropped, NEW o \in Streams
         PROVE  /\ sent'[o] + Len(fifo'[o]) + 1 = pos'[o]
                /\ \A k \in 1 .. Len(fifo'[o]) : fifo'[o][k] = file[o][sent'[o] + k]
    <3>. pos' = pos
      BY <1>4
    <3>1. CASE o = s
      <4>1. fifo'[s] = Tail(q)
        BY <2>3
      <4>. QED  BY <2>9, <2>11, <3>1, <4>1
    <3>2. CASE o # s
      BY <2>2, <2>11, <3>2 DEF Intact
    <3>. QED  BY <3>1, <3>2
  <2>12. Queued'
    BY <1>1, <2>10 DEF Queued
  <2>13. Intact'
    BY <1>1, <2>1, <2>11 DEF Intact
  <2>. QED  BY <2>12, <2>13
<1>5. ASSUME pos' = pos, fifo' = fifo, sent' = sent, filled' = filled, dropped' = dropped
      PROVE  Queued' /\ Intact'
  BY <1>1, <1>5 DEF Queued, Intact
<1>6. CASE WriteVideo
  BY <1>2, <1>3, <1>6 DEF WriteVideo, muxvars
<1>7. CASE WriteTrack
  <2>1. /\ atrack \in Streams /\ ~AtEnd(atrack) /\ Stored(atrack, NextFrame(atrack))
        /\ pos' = [pos EXCEPT ![atrack] = @ + 1] /\ sent' = sent
    BY <1>2, <1>7 DEF WriteTrack, TrackReady, Types, Shaped, muxvars
  <2>. QED  BY <1>3, <2>1
<1>8. CASE TakeVideo
  BY <1>2, <1>4, <1>8 DEF TakeVideo, VideoReady, appvars
<1>9. CASE TakeTrack
  BY <1>2, <1>4, <1>9 DEF TakeTrack, TrackTakable, appvars
<1>10. CASE PeekVideo \/ LeaveTrack \/ VideoEnds \/ DrainRound \/ NoVideo \/ NoTrack
            \/ UNCHANGED vars
  BY <1>5, <1>10 DEF PeekVideo, LeaveTrack, VideoEnds, DrainRound, NoVideo, NoTrack, vars,
                     appvars, fifovars, muxvars
<1>. QED  BY <1>6, <1>7, <1>8, <1>9, <1>10 DEF Next, App, Mux

(* The FIFOs are empty at first.                                           *)
LEMMA QueuedInit == Init => Queued /\ Intact
<1>. SUFFICES ASSUME Init PROVE Queued /\ Intact
  OBVIOUS
<1>1. \A s \in Streams : pos[s] = 1 /\ fifo[s] = << >> /\ sent[s] = 0
  BY DEF Init
<1>2. Len(<< >>) = 0 /\ 0 + 0 < 1 /\ 0 + 0 + 1 = 1
  OBVIOUS
<1>. QED  BY <1>1, <1>2 DEF Queued, Intact

-----------------------------------------------------------------------------
(* The base and the dts of the video are near all times of the files.      *)
Exact ==
  Short =>
    /\ base_ts = Unset \/ NearAll(base_ts, 0)
    /\ st[Video].last_dts = Unset \/ NearAll(st[Video].last_dts, Left(sent[Video]))
    /\ st[Video].min_dts_diff <= FrameTicks

(* A stream with a frame in its FIFO has not sent its whole file.          *)
LEMMA MoreToSend ==
  ASSUME Types, Fed, Queued, NEW s \in Streams, fifo[s] # << >>
  PROVE  sent[s] \in Nat /\ sent[s] < Len(file[s])
<1>1. sent[s] \in Nat /\ pos[s] \in Nat
  BY DEF Types, TypeOK
<1>2. fifo[s] \in Seq(Frame)
  BY DEF Types, TypeOK
<1>3. Len(fifo[s]) \in Nat \ {0}
  BY <1>2
<1>4. Len(file[s]) \in Nat
  BY FilesAre DEF Types, Shaped
<1>5. sent[s] + Len(fifo[s]) < pos[s]
  BY DEF Queued
<1>6. pos[s] <= Len(file[s]) + 1
  BY DEF Fed
<1>. QED  BY <1>1, <1>3, <1>4, <1>5, <1>6

(* What is below a time that is near from above is near from above.        *)
LEMMA NearBelow ==
  ASSUME NEW a \in Int, NEW b \in Int, NEW u \in Int, a <= b, 2 * (b - u) < Wrap
  PROVE  2 * (a - u) < Wrap
BY WrapAssumption

(* The dts of a frame before unrolling.                                    *)
RawDts(s, ss, f) ==
  IF s = Video THEN video_dts(ss, [pts |-> f.pts, dts |-> f.dts]) ELSE f.pts

(* It is near all times.                                                   *)
LEMMA RawDtsNear ==
  ASSUME Types, Fed, Queued, Short, Exact, NEW s \in Streams, fifo[s] # << >>,
         NEW n \in 1 .. Len(file[s])
  PROVE  LET x == RawDts(s, st[s], file[s][n])
         IN  /\ x \in Int
             /\ NearAll(x, IF s = Video THEN Left(sent[Video] + 1) ELSE 0)
<1>. DEFINE f == file[s][n]
            hdr == [pts |-> f.pts, dts |-> f.dts]
            x == RawDts(s, st[s], f)
            K == Len(file[Video]) * FrameTicks
<1>1. /\ f.pts \in TimesOf(s) /\ f.pts \in Nat
      /\ f.dts # Unset => f.dts \in TimesOf(s) /\ f.dts \in Nat
  BY FrameTimes DEF Types, Shaped
<1>2. input \in Inputs /\ Video \in Streams
  BY TracksAre DEF Types, Shaped
<1>3. hdr.pts = f.pts /\ hdr.dts = f.dts
  OBVIOUS
<1>. HIDE DEF f, hdr
<1>4. CASE s # Video
  <2>1. x = f.pts
    BY <1>4 DEF RawDts
  <2>2. K \in Nat
    <3>1. Len(file[Video]) \in Nat /\ FrameTicks \in Nat
      BY <1>2, FilesAre, TicksAssumption
    <3>. QED  BY <3>1
  <2>3. NearAll(f.pts, 0)
    BY <1>1, <1>2, <2>2, TimeNear
  <2>. QED  BY <1>1, <1>4, <2>1, <2>3 DEF f
<1>5. CASE s = Video
  <2>. DEFINE m == sent[Video]
  <2>1. m \in Nat /\ m < Len(file[Video])
    BY <1>5, MoreToSend
  <2>2. /\ Left(m) \in Int /\ Left(m + 1) \in Int /\ 0 <= Left(m + 1)
        /\ Left(m) = Left(m + 1) + FrameTicks /\ Left(m + 1) <= K
    BY <1>2, <2>1, LeftStep
  <2>3. x = video_dts(st[Video], hdr)
    BY <1>5 DEF RawDts, hdr
  <2>4. CASE f.dts # Unset
    <3>1. x = f.dts
      BY <1>3, <2>3, <2>4 DEF video_dts
    <3>2. NearAll(f.dts, Left(m + 1))
      BY <1>1, <1>2, <2>2, <2>4, TimeNear
    <3>. QED  BY <1>1, <1>5, <2>4, <3>1, <3>2 DEF f
  <2>5. CASE f.dts = Unset /\ st[Video].last_dts = Unset
    <3>1. x = f.pts - Lead
      BY <1>3, <2>3, <2>5 DEF video_dts
    <3>2. NearAll(f.pts - Lead, Left(m + 1))
      BY <1>1, <1>2, <2>2, TimeNear
    <3>. QED  BY <1>1, <1>5, <3>1, <3>2, TicksAssumption DEF f
  <2>6. CASE f.dts = Unset /\ st[Video].last_dts # Unset
    <3>. DEFINE d == st[Video].last_dts
                g == min_dts_diff_after(st[Video], hdr)
    <3>1. x = d + g
      BY <1>3, <2>3, <2>6 DEF video_dts
    <3>2. g = st[Video].min_dts_diff
      BY <1>3, <2>6 DEF min_dts_diff_after
    <3>3. /\ d \in Int /\ g \in Nat /\ g <= FrameTicks /\ FrameTicks \in Nat
      BY <1>2, <3>2, TicksAssumption DEF Types, TypeOK, Exact
    <3>4. NearAll(d, Left(m))
      BY <2>6 DEF Exact
    <3>. HIDE DEF d, g, x, m
    <3>5. ASSUME NEW o \in Streams, NEW u \in TimesOf(o)
          PROVE  2 * (x + Left(m + 1) - u) < Wrap /\ -Wrap < 2 * (x - u)
      <4>1. 2 * (d + Left(m) - u) < Wrap /\ -Wrap < 2 * (d - u)
        BY <3>4 DEF NearAll
      <4>2. u \in Nat /\ Wrap \in Nat
        BY <1>2, TimesAre, WrapAssumption
      <4>3. /\ Left(m) = Left(m + 1) + FrameTicks
            /\ Left(m) \in Int /\ Left(m + 1) \in Int
        BY <2>2
      <4>4. x + Left(m + 1) <= d + Left(m) /\ d <= x /\ x \in Int
        BY <3>1, <3>3, <4>3
      <4>5. 2 * (x + Left(m + 1) - u) < Wrap
        <5>1. /\ x + Left(m + 1) \in Int /\ d + Left(m) \in Int
              /\ x + Left(m + 1) <= d + Left(m) /\ u \in Int
          BY <3>3, <4>2, <4>3, <4>4
        <5>2. /\ d + Left(m) - u = (d + Left(m)) - u
              /\ x + Left(m + 1) - u = (x + Left(m + 1)) - u
          BY <3>3, <4>2, <4>3, <4>4
        <5>3. 2 * ((d + Left(m)) - u) < Wrap
          BY <4>1, <5>2
        <5>4. 2 * ((x + Left(m + 1)) - u) < Wrap
          BY <5>1, <5>3, NearBelow
        <5>. QED  BY <5>2, <5>4
      <4>6. -Wrap < 2 * (x - u)
        BY <3>3, <4>1, <4>2, <4>4
      <4>. QED  BY <4>5, <4>6
    <3>6. NearAll(x, Left(m + 1))
      BY <3>5 DEF NearAll
    <3>. QED  BY <1>5, <3>1, <3>3, <3>6 DEF m, x, f
  <2>. QED  BY <2>4, <2>5, <2>6
<1>. QED  BY <1>4, <1>5

(* What Stamped makes of a frame: its own times.                           *)
LEMMA StampedIs ==
  ASSUME Types, Fed, Queued, Short, Exact, NEW s \in Streams, fifo[s] # << >>,
         NEW n \in 1 .. Len(file[s])
  PROVE  LET f == file[s][n]
             x == RawDts(s, st[s], f)
             p == Stamped(base_ts, st[s], [pts |-> f.pts, dts |-> f.dts], s = Video)
         IN  /\ p.pts = f.pts /\ p.base \in {f.pts, x}
             /\ p.st.last_pts = f.pts /\ p.st.last_dts = x
             /\ s = Video => p.st.min_dts_diff <= FrameTicks
<1>. DEFINE f == file[s][n]
            hdr == [pts |-> f.pts, dts |-> f.dts]
            x == RawDts(s, st[s], f)
            p == Stamped(base_ts, st[s], hdr, s = Video)
            more == IF s = Video THEN Left(sent[Video] + 1) ELSE 0
<1>1. f.pts \in TimesOf(s) /\ f.pts \in Nat
  BY FrameTimes DEF Types, Shaped
<1>2. base_ts \in Int /\ Wrap \in Nat /\ Video \in Streams /\ input \in Inputs
  BY TracksAre, WrapAssumption DEF Types, TypeOK, Shaped
<1>3. x \in Int /\ NearAll(x, more)
  BY RawDtsNear
<1>4. more \in Int /\ 0 <= more
  <2>1. CASE s = Video
    <3>1. sent[Video] \in Nat /\ sent[Video] < Len(file[Video])
      BY <2>1, MoreToSend
    <3>. QED  BY <1>2, <2>1, <3>1, LeftStep
  <2>. QED  BY <2>1
<1>5. hdr.pts = f.pts /\ hdr.dts = f.dts
  OBVIOUS
<1>6. x = IF s = Video THEN video_dts(st[s], hdr) ELSE hdr.pts
  BY <1>5 DEF RawDts
<1>. HIDE DEF f, x, hdr, more
<1>7. base_ts = Unset \/ HalfNear(f.pts, base_ts)
  <2>. SUFFICES ASSUME base_ts # Unset PROVE HalfNear(f.pts, base_ts)
    OBVIOUS
  <2>1. 2 * (base_ts + 0 - f.pts) < Wrap /\ -Wrap < 2 * (base_ts - f.pts)
    BY <1>1 DEF Exact, NearAll
  <2>. QED  BY <1>1, <1>2, <2>1 DEF HalfNear
<1>8. HalfNear(x, f.pts)
  <2>1. 2 * (x + more - f.pts) < Wrap /\ -Wrap < 2 * (x - f.pts)
    BY <1>1, <1>3 DEF NearAll
  <2>. QED  BY <1>1, <1>2, <1>3, <1>4, <2>1 DEF HalfNear
<1>9. f.pts # AV_NOPTS_VALUE
  BY <1>1, NoPtsAssumption
<1>10. unroll_timestamp(base_ts, f.pts) = f.pts /\ base_after(base_ts, f.pts) = f.pts
  <2>1. f.pts \in Int /\ base_ts \in Int
    BY <1>1, <1>2
  <2>. QED  BY <1>7, <1>9, <2>1, UnrollSame
<1>11. unroll_timestamp(f.pts, x) = x /\ base_after(f.pts, x) \in {f.pts, x}
  <2>1. f.pts \in Int /\ x \in Int
    BY <1>1, <1>3
  <2>. QED  BY <1>8, <2>1, UnrollSame
<1>12. /\ p.pts = unroll_timestamp(base_ts, hdr.pts)
       /\ p.base = base_after(base_after(base_ts, hdr.pts), x)
       /\ p.st.last_pts = unroll_timestamp(base_ts, hdr.pts)
       /\ p.st.last_dts = unroll_timestamp(base_after(base_ts, hdr.pts), x)
       /\ s = Video => p.st.min_dts_diff = min_dts_diff_after(st[s], hdr)
  BY <1>6 DEF Stamped
<1>13. s = Video => min_dts_diff_after(st[s], hdr) <= FrameTicks
  <2>. SUFFICES ASSUME s = Video PROVE min_dts_diff_after(st[s], hdr) <= FrameTicks
    OBVIOUS
  <2>1. st[s].min_dts_diff <= FrameTicks /\ st[s].min_dts_diff \in Nat /\ st[s].last_dts \in Int
    BY <1>2 DEF Exact, Types, TypeOK
  <2>2. hdr.dts \in Int
    BY <1>5, FilesAre DEF f, Frame, Unset, Types, Shaped
  <2>. QED  BY <2>1, <2>2, TicksAssumption DEF min_dts_diff_after
<1>. QED  BY <1>5, <1>10, <1>11, <1>12, <1>13 DEF f, x, hdr

(* A frame that is taken keeps its pts.                                    *)
LEMMA TakeExact ==
  ASSUME Types, Fed, Queued, Short, Exact, NEW STATE s, s \in Streams, fifo[s] # << >>, Take(s)
  PROVE  /\ st'[s].last_pts = Head(fifo[s]).pts
         /\ s = Video => last_vid_pts' = Head(fifo[s]).pts
         /\ HdrPts(Head(fifo[s])) = Head(fifo[s]).pts /\ Head(fifo[s]).pts \in Nat
         /\ base_ts' = Unset \/ NearAll(base_ts', 0)
         /\ \/ st'[Video].last_dts = Unset
            \/ NearAll(st'[Video].last_dts, Left(sent'[Video]))
         /\ st'[Video].min_dts_diff <= FrameTicks
<1>. DEFINE f == Head(fifo[s])
            p == Stamped(base_ts, st[s], [pts |-> HdrPts(f), dts |-> HdrDts(f)], s = Video)
            x == RawDts(s, st[s], f)
            more == IF s = Video THEN Left(sent[Video] + 1) ELSE 0
<1>1. PICK n \in 1 .. Len(file[s]) : f = file[s][n]
  <2>1. 1 \in 1 .. Len(fifo[s]) /\ f = fifo[s][1]
    BY DEF Types, Fifos
  <2>. QED  BY <2>1 DEF Queued
<1>2. /\ f.pts \in TimesOf(s) /\ HdrPts(f) = f.pts /\ f.pts \in Nat /\ HdrDts(f) = f.dts
  BY <1>1, FrameTimes DEF Types, Shaped
<1>3. /\ Video \in Streams /\ input \in Inputs /\ DOMAIN st = Streams /\ sent \in [Streams -> Nat]
  BY TracksAre DEF Types, Shaped, TypeOK
<1>4. x \in Int /\ NearAll(x, more)
  BY <1>1, RawDtsNear
<1>5. /\ p.pts = f.pts /\ p.base \in {f.pts, x}
      /\ p.st.last_pts = f.pts /\ p.st.last_dts = x
      /\ s = Video => p.st.min_dts_diff <= FrameTicks
  <2>1. LET h == [pts |-> f.pts, dts |-> f.dts]
            r == Stamped(base_ts, st[s], h, s = Video)
        IN  /\ r.pts = f.pts /\ r.base \in {f.pts, x}
            /\ r.st.last_pts = f.pts /\ r.st.last_dts = x
            /\ s = Video => r.st.min_dts_diff <= FrameTicks
    <3>. HIDE DEF f
    <3>. QED  BY <1>1, StampedIs
  <2>. QED  BY <1>2, <2>1
<1>6. /\ base_ts' = p.base /\ st' = [st EXCEPT ![s] = p.st]
      /\ sent' = [sent EXCEPT ![s] = @ + 1]
      /\ last_vid_pts' = IF s = Video THEN p.pts ELSE last_vid_pts
  BY Zenon DEF Take
<1>. HIDE DEF f, p, x
<1>7. /\ st'[s] = p.st /\ sent'[s] = sent[s] + 1
      /\ s # Video => st'[Video] = st[Video] /\ sent'[Video] = sent[Video]
  BY <1>3, <1>6
<1>8. /\ Len(file[Video]) * FrameTicks \in Nat
      /\ s = Video => /\ Left(sent[Video] + 1) \in Int /\ 0 <= Left(sent[Video] + 1)
                      /\ Left(sent[Video] + 1) <= Len(file[Video]) * FrameTicks
  <2>1. Len(file[Video]) \in Nat /\ FrameTicks \in Nat
    BY <1>3, FilesAre, TicksAssumption
  <2>2. s = Video => sent[Video] \in Nat /\ sent[Video] < Len(file[Video])
    BY MoreToSend
  <2>3. s = Video => /\ Left(sent[Video] + 1) \in Int /\ 0 <= Left(sent[Video] + 1)
                     /\ Left(sent[Video] + 1) <= Len(file[Video]) * FrameTicks
    BY <1>3, <2>2, LeftStep
  <2>4. Len(file[Video]) * FrameTicks \in Nat
    BY <2>1
  <2>. QED  BY <2>3, <2>4
<1>9. more \in Int /\ 0 <= more
  BY <1>8
<1>. HIDE DEF more
<1>10. NearAll(f.pts, 0)
  BY <1>2, <1>3, <1>8, TimeNear
<1>11. NearAll(x, 0)
  <2>1. ASSUME NEW o \in Streams, NEW u \in TimesOf(o)
        PROVE  2 * (x + 0 - u) < Wrap /\ -Wrap < 2 * (x - u)
    <3>1. 2 * (x + more - u) < Wrap /\ -Wrap < 2 * (x - u)
      BY <1>4 DEF NearAll
    <3>2. u \in Nat /\ Wrap \in Nat
      BY <1>3, TimesAre, WrapAssumption
    <3>. QED  BY <1>4, <1>9, <3>1, <3>2
  <2>. QED  BY <2>1 DEF NearAll
<1>12. NearAll(base_ts', 0)
  BY <1>5, <1>6, <1>10, <1>11
<1>13. CASE s = Video
  <2>1. st'[Video].last_dts = x /\ st'[Video].min_dts_diff <= FrameTicks
    BY <1>5, <1>7, <1>13
  <2>2. NearAll(x, Left(sent'[Video]))
    BY <1>4, <1>7, <1>13 DEF more
  <2>. QED  BY <1>2, <1>5, <1>6, <1>7, <1>12, <1>13, <2>1, <2>2 DEF f
<1>14. CASE s # Video
  <2>1. /\ st[Video].last_dts = Unset \/ NearAll(st[Video].last_dts, Left(sent[Video]))
        /\ st[Video].min_dts_diff <= FrameTicks
    BY DEF Exact
  <2>. QED  BY <1>2, <1>5, <1>7, <1>12, <1>14, <2>1 DEF f
<1>. QED  BY <1>13, <1>14

(* Every step keeps the times exact.                                       *)
LEMMA ExactStep ==
  ASSUME Types, Fed, Queued, Exact, [Next]_vars
  PROVE  Exact'
<1>1. /\ input' = input /\ Tracks' = Tracks /\ Streams' = Streams /\ file' = file
  BY InputStays DEF file
<1>2. Short' <=> Short
  BY <1>1 DEF Short, TimesOf
<1>. SUFFICES ASSUME Short
              PROVE  /\ base_ts' = Unset \/ NearAll(base_ts', 0)
                     /\ \/ st'[Video].last_dts = Unset
                        \/ NearAll(st'[Video].last_dts, Left(sent'[Video]))
                     /\ st'[Video].min_dts_diff <= FrameTicks
  BY <1>1, <1>2 DEF Exact, NearAll, Left, TimesOf
<1>3. /\ Tracks \subseteq Streams /\ Video \in Streams
  BY TracksAre DEF Types, Shaped
<1>4. ASSUME base_ts' = base_ts, st' = st, sent' = sent
      PROVE  /\ base_ts' = Unset \/ NearAll(base_ts', 0)
             /\ \/ st'[Video].last_dts = Unset
                \/ NearAll(st'[Video].last_dts, Left(sent'[Video]))
             /\ st'[Video].min_dts_diff <= FrameTicks
  BY <1>4 DEF Exact
<1>5. CASE TakeVideo
  BY <1>3, <1>5, TakeExact DEF TakeVideo, VideoReady
<1>6. CASE TakeTrack
  BY <1>3, <1>6, TakeExact DEF TakeTrack, TrackTakable
<1>7. CASE App \/ NoVideo \/ NoTrack \/ UNCHANGED vars
  BY <1>4, <1>7 DEF App, WriteVideo, PeekVideo, WriteTrack, LeaveTrack, VideoEnds, DrainRound,
                    NoVideo, NoTrack, vars, muxvars
<1>. QED  BY <1>5, <1>6, <1>7 DEF Next, Mux

(* There are none at first.                                                *)
LEMMA ExactInit == Init => Exact
<1>. SUFFICES ASSUME Init PROVE Exact
  OBVIOUS
<1>1. Video \in Streams
  BY TracksAre DEF Init
<1>2. st[Video] = new_stream /\ base_ts = Unset
  BY <1>1 DEF Init
<1>. QED  BY <1>2, TicksAssumption DEF Exact, new_stream

-----------------------------------------------------------------------------
(* Of the first b video frames, one is as far as t.                        *)
SeenBy(b, t) ==
  \E n \in 1 .. Len(file[Video]) : n <= b /\ file[Video][n].pts >= t

(* The video headers that the application has read.                        *)
ReadTo == IF input.program = "c" THEN pos[Video] - 1 ELSE pos[Video]

(* Nothing of the tracks is beyond the video that was read: not the pts    *)
(* that a pass is at, not the frames that wait, not the packets sent.      *)
BehindInv ==
  Short =>
    /\ apc = "tracks" => SeenBy(ReadTo, video_pts)
    /\ \A i \in Tracks : \A k \in 1 .. Len(fifo[i]) : SeenBy(ReadTo, fifo[i][k].pts)
    /\ \A i \in Tracks : st[i].last_pts # Unset => SeenBy(ReadTo, st[i].last_pts)

(* More video and an earlier time.                                         *)
LEMMA SeenMore ==
  ASSUME input \in Inputs, NEW b \in Int, NEW c \in Int, b <= c,
         NEW t \in Int, NEW u \in Int, t <= u, SeenBy(b, u)
  PROVE  SeenBy(c, t)
<1>1. PICK n \in 1 .. Len(file[Video]) : n <= b /\ file[Video][n].pts >= u
  BY DEF SeenBy
<1>2. file[Video][n].pts \in Nat
  BY TracksAre, FilesAre, HeaderType
<1>3. n \in Int
  OBVIOUS
<1>4. n <= c
  BY <1>1, <1>3
<1>5. file[Video][n].pts >= t
  BY <1>1, <1>2
<1>. QED  BY <1>4, <1>5 DEF SeenBy

(* The video is never read back for good.                                  *)
LEMMA ReadOn ==
  ASSUME Types, [Next]_vars
  PROVE  /\ ReadTo \in Int /\ ReadTo' \in Int /\ ReadTo <= ReadTo'
         /\ pos[Video] <= pos'[Video]
<1>1. input' = input
  BY InputStays
<1>2. /\ Tracks \subseteq Streams /\ Video \in Streams /\ Video \notin Tracks
      /\ DOMAIN pos = Streams /\ pos[Video] \in Nat
  BY TracksAre DEF Types, TypeOK, Shaped
<1>3. pos'[Video] = pos[Video] \/ pos'[Video] = pos[Video] + 1
  <2>1. CASE WriteVideo
    BY <1>2, <2>1 DEF WriteVideo
  <2>2. CASE WriteTrack
    <3>1. atrack \in Tracks /\ pos' = [pos EXCEPT ![atrack] = @ + 1]
      BY <2>2 DEF WriteTrack, Types, TypeOK
    <3>. QED  BY <1>2, <3>1
  <2>3. CASE PeekVideo \/ LeaveTrack \/ VideoEnds \/ DrainRound \/ Mux \/ UNCHANGED vars
    BY <2>3 DEF PeekVideo, LeaveTrack, VideoEnds, DrainRound, Mux, TakeVideo, NoVideo, TakeTrack,
                NoTrack, appvars, vars
  <2>. QED  BY <2>1, <2>2, <2>3 DEF Next, App
<1>4. pos[Video] <= pos'[Video] /\ pos'[Video] \in Nat
  BY <1>2, <1>3
<1>. QED  BY <1>1, <1>2, <1>3, <1>4 DEF ReadTo

(* The pts of a pass over the tracks is one that was read.                 *)
LEMMA PassSeen ==
  ASSUME Types, Short, BehindInv, [Next]_vars, apc' = "tracks"
  PROVE  SeenBy(ReadTo', video_pts')
<1>1. input' = input /\ video_pts \in Int /\ input \in Inputs /\ Video \in Streams
  BY InputStays, TracksAre DEF Types, TypeOK
<1>2. /\ ReadTo \in Int /\ ReadTo' \in Int /\ ReadTo <= ReadTo'
  BY ReadOn
<1>3. ASSUME ~AtEnd(Video), video_pts' = HdrPts(NextFrame(Video)), pos[Video] <= ReadTo'
      PROVE  SeenBy(ReadTo', video_pts')
  <2>1. /\ pos[Video] \in 1 .. Len(file[Video]) /\ pos[Video] \in Nat
        /\ NextFrame(Video) = file[Video][pos[Video]]
    BY <1>1, <1>3, NextFrameType DEF Types
  <2>2. video_pts' = file[Video][pos[Video]].pts /\ file[Video][pos[Video]].pts \in Nat
    BY <1>1, <1>3, <2>1, FrameTimes
  <2>3. file[Video][pos[Video]].pts >= video_pts'
    BY <2>2
  <2>. QED  BY <1>3, <2>1, <2>3 DEF SeenBy
<1>4. ASSUME apc = "tracks", video_pts' = video_pts
      PROVE  SeenBy(ReadTo', video_pts')
  <2>1. SeenBy(ReadTo, video_pts)
    BY <1>4 DEF BehindInv
  <2>2. video_pts <= video_pts
    BY <1>1
  <2>3. SeenBy(ReadTo', video_pts)
    BY <1>1, <1>2, <2>1, <2>2, SeenMore
  <2>. QED  BY <1>4, <2>3
<1>5. CASE WriteVideo
  <2>1. /\ ~AtEnd(Video) /\ video_pts' = HdrPts(NextFrame(Video))
        /\ pos' = [pos EXCEPT ![Video] = @ + 1]
    BY <1>5 DEF WriteVideo
  <2>2. pos[Video] \in Nat /\ DOMAIN pos = Streams
    BY <1>1 DEF Types, TypeOK, Shaped
  <2>3. pos'[Video] = pos[Video] + 1
    BY <1>1, <2>1, <2>2
  <2>4. pos[Video] <= ReadTo'
    BY <1>1, <2>2, <2>3 DEF ReadTo
  <2>. QED  BY <1>3, <2>1, <2>4
<1>6. CASE PeekVideo
  <2>1. /\ ~AtEnd(Video) /\ video_pts' = HdrPts(NextFrame(Video))
        /\ pos' = pos /\ input.program = "python"
    BY <1>6 DEF PeekVideo
  <2>2. pos[Video] \in Nat
    BY <1>1 DEF Types, TypeOK
  <2>3. pos[Video] <= ReadTo'
    BY <1>1, <2>1, <2>2 DEF ReadTo
  <2>. QED  BY <1>3, <2>1, <2>3
<1>7. CASE WriteTrack \/ LeaveTrack \/ Mux \/ UNCHANGED vars
  BY <1>4, <1>7 DEF WriteTrack, LeaveTrack, Mux, TakeVideo, NoVideo, TakeTrack, NoTrack,
                    appvars, vars
<1>8. CASE VideoEnds \/ DrainRound
  BY <1>8 DEF VideoEnds, DrainRound
<1>. QED  BY <1>5, <1>6, <1>7, <1>8 DEF Next, App

(* What a track's FIFO holds was in it, or is due in the pass.             *)
LEMMA WaitingFrom ==
  ASSUME Types, Short, [Next]_vars, NEW i \in Tracks, NEW k \in 1 .. Len(fifo'[i])
  PROVE  \/ \E j \in 1 .. Len(fifo[i]) : fifo'[i][k] = fifo[i][j]
         \/ /\ apc = "tracks" /\ fifo'[i][k] \in Frame
            /\ fifo'[i][k].pts <= video_pts
<1>1. /\ Tracks \subseteq Streams /\ Video \in Streams /\ Video \notin Tracks
      /\ DOMAIN fifo = Streams /\ DOMAIN free = Streams /\ DOMAIN st = Streams
      /\ fifo[i] \in Seq(Frame) /\ input \in Inputs
  BY TracksAre DEF Types, Shaped, Fifos
<1>2. fifo'[i] = fifo[i] => k \in 1 .. Len(fifo[i])
  OBVIOUS
<1>3. CASE fifo'[i] = fifo[i]
  BY <1>2, <1>3
<1>4. CASE WriteVideo
  BY <1>1, <1>3, <1>4, StoredElsewhere DEF WriteVideo
<1>5. CASE WriteTrack
  <2>1. /\ apc = "tracks" /\ TrackReady(atrack) /\ Stored(atrack, NextFrame(atrack))
    BY <1>5 DEF WriteTrack
  <2>2. CASE atrack # i
    BY <1>1, <1>3, <2>1, <2>2, StoredElsewhere
  <2>3. CASE atrack = i
    <3>1. /\ pos[i] \in 1 .. Len(file[i]) /\ NextFrame(i) = file[i][pos[i]]
          /\ NextFrame(i) \in Frame
      BY <1>1, <2>1, <2>3, NextFrameType DEF Types, TrackReady
    <3>2. NextFrame(i).pts <= video_pts
      BY <1>1, <2>1, <2>3, <3>1, FrameTimes DEF TrackReady
    <3>3. \/ fifo'[i] = Append(fifo[i], NextFrame(i)) \/ fifo'[i] = << >>
          \/ fifo'[i] = fifo[i]
      BY <1>1, <2>1, <2>3 DEF Stored
    <3>4. CASE fifo'[i] = Append(fifo[i], NextFrame(i))
      <4>1. /\ Len(fifo'[i]) = Len(fifo[i]) + 1 /\ Len(fifo[i]) \in Nat
            /\ fifo'[i][Len(fifo[i]) + 1] = NextFrame(i)
            /\ \A j \in 1 .. Len(fifo[i]) : fifo'[i][j] = fifo[i][j]
        BY <1>1, <3>1, <3>4
      <4>2. CASE k = Len(fifo[i]) + 1
        BY <2>1, <3>1, <3>2, <4>1, <4>2
      <4>3. CASE k # Len(fifo[i]) + 1
        <5>1. k \in 1 .. Len(fifo[i])
          BY <4>1, <4>3
        <5>. QED  BY <4>1, <5>1
      <4>. QED  BY <4>2, <4>3
    <3>5. CASE fifo'[i] = << >>
      BY <3>5
    <3>. QED  BY <1>3, <3>3, <3>4, <3>5
  <2>. QED  BY <2>2, <2>3
<1>6. CASE TakeVideo
  BY <1>1, <1>3, <1>6, TakeElsewhere DEF TakeVideo
<1>7. CASE TakeTrack
  <2>1. Take(mstream) /\ fifo[mstream] # << >>
    BY <1>7 DEF TakeTrack, TrackTakable
  <2>2. CASE mstream # i
    BY <1>1, <1>3, <2>1, <2>2, TakeElsewhere
  <2>3. CASE mstream = i
    <3>1. fifo' = [fifo EXCEPT ![mstream] = Tail(@)]
      BY <2>1, Zenon DEF Take
    <3>2. fifo'[i] = Tail(fifo[i]) /\ fifo[i] # << >>
      BY <1>1, <2>1, <2>3, <3>1
    <3>3. /\ Len(Tail(fifo[i])) = Len(fifo[i]) - 1 /\ Len(fifo[i]) \in Nat
          /\ \A j \in 1 .. Len(fifo[i]) - 1 : Tail(fifo[i])[j] = fifo[i][j + 1]
      BY <1>1, <3>2
    <3>4. k + 1 \in 1 .. Len(fifo[i]) /\ k \in 1 .. Len(fifo[i]) - 1
      BY <3>2, <3>3
    <3>. QED  BY <3>2, <3>3, <3>4
  <2>. QED  BY <2>2, <2>3
<1>8. CASE PeekVideo \/ LeaveTrack \/ VideoEnds \/ DrainRound \/ NoVideo \/ NoTrack
           \/ UNCHANGED vars
  BY <1>3, <1>8 DEF PeekVideo, LeaveTrack, VideoEnds, DrainRound, NoVideo, NoTrack, vars, fifovars
<1>. QED  BY <1>4, <1>5, <1>6, <1>7, <1>8 DEF Next, App, Mux

(* The last pts of a track is as before, or that of a frame which waited.  *)
LEMMA LastFrom ==
  ASSUME Types, Fed, Queued, Short, Exact, [Next]_vars, NEW i \in Tracks
  PROVE  \/ st'[i] = st[i]
         \/ \E j \in 1 .. Len(fifo[i]) : st'[i].last_pts = fifo[i][j].pts
<1>1. /\ Tracks \subseteq Streams /\ Video \in Streams /\ Video \notin Tracks
      /\ DOMAIN fifo = Streams /\ DOMAIN free = Streams /\ DOMAIN st = Streams
      /\ fifo[i] \in Seq(Frame) /\ input \in Inputs
  BY TracksAre DEF Types, Shaped, Fifos
<1>2. CASE TakeVideo
  BY <1>1, <1>2, TakeElsewhere DEF TakeVideo
<1>3. CASE TakeTrack
  <2>1. Take(mstream) /\ fifo[mstream] # << >> /\ mstream \in Streams
    BY <1>1, <1>3 DEF TakeTrack, TrackTakable
  <2>2. CASE mstream # i
    BY <1>1, <2>1, <2>2, TakeElsewhere
  <2>3. CASE mstream = i
    <3>1. st'[mstream].last_pts = Head(fifo[mstream]).pts
      BY <2>1, TakeExact
    <3>2. 1 \in 1 .. Len(fifo[i]) /\ Head(fifo[i]) = fifo[i][1]
      BY <1>1, <2>1, <2>3
    <3>. QED  BY <2>3, <3>1, <3>2
  <2>. QED  BY <2>2, <2>3
<1>4. CASE App \/ NoVideo \/ NoTrack \/ UNCHANGED vars
  BY <1>4 DEF App, WriteVideo, PeekVideo, WriteTrack, LeaveTrack, VideoEnds, DrainRound, NoVideo,
              NoTrack, vars, muxvars
<1>. QED  BY <1>2, <1>3, <1>4 DEF Next, Mux

(* No step takes a track beyond the video.                                 *)
LEMMA BehindStep ==
  ASSUME Types, Fed, Queued, Exact, BehindInv, [Next]_vars
  PROVE  BehindInv'
<1>1. /\ input' = input /\ Tracks' = Tracks /\ Streams' = Streams /\ file' = file
  BY InputStays DEF file
<1>2. Short' <=> Short
  BY <1>1 DEF Short, TimesOf
<1>3. \A b, t : SeenBy(b, t)' <=> SeenBy(b, t)
  BY <1>1 DEF SeenBy
<1>. SUFFICES ASSUME Short
              PROVE  /\ apc' = "tracks" => SeenBy(ReadTo', video_pts')
                     /\ \A i \in Tracks : \A k \in 1 .. Len(fifo'[i]) :
                          SeenBy(ReadTo', fifo'[i][k].pts)
                     /\ \A i \in Tracks :
                          st'[i].last_pts # Unset => SeenBy(ReadTo', st'[i].last_pts)
  BY <1>1, <1>2, Zenon DEF BehindInv, SeenBy
<1>4. /\ ReadTo \in Int /\ ReadTo' \in Int /\ ReadTo <= ReadTo'
  BY ReadOn
<1>5. /\ input \in Inputs /\ video_pts \in Int
      /\ \A i \in Tracks : \A k \in 1 .. Len(fifo[i]) : fifo[i][k].pts \in Int
      /\ \A i \in Tracks : st[i].last_pts \in Int
  <2>1. Tracks \subseteq Streams /\ input \in Inputs
    BY TracksAre DEF Types, Shaped
  <2>2. \A i \in Tracks : fifo[i] \in Seq(Frame)
    BY <2>1 DEF Types, TypeOK
  <2>3. \A i \in Tracks : \A k \in 1 .. Len(fifo[i]) : fifo[i][k] \in Frame
    BY <2>2
  <2>4. \A i \in Tracks : \A k \in 1 .. Len(fifo[i]) : fifo[i][k].pts \in Int
    BY <2>3 DEF Frame
  <2>5. st \in [Streams -> [last_pts : Int, last_dts : Int, min_dts_diff : Nat \ {0}]]
    BY DEF Types, TypeOK
  <2>6. \A i \in Tracks : st[i].last_pts \in Int
    BY <2>1, <2>5
  <2>7. video_pts \in Int
    BY DEF Types, TypeOK
  <2>. QED  BY <2>1, <2>4, <2>6, <2>7
<1>6. /\ apc = "tracks" => SeenBy(ReadTo, video_pts)
      /\ \A i \in Tracks : \A k \in 1 .. Len(fifo[i]) : SeenBy(ReadTo, fifo[i][k].pts)
      /\ \A i \in Tracks : st[i].last_pts # Unset => SeenBy(ReadTo, st[i].last_pts)
  BY DEF BehindInv
<1>7. \A t, u \in Int : t <= u /\ SeenBy(ReadTo, u) => SeenBy(ReadTo', t)
  BY <1>4, <1>5, SeenMore
<1>8. \A i \in Tracks : \A k \in 1 .. Len(fifo[i]) : SeenBy(ReadTo', fifo[i][k].pts)
  <2>. SUFFICES ASSUME NEW i \in Tracks, NEW k \in 1 .. Len(fifo[i])
                PROVE  SeenBy(ReadTo', fifo[i][k].pts)
    OBVIOUS
  <2>1. fifo[i][k].pts \in Int /\ SeenBy(ReadTo, fifo[i][k].pts)
    BY <1>5, <1>6
  <2>2. fifo[i][k].pts <= fifo[i][k].pts
    BY <2>1
  <2>. QED  BY <1>7, <2>1, <2>2
<1>9. apc' = "tracks" => SeenBy(ReadTo', video_pts')
  BY PassSeen
<1>10. ASSUME NEW i \in Tracks, NEW k \in 1 .. Len(fifo'[i])
       PROVE  SeenBy(ReadTo', fifo'[i][k].pts)
  <2>1. CASE \E j \in 1 .. Len(fifo[i]) : fifo'[i][k] = fifo[i][j]
    BY <1>8, <2>1
  <2>2. CASE apc = "tracks" /\ fifo'[i][k] \in Frame /\ fifo'[i][k].pts <= video_pts
    <3>1. fifo'[i][k].pts \in Int
      BY <2>2 DEF Frame
    <3>. QED  BY <1>5, <1>6, <1>7, <2>2, <3>1
  <2>. QED  BY <2>1, <2>2, WaitingFrom
<1>11. ASSUME NEW i \in Tracks, st'[i].last_pts # Unset
       PROVE  SeenBy(ReadTo', st'[i].last_pts)
  <2>1. CASE st'[i] = st[i]
    <3>1. st[i].last_pts \in Int /\ SeenBy(ReadTo, st[i].last_pts)
      BY <1>5, <1>6, <1>11, <2>1
    <3>2. st[i].last_pts <= st[i].last_pts
      BY <3>1
    <3>. QED  BY <1>7, <2>1, <3>1, <3>2
  <2>2. CASE \E j \in 1 .. Len(fifo[i]) : st'[i].last_pts = fifo[i][j].pts
    BY <1>8, <2>2
  <2>. QED  BY <2>1, <2>2, LastFrom
<1>. QED  BY <1>9, <1>10, <1>11

(* At first nothing was sent and nothing waits.                            *)
LEMMA BehindInit == Init => BehindInv
<1>. SUFFICES ASSUME Init PROVE BehindInv
  OBVIOUS
<1>1. Tracks \subseteq Streams
  BY TracksAre DEF Init
<1>2. /\ apc = "video"
      /\ \A i \in Tracks : fifo[i] = << >> /\ st[i] = new_stream
  BY <1>1 DEF Init
<1>3. new_stream.last_pts = Unset /\ Len(<< >>) = 0
  BY DEF new_stream
<1>. QED  BY <1>2, <1>3 DEF BehindInv

(* The tracks stay behind the video.                                       *)
LEMMA BehindIs ==
  ASSUME BehindInv
  PROVE  TracksBehindVideo
BY DEF BehindInv, TracksBehindVideo, SeenBy, ReadTo

-----------------------------------------------------------------------------
(* The first audio track begins, with a frame that its FIFO can take.      *)
Admitted ==
  /\ file[FirstAudio] # << >>
  /\ file[FirstAudio][1].size < Capacity(FirstAudio)

(* What the gate needs.                                                    *)
Gated == Short /\ ~filled /\ ~dropped /\ NumAud > 0 /\ Paced

(* The pts of the last packets are those of the last frames.               *)
SentTimes ==
  /\ sent[Video] > 0 => last_vid_pts = VTime(sent[Video])
  /\ st[FirstAudio].last_pts =
       IF sent[FirstAudio] = 0 THEN Unset ELSE ATime(sent[FirstAudio])

(* The first audio frame is written as soon as a video frame is as far,    *)
(* in the pass of that frame.                                              *)
FirstDue ==
  /\ pos[FirstAudio] > 1 => Admitted
  /\ (pos[FirstAudio] = 1 /\ Admitted) =>
       \A n \in 1 .. Len(file[Video]) : n < pos[Video] =>
         \/ VTime(n) < ATime(1)
         \/ /\ apc = "tracks" /\ atrack = FirstAudio
            /\ n = pos[Video] - 1 /\ VTime(n) <= video_pts

(* Before the first audio packet only the last video frame is beyond it,   *)
(* and the one before that if the muxing thread comes to the audio now.    *)
AheadOfFirst ==
  (sent[FirstAudio] = 0 /\ Admitted) =>
    /\ sent[Video] >= 1 => VTime(sent[Video]) <= ATime(1) + Gate
    /\ sent[Video] >= 2 =>
         \/ VTime(sent[Video]) < ATime(1)
         \/ VTime(sent[Video] - 1) < ATime(1)
         \/ mstream = FirstAudio /\ pos[FirstAudio] > 1

WithinGate ==
  (sent[Video] > 0 /\ sent[FirstAudio] > 0) =>
    last_vid_pts <= st[FirstAudio].last_pts + Gate


(* What was sent is from the files, and was read from them.                *)
LEMMA SentIn ==
  ASSUME Types, Fed, Queued, NEW s \in Streams
  PROVE  sent[s] \in Nat /\ sent[s] <= Len(file[s]) /\ sent[s] < pos[s] /\ pos[s] \in Nat
<1>1. sent[s] \in Nat /\ pos[s] \in Nat
  BY DEF Types, TypeOK
<1>2. fifo[s] \in Seq(Frame)
  BY DEF Types, TypeOK
<1>3. Len(fifo[s]) \in Nat
  BY <1>2
<1>4. Len(file[s]) \in Nat
  BY FilesAre DEF Types, Shaped
<1>5. sent[s] + Len(fifo[s]) < pos[s]
  BY DEF Queued
<1>6. pos[s] <= Len(file[s]) + 1
  BY DEF Fed
<1>. QED  BY <1>1, <1>3, <1>4, <1>5, <1>6

(* As long as no frame was lost, the first one that waits is the next one  *)
(* of its file.                                                            *)
LEMMA HeadIs ==
  ASSUME Types, Fed, Queued, Intact, Short, ~filled, ~dropped,
         NEW s \in Streams, fifo[s] # << >>
  PROVE  /\ sent[s] + 1 \in 1 .. Len(file[s]) /\ sent[s] + 1 < pos[s]
         /\ Head(fifo[s]) = file[s][sent[s] + 1]
         /\ HdrPts(Head(fifo[s])) = file[s][sent[s] + 1].pts
         /\ file[s][sent[s] + 1].pts \in Nat
<1>1. sent[s] \in Nat /\ sent[s] < Len(file[s])
  BY MoreToSend
<1>2. fifo[s] \in Seq(Frame) /\ pos[s] \in Nat /\ input \in Inputs
  BY DEF Types, TypeOK
<1>3. Len(fifo[s]) \in Nat \ {0} /\ Head(fifo[s]) = fifo[s][1]
  BY <1>2
<1>4. Len(file[s]) \in Nat
  BY <1>2, FilesAre
<1>5. sent[s] + Len(fifo[s]) + 1 = pos[s]
  BY DEF Intact
<1>6. fifo[s][1] = file[s][sent[s] + 1]
  BY <1>3 DEF Intact
<1>7. sent[s] + 1 \in 1 .. Len(file[s]) /\ sent[s] + 1 < pos[s]
  BY <1>1, <1>2, <1>3, <1>4, <1>5
<1>. QED  BY <1>2, <1>3, <1>6, <1>7, FrameTimes

(* What taking that frame changes.                                         *)
LEMMA TakeNext ==
  ASSUME Types, Fed, Queued, Intact, Short, Exact, ~filled, ~dropped,
         NEW STATE s, s \in Streams, fifo[s] # << >>, Take(s)
  PROVE  /\ sent'[s] = sent[s] + 1
         /\ \A o \in Streams : o # s => sent'[o] = sent[o] /\ st'[o] = st[o]
         /\ st'[s].last_pts = file[s][sent[s] + 1].pts
         /\ last_vid_pts' = IF s = Video THEN file[s][sent[s] + 1].pts ELSE last_vid_pts
<1>1. Head(fifo[s]) = file[s][sent[s] + 1]
  BY HeadIs
<1>2. /\ st'[s].last_pts = Head(fifo[s]).pts
      /\ s = Video => last_vid_pts' = Head(fifo[s]).pts
  BY TakeExact
<1>3. /\ DOMAIN fifo = Streams /\ DOMAIN free = Streams /\ DOMAIN st = Streams
      /\ sent \in [Streams -> Nat]
  BY DEF Types, Shaped, TypeOK, Fifos
<1>4. sent' = [sent EXCEPT ![s] = @ + 1]
  BY Zenon DEF Take
<1>5. sent'[s] = sent[s] + 1 /\ \A o \in Streams : o # s => sent'[o] = sent[o]
  BY <1>3, <1>4
<1>6. /\ \A o \in Streams : o # s => st'[o] = st[o]
      /\ s # Video => last_vid_pts' = last_vid_pts
  BY <1>3, TakeElsewhere
<1>. QED  BY <1>1, <1>2, <1>5, <1>6

(* A FIFO that lost a frame has.                                           *)
LEMMA HistoryStays ==
  ASSUME [Next]_vars, ~filled', ~dropped', Types
  PROVE  ~filled /\ ~dropped
<1>1. filled \in BOOLEAN /\ dropped \in BOOLEAN
  BY DEF Types, TypeOK
<1>2. ASSUME NEW STATE s, NEW STATE f, Stored(s, f)
      PROVE  ~filled /\ ~dropped
  BY <1>1, <1>2, Zenon DEF Stored
<1>3. ASSUME NEW STATE s, Take(s)
      PROVE  ~filled /\ ~dropped
  BY <1>3, Zenon DEF Take
<1>4. UNCHANGED <<filled, dropped>> => ~filled /\ ~dropped
  OBVIOUS
<1>5. App => ~filled /\ ~dropped
  BY <1>2, <1>4 DEF App, WriteVideo, PeekVideo, WriteTrack, LeaveTrack, VideoEnds, DrainRound,
                    fifovars
<1>6. Mux => ~filled /\ ~dropped
  BY <1>3, <1>4 DEF Mux, TakeVideo, NoVideo, TakeTrack, NoTrack, fifovars
<1>7. UNCHANGED vars => ~filled /\ ~dropped
  BY <1>4 DEF vars, fifovars
<1>. QED  BY <1>5, <1>6, <1>7 DEF Next

(* A step of the gated system starts in one, and its files are the same.   *)
LEMMA GatedStays ==
  ASSUME Types, [Next]_vars, Gated'
  PROVE  /\ Gated /\ file' = file /\ Streams' = Streams /\ Tracks' = Tracks
         /\ FirstAudio \in Tracks /\ FirstAudio \in Streams /\ Video \in Streams
         /\ FirstAudio # Video /\ Video \notin Tracks /\ Tracks \subseteq Streams
         /\ After(Video) = FirstAudio
         /\ Admitted' = Admitted
<1>1. /\ input' = input /\ Tracks' = Tracks /\ Streams' = Streams /\ file' = file
      /\ NumAud' = NumAud
  BY InputStays DEF file
<1>2. Short' = Short /\ Paced' = Paced /\ Admitted' = Admitted
  BY <1>1 DEF Short, Paced, TimesOf, Admitted, Capacity, VTime, ATime
<1>3. Gated
  BY <1>1, <1>2, HistoryStays DEF Gated
<1>4. /\ Tracks \subseteq Streams /\ Video \in Streams /\ Video \notin Tracks
      /\ FirstAudio \in Tracks
  BY <1>3, TracksAre DEF Types, TypeOK, Gated
<1>5. After(Video) = FirstAudio
  BY <1>4 DEF After, Video, FirstAudio
<1>. QED  BY <1>1, <1>2, <1>3, <1>4, <1>5

-----------------------------------------------------------------------------
(* The times of the last packets are kept by every step.                   *)
LEMMA SentTimesStep ==
  ASSUME Types, Fed, Queued, Intact, Exact, Gated', [Next]_vars, SentTimes
  PROVE  SentTimes'
<1>1. /\ Gated /\ file' = file
      /\ FirstAudio \in Tracks /\ FirstAudio \in Streams /\ Video \in Streams
      /\ FirstAudio # Video /\ Video \notin Tracks /\ Tracks \subseteq Streams
  BY GatedStays
<1>2. Short /\ ~filled /\ ~dropped
  BY <1>1 DEF Gated
<1>3. sent[Video] \in Nat /\ sent[FirstAudio] \in Nat
  BY <1>1, SentIn
<1>4. SUFFICES /\ sent'[Video] > 0 => last_vid_pts' = VTime(sent'[Video])
               /\ st'[FirstAudio].last_pts =
                    IF sent'[FirstAudio] = 0 THEN Unset ELSE ATime(sent'[FirstAudio])
  BY <1>1, <1>4 DEF SentTimes, VTime, ATime
<1>5. CASE TakeVideo
  <2>1. Take(Video) /\ fifo[Video] # << >>
    BY <1>5 DEF TakeVideo, VideoReady
  <2>2. /\ sent'[Video] = sent[Video] + 1 /\ sent'[FirstAudio] = sent[FirstAudio]
        /\ st'[FirstAudio] = st[FirstAudio] /\ last_vid_pts' = VTime(sent[Video] + 1)
    BY <1>1, <1>2, <2>1, TakeNext DEF VTime
  <2>. QED  BY <2>2 DEF SentTimes
<1>6. CASE TakeTrack
  <2>1. Take(mstream) /\ fifo[mstream] # << >> /\ mstream \in Streams /\ mstream # Video
    BY <1>1, <1>6 DEF TakeTrack, TrackTakable
  <2>2. /\ sent'[mstream] = sent[mstream] + 1
        /\ \A o \in Streams : o # mstream => sent'[o] = sent[o] /\ st'[o] = st[o]
        /\ st'[mstream].last_pts = file[mstream][sent[mstream] + 1].pts
        /\ last_vid_pts' = last_vid_pts
    BY <1>2, <2>1, TakeNext
  <2>3. sent'[Video] = sent[Video]
    BY <1>1, <2>1, <2>2
  <2>4. CASE mstream = FirstAudio
    <3>1. sent'[FirstAudio] # 0
      BY <1>3, <2>2, <2>4
    <3>2. st'[FirstAudio].last_pts = ATime(sent'[FirstAudio])
      BY <2>2, <2>4 DEF ATime
    <3>. QED  BY <2>2, <2>3, <3>1, <3>2 DEF SentTimes
  <2>5. CASE mstream # FirstAudio
    <3>1. sent'[FirstAudio] = sent[FirstAudio] /\ st'[FirstAudio] = st[FirstAudio]
      BY <1>1, <2>2, <2>5
    <3>. QED  BY <2>2, <2>3, <3>1 DEF SentTimes
  <2>. QED  BY <2>4, <2>5
<1>7. CASE App \/ NoVideo \/ NoTrack \/ UNCHANGED vars
  <2>1. sent' = sent /\ st' = st /\ last_vid_pts' = last_vid_pts
    BY <1>7 DEF App, WriteVideo, PeekVideo, WriteTrack, LeaveTrack, VideoEnds, DrainRound, NoVideo,
                NoTrack, vars, muxvars
  <2>. QED  BY <2>1 DEF SentTimes
<1>. QED  BY <1>5, <1>6, <1>7 DEF Next, Mux

(* The first audio frame that can be written finds room.                   *)
LEMMA FirstRoom ==
  ASSUME Types, Fed, Queued, Intact, Gated, pos[FirstAudio] = 1, Admitted
  PROVE  /\ ~AtEnd(FirstAudio) /\ Room(FirstAudio, NextFrame(FirstAudio))
         /\ HdrPts(NextFrame(FirstAudio)) = ATime(1) /\ ATime(1) \in Nat
<1>1. FirstAudio \in Streams /\ input \in Inputs
  BY TracksAre DEF Types, TypeOK, Gated
<1>2. file[FirstAudio] \in Seq(Frame) /\ file[FirstAudio] # << >>
  BY <1>1, FilesAre DEF Admitted
<1>3. 1 \in 1 .. Len(file[FirstAudio]) /\ 1 <= Len(file[FirstAudio])
      /\ Len(file[FirstAudio]) \in Nat
  BY <1>2
<1>4. NextFrame(FirstAudio) = file[FirstAudio][1] /\ ~AtEnd(FirstAudio)
  BY <1>3 DEF NextFrame, AtEnd
<1>5. fifo[FirstAudio] \in Seq(Frame) /\ sent[FirstAudio] \in Nat
  BY <1>1 DEF Types, TypeOK
<1>6. sent[FirstAudio] + Len(fifo[FirstAudio]) + 1 = 1
  BY <1>1 DEF Intact, Gated
<1>7. Len(fifo[FirstAudio]) = 0
  <2>1. Len(fifo[FirstAudio]) \in Nat
    BY <1>5
  <2>. QED  BY <1>5, <1>6, <2>1
<1>8. Holds(fifo[FirstAudio], Capacity(FirstAudio) - free[FirstAudio])
  BY <1>1 DEF Types, Fifos
<1>9. Capacity(FirstAudio) - free[FirstAudio] = 0
  BY <1>7, <1>8 DEF Holds
<1>10. Capacity(FirstAudio) \in Nat /\ free[FirstAudio] \in Nat
  <2>1. Capacity(FirstAudio) \in Nat
    BY CapacityType
  <2>. QED  BY <1>1, <2>1 DEF Types, Fifos
<1>11. free[FirstAudio] = Capacity(FirstAudio)
  BY <1>9, <1>10
<1>12. Room(FirstAudio, NextFrame(FirstAudio))
  <2>1. file[FirstAudio][1].size < Capacity(FirstAudio)
    BY DEF Admitted
  <2>2. file[FirstAudio][1].size \in Nat
    BY <1>1, <1>3, FilesAre, HeaderType
  <2>. QED  BY <1>4, <1>10, <1>11, <2>1, <2>2 DEF Room
<1>13. HdrPts(file[FirstAudio][1]) = ATime(1) /\ ATime(1) \in Nat
  BY <1>1, <1>3, FrameTimes DEF ATime, Gated
<1>. QED  BY <1>4, <1>12, <1>13

(* The first audio frame is written when it is due.                        *)
LEMMA FirstDueStep ==
  ASSUME Types, Fed, Queued, Intact, Gated', [Next]_vars, FirstDue
  PROVE  FirstDue'
<1>1. /\ Gated /\ file' = file /\ Admitted' = Admitted
      /\ FirstAudio \in Tracks /\ FirstAudio \in Streams /\ Video \in Streams
      /\ FirstAudio # Video /\ Video \notin Tracks /\ Tracks \subseteq Streams
  BY GatedStays
<1>2. /\ DOMAIN pos = Streams /\ pos[Video] \in Nat /\ pos[FirstAudio] \in Nat \ {0}
      /\ input \in Inputs /\ video_pts \in Nat
  BY <1>1 DEF Types, TypeOK, Shaped
<1>. DEFINE Passing(n) == /\ apc = "tracks" /\ atrack = FirstAudio
                          /\ n = pos[Video] - 1 /\ VTime(n) <= video_pts
            PassingNext(n) == /\ apc' = "tracks" /\ atrack' = FirstAudio
                              /\ n = pos'[Video] - 1 /\ VTime(n) <= video_pts'
<1>3. SUFFICES /\ pos'[FirstAudio] > 1 => Admitted
               /\ (pos'[FirstAudio] = 1 /\ Admitted) =>
                    \A n \in 1 .. Len(file[Video]) : n < pos'[Video] =>
                      VTime(n) < ATime(1) \/ PassingNext(n)
  BY <1>1, <1>3 DEF FirstDue, VTime, ATime
<1>4. /\ pos[FirstAudio] > 1 => Admitted
      /\ (pos[FirstAudio] = 1 /\ Admitted) =>
           \A n \in 1 .. Len(file[Video]) : n < pos[Video] =>
             VTime(n) < ATime(1) \/ Passing(n)
  BY DEF FirstDue
<1>5. ASSUME pos' = pos, apc' = apc, atrack' = atrack, video_pts' = video_pts
      PROVE  /\ pos'[FirstAudio] > 1 => Admitted
             /\ (pos'[FirstAudio] = 1 /\ Admitted) =>
                  \A n \in 1 .. Len(file[Video]) : n < pos'[Video] =>
                    VTime(n) < ATime(1) \/ PassingNext(n)
  BY <1>4, <1>5
<1>6. CASE WriteVideo
  <2>1. /\ apc = "video" /\ ~AtEnd(Video) /\ pos' = [pos EXCEPT ![Video] = @ + 1]
        /\ video_pts' = HdrPts(NextFrame(Video)) /\ ToTrack(1)
    BY <1>6 DEF WriteVideo
  <2>2. pos'[Video] = pos[Video] + 1 /\ pos'[FirstAudio] = pos[FirstAudio]
    BY <1>1, <1>2, <2>1
  <2>3. apc' = "tracks" /\ atrack' = FirstAudio
    BY <1>1, <2>1, ToTrackIs DEF FirstAudio
  <2>4. /\ pos[Video] \in 1 .. Len(file[Video]) /\ NextFrame(Video) = file[Video][pos[Video]]
    BY <1>1, <2>1, NextFrameType DEF Types
  <2>5. video_pts' = VTime(pos[Video]) /\ VTime(pos[Video]) \in Nat
    BY <1>1, <1>2, <2>1, <2>4, FrameTimes DEF Gated, VTime
  <2>6. ASSUME pos[FirstAudio] = 1, Admitted,
               NEW n \in 1 .. Len(file[Video]), n < pos'[Video]
        PROVE  VTime(n) < ATime(1) \/ PassingNext(n)
    <3>1. CASE n = pos[Video]
      <4>1. n = pos'[Video] - 1
        BY <1>2, <2>2, <3>1
      <4>2. VTime(n) <= video_pts'
        BY <2>5, <3>1
      <4>. QED  BY <2>3, <4>1, <4>2
    <3>2. CASE n # pos[Video]
      <4>1. n < pos[Video]
        BY <1>2, <2>2, <2>6, <3>2
      <4>. QED  BY <1>4, <2>1, <2>6, <4>1
    <3>. QED  BY <3>1, <3>2
  <2>. QED  BY <1>4, <2>2, <2>6
<1>7. CASE PeekVideo
  <2>1. apc = "video" /\ pos' = pos
    BY <1>7 DEF PeekVideo
  <2>. QED  BY <1>4, <2>1
<1>8. CASE WriteTrack
  <2>1. /\ apc = "tracks" /\ atrack \in Tracks /\ TrackReady(atrack)
        /\ pos' = [pos EXCEPT ![atrack] = @ + 1] /\ video_pts' = video_pts
    BY <1>8 DEF WriteTrack, Types, TypeOK
  <2>2. pos'[Video] = pos[Video]
    BY <1>1, <1>2, <2>1
  <2>3. CASE atrack = FirstAudio
    <3>1. pos'[FirstAudio] = pos[FirstAudio] + 1
      BY <1>1, <1>2, <2>1, <2>3
    <3>2. pos'[FirstAudio] # 1
      BY <1>2, <3>1
    <3>3. Admitted
      <4>1. CASE pos[FirstAudio] > 1
        BY <1>4, <4>1
      <4>2. CASE pos[FirstAudio] = 1
        <5>1. ~AtEnd(FirstAudio) /\ free[FirstAudio] > NextFrame(FirstAudio).size
          BY <2>1, <2>3 DEF TrackReady, Room
        <5>2. 1 \in 1 .. Len(file[FirstAudio]) /\ NextFrame(FirstAudio) = file[FirstAudio][1]
          BY <1>1, <4>2, <5>1, NextFrameType DEF Types
        <5>3. file[FirstAudio] # << >>
          BY <5>2
        <5>4. /\ file[FirstAudio][1].size \in Nat
          BY <1>1, <1>2, <5>2, FilesAre, HeaderType
        <5>5. free[FirstAudio] \in 1 .. Capacity(FirstAudio)
          BY <1>1 DEF Types, TypeOK
        <5>6. Capacity(FirstAudio) \in Nat
          BY CapacityType
        <5>7. file[FirstAudio][1].size < Capacity(FirstAudio)
          BY <5>1, <5>2, <5>4, <5>5, <5>6
        <5>. QED  BY <5>3, <5>7 DEF Admitted
      <4>. QED  BY <1>2, <4>1, <4>2
    <3>. QED  BY <3>2, <3>3
  <2>4. CASE atrack # FirstAudio
    <3>1. pos'[FirstAudio] = pos[FirstAudio]
      BY <1>1, <1>2, <2>1, <2>4
    <3>. QED  BY <1>4, <2>2, <2>4, <3>1
  <2>. QED  BY <2>3, <2>4
<1>9. CASE LeaveTrack
  <2>1. pos' = pos /\ ~TrackReady(atrack)
    BY <1>9 DEF LeaveTrack
  <2>2. ASSUME pos[FirstAudio] = 1, Admitted, NEW n \in 1 .. Len(file[Video]), n < pos[Video]
        PROVE  VTime(n) < ATime(1)
    <3>1. CASE Passing(n)
      <4>1. /\ ~AtEnd(FirstAudio) /\ Room(FirstAudio, NextFrame(FirstAudio))
            /\ HdrPts(NextFrame(FirstAudio)) = ATime(1) /\ ATime(1) \in Nat
        BY <1>1, <2>2, FirstRoom
      <4>2. ~(ATime(1) <= video_pts)
        BY <2>1, <3>1, <4>1 DEF TrackReady
      <4>3. VTime(n) \in Nat
        BY <1>1, <1>2, FilesAre, HeaderType DEF VTime
      <4>. QED  BY <1>2, <3>1, <4>1, <4>2, <4>3
    <3>. QED  BY <1>4, <2>2, <3>1
  <2>. QED  BY <1>4, <2>1, <2>2
<1>10. CASE VideoEnds \/ DrainRound
  <2>1. pos' = pos /\ apc # "tracks"
    BY <1>10 DEF VideoEnds, DrainRound
  <2>. QED  BY <1>4, <2>1
<1>11. CASE Mux \/ UNCHANGED vars
  BY <1>5, <1>11 DEF Mux, TakeVideo, NoVideo, TakeTrack, NoTrack, vars, appvars
<1>. QED  BY <1>6, <1>7, <1>8, <1>9, <1>10, <1>11 DEF Next, App

-----------------------------------------------------------------------------
(* The first audio packet, when it waits, is not passed by for the sake of *)
(* the next video frame.                                                   *)
LEMMA AheadStep ==
  ASSUME Types, Fed, Queued, Intact, Exact, Gated', [Next]_vars,
         SentTimes, FirstDue, AheadOfFirst
  PROVE  AheadOfFirst'
<1>1. /\ Gated /\ file' = file /\ Admitted' = Admitted
      /\ FirstAudio \in Tracks /\ FirstAudio \in Streams /\ Video \in Streams
      /\ FirstAudio # Video /\ Video \notin Tracks /\ Tracks \subseteq Streams
      /\ After(Video) = FirstAudio
  BY GatedStays
<1>2. Short /\ ~filled /\ ~dropped /\ Paced
  BY <1>1 DEF Gated
<1>3. /\ sent[Video] \in Nat /\ sent[FirstAudio] \in Nat
      /\ sent[Video] < pos[Video] /\ sent[Video] <= Len(file[Video])
      /\ pos[FirstAudio] \in Nat /\ pos[Video] \in Nat
  BY <1>1, SentIn
<1>4. /\ input \in Inputs /\ Len(file[Video]) \in Nat /\ DOMAIN pos = Streams
      /\ \A n \in 1 .. Len(file[Video]) : VTime(n) \in Nat
  BY <1>1, FilesAre, HeaderType DEF Types, TypeOK, Shaped, VTime
<1>5. SUFFICES
        ASSUME sent'[FirstAudio] = 0, Admitted
        PROVE  /\ sent'[Video] >= 1 => VTime(sent'[Video]) <= ATime(1) + Gate
               /\ sent'[Video] >= 2 =>
                    \/ VTime(sent'[Video]) < ATime(1)
                    \/ VTime(sent'[Video] - 1) < ATime(1)
                    \/ mstream' = FirstAudio /\ pos'[FirstAudio] > 1
  BY <1>1, <1>5 DEF AheadOfFirst, VTime, ATime
<1>6. sent[FirstAudio] = 0 =>
        /\ sent[Video] >= 1 => VTime(sent[Video]) <= ATime(1) + Gate
        /\ sent[Video] >= 2 =>
             \/ VTime(sent[Video]) < ATime(1)
             \/ VTime(sent[Video] - 1) < ATime(1)
             \/ mstream = FirstAudio /\ pos[FirstAudio] > 1
  BY <1>5 DEF AheadOfFirst
<1>7. CASE TakeVideo
  <2>1. Take(Video) /\ fifo[Video] # << >> /\ mstream = Video /\ mstream' = FirstAudio
        /\ pos' = pos
    BY <1>1, <1>7 DEF TakeVideo, VideoReady, appvars
  <2>2. sent'[Video] = sent[Video] + 1 /\ sent'[FirstAudio] = sent[FirstAudio]
    BY <1>1, <1>2, <2>1, TakeNext
  <2>3. sent[Video] + 1 \in 1 .. Len(file[Video]) /\ sent[Video] + 1 < pos[Video]
    BY <1>1, <1>2, <2>1, HeadIs
  <2>. DEFINE n == sent[Video] + 1
  <2>4. sent[Video] >= 2 => VTime(sent[Video]) < ATime(1) \/ VTime(sent[Video] - 1) < ATime(1)
    BY <1>1, <1>5, <1>6, <2>1, <2>2
  <2>5. VTime(n) <= ATime(1) + Gate
    <3>1. \A m \in 1 .. Len(file[Video]) :
            (m <= 2 \/ VTime(m - 1) < ATime(1) \/ VTime(m - 2) < ATime(1)) =>
              VTime(m) <= ATime(1) + Gate
      BY <1>2, <1>5 DEF Paced, Admitted, VTime, ATime
    <3>2. n <= 2 \/ VTime(n - 1) < ATime(1) \/ VTime(n - 2) < ATime(1)
      <4>1. n - 1 = sent[Video] /\ n - 2 = sent[Video] - 1 /\ (n <= 2 \/ sent[Video] >= 2)
        BY <1>3
      <4>. QED  BY <2>4, <4>1
    <3>3. n \in 1 .. Len(file[Video])
      BY <2>3
    <3>. HIDE DEF n
    <3>. QED  BY <3>1, <3>2, <3>3
  <2>6. n >= 2 => VTime(n - 1) < ATime(1) \/ pos[FirstAudio] > 1
    <3>. SUFFICES ASSUME n >= 2, ~(pos[FirstAudio] > 1) PROVE VTime(n - 1) < ATime(1)
      OBVIOUS
    <3>1. pos[FirstAudio] = 1
      <4>1. pos[FirstAudio] \in Nat \ {0}
        BY <1>1 DEF Types, TypeOK
      <4>. QED  BY <4>1
    <3>2. n - 1 \in 1 .. Len(file[Video]) /\ n - 1 < pos[Video] /\ n - 1 # pos[Video] - 1
      BY <1>3, <1>4, <2>3
    <3>. HIDE DEF n
    <3>. QED  BY <1>5, <3>1, <3>2 DEF FirstDue
  <2>. QED  BY <2>1, <2>2, <2>5, <2>6
<1>8. CASE NoVideo
  <2>1. sent' = sent /\ mstream = Video /\ pos' = pos
    BY <1>8 DEF NoVideo, appvars
  <2>. QED  BY <1>1, <1>5, <1>6, <2>1
<1>9. CASE TakeTrack
  <2>1. Take(mstream) /\ fifo[mstream] # << >> /\ mstream \in Streams /\ mstream # Video
        /\ mstream' = mstream /\ pos' = pos
    BY <1>1, <1>9 DEF TakeTrack, TrackTakable, appvars
  <2>2. /\ sent'[mstream] = sent[mstream] + 1
        /\ \A o \in Streams : o # mstream => sent'[o] = sent[o]
    BY <1>2, <2>1, TakeNext
  <2>3. mstream # FirstAudio
    <3>. SUFFICES ASSUME mstream = FirstAudio PROVE FALSE
      OBVIOUS
    <3>1. sent[FirstAudio] + 1 = 0
      BY <1>5, <2>2
    <3>. QED  BY <1>3, <3>1
  <2>4. sent'[FirstAudio] = sent[FirstAudio] /\ sent'[Video] = sent[Video]
    BY <1>1, <2>1, <2>2, <2>3
  <2>. QED  BY <1>5, <1>6, <2>1, <2>4
<1>10. CASE NoTrack
  <2>1. sent' = sent /\ pos' = pos /\ ~TrackTakable(mstream)
    BY <1>10 DEF NoTrack, appvars
  <2>2. ASSUME sent[Video] >= 2, mstream = FirstAudio, pos[FirstAudio] > 1
        PROVE  VTime(sent[Video]) < ATime(1)
    <3>1. fifo[FirstAudio] # << >>
      <4>1. sent[FirstAudio] + Len(fifo[FirstAudio]) + 1 = pos[FirstAudio]
        BY <1>1, <1>2 DEF Intact
      <4>2. sent[FirstAudio] = 0
        BY <1>5, <2>1
      <4>3. Len(<< >>) = 0
        OBVIOUS
      <4>4. 0 + 0 + 1 # pos[FirstAudio]
        BY <1>3, <2>2
      <4>. QED  BY <4>1, <4>2, <4>3, <4>4
    <3>2. HdrPts(Head(fifo[FirstAudio])) = ATime(sent[FirstAudio] + 1)
          /\ ATime(sent[FirstAudio] + 1) \in Nat
      BY <1>1, <1>2, <3>1, HeadIs DEF ATime
    <3>3. sent[FirstAudio] + 1 = 1
      BY <1>5, <2>1
    <3>4. last_vid_pts = VTime(sent[Video])
      BY <1>3, <2>2 DEF SentTimes
    <3>5. ~(ATime(1) <= last_vid_pts)
      BY <2>1, <2>2, <3>1, <3>2, <3>3 DEF TrackTakable
    <3>6. VTime(sent[Video]) \in Nat
      BY <1>3, <1>4, <2>2
    <3>. QED  BY <3>2, <3>3, <3>4, <3>5, <3>6
  <2>. QED  BY <1>5, <1>6, <2>1, <2>2
<1>11. CASE App \/ UNCHANGED vars
  <2>1. sent' = sent /\ mstream' = mstream
    BY <1>11 DEF App, WriteVideo, PeekVideo, WriteTrack, LeaveTrack, VideoEnds, DrainRound, vars,
                 muxvars
  <2>2. pos[FirstAudio] > 1 => pos'[FirstAudio] > 1
    <3>1. CASE WriteVideo
      BY <1>1, <1>4, <3>1 DEF WriteVideo
    <3>2. CASE WriteTrack
      <4>1. pos' = [pos EXCEPT ![atrack] = @ + 1]
        BY <3>2 DEF WriteTrack
      <4>2. pos'[FirstAudio] = pos[FirstAudio] \/ pos'[FirstAudio] = pos[FirstAudio] + 1
        BY <1>1, <1>4, <4>1
      <4>. QED  BY <1>3, <4>2
    <3>3. CASE PeekVideo \/ LeaveTrack \/ VideoEnds \/ DrainRound \/ UNCHANGED vars
      BY <3>3 DEF PeekVideo, LeaveTrack, VideoEnds, DrainRound, vars, appvars
    <3>. QED  BY <1>11, <3>1, <3>2, <3>3 DEF App
  <2>. QED  BY <1>5, <1>6, <2>1, <2>2
<1>. QED  BY <1>7, <1>8, <1>9, <1>10, <1>11 DEF Next, Mux

(* The video stays within the gate.                                        *)
LEMMA GateStep ==
  ASSUME Types, Fed, Queued, Intact, Exact, Gated', [Next]_vars,
         SentTimes, FirstDue, AheadOfFirst, WithinGate
  PROVE  WithinGate'
<1>1. /\ Gated /\ file' = file
      /\ FirstAudio \in Tracks /\ FirstAudio \in Streams /\ Video \in Streams
      /\ FirstAudio # Video /\ Video \notin Tracks /\ Tracks \subseteq Streams
  BY GatedStays
<1>2. Short /\ ~filled /\ ~dropped /\ Paced /\ NumAud > 0
  BY <1>1 DEF Gated
<1>3. /\ sent[Video] \in Nat /\ sent[FirstAudio] \in Nat
      /\ sent[Video] < pos[Video] /\ sent[Video] <= Len(file[Video])
      /\ sent[FirstAudio] < pos[FirstAudio] /\ sent[FirstAudio] <= Len(file[FirstAudio])
      /\ pos[FirstAudio] \in Nat
  BY <1>1, SentIn
<1>4. /\ input \in Inputs /\ Gate \in Nat
      /\ Len(file[Video]) \in Nat /\ Len(file[FirstAudio]) \in Nat
      /\ \A n \in 1 .. Len(file[Video]) : VTime(n) \in Nat
      /\ \A n \in 1 .. Len(file[FirstAudio]) : ATime(n) \in Nat
  BY <1>1, FilesAre, HeaderType, LimitsAssumption DEF Types, TypeOK, VTime, ATime
<1>5. SUFFICES ASSUME sent'[Video] > 0, sent'[FirstAudio] > 0
               PROVE  last_vid_pts' <= st'[FirstAudio].last_pts + Gate
  BY <1>1, <1>5 DEF WithinGate
<1>6. CASE TakeVideo
  <2>1. Take(Video) /\ fifo[Video] # << >> /\ VideoReady
    BY <1>6 DEF TakeVideo, VideoReady
  <2>2. /\ sent'[FirstAudio] = sent[FirstAudio] /\ st'[FirstAudio] = st[FirstAudio]
        /\ last_vid_pts' = VTime(sent[Video] + 1)
    BY <1>1, <1>2, <2>1, TakeNext DEF VTime
  <2>3. st[FirstAudio].last_pts = ATime(sent[FirstAudio])
    BY <1>5, <2>2 DEF SentTimes
  <2>4. ATime(sent[FirstAudio]) \in Nat
    BY <1>3, <1>4, <1>5, <2>2
  <2>5. HdrPts(Head(fifo[Video])) = VTime(sent[Video] + 1)
    BY <1>1, <1>2, <2>1, HeadIs DEF VTime
  <2>6. ~Unlimited
    <3>1. st[FirstAudio].last_pts # Unset
      BY <2>3, <2>4 DEF Unset
    <3>. QED  BY <1>2, <3>1 DEF Unlimited
  <2>7. HdrPts(Head(fifo[Video])) <= st[FirstAudio].last_pts + Gate
    BY <1>2, <2>1, <2>6 DEF VideoReady, VideoLimit
  <2>. QED  BY <2>2, <2>5, <2>7
<1>7. CASE TakeTrack
  <2>1. Take(mstream) /\ fifo[mstream] # << >> /\ mstream \in Streams /\ mstream # Video
    BY <1>1, <1>7 DEF TakeTrack, TrackTakable
  <2>2. /\ sent'[mstream] = sent[mstream] + 1
        /\ \A o \in Streams : o # mstream => sent'[o] = sent[o] /\ st'[o] = st[o]
        /\ st'[mstream].last_pts = file[mstream][sent[mstream] + 1].pts
        /\ last_vid_pts' = last_vid_pts
    BY <1>2, <2>1, TakeNext
  <2>3. sent'[Video] = sent[Video] /\ last_vid_pts = VTime(sent[Video])
        /\ VTime(sent[Video]) \in Nat
    <3>1. sent'[Video] = sent[Video]
      BY <1>1, <2>1, <2>2
    <3>. QED  BY <1>3, <1>4, <1>5, <3>1 DEF SentTimes
  <2>4. CASE mstream # FirstAudio
    <3>1. sent'[FirstAudio] = sent[FirstAudio] /\ st'[FirstAudio] = st[FirstAudio]
      BY <1>1, <2>2, <2>4
    <3>. QED  BY <1>5, <2>2, <2>3, <3>1 DEF WithinGate
  <2>5. CASE mstream = FirstAudio
    <3>1. /\ sent[FirstAudio] + 1 \in 1 .. Len(file[FirstAudio])
          /\ sent[FirstAudio] + 1 < pos[FirstAudio]
      BY <1>1, <1>2, <2>1, <2>5, HeadIs
    <3>2. st'[FirstAudio].last_pts = ATime(sent[FirstAudio] + 1)
      BY <2>2, <2>5 DEF ATime
    <3>3. ATime(sent[FirstAudio] + 1) \in Nat
      BY <1>4, <3>1
    <3>4. CASE sent[FirstAudio] = 0
      <4>1. pos[FirstAudio] > 1
        BY <1>3, <3>1, <3>4
      <4>2. Admitted
        BY <4>1 DEF FirstDue
      <4>3. sent[Video] >= 1
        BY <1>3, <1>5, <2>3
      <4>4. VTime(sent[Video]) <= ATime(1) + Gate
        BY <3>4, <4>2, <4>3 DEF AheadOfFirst
      <4>. QED  BY <2>2, <2>3, <3>2, <3>4, <4>4
    <3>5. CASE sent[FirstAudio] # 0
      <4>1. sent[FirstAudio] \in 1 .. Len(file[FirstAudio])
            /\ sent[FirstAudio] < sent[FirstAudio] + 1 /\ sent[FirstAudio] > 0
        BY <1>3, <1>4, <3>5
      <4>2. ATime(sent[FirstAudio]) <= ATime(sent[FirstAudio] + 1)
        BY <1>2, <3>1, <4>1 DEF Paced, ATime
      <4>3. st[FirstAudio].last_pts = ATime(sent[FirstAudio])
        BY <3>5 DEF SentTimes
      <4>4. last_vid_pts <= st[FirstAudio].last_pts + Gate
        BY <1>5, <2>3, <4>1 DEF WithinGate
      <4>5. ATime(sent[FirstAudio]) \in Nat
        BY <1>4, <4>1
      <4>. HIDE DEF ATime
      <4>. QED  BY <1>4, <2>2, <2>3, <3>2, <3>3, <4>2, <4>3, <4>4, <4>5
    <3>. QED  BY <3>4, <3>5
  <2>. QED  BY <2>4, <2>5
<1>8. CASE App \/ NoVideo \/ NoTrack \/ UNCHANGED vars
  <2>1. sent' = sent /\ st' = st /\ last_vid_pts' = last_vid_pts
    BY <1>8 DEF App, WriteVideo, PeekVideo, WriteTrack, LeaveTrack, VideoEnds, DrainRound, NoVideo,
                NoTrack, vars, muxvars
  <2>. QED  BY <1>5, <2>1 DEF WithinGate
<1>. QED  BY <1>6, <1>7, <1>8 DEF Next, Mux

(* All of it together.                                                     *)
GateInv == Gated => SentTimes /\ FirstDue /\ AheadOfFirst /\ WithinGate

(* Every step keeps it.                                                    *)
LEMMA GateInvStep ==
  ASSUME Types, Fed, Queued, Intact, Exact, GateInv, [Next]_vars
  PROVE  GateInv'
<1>. SUFFICES ASSUME Gated'
              PROVE  SentTimes' /\ FirstDue' /\ AheadOfFirst' /\ WithinGate'
  BY DEF GateInv
<1>1. SentTimes /\ FirstDue /\ AheadOfFirst /\ WithinGate
  BY GatedStays DEF GateInv
<1>. QED  BY <1>1, SentTimesStep, FirstDueStep, AheadStep, GateStep

(* Nothing was read and nothing was sent at first.                         *)
LEMMA GateInvInit == Init => GateInv
<1>. SUFFICES ASSUME Init, Gated
              PROVE  SentTimes /\ FirstDue /\ AheadOfFirst /\ WithinGate
  BY DEF GateInv
<1>1. FirstAudio \in Streams /\ Video \in Streams
  BY TracksAre DEF Init, Gated
<1>2. /\ pos[FirstAudio] = 1 /\ pos[Video] = 1 /\ sent[Video] = 0 /\ sent[FirstAudio] = 0
      /\ st[FirstAudio] = new_stream
  BY <1>1 DEF Init
<1>3. new_stream.last_pts = Unset
  BY DEF new_stream
<1>4. SentTimes
  BY <1>2, <1>3 DEF SentTimes
<1>5. FirstDue
  BY <1>2 DEF FirstDue
<1>6. AheadOfFirst
  BY <1>2 DEF AheadOfFirst
<1>7. WithinGate
  BY <1>2 DEF WithinGate
<1>. QED  BY <1>4, <1>5, <1>6, <1>7

(* Interleaved: no track packet leaves before the video header that covers *)
(* it was read, and once both were sent the video is at most a gate ahead  *)
(* of the first audio track (ts_muxer.c:342, ts_muxer_app.c:258).          *)
THEOREM InterleavedHolds == Spec => []Interleaved
<1>. DEFINE Inv == Fed /\ Queued /\ Intact /\ Exact /\ BehindInv /\ GateInv
<1>1. Init => Inv
  BY FedInit, QueuedInit, ExactInit, BehindInit, GateInvInit
<1>2. Types /\ Inv /\ [Next]_vars => Inv'
  BY FedStep, QueuedStep, ExactStep, BehindStep, GateInvStep
<1>3. BehindInv /\ GateInv => Interleaved
  <2>1. GateInv => VideoWithinGate
    BY DEF GateInv, Gated, WithinGate, VideoWithinGate
  <2>. QED  BY <2>1, BehindIs DEF Interleaved
<1>. QED  BY <1>1, <1>2, <1>3, TypesAlways, PTL DEF Spec

-----------------------------------------------------------------------------
(* As long as none was lost, the bytes that a FIFO holds are those of the  *)
(* frames that were read and not sent.                                     *)
Filling ==
  (Short /\ ~filled /\ ~dropped) =>
    \A s \in Streams :
      Capacity(s) + Sum(file[s])[sent[s]] = free[s] + Sum(file[s])[pos[s] - 1]

(* Every step keeps that.                                                  *)
LEMMA FillingStep ==
  ASSUME Types, Fed, Queued, Intact, Filling, [Next]_vars
  PROVE  Filling'
<1>1. /\ input' = input /\ Tracks' = Tracks /\ Streams' = Streams /\ NumAud' = NumAud
      /\ file' = file
  BY InputStays DEF file
<1>2. Short' = Short
  BY <1>1 DEF Short, TimesOf
<1>. SUFFICES ASSUME Short, ~filled', ~dropped'
              PROVE  \A s \in Streams :
                       Capacity(s) + Sum(file[s])[sent'[s]] = free'[s] + Sum(file[s])[pos'[s] - 1]
  <2>1. \A s : Capacity(s)' = Capacity(s)
    BY <1>1 DEF Capacity
  <2>. QED  BY <1>1, <1>2, <2>1 DEF Filling
<1>3. ~filled /\ ~dropped
  BY HistoryStays
<1>4. \A s \in Streams :
        Capacity(s) + Sum(file[s])[sent[s]] = free[s] + Sum(file[s])[pos[s] - 1]
  BY <1>3 DEF Filling
<1>5. /\ Tracks \subseteq Streams /\ Video \in Streams /\ Video \notin Tracks
      /\ DOMAIN pos = Streams /\ DOMAIN free = Streams /\ DOMAIN fifo = Streams
      /\ DOMAIN st = Streams
      /\ \A s \in Streams : pos[s] \in Nat \ {0} /\ free[s] \in Int /\ sent[s] \in Nat
  BY TracksAre DEF Types, TypeOK, Shaped, Fifos
<1>6. \A s \in Streams : Capacity(s) \in Int
  BY CapacityType
<1>7. ASSUME NEW STATE s, s \in Streams, ~AtEnd(s), Stored(s, NextFrame(s)),
             pos' = [pos EXCEPT ![s] = @ + 1], sent' = sent
      PROVE  \A o \in Streams :
               Capacity(o) + Sum(file[o])[sent'[o]] = free'[o] + Sum(file[o])[pos'[o] - 1]
  <2>1. /\ pos[s] \in 1 .. Len(file[s]) /\ pos[s] \in Nat /\ NextFrame(s) \in Frame
        /\ NextFrame(s) = file[s][pos[s]] /\ file[s] \in Seq(Frame) /\ Len(file[s]) \in Nat
    BY <1>7, NextFrameType, FilesAre DEF Types, Shaped
  <2>. DEFINE f == NextFrame(s)
              P == Sum(file[s])
  <2>2. free' = [free EXCEPT ![s] = @ - Need(f)]
    <3>1. filled' # TRUE /\ dropped' # TRUE
      OBVIOUS
    <3>. HIDE DEF f
    <3>2. Stored(s, f)
      BY <1>7 DEF f
    <3>. QED  BY <3>1, <3>2, Zenon DEF Stored
  <2>3. free'[s] = free[s] - Need(f)
    BY <1>5, <1>7, <2>2
  <2>4. P[pos[s]] = P[pos[s] - 1] + Need(f) /\ P[pos[s] - 1] \in Nat
    <3>1. pos[s] - 1 \in 0 .. Len(file[s])
      BY <2>1
    <3>. QED  BY <2>1, <3>1, SumIs
  <2>5. Need(f) \in Nat
    BY <2>1, HeaderType
  <2>6. P[sent[s]] \in Nat
    <3>1. sent[s] \in 0 .. Len(file[s])
      BY <1>5, <1>7, <2>1, SentIn
    <3>. QED  BY <2>1, <3>1, SumIs
  <2>7. Capacity(s) + P[sent[s]] = free[s] + P[pos[s] - 1]
    BY <1>4, <1>7
  <2>. HIDE DEF P, f
  <2>8. Capacity(s) + P[sent[s]] = free'[s] + P[pos[s]]
    BY <1>5, <1>6, <1>7, <2>3, <2>4, <2>5, <2>6, <2>7
  <2>9. pos'[s] - 1 = pos[s]
    BY <1>5, <1>7, <2>1
  <2>10. \A o \in Streams : o # s => pos'[o] = pos[o] /\ free'[o] = free[o]
    BY <1>5, <1>7, StoredElsewhere
  <2>. QED  BY <1>4, <1>7, <2>8, <2>9, <2>10 DEF P
<1>8. ASSUME NEW STATE s, s \in Streams, fifo[s] # << >>, Take(s), pos' = pos
      PROVE  \A o \in Streams :
               Capacity(o) + Sum(file[o])[sent'[o]] = free'[o] + Sum(file[o])[pos'[o] - 1]
  <2>1. /\ sent[s] + 1 \in 1 .. Len(file[s]) /\ sent[s] + 1 < pos[s]
        /\ Head(fifo[s]) = file[s][sent[s] + 1]
    BY <1>3, <1>8, HeadIs
  <2>2. Head(fifo[s]) \in Frame
    BY <1>8 DEF Types, Fifos
  <2>. DEFINE f == Head(fifo[s])
              P == Sum(file[s])
  <2>3. Need(f) \in Nat
    BY <2>2, HeaderType
  <2>4. free' = [free EXCEPT ![s] = @ + Need(Head(fifo[s]))]
        /\ sent' = [sent EXCEPT ![s] = @ + 1]
    BY <1>8, Zenon DEF Take
  <2>5. DOMAIN sent = Streams
    BY DEF Types, TypeOK
  <2>6. free'[s] = free[s] + Need(f) /\ sent'[s] = sent[s] + 1
    BY <1>5, <1>8, <2>4, <2>5
  <2>7. \A o \in Streams : o # s => free'[o] = free[o] /\ sent'[o] = sent[o]
    BY <1>5, <1>8, <2>4, <2>5
  <2>8. P[sent[s] + 1] = P[sent[s]] + Need(f) /\ P[sent[s]] \in Nat
    <3>1. file[s] \in Seq(Frame) /\ Len(file[s]) \in Nat
      BY <1>8, FilesAre DEF Types, Shaped
    <3>2. sent[s] \in 0 .. Len(file[s]) /\ (sent[s] + 1) - 1 = sent[s]
      BY <1>5, <1>8, <2>1, <3>1
    <3>. QED  BY <2>1, <3>1, <3>2, SumIs
  <2>9. P[pos[s] - 1] \in Nat
    <3>1. file[s] \in Seq(Frame) /\ Len(file[s]) \in Nat
      BY <1>8, FilesAre DEF Types, Shaped
    <3>2. pos[s] <= Len(file[s]) + 1
      BY <1>8 DEF Fed
    <3>3. pos[s] - 1 \in 0 .. Len(file[s])
      BY <1>5, <1>8, <3>1, <3>2
    <3>. QED  BY <3>1, <3>3, SumIs
  <2>10. Capacity(s) + P[sent[s]] = free[s] + P[pos[s] - 1]
    BY <1>4, <1>8
  <2>. HIDE DEF P, f
  <2>11. Capacity(s) + P[sent[s] + 1] = free'[s] + P[pos[s] - 1]
    <3>1. Capacity(s) \in Int /\ free[s] \in Int
      BY <1>5, <1>6, <1>8
    <3>. QED  BY <2>3, <2>6, <2>8, <2>9, <2>10, <3>1
  <2>. QED  BY <1>4, <1>8, <2>6, <2>7, <2>11 DEF P
<1>9. ASSUME pos' = pos, free' = free, sent' = sent
      PROVE  \A o \in Streams :
               Capacity(o) + Sum(file[o])[sent'[o]] = free'[o] + Sum(file[o])[pos'[o] - 1]
  BY <1>4, <1>9
<1>10. CASE WriteVideo
  BY <1>5, <1>7, <1>10 DEF WriteVideo, muxvars
<1>11. CASE WriteTrack
  <2>1. /\ atrack \in Streams /\ ~AtEnd(atrack) /\ Stored(atrack, NextFrame(atrack))
        /\ pos' = [pos EXCEPT ![atrack] = @ + 1] /\ sent' = sent
    BY <1>5, <1>11 DEF WriteTrack, TrackReady, Types, Shaped, muxvars
  <2>. QED  BY <1>7, <2>1
<1>12. CASE TakeVideo
  BY <1>5, <1>8, <1>12 DEF TakeVideo, VideoReady, appvars
<1>13. CASE TakeTrack
  BY <1>5, <1>8, <1>13 DEF TakeTrack, TrackTakable, appvars
<1>14. CASE PeekVideo \/ LeaveTrack \/ VideoEnds \/ DrainRound \/ NoVideo \/ NoTrack
            \/ UNCHANGED vars
  BY <1>9, <1>14 DEF PeekVideo, LeaveTrack, VideoEnds, DrainRound, NoVideo, NoTrack, vars,
                     appvars, fifovars, muxvars
<1>. QED  BY <1>10, <1>11, <1>12, <1>13, <1>14 DEF Next, App, Mux

(* Nothing was read and nothing was sent at first.                         *)
LEMMA FillingInit == Init => Filling
<1>. SUFFICES ASSUME Init, NEW s \in Streams
              PROVE  Capacity(s) + Sum(file[s])[sent[s]] = free[s] + Sum(file[s])[pos[s] - 1]
  BY DEF Filling
<1>1. pos[s] = 1 /\ sent[s] = 0 /\ free[s] = Capacity(s)
  BY DEF Init
<1>2. pos[s] - 1 = 0
  BY <1>1
<1>. QED  BY <1>1, <1>2

-----------------------------------------------------------------------------
(* Short files do not wrap.                                                *)
LEMMA ShortUnwrapped == Short => Unwrapped
<1>. SUFFICES ASSUME Short, NEW s \in Streams, NEW n \in 1 .. Len(file[s])
              PROVE  file[s][n].pts < Wrap
  BY DEF Unwrapped
<1>1. file[s][n].pts \in TimesOf(s)
  BY DEF TimesOf
<1>. QED  BY <1>1 DEF Short

(* The frame of the first audio track before the j-th, or the first one.   *)
BeforeIt(j) == IF j = 1 THEN 1 ELSE j - 1

(* No video frame that was sent is more than a gate past the last audio    *)
(* frame that was, or past the first one while none was.                   *)
SentWithin ==
  Admitted =>
    \A p \in 1 .. Len(file[Video]) :
      p <= sent[Video] => VTime(p) <= ATime(BeforeIt(sent[FirstAudio] + 1)) + Gate

(* Every step keeps that.                                                  *)
LEMMA SentWithinStep ==
  ASSUME Types, Fed, Queued, Intact, Exact, GateInv, Gated', [Next]_vars, SentWithin,
         SentTimes', AheadOfFirst', WithinGate'
  PROVE  SentWithin'
<1>1. /\ Gated /\ file' = file /\ Admitted' = Admitted
      /\ FirstAudio \in Tracks /\ FirstAudio \in Streams /\ Video \in Streams
      /\ FirstAudio # Video /\ Video \notin Tracks /\ Tracks \subseteq Streams
  BY GatedStays
<1>2. Short /\ ~filled /\ ~dropped /\ Paced /\ NumAud > 0
  BY <1>1 DEF Gated
<1>3. /\ sent[Video] \in Nat /\ sent[FirstAudio] \in Nat
      /\ sent[Video] < pos[Video] /\ sent[Video] <= Len(file[Video])
      /\ sent[FirstAudio] < pos[FirstAudio] /\ sent[FirstAudio] <= Len(file[FirstAudio])
  BY <1>1, SentIn
<1>4. /\ input \in Inputs /\ Gate \in Nat
      /\ Len(file[Video]) \in Nat /\ Len(file[FirstAudio]) \in Nat
      /\ \A n \in 1 .. Len(file[Video]) : VTime(n) \in Nat
      /\ \A n \in 1 .. Len(file[FirstAudio]) : ATime(n) \in Nat
  BY <1>1, FilesAre, HeaderType, LimitsAssumption DEF Types, TypeOK, VTime, ATime
<1>. SUFFICES ASSUME Admitted, NEW p \in 1 .. Len(file[Video]), p <= sent'[Video]
              PROVE  VTime(p) <= ATime(BeforeIt(sent'[FirstAudio] + 1)) + Gate
  BY <1>1 DEF SentWithin, VTime, ATime, BeforeIt
<1>5. \A q \in 1 .. Len(file[Video]) :
        q <= sent[Video] => VTime(q) <= ATime(BeforeIt(sent[FirstAudio] + 1)) + Gate
  BY DEF SentWithin
<1>6. file[FirstAudio] # << >> /\ 1 \in 1 .. Len(file[FirstAudio])
  <2>1. file[FirstAudio] \in Seq(Frame) /\ file[FirstAudio] # << >>
    BY <1>1, <1>4, FilesAre DEF Admitted
  <2>. QED  BY <2>1
<1>7. CASE TakeVideo
  <2>1. Take(Video) /\ fifo[Video] # << >>
    BY <1>7 DEF TakeVideo, VideoReady
  <2>2. sent'[Video] = sent[Video] + 1 /\ sent'[FirstAudio] = sent[FirstAudio]
    BY <1>1, <1>2, <2>1, TakeNext
  <2>3. CASE p = sent[Video] + 1
    <3>1. CASE sent[FirstAudio] = 0
      <4>1. VTime(sent'[Video]) <= ATime(1) + Gate
        <5>1. sent'[Video] >= 1 /\ sent'[FirstAudio] = 0
          BY <1>3, <2>2, <3>1
        <5>. QED  BY <1>1, <5>1 DEF AheadOfFirst, VTime, ATime
      <4>2. BeforeIt(sent'[FirstAudio] + 1) = 1
        BY <2>2, <3>1 DEF BeforeIt
      <4>. QED  BY <2>2, <2>3, <4>1, <4>2
    <3>2. CASE sent[FirstAudio] # 0
      <4>1. sent'[Video] > 0 /\ sent'[FirstAudio] > 0 /\ sent'[FirstAudio] # 0
        BY <1>3, <2>2, <3>2
      <4>2. last_vid_pts' = VTime(sent'[Video])
            /\ st'[FirstAudio].last_pts = ATime(sent'[FirstAudio])
        BY <1>1, <4>1 DEF SentTimes, VTime, ATime
      <4>3. last_vid_pts' <= st'[FirstAudio].last_pts + Gate
        BY <4>1 DEF WithinGate
      <4>4. BeforeIt(sent'[FirstAudio] + 1) = sent'[FirstAudio]
        BY <1>3, <2>2, <3>2 DEF BeforeIt
      <4>. QED  BY <2>2, <2>3, <4>2, <4>3, <4>4
    <3>. QED  BY <3>1, <3>2
  <2>4. CASE p # sent[Video] + 1
    <3>1. p <= sent[Video]
      BY <1>3, <2>2, <2>4
    <3>. QED  BY <1>5, <2>2, <3>1
  <2>. QED  BY <2>3, <2>4
<1>8. CASE TakeTrack
  <2>1. Take(mstream) /\ fifo[mstream] # << >> /\ mstream \in Streams /\ mstream # Video
    BY <1>1, <1>8 DEF TakeTrack, TrackTakable
  <2>2. /\ sent'[mstream] = sent[mstream] + 1
        /\ \A o \in Streams : o # mstream => sent'[o] = sent[o]
    BY <1>2, <2>1, TakeNext
  <2>3. p <= sent[Video] /\ sent'[Video] = sent[Video]
    BY <1>1, <2>1, <2>2
  <2>4. VTime(p) <= ATime(BeforeIt(sent[FirstAudio] + 1)) + Gate
    BY <1>5, <2>3
  <2>5. CASE mstream # FirstAudio
    BY <1>1, <2>2, <2>4, <2>5
  <2>6. CASE mstream = FirstAudio
    <3>1. sent[FirstAudio] + 1 \in 1 .. Len(file[FirstAudio])
      BY <1>1, <1>2, <2>1, <2>6, HeadIs
    <3>2. BeforeIt(sent'[FirstAudio] + 1) = sent[FirstAudio] + 1
      BY <1>3, <2>2, <2>6 DEF BeforeIt
    <3>3. CASE sent[FirstAudio] = 0
      <4>1. BeforeIt(sent[FirstAudio] + 1) = sent[FirstAudio] + 1
        BY <3>3 DEF BeforeIt
      <4>. QED  BY <2>4, <3>2, <4>1
    <3>4. CASE sent[FirstAudio] # 0
      <4>1. BeforeIt(sent[FirstAudio] + 1) = sent[FirstAudio]
        BY <1>3, <3>4 DEF BeforeIt
      <4>2. sent[FirstAudio] \in 1 .. Len(file[FirstAudio])
            /\ sent[FirstAudio] < sent[FirstAudio] + 1
        BY <1>3, <1>4, <3>4
      <4>3. ATime(sent[FirstAudio]) <= ATime(sent[FirstAudio] + 1)
        BY <1>2, <3>1, <4>2 DEF Paced
      <4>4. /\ ATime(sent[FirstAudio]) \in Nat /\ ATime(sent[FirstAudio] + 1) \in Nat
            /\ VTime(p) \in Nat
        BY <1>4, <3>1, <4>2
      <4>5. VTime(p) <= ATime(sent[FirstAudio] + 1) + Gate
        BY <1>4, <2>4, <4>1, <4>3, <4>4
      <4>. QED  BY <3>2, <4>5
    <3>. QED  BY <3>3, <3>4
  <2>. QED  BY <2>5, <2>6
<1>9. CASE App \/ NoVideo \/ NoTrack \/ UNCHANGED vars
  <2>1. sent' = sent
    BY <1>9 DEF App, WriteVideo, PeekVideo, WriteTrack, LeaveTrack, VideoEnds, DrainRound, NoVideo,
                NoTrack, vars, muxvars
  <2>. QED  BY <1>5, <2>1
<1>. QED  BY <1>7, <1>8, <1>9 DEF Next, Mux

-----------------------------------------------------------------------------
(* When audio frames from the j-th and video frames from the n-th waited,  *)
(* there was no room for more audio.                                       *)
FullFrom(j, n) ==
  /\ Sum(file[FirstAudio])[pos[FirstAudio] - 1] - Sum(file[FirstAudio])[j - 1]
       + NextFrame(FirstAudio).size >= Capacity(FirstAudio)
  /\ Sum(file[Video])[pos[Video] - 1] - Sum(file[Video])[n - 1] < Capacity(Video)
  /\ \A p \in 1 .. Len(file[Video]) : p < n => VTime(p) <= ATime(BeforeIt(j)) + Gate

(* Why the last pass of the C application left the first audio track.      *)
PassLeft ==
  \/ AtEnd(FirstAudio)
  \/ ATime(pos[FirstAudio]) > VTime(pos[Video] - 1)
  \/ \E j \in 1 .. pos[FirstAudio], n \in 1 .. sent[Video] + 1 : FullFrom(j, n)

(* It has not been at the track in the pass that it begins.                *)
LastPass ==
  (input.program = "c" /\ Admitted /\ pos[Video] > 1 /\ (apc = "tracks" => atrack # FirstAudio)) =>
    PassLeft

(* Every step keeps that.                                                  *)
LEMMA LastPassStep ==
  ASSUME Types, Fed, Queued, Intact, Gated', [Next]_vars, CaughtInv, Filling, SentWithin, LastPass
  PROVE  LastPass'
<1>1. /\ Gated /\ file' = file /\ Admitted' = Admitted
      /\ FirstAudio \in Tracks /\ FirstAudio \in Streams /\ Video \in Streams
      /\ FirstAudio # Video /\ Video \notin Tracks /\ Tracks \subseteq Streams
  BY GatedStays
<1>2. Short /\ ~filled /\ ~dropped /\ NumAud > 0
  BY <1>1 DEF Gated
<1>3. /\ DOMAIN pos = Streams /\ pos[Video] \in Nat \ {0} /\ pos[FirstAudio] \in Nat \ {0}
      /\ input \in Inputs /\ video_pts \in Nat
      /\ sent[Video] \in Nat /\ sent[FirstAudio] \in Nat
      /\ sent[FirstAudio] < pos[FirstAudio] /\ sent[FirstAudio] <= Len(file[FirstAudio])
      /\ sent[Video] <= Len(file[Video])
      /\ Len(file[FirstAudio]) \in Nat /\ Len(file[Video]) \in Nat
  BY <1>1, SentIn, FilesAre DEF Types, TypeOK, Shaped
<1>4. input' = input /\ \A s : Capacity(s)' = Capacity(s)
  BY InputStays DEF Capacity
<1>. SUFFICES ASSUME input.program = "c", Admitted, pos'[Video] > 1,
                     apc' = "tracks" => atrack' # FirstAudio
              PROVE  PassLeft'
  BY <1>1, <1>4 DEF LastPass
<1>5. (pos[Video] > 1 /\ (apc = "tracks" => atrack # FirstAudio)) => PassLeft
  BY DEF LastPass
<1>6. ASSUME PassLeft, pos'[FirstAudio] = pos[FirstAudio], pos'[Video] = pos[Video],
             sent'[Video] \in Nat, sent[Video] <= sent'[Video]
      PROVE  PassLeft'
  <2>1. AtEnd(FirstAudio) => AtEnd(FirstAudio)'
    BY <1>1, <1>6 DEF AtEnd
  <2>2. ATime(pos[FirstAudio]) > VTime(pos[Video] - 1) =>
          (ATime(pos[FirstAudio]) > VTime(pos[Video] - 1))'
    BY <1>1, <1>6 DEF ATime, VTime
  <2>3. ASSUME NEW j \in 1 .. pos[FirstAudio], NEW n \in 1 .. sent[Video] + 1, FullFrom(j, n)
        PROVE  PassLeft'
    <3>1. FullFrom(j, n)'
      BY <1>1, <1>4, <1>6, <2>3 DEF FullFrom, NextFrame, VTime, ATime
    <3>2. j \in 1 .. pos'[FirstAudio] /\ n \in 1 .. sent'[Video] + 1
      BY <1>3, <1>6
    <3>. QED  BY <3>1, <3>2 DEF PassLeft
  <2>4. PassLeft' <=> (\/ AtEnd(FirstAudio)'
                       \/ (ATime(pos[FirstAudio]) > VTime(pos[Video] - 1))'
                       \/ (\E j \in 1 .. pos[FirstAudio], n \in 1 .. sent[Video] + 1 :
                             FullFrom(j, n))')
    BY Zenon DEF PassLeft
  <2>. QED  BY <1>6, <2>1, <2>2, <2>3, <2>4, Zenon DEF PassLeft
<1>7. ASSUME NEW STATE i, i \in Streams, i # FirstAudio, i # Video, pos' = [pos EXCEPT ![i] = @ + 1]
      PROVE  pos'[FirstAudio] = pos[FirstAudio] /\ pos'[Video] = pos[Video]
  BY <1>1, <1>3, <1>7
<1>8. CASE WriteVideo
  <2>1. ToTrack(1)
    BY <1>8 DEF WriteVideo
  <2>2. apc' = "tracks" /\ atrack' = FirstAudio
    BY <1>1, <2>1, ToTrackIs DEF FirstAudio
  <2>. QED  BY <2>2
<1>9. CASE PeekVideo
  BY <1>9 DEF PeekVideo
<1>10. CASE WriteTrack
  <2>1. /\ apc = "tracks" /\ atrack \in Tracks /\ apc' = apc /\ atrack' = atrack
        /\ pos' = [pos EXCEPT ![atrack] = @ + 1] /\ sent' = sent
    BY <1>10 DEF WriteTrack, Types, TypeOK, muxvars
  <2>2. atrack # FirstAudio /\ atrack # Video /\ atrack \in Streams
    BY <1>1, <2>1
  <2>3. pos'[FirstAudio] = pos[FirstAudio] /\ pos'[Video] = pos[Video]
    BY <1>7, <2>1, <2>2
  <2>. QED  BY <1>3, <1>5, <1>6, <2>1, <2>2, <2>3
<1>11. CASE LeaveTrack
  <2>1. apc = "tracks" /\ ~TrackReady(atrack) /\ pos' = pos /\ sent' = sent
    BY <1>11 DEF LeaveTrack, muxvars
  <2>2. CASE atrack # FirstAudio
    BY <1>3, <1>5, <1>6, <2>1, <2>2
  <2>3. CASE atrack = FirstAudio
    <3>1. /\ pos[Video] - 1 \in 1 .. Len(file[Video])
          /\ video_pts = VTime(pos[Video] - 1)
      <4>1. Unwrapped
        BY <1>2, ShortUnwrapped
      <4>. QED  BY <2>1, <4>1 DEF CaughtInv, InPass, VTime
    <3>2. CASE ~AtEnd(FirstAudio) /\ ~Room(FirstAudio, NextFrame(FirstAudio))
      <4>. DEFINE j == sent[FirstAudio] + 1
                  n == sent[Video] + 1
      <4>1. j \in 1 .. pos[FirstAudio] /\ n \in 1 .. sent[Video] + 1 /\ j - 1 = sent[FirstAudio]
            /\ n - 1 = sent[Video]
        BY <1>3
      <4>2. /\ pos[FirstAudio] - 1 \in 0 .. Len(file[FirstAudio])
            /\ pos[Video] - 1 \in 0 .. Len(file[Video])
            /\ sent[FirstAudio] \in 0 .. Len(file[FirstAudio])
            /\ sent[Video] \in 0 .. Len(file[Video])
        BY <1>1, <1>3 DEF Fed
      <4>3. /\ Sum(file[FirstAudio])[pos[FirstAudio] - 1] \in Nat
            /\ Sum(file[FirstAudio])[sent[FirstAudio]] \in Nat
        BY <1>1, <1>3, <4>2, SumIs, FilesAre
      <4>4. /\ Sum(file[Video])[pos[Video] - 1] \in Nat
            /\ Sum(file[Video])[sent[Video]] \in Nat
        BY <1>1, <1>3, <4>2, SumIs, FilesAre
      <4>5. /\ free[FirstAudio] \in 1 .. Capacity(FirstAudio) /\ free[Video] \in 1 .. Capacity(Video)
            /\ Capacity(FirstAudio) \in Nat /\ Capacity(Video) \in Nat
        BY <1>1, CapacityType DEF Types, Fifos
      <4>6. NextFrame(FirstAudio).size \in Nat
        BY <1>1, <3>2, NextFrameType, HeaderType DEF Types, Shaped
      <4>7. ~(free[FirstAudio] > NextFrame(FirstAudio).size)
        BY <3>2 DEF Room
      <4>8. Capacity(FirstAudio) + Sum(file[FirstAudio])[sent[FirstAudio]]
              = free[FirstAudio] + Sum(file[FirstAudio])[pos[FirstAudio] - 1]
        BY <1>1, <1>2 DEF Filling
      <4>9. Capacity(Video) + Sum(file[Video])[sent[Video]]
              = free[Video] + Sum(file[Video])[pos[Video] - 1]
        BY <1>1, <1>2 DEF Filling
      <4>10. Sum(file[FirstAudio])[pos[FirstAudio] - 1] - Sum(file[FirstAudio])[sent[FirstAudio]]
               + NextFrame(FirstAudio).size >= Capacity(FirstAudio)
        BY <4>3, <4>5, <4>6, <4>7, <4>8
      <4>11. Sum(file[Video])[pos[Video] - 1] - Sum(file[Video])[sent[Video]] < Capacity(Video)
        BY <4>4, <4>5, <4>9
      <4>12. \A p \in 1 .. Len(file[Video]) : p < n => VTime(p) <= ATime(BeforeIt(j)) + Gate
        BY <1>3 DEF SentWithin
      <4>13. FullFrom(j, n)
        BY <4>1, <4>10, <4>11, <4>12 DEF FullFrom
      <4>14. PassLeft
        <5>. HIDE DEF j, n
        <5>. QED  BY <4>1, <4>13 DEF PassLeft
      <4>. QED  BY <1>3, <1>6, <2>1, <4>14
    <3>3. CASE ~AtEnd(FirstAudio) /\ ~(HdrPts(NextFrame(FirstAudio)) <= video_pts)
      <4>1. /\ pos[FirstAudio] \in 1 .. Len(file[FirstAudio])
            /\ NextFrame(FirstAudio) = file[FirstAudio][pos[FirstAudio]]
        BY <1>1, <3>3, NextFrameType DEF Types, Shaped
      <4>2. HdrPts(NextFrame(FirstAudio)) = ATime(pos[FirstAudio])
            /\ ATime(pos[FirstAudio]) \in Nat
        BY <1>1, <1>2, <1>3, <4>1, FrameTimes DEF ATime
      <4>3. ATime(pos[FirstAudio]) > VTime(pos[Video] - 1)
        BY <1>3, <3>1, <3>3, <4>2
      <4>4. PassLeft
        BY <4>3 DEF PassLeft
      <4>. QED  BY <1>3, <1>6, <2>1, <4>4
    <3>4. CASE AtEnd(FirstAudio)
      <4>1. PassLeft
        BY <3>4 DEF PassLeft
      <4>. QED  BY <1>3, <1>6, <2>1, <4>1
    <3>. QED  BY <2>1, <2>3, <3>2, <3>3, <3>4 DEF TrackReady
  <2>. QED  BY <2>2, <2>3
<1>12. CASE VideoEnds \/ DrainRound
  <2>1. pos' = pos /\ apc # "tracks" /\ sent' = sent
    BY <1>12 DEF VideoEnds, DrainRound, muxvars
  <2>. QED  BY <1>3, <1>5, <1>6, <2>1
<1>13. CASE Mux \/ UNCHANGED vars
  <2>1. pos' = pos /\ apc' = apc /\ atrack' = atrack
    BY <1>13 DEF Mux, TakeVideo, NoVideo, TakeTrack, NoTrack, vars, appvars
  <2>2. sent'[Video] \in Nat /\ sent[Video] <= sent'[Video]
    <3>1. CASE TakeVideo \/ TakeTrack
      <4>1. ASSUME NEW STATE s, s \in Streams, Take(s)
            PROVE  sent'[Video] \in Nat /\ sent[Video] <= sent'[Video]
        <5>1. sent' = [sent EXCEPT ![s] = @ + 1] /\ sent \in [Streams -> Nat]
          BY <4>1, Zenon DEF Take, Types, TypeOK
        <5>. QED  BY <1>1, <5>1
      <4>. QED  BY <1>1, <3>1, <4>1 DEF TakeVideo, TakeTrack
    <3>2. CASE NoVideo \/ NoTrack \/ UNCHANGED vars
      <4>1. sent' = sent
        BY <3>2 DEF NoVideo, NoTrack, vars, muxvars
      <4>. QED  BY <1>3, <4>1
    <3>. QED  BY <1>13, <3>1, <3>2 DEF Mux
  <2>. QED  BY <1>3, <1>5, <1>6, <2>1, <2>2
<1>. QED  BY <1>8, <1>9, <1>10, <1>11, <1>12, <1>13 DEF Next, App

-----------------------------------------------------------------------------
(* There is no room only where something waits.                            *)
LEMMA WaitsWhenFull ==
  ASSUME Types, Fed, Queued, Intact, Filling, Short, ~filled, ~dropped,
         NEW s \in Streams, ~AtEnd(s), NextFrame(s).size < Capacity(s), fifo[s] = << >>
  PROVE  Room(s, NextFrame(s)) /\ pos[s] = sent[s] + 1
<1>1. sent[s] + Len(fifo[s]) + 1 = pos[s]
  BY DEF Intact
<1>2. Len(fifo[s]) = 0 /\ sent[s] \in Nat /\ pos[s] \in Nat
  BY DEF Types, TypeOK
<1>3. pos[s] = sent[s] + 1 /\ pos[s] - 1 = sent[s]
  BY <1>1, <1>2
<1>4. Capacity(s) + Sum(file[s])[sent[s]] = free[s] + Sum(file[s])[sent[s]]
  BY <1>3 DEF Filling
<1>5. Sum(file[s])[sent[s]] \in Nat
  <2>1. file[s] \in Seq(Frame) /\ Len(file[s]) \in Nat
    BY FilesAre DEF Types, Shaped
  <2>2. sent[s] \in 0 .. Len(file[s])
    BY <1>2, <2>1, SentIn
  <2>. QED  BY <2>1, <2>2, SumIs
<1>6. Capacity(s) \in Nat /\ free[s] \in 1 .. Capacity(s)
  BY CapacityType DEF Types, Fifos
<1>7. free[s] = Capacity(s)
  BY <1>4, <1>5, <1>6
<1>. QED  BY <1>3, <1>7 DEF Room

(* Regular files never starve the threads, unless a FIFO lost some of      *)
(* their frames (ts_muxer_app.c:239, ts_muxer.c:342).                      *)
NeverStarved == Starved => (filled \/ dropped \/ ~Regular)

(* Regular files do not starve the threads.                                *)
LEMMA NeverStarvedIs ==
  ASSUME Types, Fed, Queued, Intact, Exact, GateInv, Filling,
         Gated => SentWithin /\ LastPass
  PROVE  NeverStarved
<1>. SUFFICES ASSUME Starved, Regular, ~filled, ~dropped
              PROVE  FALSE
  BY DEF NeverStarved
<1>1. /\ Short /\ NumAud > 0 /\ Paced /\ Covered /\ Gated
      /\ \A m \in 1 .. Len(file[FirstAudio]) : file[FirstAudio][m].size < audio_fifo_size
      /\ input.program = "c" => Outlasts
  BY DEF Regular, Gated
<1>2. SentTimes /\ FirstDue /\ SentWithin /\ LastPass
  BY <1>1 DEF GateInv
<1>3. /\ FirstAudio \in Tracks /\ FirstAudio \in Streams /\ Video \in Streams
      /\ input \in Inputs
      /\ Capacity(FirstAudio) = audio_fifo_size /\ Capacity(Video) = video_fifo_size
  <2>1. FirstAudio \in Tracks /\ FirstAudio \in Streams /\ Video \in Streams /\ input \in Inputs
    BY <1>1, TracksAre DEF Types, TypeOK
  <2>2. FirstAudio # Video /\ FirstAudio <= NumAud
    <3>1. NumAud \in Nat
      BY <2>1, InputsAssumption DEF NumAud
    <3>. QED  BY <1>1, <3>1 DEF FirstAudio, Video
  <2>. QED  BY <2>1, <2>2 DEF Capacity
<1>4. /\ sent[Video] \in Nat /\ sent[FirstAudio] \in Nat
      /\ sent[Video] < pos[Video] /\ sent[Video] <= Len(file[Video])
      /\ sent[FirstAudio] < pos[FirstAudio] /\ sent[FirstAudio] <= Len(file[FirstAudio])
      /\ pos[Video] \in Nat /\ pos[FirstAudio] \in Nat
      /\ Len(file[Video]) \in Nat /\ Len(file[FirstAudio]) \in Nat
  BY <1>3, SentIn, FilesAre
<1>5. /\ Gate \in Nat
      /\ \A n \in 1 .. Len(file[Video]) : VTime(n) \in Nat
      /\ \A n \in 1 .. Len(file[FirstAudio]) : ATime(n) \in Nat
  BY <1>3, FilesAre, HeaderType, LimitsAssumption DEF VTime, ATime
<1>6. /\ apc = "video" \/ (input.program = "python" /\ apc = "tracks")
      /\ ~AtEnd(Video) /\ ~Room(Video, NextFrame(Video)) /\ ~VideoReady
      /\ ~TrackTakable(FirstAudio)
      /\ input.program = "python" => FirstAudioStuck
  BY <1>1 DEF Starved
<1>7. pos[Video] \in 1 .. Len(file[Video]) /\ NextFrame(Video) = file[Video][pos[Video]]
  BY <1>3, <1>6, NextFrameType DEF Types, Shaped
<1>8. fifo[Video] # << >>
  <2>1. NextFrame(Video).size < Capacity(Video)
    BY <1>3, <1>7, InputsAssumption DEF file
  <2>. QED  BY <1>1, <1>3, <1>6, <2>1, WaitsWhenFull
<1>. DEFINE n == sent[Video] + 1
            k == sent[FirstAudio]
<1>9. /\ n \in 1 .. Len(file[Video]) /\ n < pos[Video] /\ n - 1 = sent[Video] /\ n \in Nat
      /\ HdrPts(Head(fifo[Video])) = VTime(n)
  BY <1>1, <1>3, <1>4, <1>8, HeadIs DEF VTime
<1>10. k # 0 /\ VTime(n) > ATime(k) + Gate
  <2>1. ~Unlimited /\ ~(HdrPts(Head(fifo[Video])) <= VideoLimit)
    BY <1>6, <1>8 DEF VideoReady
  <2>2. st[FirstAudio].last_pts # Unset /\ VideoLimit = st[FirstAudio].last_pts + Gate
    BY <1>1, <2>1 DEF Unlimited, VideoLimit
  <2>3. k # 0 /\ st[FirstAudio].last_pts = ATime(k)
    BY <1>2, <2>2 DEF SentTimes
  <2>4. k \in 1 .. Len(file[FirstAudio])
    BY <1>4, <2>3
  <2>5. ATime(k) \in Nat /\ VTime(n) \in Nat
    BY <1>5, <1>9, <2>4
  <2>. QED  BY <1>5, <1>9, <2>1, <2>2, <2>3, <2>5
<1>11. k \in 1 .. Len(file[FirstAudio]) /\ 1 \in 1 .. Len(file[FirstAudio])
       /\ file[FirstAudio] # << >>
  BY <1>4, <1>10
<1>12. Admitted
  BY <1>1, <1>3, <1>11 DEF Admitted
<1>. HIDE DEF n, k
<1>13. \A i, j \in 1 .. Len(file[FirstAudio]) : i <= j => ATime(i) <= ATime(j)
  <2>. SUFFICES ASSUME NEW i \in 1 .. Len(file[FirstAudio]), NEW j \in 1 .. Len(file[FirstAudio]),
                       i <= j
                PROVE  ATime(i) <= ATime(j)
    OBVIOUS
  <2>1. i < j => ATime(i) <= ATime(j)
    BY <1>1 DEF Paced
  <2>2. ATime(i) \in Nat
    BY <1>5
  <2>3. i = j \/ i < j
    OBVIOUS
  <2>. QED  BY <2>1, <2>2, <2>3
<1>14. VTime(1) <= ATime(1) + Gate /\ 1 \in 1 .. Len(file[Video])
  <2>1. 1 \in 1 .. Len(file[Video])
    BY <1>4, <1>7
  <2>. QED  BY <1>1, <1>11, <2>1 DEF Paced
<1>15. n >= 2
  <2>. SUFFICES ASSUME n = 1 PROVE FALSE
    BY <1>9
  <2>1. ATime(1) <= ATime(k) /\ ATime(1) \in Nat /\ ATime(k) \in Nat /\ VTime(1) \in Nat
    BY <1>5, <1>11, <1>13, <1>14
  <2>. QED  BY <1>5, <1>10, <1>14, <2>1
<1>16. PICK m \in 1 .. Len(file[FirstAudio]) :
         /\ \A q \in n - 1 .. Len(file[Video]) : ATime(m) <= VTime(q)
         /\ VTime(n) <= ATime(m) + Gate
  <2>1. n \in 2 .. Len(file[Video])
    BY <1>4, <1>9, <1>15
  <2>. QED  BY <1>1, <2>1 DEF Covered
<1>17. k + 1 <= m /\ k + 1 \in 1 .. Len(file[FirstAudio]) /\ ATime(k + 1) <= ATime(m)
  <2>1. ~(m <= k)
    <3>. SUFFICES ASSUME m <= k PROVE FALSE
      OBVIOUS
    <3>1. ATime(m) <= ATime(k) /\ ATime(m) \in Nat /\ ATime(k) \in Nat /\ VTime(n) \in Nat
      BY <1>5, <1>9, <1>11, <1>13
    <3>. QED  BY <1>5, <1>10, <1>16, <3>1
  <2>2. k + 1 <= m /\ k + 1 \in 1 .. Len(file[FirstAudio])
    BY <1>4, <1>11, <2>1
  <2>. QED  BY <1>13, <2>2
<1>18. ASSUME NEW q \in n - 1 .. Len(file[Video])
       PROVE  ATime(k + 1) <= VTime(q)
  <2>1. ATime(m) <= VTime(q)
    BY <1>16
  <2>2. q \in 1 .. Len(file[Video])
    BY <1>4, <1>9, <1>15
  <2>3. ATime(m) \in Nat /\ ATime(k + 1) \in Nat /\ VTime(q) \in Nat
    BY <1>5, <1>17, <2>2
  <2>. QED  BY <1>17, <2>1, <2>3
<1>19. fifo[FirstAudio] = << >>
  <2>. SUFFICES ASSUME fifo[FirstAudio] # << >> PROVE FALSE
    OBVIOUS
  <2>1. HdrPts(Head(fifo[FirstAudio])) = ATime(k + 1)
    BY <1>1, <1>3, HeadIs DEF ATime, k
  <2>2. last_vid_pts = VTime(n - 1)
    BY <1>2, <1>9, <1>15 DEF SentTimes
  <2>3. n - 1 \in n - 1 .. Len(file[Video])
    BY <1>4, <1>9
  <2>. QED  BY <1>6, <1>18, <2>1, <2>2, <2>3 DEF TrackTakable
<1>20. pos[FirstAudio] = k + 1 /\ ~AtEnd(FirstAudio)
  <2>1. sent[FirstAudio] + Len(fifo[FirstAudio]) + 1 = pos[FirstAudio]
    BY <1>1, <1>3 DEF Intact, Gated
  <2>2. Len(fifo[FirstAudio]) = 0
    BY <1>19
  <2>3. pos[FirstAudio] = k + 1
    BY <1>4, <2>1, <2>2 DEF k
  <2>. QED  BY <1>4, <1>17, <2>3 DEF AtEnd
<1>21. /\ NextFrame(FirstAudio) = file[FirstAudio][k + 1]
       /\ NextFrame(FirstAudio).size < Capacity(FirstAudio)
       /\ Room(FirstAudio, NextFrame(FirstAudio))
       /\ HdrPts(NextFrame(FirstAudio)) = ATime(k + 1)
       /\ NextFrame(FirstAudio).size \in Nat
  <2>1. NextFrame(FirstAudio) = file[FirstAudio][k + 1]
    BY <1>20 DEF NextFrame
  <2>2. NextFrame(FirstAudio).size < Capacity(FirstAudio)
    BY <1>1, <1>3, <1>17, <2>1
  <2>3. Room(FirstAudio, NextFrame(FirstAudio))
    BY <1>1, <1>3, <1>19, <1>20, <2>2, WaitsWhenFull
  <2>4. HdrPts(file[FirstAudio][k + 1]) = ATime(k + 1)
    BY <1>1, <1>3, <1>17, FrameTimes DEF ATime
  <2>5. file[FirstAudio][k + 1].size \in Nat
    BY <1>3, <1>17, FilesAre, HeaderType
  <2>. QED  BY <2>1, <2>2, <2>3, <2>4, <2>5
<1>22. CASE input.program = "python"
  <2>1. HdrPts(NextFrame(FirstAudio)) > HdrPts(NextFrame(Video))
    BY <1>6, <1>20, <1>21, <1>22 DEF FirstAudioStuck
  <2>2. HdrPts(NextFrame(Video)) = VTime(pos[Video]) /\ VTime(pos[Video]) \in Nat
    BY <1>1, <1>3, <1>5, <1>7, FrameTimes DEF VTime
  <2>3. pos[Video] \in n - 1 .. Len(file[Video])
    BY <1>4, <1>7, <1>9
  <2>4. ATime(k + 1) <= VTime(pos[Video]) /\ ATime(k + 1) \in Nat
    BY <1>5, <1>17, <1>18, <2>3
  <2>. QED  BY <1>21, <2>1, <2>2, <2>4
<1>23. CASE input.program = "c"
  <2>1. PassLeft
    <3>1. apc = "video" /\ pos[Video] > 1
      BY <1>4, <1>6, <1>9, <1>23
    <3>. QED  BY <1>2, <1>12, <1>23, <3>1 DEF LastPass
  <2>2. ~(ATime(pos[FirstAudio]) > VTime(pos[Video] - 1))
    <3>1. pos[Video] - 1 \in n - 1 .. Len(file[Video]) /\ pos[Video] - 1 \in 1 .. Len(file[Video])
      BY <1>4, <1>7, <1>9, <1>15
    <3>2. ATime(k + 1) <= VTime(pos[Video] - 1)
      BY <1>18, <3>1
    <3>3. ATime(k + 1) \in Nat /\ VTime(pos[Video] - 1) \in Nat
      BY <1>5, <1>17, <3>1
    <3>. QED  BY <1>20, <3>2, <3>3
  <2>3. PICK j \in 1 .. pos[FirstAudio], r \in 1 .. sent[Video] + 1 : FullFrom(j, r)
    BY <1>20, <2>1, <2>2 DEF PassLeft
  <2>4. j \in Nat /\ r \in Nat /\ r \in 1 .. Len(file[Video]) /\ r <= n
    BY <1>4, <1>9, <2>3
  <2>. DEFINE A == Sum(file[FirstAudio])
              V == Sum(file[Video])
  <2>5. /\ A[k] - A[j - 1] + file[FirstAudio][k + 1].size >= audio_fifo_size
        /\ V[pos[Video] - 1] - V[r - 1] < video_fifo_size
        /\ \A p \in 1 .. Len(file[Video]) : p < r => VTime(p) <= ATime(BeforeIt(j)) + Gate
    <3>1. pos[FirstAudio] - 1 = k
      BY <1>4, <1>20, <1>11
    <3>. QED  BY <1>3, <1>21, <2>3, <3>1 DEF FullFrom
  <2>6. /\ A \in [0 .. Len(file[FirstAudio]) -> Nat]
        /\ V \in [0 .. Len(file[Video]) -> Nat]
    BY <1>3, FilesAre, SumIs
  <2>7. j <= k
    <3>. SUFFICES ASSUME j = k + 1 PROVE FALSE
      BY <1>20, <2>3, <2>4, <1>11
    <3>1. j - 1 = k /\ k \in 0 .. Len(file[FirstAudio])
      BY <1>11
    <3>2. A[k] \in Nat
      BY <2>6, <3>1
    <3>3. A[k] - A[j - 1] = 0
      BY <3>1, <3>2
    <3>4. file[FirstAudio][k + 1].size \in Nat
          /\ file[FirstAudio][k + 1].size < audio_fifo_size /\ audio_fifo_size \in Nat
      BY <1>3, <1>21, LimitsAssumption
    <3>. HIDE DEF A
    <3>. QED  BY <2>5, <3>3, <3>4
  <2>8. BytesTo(Video, n) - BytesTo(Video, r - 1) < video_fifo_size
    <3>1. pos[Video] - 1 \in 0 .. Len(file[Video]) /\ n \in 0 .. pos[Video] - 1
          /\ n \in 0 .. Len(file[Video]) /\ r - 1 \in 0 .. Len(file[Video])
      <4>1. pos[Video] - 1 \in 0 .. Len(file[Video]) /\ n \in 0 .. pos[Video] - 1
        BY <1>4, <1>7, <1>9
      <4>2. n \in 0 .. Len(file[Video])
        BY <1>4, <1>9
      <4>3. r - 1 \in 0 .. Len(file[Video])
        BY <1>4, <2>4
      <4>. QED  BY <4>1, <4>2, <4>3
    <3>2. V[n] <= V[pos[Video] - 1]
      BY <1>3, <3>1, FilesAre, SumGrows
    <3>3. V[n] \in Nat /\ V[pos[Video] - 1] \in Nat /\ V[r - 1] \in Nat
      BY <2>6, <3>1
    <3>4. V[n] - V[r - 1] < video_fifo_size
      <4>. HIDE DEF V
      <4>1. video_fifo_size \in Nat
        BY LimitsAssumption
      <4>. QED  BY <2>5, <3>2, <3>3, <4>1
    <3>. QED  BY <3>4, BytesAre
  <2>9. BytesTo(FirstAudio, k) - BytesTo(FirstAudio, j - 1)
          + file[FirstAudio][k + 1].size >= audio_fifo_size
    BY <2>5, BytesAre
  <2>10. PICK p \in 1 .. n :
           /\ p = 1 \/ p < r
           /\ VTime(n) - VTime(p) <= ATime(k) - ATime(BeforeIt(j))
    <3>1. j \in 1 .. Len(file[FirstAudio]) - 1 /\ k \in 1 .. Len(file[FirstAudio]) - 1
      BY <1>4, <1>11, <1>17, <2>4, <2>7, <2>3
    <3>. QED  BY <1>1, <1>9, <1>23, <2>4, <2>7, <2>8, <2>9, <3>1 DEF Outlasts, BeforeIt
  <2>11. BeforeIt(j) \in 1 .. Len(file[FirstAudio])
    BY <1>4, <1>11, <2>3, <2>4, <2>7 DEF BeforeIt
  <2>12. p \in 1 .. Len(file[Video])
    BY <1>4, <1>9
  <2>13. /\ ATime(BeforeIt(j)) \in Nat /\ ATime(k) \in Nat /\ ATime(1) \in Nat
         /\ VTime(n) \in Nat /\ VTime(p) \in Nat /\ VTime(1) \in Nat
    BY <1>5, <1>9, <1>11, <1>14, <2>11, <2>12
  <2>14. VTime(p) <= ATime(BeforeIt(j)) + Gate
    <3>1. CASE p < r
      BY <2>5, <2>12, <3>1
    <3>2. CASE p = 1
      <4>1. ATime(1) <= ATime(BeforeIt(j))
        BY <1>11, <1>13, <2>11
      <4>. QED  BY <1>5, <1>14, <2>13, <3>2, <4>1
    <3>. QED  BY <2>10, <3>1, <3>2
  <2>. QED  BY <1>5, <1>10, <2>10, <2>13, <2>14
<1>. QED  BY <1>3, <1>22, <1>23, InputsAssumption

(* Regular files never starve the two threads, whatever the sizes of the   *)
(* FIFOs are, in either program (ts_muxer_app.c:239, ts_muxer_app.py:94,   *)
(* ts_muxer.c:342): the video that waits at a gate is due no later than    *)
(* audio that the application has fed or can feed.                         *)
THEOREM NeverStarvedHolds == Spec => []NeverStarved
<1>. DEFINE Within == Gated => SentWithin /\ LastPass
            Inv == Fed /\ Queued /\ Intact /\ Exact /\ GateInv /\ CaughtInv /\ Filling /\ Within
<1>1. Init => Inv
  <2>1. Init => Within
    <3>. SUFFICES ASSUME Init, Gated PROVE SentWithin /\ LastPass
      OBVIOUS
    <3>1. Video \in Streams
      BY TracksAre DEF Init
    <3>2. sent[Video] = 0 /\ pos[Video] = 1
      BY <3>1 DEF Init
    <3>. QED  BY <3>2 DEF SentWithin, LastPass
  <2>. HIDE DEF Within
  <2>. QED  BY <2>1, FedInit, QueuedInit, ExactInit, GateInvInit, CaughtInit, FillingInit
<1>2. Types /\ Inv /\ [Next]_vars => Inv'
  <2>1. Types /\ Inv /\ [Next]_vars => Within'
    <3>. SUFFICES ASSUME Types, Inv, [Next]_vars, Gated' PROVE SentWithin' /\ LastPass'
      OBVIOUS
    <3>1. Gated
      BY GatedStays
    <3>2. SentWithin /\ LastPass
      BY <3>1
    <3>3. SentTimes' /\ AheadOfFirst' /\ WithinGate'
      BY GateInvStep DEF GateInv
    <3>. QED  BY <3>2, <3>3, SentWithinStep, LastPassStep
  <2>. HIDE DEF Within
  <2>. QED  BY <2>1, FedStep, QueuedStep, ExactStep, GateInvStep, CaughtStep, FillingStep
<1>3. Types /\ Inv => NeverStarved
  BY NeverStarvedIs
<1>. QED  BY <1>1, <1>2, <1>3, TypesAlways, PTL DEF Spec

(* With regular files the program comes to its end or a FIFO loses some of *)
(* them, if its threads come to an end or starve each other: of what       *)
(* DoneOrStarved allows only the end is left.                              *)
THEOREM FinishesUnlessStopped == (Spec /\ DoneOrStarved) => Finishes
<1>1. Regular /\ [Next]_vars => Regular'
  <2>. SUFFICES ASSUME Regular, [Next]_vars PROVE Regular'
    OBVIOUS
  <2>1. /\ input' = input /\ Tracks' = Tracks /\ Streams' = Streams /\ file' = file
        /\ NumAud' = NumAud
    BY InputStays DEF file
  <2>2. Short' = Short
    BY <2>1 DEF Short, TimesOf
  <2>3. Paced' = Paced /\ Covered' = Covered
    BY <2>1 DEF Paced, Covered, VTime, ATime
  <2>4. \A s, n : BytesTo(s, n)' = BytesTo(s, n)
    BY <2>1 DEF BytesTo
  <2>5. Outlasts' = Outlasts
    BY <2>1, <2>4 DEF Outlasts, VTime, ATime
  <2>. QED  BY <2>1, <2>2, <2>3, <2>5 DEF Regular
<1>2. NeverStarved /\ Regular /\ ~filled /\ ~dropped => ~Starved
  BY DEF NeverStarved
<1>. QED  BY <1>1, <1>2, NeverStarvedHolds, PTL DEF Spec, DoneOrStarved, Finishes
=============================================================================
