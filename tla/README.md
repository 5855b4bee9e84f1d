# A TLA+ model of ffmpeg_apps

The repository holds a few programs around libavformat: an MPEG-TS multiplexer
library (`src/apps/ts_muxer`) with an application in C and one in Python, an
elementary-stream extractor (`src/apps/av_to_es`), a transcoder
(`src/apps/transcoder`) and a patched copy of FFmpeg's MPEG-TS muxer
(`src/libavformat/mpegtsenc.c`). This directory holds TLA+ modules that are
translated from that code, the TLC configurations that check them on small
instances, and TLAPS proofs for all values of the constants.

Paths below are relative to the repository; `TM`, `FF`, `CB` and `AP` stand for
`ts_muxer.c`, `ts_muxer_fifo.c`, `circular_buf.c` and `ts_muxer_app.c` in
`src/apps/ts_muxer/src`, `MT` for `src/libavformat/mpegtsenc.c`, `PY` for
`src/apps/python_test_apps/ts_muxer_app.py`, `AE` for
`src/apps/av_to_es/av_to_es.c` and `TR` for `src/apps/transcoder/transcoding.c`.

## Inventory

| component | state | operations | talks to |
|---|---|---|---|
| byte ring (`CB`) | `data`, `data_rd`, `data_wr`, `data_max_size` | `cb_create`, `cb_writable_size`, `cb_readable_size`, `cb_write`, `cb_peek`, `cb_read` | called under a FIFO's mutex |
| frame FIFO (`FF`) | a ring, a mutex | headered write, peek and read; plain write and read; the two space queries | application thread on one side, muxing thread on the other |
| muxing thread (`TM`) | per stream `last_pts`, `last_dts`, `min_dts_diff`; `base_ts`; its local `last_vid_pts` | `ts_muxer_entry`'s loop, `init_next_av_packet`, `unroll_timestamp`, `write_frame`; the callback `write_packet_fn` | takes frames from the input FIFOs, calls libavformat, which calls back into `out_fifo` |
| muxer application (`AP`) | positions in the stream files, the current headers | `muxer_process`: drain the output, one video frame, audio and SCTE-35 frames up to its pts, twelve last rounds of draining | the write and read functions of the library |
| Python application (`PY`) | the same | the same loop with other guards: it does not wait for room for video, gives each track one frame per pass, and leaves the pass at the first track that takes none | the library through SWIG |
| MPEG-TS muxer (`MT`) | continuity counters, PAT/SDT/PCR countdowns, `first_pcr`, per stream a payload under assembly with pts, dts and flags | packets to PES to 188-byte packets, tables, null and PCR-only packets | called by libavformat's interleaver, writes to AVIO |
| extractor (`AE`) | slots of wanted streams with pid and fd; `exit_flag` | open a file or pipe per wanted stream; demux, select, cut times to 33 bits, write header and payload; a signal handler | files, or named pipes that one of the two applications reads |
| transcoder (`TR`) | `ifmt_ctx`, `ofmt_ctx`, the arrays `stream_ctx` and `filter_ctx`, and what decoders, filter graphs and encoders hold back | open, decode/filter/encode/write, flush, clean up | libav* only |
| SWIG bindings, build files | none at run time | | |

How they interact: the application thread and the muxing thread share one FIFO
per elementary stream and `out_fifo`, each behind its own mutex, and nothing
else that both use while they run. The muxing thread never blocks on an empty
input (it sleeps 40 ms and looks at the other streams) and blocks inside
`write_packet_fn` when the output has no room. The C application sleeps when the
video FIFO has no room and skips a track that has none. The extractor and the
application that reads its pipes meet in `open`, pipe by pipe, and know nothing
else of each other. Nobody signals anybody:
everything is polling.

What is hard, and what each part must get right:

* *Ring.* Three ways to wrap, and `data_rd == data_wr` for both empty and
  exactly full. The bytes read must be the bytes written, in order.
* *Frame FIFO.* Asking for room and writing, and peeking and reading, are
  separate critical sections, with the other thread in between. The space query
  does not count the 20 bytes of header that the write adds, and failures of
  write and read are ignored. Frames must come out whole, once and in order.
* *Output path.* avio hands over its buffer cut anywhere, the application takes
  1316 bytes or nothing. The file must be the emitted stream, and the wait of
  `write_packet_fn` must end.
* *Muxing thread and application.* Each gates a stream by the pts of another
  one: three gates over two threads that can close on each other. Streams must
  stay together, nothing may run ahead without limit, and the program should end.
* *Timestamps.* 33-bit values, one unrolling base for all streams, -1 for
  "unset", guessed dts. Lip sync must hold across wraps; dts must increase and
  not pass the pts, or libavformat refuses the packet.
* *MPEG-TS muxer.* Packets of 188 bytes exactly, continuity counters, table and
  PCR periods, constant-rate stuffing, gathering audio frames into one PES.
* *Extractor.* The slot chosen and the slot written; timestamps masked to 33
  bits before they are compared with "no timestamp"; the order pipes are opened;
  a signal in the middle of a write.
* *Transcoder.* Nearly every call can fail, each failure takes its own way out,
  and one set of variables (`ret`, the contexts) has to be right on all of them:
  what is written, what is reported, and what is released.

`PROJECT.json` lists the hazards line by line with the properties aimed at them.

## Modules

```
CircularBuf            the ring, as operators
  FrameFifo            one input FIFO and its two threads   -- refines --> FrameQueue
  OutFifo              avio buffer, write_packet_fn, out_fifo, both draining loops
Timestamps             unroll_timestamp and the dts rules, as operators
  PacketClock          timestamps of a video and an audio stream for ever
  TsMuxer              both threads at the level of frames, all streams, either application
  AvToEs               the extractor, its pipes and their readers, to the muxer's unrolling
TsPacket               layout of packets and clock references, as operators
  TsWriter             the MPEG-TS muxer: gathering, packets, tables, clock, padding
Transcoder             the transcoder: set-up, read loop, flushing, clean-up
*Proofs                theorems about the module of that name
MC*                    values for TLC
```

* **CircularBuf.** A record with the fields of `circular_buf_t`; one operator per
  function. The two `memcpy` branches are kept. Calls happen under a mutex, so a
  call is part of one step of the module that uses it. `ByteAt` and `Contents`
  say what a ring holds, independently of the wrapping.
* **FrameFifo.** A byte is a cell `[f, k]`: byte `k` of frame `f`'s record. Steps
  are the critical sections: `AskSpace`, `WriteFrame`, `EndOfFile` for the
  application, `PeekHeader`, `ReadFrame`, `ReadFails` for the muxing thread. A
  header read from bytes that are not a frame's first ones may be any header
  (`Decoded`), so the model goes on after a corruption as the program would.
  `peek_next_header` also copies `dts`, from bytes it did not read (FF:54); no
  caller looks at it, and the model's peek has no dts.
* **FrameQueue.** What such a FIFO promises: a queue of frames with a byte budget;
  `Put` takes a frame exactly if it fits, `Get` yields the oldest, whole.
* **OutFifo.** A byte is its position in the stream that libavformat emits. `Mux`
  and `MuxOn` stand for libavformat (external): a packet given to it makes a run
  of transport-stream packets, avio calls `write_packet_fn` with its whole buffer
  whenever it is full and with the remainder at the run's end. A run is long when
  dts jumps: at 25 Mbit/s the muxer pads a gap with null packets, 40 MB for 13
  seconds. `AskSpace` and `WritePacket` are the two critical sections of
  `write_packet_fn`, `Drain`, `DrainEnds`, `Feed`, `Wake` the application's
  loop (AP:201-212, AP:319-334). `Look` and `DrainRound` are where the Python
  program differs: it asks for the readable size before it reads (PY:59-72).
  Polls that change nothing are stuttering.
* **Timestamps.** `unroll_timestamp`, and the branch of `init_next_av_packet` that
  finds a video frame's dts (TM:216-248), as operators. `Extended` is the mask
  and sign extension of TM:184-187.
* **PacketClock.** Frames have true times that grow without end; headers hold them
  modulo `Wrap`. The headers of a behaviour have one of two writers: `av_to_es`, whose
  dts is always a copy of the pts (`VideoFromAvToEs`, AE:260-283), or another caller of
  `write_video_frame`, who gives the decoding time or none (`VideoFromCaller`). Each
  step takes one frame's header through `Stamped` and its packet to libavformat,
  which accepts or refuses it (`Accepts`, external): not with a dts after its pts, or not
  after the last one accepted of its stream. A refused packet is lost, because nobody looks
  at `write_frame`'s result. `origin`, `collided` and `shown` are history variables.
* **TsMuxer.** The application and the muxing thread (`TakeVideo`, `NoVideo`,
  `TakeTrack`, `NoTrack`) over one FIFO per stream, here a queue of frames with a
  byte budget. Which application it is, C or Python, is part of the input:
  `WriteVideo`, `WriteTrack`, `VideoEnds` and `DrainRound` are common to both with
  the differences as guards, `PeekVideo` is Python's way past a full video FIFO,
  and `LeaveTrack` goes on to the next track in C and out of the loop in Python.
  `Stored` has the three outcomes of a write that FrameFifo establishes: stored,
  dropped for want of header room, or filling the ring exactly and emptying it;
  the history variables `dropped` and `filled` remember the last two.
  Times in headers are cut to 33 bits, and both gates compare what the code
  compares: the application raw header times (AP:258), the muxing thread a raw one
  with an unrolled one (TM:339, TM:375). Variables that C leaves uninitialized are
  arbitrary members of `Garbage`: `last_vid_pts` (TM:330), read for the tracks
  before any video packet set it, and `stray`, the `st_audio[0].last_pts` of a
  muxer without audio (TM:336, memory from `malloc`).
* **AvToEs.** `epc` is where the extractor is; `SkipStream`, `OpenFile`,
  `MakePipe`, `Meet` and `OpenFails` are its opening loop, `SkipPacket`,
  `WritePacket`, `WriteCut`, `WriteKills` and `Close` its main loop. Two numbers
  for a slot are kept apart as in the code: the one that
  `check_id_stream_is_required` returns (`SlotOf`) and the stream's number that the
  write uses (`Target`, AE:272). The readers are the C application (video, audio,
  SCTE-35), the Python one (audio, then video) or one process per pipe: `Meet` is
  both sides' `open`, `ReaderMisses` a reader that is there before `mkfifo`. A
  signal only sets the flag, except that it may cut the write it arrives in
  (`WriteCut`): `write`'s result is not looked at. SIGPIPE is `WriteKills`.
* **TsPacket.** The bytes of headers, adaptation field, payload and stuffing of a
  packet of `mpegts_write_pes`, with both branches of the stuffing (MT:1427-1447),
  the number of packets that a section takes, and the coding of a clock reference:
  `write_pcr_bits` with C's division towards zero and the bits of a negative
  remainder as they are, and `ReadPcr`, what a receiver makes of them.
* **TsWriter.** `mpegtsenc.c` behind libavformat's interleaver (external), which
  gives units in the order of their dts. A call of `mpegts_write_packet` decides
  at once which PES to write and what to gather; that is the step `GiveUnit`, and
  `Flush` is that of `mpegts_write_flush`. The PES to be written are then in
  `jobs`. Each iteration of `mpegts_write_pes`'s loop is a step: `Turn` says which
  tables and clock reference are due and whether the PES is too early, `Pad` is an
  iteration that ends at its `continue` with a null packet or a clock reference
  alone, `Emit` one that writes a packet of the PES. The muxer has one thread, but
  its loops over streams, PES and packets share counters and clocks, and that is
  what the steps are for. `GiveSection` is an SCTE-35 section, which bypasses all
  else. `done`, `wrote`, `seen`, `fed` and `last_pcr` are history variables: what a
  receiver of the file knows. The instance's units have bytes but no contents: what
  a bitstream check adds (access unit delimiter, ADTS or Opus header) is part of
  the size. Times are ticks of 90 kHz as in the code; the length of a packet at
  the mux rate is the constant `PacketPcr`, so `av_rescale`'s rounding from one
  packet to the next is left out.
* **Transcoder.** Data is counted in units that packets, frames and encoded packets
  carry: where each is (`in_dec`, `in_graph`, `in_enc`), was written, or was given
  up (`dropped`). `Setup` has one action per function and error exit of
  `open_input_file`, `open_output_file` and `init_filters`; what each leaves
  allocated is in `dec`, `enc`, `graph`, `leaked`. `ReadLoop` has `main`'s loop with
  `filter_encode_write_frame` as the steps of `pull`; `Finish` flushes
  (`FlushFilter`, `FlushEncoder`) and cleans up, and says at which state of the
  pointers the clean-up reads what is NULL, unset or beyond the array
  (`ReadsNull`, `ReadsUnset`, `ReadsBeyond`). `ret` keeps one of three values, because `main`'s
  exit status depends on which assignment came last.

Definitions whose comment begins with "Mutation" are wrong variants of the
definition that follows them. No module uses them: they name plausible bugs, and
substituting one for the definition makes the property it is listed with in
`PROJECT.json` fail.

## Runs

| run | question | properties | bounds |
|---|---|---|---|
| `fifo_any` | is one FIFO sound under all interleavings, for any sizes? | `Integrity`, `PeekStaysValid`, `DeliveredInOrder` | ring of 8 bytes, header of 3, up to 4 frames of 1, 2, 3 or 6 bytes |
| `fifo_unit` | is it a queue when no write can fill it exactly? | `ImplementsQueue`, `NeverFilled` | ring of 9, records of 4, 6, 10 |
| `out_stream` | when every run leaves room for a read chunk beside it, is there no exact fill and does every wait end? | `NeverFilled`, `WaitsTillWritten` | FIFO and avio buffer of 11, packets of 2, chunks of 4, runs of 1 to 3 packets, 12 packets, both programs |
| `out_burst` | is the file the stream, also with runs longer than the buffer? | `OutputExact`, `AskedSpaceIsThere` | the same, runs of 1, 3 or 6 |
| `out_burst_lost` | does `write_packet_fn` then deliver what it is given? (no) | `WrittenOut` | as in `out_burst` |
| `clock_guess` | do the streams keep one clock across a wrap, and which packets does libavformat refuse, with headers of `av_to_es` or of a caller who may leave the dts out? | `InStep`, `DtsAccepted` | wrap at 100, start before it, times to 112 |
| `mux` | do the gates work, what can stop the program, and does it end on regular input? | `Interleaved`, `TracksCaughtUp`, `FedInTurn`, `DoneOrStarved`, `StarvedForever`, `Finishes`, `TypeOK` | both programs; 42 sets of files: audio with SCTE-35, SCTE-35 alone, two audio tracks, video alone, and files that wrap; three values of uninitialized memory |
| `ts_cbr` | is the file one stream at a constant rate? | `InOrderOnce`, `Continuous`, `OneClock`, `PcrBeforeDts`, `PaddingLeavesTime`, `PcrReadsBack`, `KeyAfterTables`, `WriteEnds` | video, audio and sections, 4 units in all, packets of 188 bytes, PES payload of 354 |
| `ts_vbr` | is what is gathered right, at a variable rate? | `PesFits`, `PayloadFits`, `NotHeldBack`, `PcrIncreases`, `TypeOK` | video, an Opus and another audio stream, 5 units in all |
| `extract` | what reaches the files, do the two ends of the pipes meet, and what does a signal in a write leave? | `ExactWhenAligned`, `OnlyLastCut`, `TimesSurvive`, `ConnectsIfOrdersAgree`, `TypeOK` | 3 slots, 6 inputs, 4 command lines, files or pipes with 3 kinds of readers, 6 packets across a wrap at 16 |
| `extract_slot` | does the file named for an option hold the stream with its pid? (no) | `FileHoldsItsStream` | the Readme's options, the same inputs |
| `transcode` | what is written, reported and released when any call may fail? | `CrashesOnlyInSetup`, `Released`, `Accounted`, `StatusTells` | 5 inputs of 1 to 3 streams, 4 packets, decoders that hold back one unit |

Why the bounds are enough: the rings hold two to three records, so every way for
a field to straddle the end occurs, in the header and in the payload, as do a
full FIFO, a frame that passes the space query and does not fit, and an exact
fill. In the output instance the packet does not divide the FIFO, as 188 does
not divide 40000000, and a chunk is several packets, so cuts fall everywhere.
The clock instances cross the wrap in both orders of the streams. The muxer
instance has reordered video with dts and video without, audio all along,
audio ending early, beginning late, and with a frame that its FIFO can never
hold, FIFOs of a few frames so that all three gates close, and files that begin
just before a wrap. The extractor's inputs have their streams in and out of the
order of the options, with streams nobody asked for and ids of 0 between them. The
transcoder's have streams that are copied, encoders that hold back and others, and
a stream that only a packet reveals. The writer
instances have the real packet size and `max_delay` of `ts_muxer`, units that end
inside a packet, fill PES exactly, pass the limit together or alone, and distances
of dts below, at and above `max_delay`; a gap of 20000 ticks is padded with some
60 packets, through several periods of the tables and of the clock, whose 33 bits
are 10 here so that it wraps, and one start lies before `max_delay`. `ts_cbr` has
the options of `create_ts_muxer` (TM:476-483): constant rate, `mpegts_copyts`,
`pat_period`; `ts_vbr` those of a muxer opened without any. The bounds that
are only for TLC are `NumFrames`, `MaxPackets`, `MaxUnits`, `Horizon` and the
lengths of the files; the proofs need none of them to be small. (In TsWriter
padding stops at `MaxPackets`, which `WriteEnds` shows is never reached.)

What the runs show:

* An exact fill loses everything. A write of exactly the writable size leaves
  `data_wr == data_rd`, which both size functions and all readers take for
  an empty ring: frames in an input FIFO, also between the peek and the read of
  `init_next_av_packet`, or the whole of `out_fifo`. Properties of the FIFO
  therefore carry `filled \/ ...`, and `UnitNeverFilled` says when it cannot
  happen.
* The output path loses nothing as long as no run fills the avio
  buffer, and waits for nothing as long as each run leaves room for a chunk beside it. Buffer and `out_fifo` have the same size (TM:500, TM:514). When one
  does, the write either meets an empty FIFO and is lost as a whole
  (`out_burst_lost`, against the comment in `write_packet_fn`, TM:139-140) or meets
  a residue of at most 1316 bytes, which neither application ever reads, and waits
  for as long as the program runs: `WaitsTillWritten` is checked where this cannot
  happen, and fails under the runs of `out_burst`.
* The pts gates keep the streams together, even from an uninitialized
  `last_vid_pts` (`Interleaved`): the application has not written a track's frame
  before it read a video header of its time, and the video cannot pass five seconds
  beyond audio although nothing limits it before the first audio packet: FIFO order
  and the application's pass order do. What the C application leaves behind in a
  pass cut short it makes up for (`TracksCaughtUp`). Both are stated for files that
  do not wrap (`Interleaved` also for times less than half a wrap apart, and a
  video paced to the first audio track): across a wrap the application compares raw
  times, and a track whose next frame is before the wrap gets nothing more once the video is behind it.
* The program ends, or it *starves*: the application waits for room for video, in C
  without looking at the tracks, and the muxing thread takes no video until
  audio comes. TLC reaches this with audio that ends early, with an audio frame
  larger than its FIFO, with regular audio after an exact fill lost frames, and
  without audio for an unlucky content of memory. `DoneOrStarved` says there is
  no other way to stop, not even a wrap, `StarvedForever` that there is no way out,
  and `Finishes` what keeps it away: regular files (`Regular`) and no frame lost. Regular
  is that each video frame has audio due by then at most a gate before it, from
  the first to the last (`Paced`, `Covered`), that audio frames fit into their FIFO,
  and in C that an audio FIFO that is full lasts as long as a full video FIFO
  (`Outlasts`): its pass does not come to the audio while the video has no room, so
  that the audio that is there must carry the muxing thread through. FIFOs that
  hold two frames are not enough for that. The audio FIFO of `mux` has 9 bytes, with
  which the regular files of both programs are among its inputs.
* The Python program does not wait before a full video FIFO, so it escapes some of
  this: `Starved` asks more of it, that the first audio track be stuck too. It has
  a weakness of its own: its `break` leaves the loop over the tracks, and no track
  ever gets more frames than one before it, whatever their times (`FedInTurn`). A
  first audio track that ends takes all others with it.
* Streams keep one clock across wraps, whichever comes to the wrap first. Two
  things break it and are stated as the limits of `InStep`: a timestamp that
  unrolls to -1, which `unroll_timestamp` takes for "no base yet"; and guessed
  dts that fall behind the pts by half a wrap. The second needs a tiny
  `min_dts_diff`, which a first dts near 0 causes: it is compared with `last_dts`
  still -1 (TM:222-225). TLC found it when a start at 0 was given to
  `clock_guess` with a longer horizon; the instance starts before the wrap and
  ends before the lag can grow that far.
* libavformat accepts every packet of a caller who gives the decoding times or
  leaves them out. `av_to_es` gives neither: its dts is the pts (AE:274-283), since the
  test for a missing one comes after the cut to 33 bits. When the video is reordered,
  that goes back, and libavformat refuses, and the muxer loses, every frame that is
  not presented after all those decoded before it (`DtsAccepted` says exactly those). With
  the usual B frames that is most of the video on the Readme's way from extractor to
  multiplexer. (libavformat lets a dts follow an accepted one of exactly 0, which it
  takes for "none yet"; that is not modelled.)
* The MPEG-TS muxer keeps its promises to a receiver: each unit comes once and in
  order, in a PES with its own or its first unit's times; counters go on through
  tables, sections, PES and packets without payload; at a constant rate the clock
  references are as far apart as the packets between them last, none is after the
  dts of the PES that it comes with as long as the rate suffices (`PcrBeforeDts`), and
  padding is begun only while the clock is before the dts of all that waits, in the
  jobs or gathered (`PaddingLeavesTime`). That is not to say that every PES is in time:
  one that carries no clock reference can begin after the clock has passed its dts,
  because a PES before it, tables and the padding that was still harmless took the time. In
  `ts_cbr` gathered audio does so behind a video frame that was padded for. Not
  resetting `opus_queued_samples` in the flush of another stream (MT:1778) only
  makes PES shorter (`PesFits`). A clock reference reads back as it was, across its
  wrap, unless the first dts is less than `max_delay`: then the clock begins below
  zero and what is read is ahead by 512 or 812 units until it passes zero
  (`PcrReadsBack`). One start is left out of the instances: with a first dts of
  exactly `max_delay`, `first_pcr` is 0, which MT:1214 takes for "not set", and
  `OneClock` fails at the second PES.
* The extractor puts each stream into its own file only if the input's streams come
  in the order of the options (`ExactWhenAligned`). Otherwise packets go to the file
  of another option or to descriptor 0; with the Readme's own options and an input
  whose audio comes first, `extract_slot` shows it. It and its reader come together
  exactly if they open the pipes in orders that agree, whatever signals come
  (`ConnectsIfOrdersAgree`; each pipe is for one stream, `NamesDiffer`: two streams of
  the same id and type would share one): the C application's order is that of an input with the
  video first, the Python program's that of one with the video last. A pipe that
  was not made yet is a third outcome. A signal leaves at most one record cut, the
  last of its file (`OnlyLastCut`). Times survive the cut to 33 bits and the
  muxer's unrolling (`TimesSurvive`), but for a missing pts: the test for it comes
  after the cut (AE:274) and never succeeds, so that it becomes time 0.
* The transcoder releases what it stored on every way out (`Released`) and no failing
  call crashes it once the read loop runs (`CrashesOnlyInSetup`); before that the
  clean-up reads through pointers that are still NULL or unset (TR:629-633). A
  decoding error ends the reading but not the program: the rest is flushed, the
  trailer written and success reported, with all packets behind the error unread.
  `Accounted` says exactly what a successful run may lack, and `StatusTells` that the
  status does not distinguish an error from the end of file, but does distinguish
  inputs with something to transcode from inputs without.

## Fairness

`FairSpec` of OutFifo and of TsMuxer is weak fairness of each thread: when a
thread can change something it eventually takes a step. The code justifies no
more and no less: all waits are polls with sleeps of bounded length (30 ms,
40 ms, 500 ms), and no mutex is held across a sleep or a call that can block, so
a runnable thread gets its mutexes. Nothing is assumed about a single action, or
about the order in which threads run. In TsMuxer it is also assumed that
libavformat's writes return, which is OutFifo's `WaitsTillWritten`, true for
runs that leave room for a read chunk beside them (`RoomForAChunk`). `FairSpec` of TsWriter is weak fairness of
`Pad \/ Emit`: a call that has begun runs on until it returns. `FairSpec` of AvToEs
is weak fairness of the extractor alone (`Extract`): its calls return, except an
`open` that waits for a reader, which is `Meet` and enabled only when the reader is
there. Readers open their pipes as part of `Meet`; that they leave, come too early,
or that a signal arrives is never assumed. The transcoder's properties need none.

## Theorems

All for every value of the constants that the named `ASSUME`s allow.

* `CircularBufProofs`. Lemmas: what `cb_write`, `cb_read` and `cb_peek` do to the
  two sizes and to `ByteAt`, through both branches. They are all that the other
  proofs know of the ring.
* `FrameFifoProofs`. `TypeCorrect`; `IntegrityHolds`, `PeekStaysValidHolds`,
  `DeliveredInOrderHolds` from one inductive invariant; `UnitNeverFilled`;
  `ImplementsQueueHolds` and `UnitImplementsQueue`.
  The invariant is needed because "whole records" (`Framed`) alone does not say
  that a read stops at a record's end: it adds that the records' ids increase
  from head to tail and are behind the file position, that a peeked header is
  the one at the head, and that the last packet is older than all of them.
  The refinement has the conjunct `[]NeverFilled` as its hypothesis, because after
  an exact fill the code is no queue; `UnitImplementsQueue` discharges it for FIFOs
  whose records are multiples of a unit that the size is not. The queue that a ring
  stands for is read off its bytes record by record (`Frames`), so the proof relates
  the heads of records in a string of bytes to those in the string with a record
  more at its end (`FramesAppend`) or less at its front (`FramesPop`).
* `OutFifoProofs`. `TypeCorrect`; `OutputExactHolds`, `AskedSpaceIsThereHolds`,
  `ShortRunsNeverFill`. The invariant places every emitted byte: the file has the
  first ones, `ByteAt(out, i)` is byte `Len(outfile) + i + 1`, `buf_size` and
  `left` are the rest. They hold for both programs' draining.
  `RoundMakesRoomHolds`: if the FIFO has room for any write of avio beside a chunk
  (`RoomForAChunk`, about the lengths of runs), a round of draining does not end
  while the write that waits has no room. The residue that the applications leave can
  be a whole chunk, so the code needs the condition; `out_burst` does not meet it.
  `WaitsWhileThreadsTurn`: so `WaitsTillWritten` needs of the threads only
  that neither stops where it can go on (`ThreadsTurn`).
* `PacketClockProofs`. `UnrollExact`: the low bits of a time less than half a wrap
  away from the base unroll to that time, counted from the same origin.
  `InStepHolds` from the invariant that the base is the last timestamp counted
  from the origin and that the last frame is near both streams' next ones, under
  `Near(reach)`, with headers of `av_to_es`, or of a caller who always gives the dts.
  `TypeCorrect` needs neither. `InStepGuessed` and `DtsAcceptedHolds` allow both writers, and
  headers without dts; the latter adds that libavformat's last dts of `av_to_es`'s video is
  the latest pts shown (`OrderInv`). For the other caller the invariant
  `GuessInv` says that the base is behind the last frame's true time, by at most
  `drift`, that a pts is always exact, and that the next guess is also behind. This
  needs `GuessesNear(reach, drift)`: no frame comes sooner than the frame rate, none
  is presented more than `Lead` after its decoding, all distances and `drift`
  together are less than half a wrap, and the lag is bounded for one of two
  reasons: the stream is short (`ShortStream`), or it has exactly the muxer's frame
  rate and no first dts that `last_dts = -1` makes into a tiny `min_dts_diff`
  (`Steady`). Without the last the lag grows with every frame, which is the second limit of `InStep`
  above. `clock_guess` satisfies all of it with a `reach` of 6 and a `drift` of 25.
* `TsWriterProofs`. `PacketIsFull`: the stuffing arithmetic, for all flags and any
  payload left; it also says that each packet takes payload, so that the loop
  ends. `PcrExact`: `write_pcr_bits`, read back, for every integer, with the error of
  negative ones. Then, for any streams, units, sections, rates and limits:
  * `TypeOKHolds`, and from `HeldInv` `PayloadFitsHolds` (the `memcpy` behind the
    gathered units, MT:1811, stays in its memory) and `NotHeldBackHolds` (a gathered
    unit waits for at most `max_delay` of dts). `HeldInv` adds that nothing is
    gathered without bytes: the flush of stale payloads looks at the size only
    (MT:1773).
  * `PesFitsHolds`, with the invariant that `opus_queued_samples` counts at least
    the samples gathered (`FitsInv`), which is why the missing reset (MT:1778) is
    harmless. `InOrderOnceHolds`, with the invariant (`OrderInv`) that the units of a
    stream in the jobs, in their order, and behind them the gathered ones are
    numbered without a gap from the last one written to the last one given.
  * `ContinuousHolds`: what a receiver saw last on each pid is what the muxer has in
    its counter, and each step writes its tables, clock references and packets as one
    row that goes on from there. `KeyAfterTablesHolds`: from the first packet of a
    key frame back there are tables behind the last one of its stream.
  * `PcrReadsBackHolds` (`CodedInv`: what was coded is the value). `OneClockHolds` and
    `PcrIncreasesHolds` have `[]FirstClockSet` as their hypothesis: no PES sets
    `first_pcr` to 0, which MT:1214 would take for "not set" and start the clock
    again. At a variable rate the increase also needs the dts of the PCR stream to
    increase (`PcrGapsPositive`), which libavformat enforces for a muxer without
    `AVFMT_TS_NONSTRICT` (MT:2046), and that only audio is gathered, so that the
    stream's PES are written in the order of their dts (`PcrOrder`).
  * `PcrBeforeDtsHolds`. Whether a clock reference can be late depends on rate, tables
    and units together, which the code computes nowhere (MT:1277 only warns). The
    theorem names the condition per call (`CallsOnTime`): when a call begins, there are
    times by which its PES can be written one after the other (`OnTime`), where each
    `Takes` the padding it waits for, as many packets as it can need with the largest
    headers, and the tables as often as their periods and once more; those of the
    clock's stream are at their end before their dts. The theorem is that
    clock references then come before their dts. Its invariant (`InTimeInv`) carries those times from
    turn to turn. What makes it inductive is how little a turn may still cost: the
    countdowns are within their periods (`CountsInv`), no table is due by its dts any
    more once the PES is not fresh (`NoneDue`), padding for a PES is over at its dts
    less `max_delay` and a packet (`PaddedTo`), and the next PES's time is counted from the last
    one's end. Every call of `ts_cbr` is on time. At a variable rate nothing is needed.
  * `PaddingLeavesTimeHolds`, without any condition. A PES is padded for until the clock is
    within `max_delay` of its dts; `WaitInv` says that no PES in hand is later by more than
    `max_delay` than one behind it, and nothing that waits later than the last unit
    given. What is gathered was then looked at by that unit's flush of stale payloads
    (MT:1768), without which padding would pass it.
  * `RunsDownHolds`: with every turn the number of PES, the bytes left of the one in
    hand, its being fresh, or how early it is, decreases, in this order (`RunsDown`).
    That is the variant of `WriteEnds`, for any sizes: padding moves the clock towards
    the PES it waits for, and a packet of it takes payload.
* `TsMuxerProofs`, for any files, times and sizes. `FedInTurnAlways`: the invariant
  (`Turns`) adds where in its pass the program is: the tracks before the one it is at
  gave a frame in this pass, so they are a frame ahead of those from it on.
  `StarvedForeverHolds`: no step of either thread ends a starvation. Nothing of the
  FIFOs' contents is needed beyond the shapes (`Shaped`), because in such a state
  every enabled step belongs to a track other than the first or changes only where a
  thread looks. `TypeOKHolds`: no FIFO is overdrawn (`Fifos`: what is free and what
  the frames take is the size), the timestamps made up are numbers, the rounds end.
  `TracksCaughtUpHolds`: the invariant (`CaughtInv`) says of each track with room, and
  of each point of a pass, up to which video header it has been served; a pass cut
  short leaves it behind by one header only. `InterleavedHolds`: the sum of what is
  read, queued and sent of each stream is the file (`Queued`, `Intact`), the
  unrolled times are the file's (`Exact`), no track packet is ahead of the video
  header read (`BehindInv`), and the video sent is within a gate of the first audio
  packet sent or due (`GateInv`).
  `NeverStarvedHolds`: regular files never starve the threads, in either program, for any
  sizes. The video that waits at a gate has audio due no later (`Covered`), which
  the application has fed or can feed: in Python because its pass is not stopped by
  the video, in C because otherwise the audio FIFO was full, and that audio `Outlasts`
  the video in its FIFO (`Filling`: unless frames were lost, what a FIFO holds are the bytes
  of the frames read and not sent). `FinishesUnlessStopped`: with
  `DoneOrStarved` that is `Finishes`. This proof found that `Finishes` as it was
  stated before, with FIFOs of two frames, is not true of all files; `Covered` and
  `Outlasts` came from its counterexamples.
  Two hypotheses are part of `Interleaved` and were found by this proof. `Short`: no
  two times of the files are half a wrap (13 hours) apart, since they would unroll
  to others even if none has wrapped. `Paced`: the first audio track goes forward,
  and the video before its beginning is not more than a gate ahead of it. The
  history variable `dropped` is the third: a frame that passed the space query and
  did not fit with its header is missing from the order that the gates rely on.
* `AvToEsProofs`. `TypeOKHolds` (`TypesFit`). `OnlyLastCutAlways`, from the invariant
  that either no record is cut, or the flag is set and the files are all open
  (opening one would empty it). `ExactWhenAlignedHolds`, for any input and command
  line: its invariant (`Exact`) says that every wanted stream that the opening loop
  came to is placed (its descriptor in its slot, its file there, and in it the
  packets read of it, in order), and that nothing is read before all are.
  `TimesSurviveHolds`: by `UnrollExact`, packet after packet.
  `NeverConnects` and `NeverStuckHolds` are the two halves of `ConnectsIfOrdersAgree` that
  are safety: programs whose orders differ are never connected, and with orders that
  agree an extractor in `open` has its reader at that pipe. Their invariant (`OrderInv`)
  says that the pipes met so far are those of the wanted streams so far, that no reader
  is ahead of the extractor while none has missed a pipe, and that a reader with
  pipes left is at one of them. `ConnectsUnlessStuck` states the liveness
  property for every job, given that an extractor that can go on does.
* `TranscoderProofs`. `TypeCorrect`, `CrashesOnlyInSetupAlways`, `ReleasedAlways`,
  `FlushedAlways`, `AccountedAlways`, `StatusTellsAlways`, for any streams and number of
  packets, from one inductive invariant. Its parts: what the program counter says
  about the flags and the current stream (`Control`); which contexts exist at each
  stage of the set-up (`Contexts`); where units can be held back (`Held`), that none
  is negative (`Counts`) and that flushed streams are empty (`Emptied`); what `ret`
  says (`Status`); at most one unit given up (`DroppedOne`); and for each stream that
  what was read is what is held, written or dropped (`Balanced`). `Accounted` follows
  when the flush has emptied the rest, so it needs all of them.

Some definitions are recursive over data: `Frames` of FrameFifo, `Chosen` of AvToEs
and the sums and unrolled lists that the proofs use. They are functions on the
naturals, and what is proved of them goes by the least natural at which it would
fail (`LeastElement`, `InductionTo`), which the provers can use where an
induction theorem over operators is beyond them.

The theorems state their property as it is checked, but for the hypotheses named
above: `[]FirstClockSet`, `[]NeverFilled`, `CallsOnTime`, and the assumptions on the
constants `Near`, `GuessesNear`, `PcrGapsPositive` and `RoomForAChunk`. Each is met by
an instance of `Runs` (`fifo_unit` meets `NeverFilled` always).

Every safety property of the runs has a theorem. Liveness is beyond the prover: that
weak fairness makes a thread act needs ENABLED. For three of the five properties the
proofs reduce it to that: `WaitsWhileThreadsTurn`, `FinishesUnlessStopped` and
`ConnectsUnlessStuck` have as hypothesis only that the threads
do not stop where they can go on (`ThreadsTurn`, `DoneOrStarved`, `ThroughOrStuck`), and the property follows for all values of the constants. That
fairness gives these, and that the FIFOs' threads end or starve (`DoneOrStarved`), is
only model-checked, on the instances of the runs; so is `WriteEnds`, whose variant is
proved (`RunsDownHolds`) but whose temporal conclusion is an induction over data.
The type invariants that a theorem states for all constants are not repeated in a
run.

## Not modelled

* *SWIG bindings and build files*: no state or behaviour of their own. Command lines
  are taken as parsed, in all programs.
* *libavformat's interleaver, codecs, filters and other formats*: not in this
  repository. They are external actions: what they may return, hold back or refuse.
* *MPEG-TS muxer*: the contents of tables and units, subtitles and teletext, m2ts,
  packets without timestamps, and flags that nothing here sets. What a bitstream
  check adds to a unit is part of its size. With a table period in seconds, tables are
  due by the dts of units, which stands still while a gap is padded (MT:1071): the
  model has it so, and no property asks for more, because neither code nor docs
  promise tables inside a gap.
* *The end of the program* (AP:319): after twelve rounds the process exits with what
  its FIFOs still hold. OutFifo and TsMuxer model the exit; the code promises no more
  than a prefix of the stream, which is `OutputExact`.
* *Python*: the key `'audio_es_files]'` (PY:147), by which audio of type aac ends the
  program while it sets up, and the options it parses.
* *Process death before the end of input*: nothing is persisted that a restart would
  read.
