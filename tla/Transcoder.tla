------------------------------- MODULE Transcoder -------------------------------
(***************************************************************************)
(* The transcoder (apps/transcoder/transcoding.c): a program in one thread *)
(* that opens a decoder, a filter graph and an encoder for every audio and *)
(* video stream of its input, moves packets through them, flushes them and *)
(* cleans up.  Nearly every call may fail, and each failure leaves the     *)
(* program by a way of its own: out of a function, out of the read loop,   *)
(* or to the label `end`.                                                  *)
(*                                                                         *)
(* The libraries are external: a call succeeds or fails, and decoders,     *)
(* filters and encoders hold back some of what they were given.  Data is   *)
(* counted in units that go in with a packet and come out with one.  A     *)
(* read of memory that nobody wrote, or of NULL, crashes the program or    *)
(* finds a zero there.                                                     *)
(***************************************************************************)
EXTENDS Integers, Sequences, Functions

CONSTANTS
  Inputs,       \* the inputs there may be
  MaxPackets,   \* bound: packets in the input
  MaxDelay      \* bound: units that a decoder holds back

(* kinds: the codec_type of each stream; delay: the streams whose encoder  *)
(* has AV_CODEC_CAP_DELAY; late: av_read_frame finds a further stream.     *)
Kinds == {"video", "audio", "other", "unknown"}
Input == [kinds : Seq(Kinds), delay : SUBSET Nat, late : BOOLEAN]

ASSUME InputsAssumption == \A in \in Inputs : in \in Input /\ in.kinds # << >>
ASSUME BoundsAssumption == MaxPackets \in Nat /\ MaxDelay \in Nat

VARIABLES
  in,           \* the input
  tpc,          \* what the program is at
  cur,          \* the stream that it is at
  flushing,     \* the read loop is over
  ret,          \* "ok", "eof" or "error"
  nb_streams,   \* ifmt_ctx->nb_streams, 0 while ifmt_ctx is NULL
  stream_ctx,   \* the array has been allocated
  filter_ctx,   \* and this one
  nb_out,       \* ofmt_ctx->nb_streams, -1 while ofmt_ctx is NULL
  dec, enc,     \* "null", "held" or "freed" for each stream
  graph,        \* the same, or "unset" when nobody wrote it
  leaked,       \* what was allocated and is in no structure
  packets,      \* units read, of each stream
  in_dec, in_graph, in_enc,   \* units held back
  dropped,      \* units given up when the read loop was left
  written,      \* units given to the output
  entered,      \* the read loop was entered
  trailer       \* av_write_trailer was called

inputvars == <<in, nb_streams, stream_ctx>>
codecvars == <<dec, enc, graph, filter_ctx, nb_out, leaked>>
datavars  == <<packets, in_dec, in_graph, in_enc, dropped, written>>
flowvars  == <<tpc, cur, flushing, ret, entered, trailer>>
vars == <<inputvars, codecvars, datavars, flowvars>>

Streams == DOMAIN in.kinds
NumStreams == Len(in.kinds)
Transcoded(i) == in.kinds[i] \in {"video", "audio"}

Context == {"null", "held", "freed"}

TypeOK ==
  /\ in \in Inputs
  /\ tpc \in {"input", "decoders", "output", "encoders", "header", "graphs", "filters",
              "read", "decode", "pull", "flush", "flush_encoder", "end", "exited", "crashed"}
  /\ cur \in 1 .. NumStreams + 1
  /\ flushing \in BOOLEAN
  /\ ret \in {"ok", "eof", "error"}
  /\ nb_streams \in 0 .. NumStreams + 1
  /\ stream_ctx \in BOOLEAN /\ filter_ctx \in BOOLEAN
  /\ nb_out \in -1 .. NumStreams
  /\ dec \in [Streams -> Context] /\ enc \in [Streams -> Context]
  /\ graph \in [Streams -> Context \cup {"unset"}]
  /\ leaked \subseteq {"dec", "enc", "graph"} \X Streams
  /\ \A held \in {packets, in_dec, in_graph, in_enc, dropped, written} :
       held \in [Streams -> Nat]
  /\ entered \in BOOLEAN /\ trailer \in BOOLEAN

Init ==
  /\ in \in Inputs
  /\ tpc = "input" /\ cur = 1
  /\ flushing = FALSE
  /\ ret = "ok"
  /\ nb_streams = 0
  /\ stream_ctx = FALSE /\ filter_ctx = FALSE
  /\ nb_out = -1
  /\ dec = [i \in Streams |-> "null"] /\ enc = [i \in Streams |-> "null"]
  /\ graph = [i \in Streams |-> "unset"]
  /\ leaked = {}
  /\ packets = [i \in Streams |-> 0]
  /\ in_dec = [i \in Streams |-> 0]
  /\ in_graph = [i \in Streams |-> 0]
  /\ in_enc = [i \in Streams |-> 0]
  /\ dropped = [i \in Streams |-> 0]
  /\ written = [i \in Streams |-> 0]
  /\ entered = FALSE /\ trailer = FALSE

-----------------------------------------------------------------------------
(***************************************************************************)
(* Setting up.                                                             *)
(***************************************************************************)

(* On to stream i, or to the next phase behind the last one.               *)
GoTo(phase, i, next) ==
  /\ tpc' = IF i <= NumStreams THEN phase ELSE next
  /\ cur' = IF i <= NumStreams THEN i ELSE 1
  /\ entered' = (entered \/ (i > NumStreams /\ next = "read"))
  /\ UNCHANGED <<flushing, ret, trailer>>

(* An error is returned to main, which goes to its label end.              *)
Fail ==
  /\ tpc' = "end"
  /\ ret' = "error"
  /\ UNCHANGED <<cur, flushing, entered, trailer>>

(* avformat_open_input, then avformat_find_stream_info and the array.      *)
OpenInput ==
  /\ tpc = "input"
  /\ \/ Fail /\ UNCHANGED <<nb_streams, stream_ctx>>
     \/ Fail /\ nb_streams' = NumStreams /\ UNCHANGED stream_ctx
     \/ /\ GoTo("decoders", 1, "output")
        /\ nb_streams' = NumStreams
        /\ stream_ctx' = TRUE
  /\ UNCHANGED <<in, codecvars, datavars>>

(* The context is stored when it is open; before that an error leaks it.   *)
OpenDecoder ==
  /\ tpc = "decoders"
  /\ \/ Fail /\ UNCHANGED <<dec, leaked>>
     \/ Fail /\ leaked' = leaked \cup {<<"dec", cur>>} /\ UNCHANGED dec
     \/ /\ GoTo("decoders", cur + 1, "output")
        /\ dec' = [dec EXCEPT ![cur] = "held"]
        /\ UNCHANGED leaked
  /\ UNCHANGED <<inputvars, enc, graph, filter_ctx, nb_out, datavars>>

OpenOutput ==
  /\ tpc = "output"
  /\ \/ Fail /\ UNCHANGED nb_out
     \/ GoTo("encoders", 1, "header") /\ nb_out' = 0
  /\ UNCHANGED <<inputvars, dec, enc, graph, filter_ctx, leaked, datavars>>

(* A stream of the output, and an encoder for a stream to be transcoded.   *)
OpenEncoder ==
  /\ tpc = "encoders"
  /\ \/ Fail /\ UNCHANGED <<enc, nb_out, leaked>>
     \/ Fail /\ nb_out' = nb_out + 1 /\ UNCHANGED <<enc, leaked>>
     \/ /\ Transcoded(cur)
        /\ Fail
        /\ nb_out' = nb_out + 1
        /\ leaked' = leaked \cup {<<"enc", cur>>}
        /\ UNCHANGED enc
     \/ /\ in.kinds[cur] # "unknown"
        /\ GoTo("encoders", cur + 1, "header")
        /\ nb_out' = nb_out + 1
        /\ enc' = IF Transcoded(cur) THEN [enc EXCEPT ![cur] = "held"] ELSE enc
        /\ UNCHANGED leaked
  /\ UNCHANGED <<inputvars, dec, graph, filter_ctx, datavars>>

(* avio_open, avformat_write_header.                                       *)
WriteHeader ==
  /\ tpc = "header"
  /\ Fail \/ GoTo("graphs", 1, "graphs")
  /\ UNCHANGED <<inputvars, codecvars, datavars>>

(* The array of init_filters, which is not zeroed.                         *)
AllocFilters ==
  /\ tpc = "graphs"
  /\ \/ Fail /\ UNCHANGED filter_ctx
     \/ GoTo("filters", 1, "read") /\ filter_ctx' = TRUE
  /\ UNCHANGED <<inputvars, dec, enc, graph, nb_out, leaked, datavars>>

(* The three fields become NULL, and then hold what init_filter made for a *)
(* stream to be transcoded; a graph that failed half way is in no field.   *)
InitFilter ==
  /\ tpc = "filters"
  /\ \/ /\ GoTo("filters", cur + 1, "read")
        /\ graph' = [graph EXCEPT ![cur] = IF Transcoded(cur) THEN "held" ELSE "null"]
        /\ UNCHANGED leaked
     \/ /\ Transcoded(cur)
        /\ Fail
        /\ graph' = [graph EXCEPT ![cur] = "null"]
        /\ \/ leaked' = leaked \cup {<<"graph", cur>>}
           \/ UNCHANGED leaked
  /\ UNCHANGED <<inputvars, dec, enc, filter_ctx, nb_out, datavars>>

-----------------------------------------------------------------------------
(***************************************************************************)
(* The read loop.                                                          *)
(***************************************************************************)

Goto(label) == tpc' = label /\ UNCHANGED <<cur, flushing, ret, entered, trailer>>

AddTo(count, i, n) == [count EXCEPT ![i] = @ + n]

Crash ==
  /\ tpc' = "crashed"
  /\ UNCHANGED <<cur, flushing, ret, entered, trailer>>

PacketsRead == FoldFunction(+, 0, packets)

(* Leave the loop with r, and go on with flushing from the first stream.   *)
LeaveLoop(r) ==
  /\ tpc' = "flush"
  /\ cur' = 1
  /\ flushing' = TRUE
  /\ ret' = r
  /\ UNCHANGED <<entered, trailer>>

(* A packet of a stream with a filter graph is decoded, if a frame for the *)
(* result can be had; any other is written as it is.                       *)
ReadPacket(i) ==
  /\ tpc = "read"
  /\ PacketsRead < MaxPackets
  /\ packets' = AddTo(packets, i, 1)
  /\ \/ /\ graph[i] = "held"
        /\ tpc' = "decode" /\ cur' = i /\ ret' = "ok"
        /\ UNCHANGED <<dropped, written, flushing, entered, trailer>>
     \/ /\ graph[i] = "held"
        /\ LeaveLoop("error")
        /\ dropped' = AddTo(dropped, i, 1)
        /\ UNCHANGED written
     \/ /\ graph[i] = "null"
        /\ Goto("read")
        /\ written' = AddTo(written, i, 1)
        /\ UNCHANGED dropped
     \/ /\ graph[i] = "null"
        /\ Fail
        /\ UNCHANGED <<dropped, written>>
  /\ UNCHANGED <<inputvars, codecvars, in_dec, in_graph, in_enc>>

(* av_read_frame finds a stream that was not there when the arrays were    *)
(* allocated, and may give a packet of it, which is beyond their ends.     *)
NewStream ==
  /\ tpc = "read"
  /\ in.late
  /\ nb_streams' = NumStreams + 1
  /\ Goto("read") \/ Fail \/ Crash
  /\ UNCHANGED <<in, stream_ctx, codecvars, datavars>>

ReadEnds ==
  /\ tpc = "read"
  /\ LeaveLoop("eof") \/ LeaveLoop("error")
  /\ UNCHANGED <<inputvars, codecvars, datavars>>

(* Mutation: a unit that cannot be decoded is skipped, and reading goes on.*)
Decode_Skips ==
  /\ tpc = "decode"
  /\ \/ /\ in_dec[cur] < MaxDelay
        /\ Goto("read")
        /\ in_dec' = AddTo(in_dec, cur, 1)
        /\ UNCHANGED <<in_graph, dropped>>
     \/ /\ Goto("pull")
        /\ in_graph' = AddTo(in_graph, cur, 1)
        /\ UNCHANGED <<in_dec, dropped>>
     \/ Fail /\ UNCHANGED <<in_dec, in_graph, dropped>>
     \/ /\ Goto("read")
        /\ dropped' = AddTo(dropped, cur, 1)
        /\ UNCHANGED <<in_dec, in_graph>>
  /\ UNCHANGED <<inputvars, codecvars, packets, in_enc, written>>

(* The decoder keeps the unit, gives a frame, or fails: that ends the loop.*)
Decode ==
  /\ tpc = "decode"
  /\ \/ /\ in_dec[cur] < MaxDelay
        /\ Goto("read")
        /\ in_dec' = AddTo(in_dec, cur, 1)
        /\ UNCHANGED <<in_graph, dropped>>
     \/ /\ Goto("pull")
        /\ in_graph' = AddTo(in_graph, cur, 1)
        /\ UNCHANGED <<in_dec, dropped>>
     \/ Fail /\ UNCHANGED <<in_dec, in_graph, dropped>>
     \/ /\ LeaveLoop("error")
        /\ dropped' = AddTo(dropped, cur, 1)
        /\ UNCHANGED <<in_dec, in_graph>>
  /\ UNCHANGED <<inputvars, codecvars, packets, in_enc, written>>

(* A frame out of the graph into the encoder: a packet is written, or the  *)
(* encoder keeps the unit.                                                 *)
PullFrame ==
  /\ tpc = "pull"
  /\ in_graph[cur] > 0
  /\ Goto("pull")
  /\ in_graph' = AddTo(in_graph, cur, -1)
  /\ \/ written' = AddTo(written, cur, 1) /\ UNCHANGED in_enc
     \/ /\ cur \in in.delay
        /\ in_enc' = AddTo(in_enc, cur, 1)
        /\ UNCHANGED written
  /\ UNCHANGED <<inputvars, codecvars, packets, in_dec, dropped>>

(* Mutation: the result of the last call of the loop is returned as it is. *)
PullEnds_KeepsRet ==
  /\ tpc = "pull"
  /\ flushing => in_graph[cur] = 0
  /\ tpc' = IF flushing THEN "flush_encoder" ELSE "read"
  /\ UNCHANGED <<inputvars, codecvars, datavars, cur, flushing, ret, entered, trailer>>

(* The graph has nothing for now, or at the end nothing any more.          *)
PullEnds ==
  /\ tpc = "pull"
  /\ flushing => in_graph[cur] = 0
  /\ tpc' = IF flushing THEN "flush_encoder" ELSE "read"
  /\ ret' = "ok"
  /\ UNCHANGED <<inputvars, codecvars, datavars, cur, flushing, entered, trailer>>

(* av_frame_alloc, the graph, the encoder or the output failed.            *)
PullFails ==
  /\ tpc = "pull"
  /\ Fail
  /\ UNCHANGED <<inputvars, codecvars, datavars>>

-----------------------------------------------------------------------------
(***************************************************************************)
(* Flushing and the end.                                                   *)
(***************************************************************************)

(* Mutation: i <= nb_streams.                                              *)
NextStream_OneMore ==
  /\ IF cur <= nb_streams
       THEN tpc' = "flush" /\ cur' = cur + 1 /\ UNCHANGED trailer
       ELSE tpc' = "end" /\ trailer' = TRUE /\ UNCHANGED cur
  /\ UNCHANGED <<flushing, ret, entered>>

NextStream ==
  /\ IF cur < nb_streams
       THEN tpc' = "flush" /\ cur' = cur + 1 /\ UNCHANGED trailer
       ELSE tpc' = "end" /\ trailer' = TRUE /\ UNCHANGED cur
  /\ UNCHANGED <<flushing, ret, entered>>

FlushFilter ==
  /\ tpc = "flush"
  /\ \/ cur > NumStreams /\ (Crash \/ NextStream)
     \/ cur <= NumStreams /\ graph[cur] = "null" /\ NextStream
     \/ cur <= NumStreams /\ graph[cur] = "held" /\ (Fail \/ Goto("pull"))
  /\ UNCHANGED <<inputvars, codecvars, datavars>>

(* Until the encoder has no packet any more, if it is one that delays.     *)
FlushEncoder ==
  /\ tpc = "flush_encoder"
  /\ \/ /\ cur \in in.delay /\ in_enc[cur] > 0
        /\ Goto("flush_encoder")
        /\ in_enc' = AddTo(in_enc, cur, -1)
        /\ written' = AddTo(written, cur, 1)
     \/ /\ cur \in in.delay
        /\ Fail
        /\ UNCHANGED <<in_enc, written>>
     \/ /\ cur \in in.delay => in_enc[cur] = 0
        /\ NextStream
        /\ UNCHANGED <<in_enc, written>>
  /\ UNCHANGED <<inputvars, codecvars, packets, in_dec, in_graph, dropped>>

Freed(context) == IF context = "held" THEN "freed" ELSE context

(* What is read at the label end though it may not be there: ifmt_ctx,     *)
(* stream_ctx, and the graphs that init_filters did not come to.           *)
ReadsNull == nb_streams = 0 \/ ~stream_ctx
ReadsUnset == filter_ctx /\ \E i \in Streams : graph[i] = "unset"
ReadsBeyond == nb_streams > NumStreams

(* Mutation: the number of output streams is compared off by one.          *)
CleanUp_LastEncoderKept ==
  /\ tpc = "end"
  /\ ~ReadsNull
  /\ tpc' = "exited"
  /\ dec' = [i \in Streams |-> Freed(dec[i])]
  /\ enc' = [i \in Streams |-> IF nb_out > i THEN Freed(enc[i]) ELSE enc[i]]
  /\ graph' = [i \in Streams |-> IF filter_ctx THEN Freed(graph[i]) ELSE graph[i]]
  /\ UNCHANGED <<inputvars, filter_ctx, nb_out, leaked, datavars,
                 cur, flushing, ret, entered, trailer>>

CleanUp ==
  /\ tpc = "end"
  /\ ~ReadsNull
  /\ tpc' = "exited"
  /\ dec' = [i \in Streams |-> Freed(dec[i])]
  /\ enc' = [i \in Streams |-> IF nb_out >= i THEN Freed(enc[i]) ELSE enc[i]]
  /\ graph' = [i \in Streams |-> IF filter_ctx THEN Freed(graph[i]) ELSE graph[i]]
  /\ UNCHANGED <<inputvars, filter_ctx, nb_out, leaked, datavars,
                 cur, flushing, ret, entered, trailer>>

CrashAtEnd ==
  /\ tpc = "end"
  /\ ReadsNull \/ ReadsUnset \/ ReadsBeyond
  /\ Crash
  /\ UNCHANGED <<inputvars, codecvars, datavars>>

Setup == \/ OpenInput \/ OpenDecoder \/ OpenOutput \/ OpenEncoder
         \/ WriteHeader \/ AllocFilters \/ InitFilter

ReadLoop == \/ \E i \in Streams : ReadPacket(i)
            \/ NewStream \/ ReadEnds
            \/ Decode \/ PullFrame \/ PullEnds \/ PullFails

Finish == FlushFilter \/ FlushEncoder \/ CleanUp \/ CrashAtEnd

Next == Setup \/ ReadLoop \/ Finish

Spec == Init /\ [][Next]_vars

-----------------------------------------------------------------------------
Success == tpc = "exited" /\ ret = "ok"

(* A crash is the end of a failed set-up (transcoding.c:629-633 reads what *)
(* was never allocated or never written), or of an input whose streams     *)
(* were not all there when the arrays were allocated; once the loop runs,  *)
(* no failure of a library call crashes the program.                       *)
CrashesOnlyInSetup == tpc = "crashed" => ~entered \/ nb_streams > NumStreams

(* Whatever way the program takes to its end, every decoder, encoder and   *)
(* filter graph that it stored is freed, and once the loop was entered     *)
(* nothing else was allocated that a structure does not hold.              *)
Released ==
  /\ tpc = "exited" => \A i \in Streams : "held" \notin {dec[i], enc[i], graph[i]}
  /\ entered => leaked = {}

(* The trailer is written only when no filter graph and no encoder of any  *)
(* stream holds anything back, also after a decoding error.                *)
Flushed == trailer => \A i \in Streams : in_graph[i] = 0 /\ in_enc[i] = 0

(* A run that reports success wrote every unit it read, but for the one    *)
(* whose decoding failed or found no frame (which ends the reading: all    *)
(* that follows it is not even read), and those in the decoders, which     *)
(* nothing flushes (transcoding.c:580, 607).                               *)
Accounted ==
  Success =>
    /\ \A i \in Streams : packets[i] = written[i] + in_dec[i] + dropped[i]
    /\ \A i, j \in Streams : dropped[i] <= 1 /\ (dropped[i] > 0 /\ dropped[j] > 0 => i = j)

(* The exit status is 0 exactly when the trailer was written and there was *)
(* a stream to transcode: flushing it is what resets the result of the     *)
(* read loop, an end of file or an error alike, so that copying a file     *)
(* whose streams are all remuxed ends with status 1.                       *)
StatusTells ==
  tpc = "exited" => (ret = "ok" <=> trailer /\ \E i \in Streams : Transcoded(i))

=============================================================================
