--------------------------- MODULE TranscoderProofs ---------------------------
(***************************************************************************)
(* Theorems about Transcoder, for every input and any number of packets:   *)
(* on which ways it may crash, and that every other way to its end frees   *)
(* what was allocated, writes the trailer over flushed encoders only, and  *)
(* tells by the exit status whether it did.                                *)
(***************************************************************************)
EXTENDS Transcoder, TLAPS

(* The phases of the program.                                              *)
SettingUp == {"input", "decoders", "output", "encoders", "header", "graphs", "filters"}
Running == {"read", "decode", "pull", "flush", "flush_encoder"}
Over == {"end", "exited", "crashed"}

(* What the variables that direct the program may be.                      *)
Typed ==
  /\ in \in Inputs
  /\ tpc \in SettingUp \cup Running \cup Over
  /\ cur \in 1 .. NumStreams + 1
  /\ ret \in {"ok", "eof", "error"}
  /\ nb_streams \in 0 .. NumStreams + 1
  /\ nb_out \in -1 .. NumStreams

(* The stream that it is at is there, where one is needed.                 *)
Placed ==
  /\ tpc \in {"decoders", "encoders", "filters", "decode", "pull", "flush_encoder"}
       => cur <= NumStreams
  /\ tpc = "flush" => cur <= nb_streams
  /\ tpc \in {"input", "decoders", "output"} => nb_out = -1
  /\ tpc = "encoders" => nb_out = cur - 1
  /\ tpc \in {"header", "graphs", "filters"} => nb_out = NumStreams

(* What is there once the loop runs.                                       *)
Equipped ==
  /\ tpc \in SettingUp => ~entered
  /\ tpc \in Running => entered
  /\ tpc \in SettingUp \ {"input"} => nb_streams = NumStreams /\ stream_ctx
  /\ tpc = "filters" => filter_ctx
  /\ entered => nb_streams >= NumStreams /\ stream_ctx /\ filter_ctx /\ nb_out = NumStreams

(* The flags are Boolean.                                                  *)
Flags ==
  /\ flushing \in BOOLEAN /\ entered \in BOOLEAN /\ trailer \in BOOLEAN
  /\ stream_ctx \in BOOLEAN /\ filter_ctx \in BOOLEAN

(* All that directs the program.                                           *)
Control == Typed /\ Flags /\ Placed /\ Equipped

(* An input has a stream, and the streams are numbered from 1.             *)
LEMMA SomeStreams ==
  ASSUME in \in Inputs
  PROVE  NumStreams \in Nat \ {0} /\ Streams = 1 .. NumStreams
<1>1. in.kinds \in Seq(Kinds) /\ in.kinds # << >>
  BY InputsAssumption DEF Input
<1>. QED  BY <1>1 DEF NumStreams, Streams

(* No step changes the input.                                              *)
LEMMA InputStays ==
  ASSUME [Next]_vars
  PROVE  in' = in
<1>1. Setup => in' = in
  BY DEF Setup, OpenInput, OpenDecoder, OpenOutput, OpenEncoder, WriteHeader, AllocFilters,
         InitFilter, inputvars
<1>2. ReadLoop => in' = in
  BY DEF ReadLoop, ReadPacket, NewStream, ReadEnds, Decode, PullFrame, PullEnds, PullFails,
         inputvars
<1>3. Finish => in' = in
  BY DEF Finish, FlushFilter, FlushEncoder, CleanUp, CrashAtEnd, inputvars
<1>4. UNCHANGED vars => in' = in
  BY DEF vars, inputvars
<1>. QED  BY <1>1, <1>2, <1>3, <1>4 DEF Next

(* What the steps do to these variables, with flags as formulas.           *)
SameFlow == /\ cur' = cur /\ ret' = ret
            /\ (entered' <=> entered) /\ (flushing' <=> flushing) /\ (trailer' <=> trailer)
Went(label) == tpc' = label /\ SameFlow
Failed == /\ tpc' = "end" /\ cur' = cur /\ ret' = "error"
          /\ (entered' <=> entered) /\ (flushing' <=> flushing) /\ (trailer' <=> trailer)
GoneTo(phase, i, next) ==
  /\ tpc' = IF i <= NumStreams THEN phase ELSE next
  /\ cur' = IF i <= NumStreams THEN i ELSE 1
  /\ entered' <=> (entered \/ (i > NumStreams /\ next = "read"))
  /\ ret' = ret
  /\ (flushing' <=> flushing) /\ (trailer' <=> trailer)
Left(r) ==
  /\ tpc' = "flush" /\ cur' = 1 /\ ret' = r
  /\ flushing' /\ (entered' <=> entered) /\ (trailer' <=> trailer)
GoneOn ==
  /\ \/ cur < nb_streams /\ tpc' = "flush" /\ cur' = cur + 1 /\ (trailer' <=> trailer)
     \/ ~(cur < nb_streams) /\ tpc' = "end" /\ cur' = cur /\ trailer'
  /\ ret' = ret
  /\ (entered' <=> entered) /\ (flushing' <=> flushing)
Kept ==
  /\ nb_streams' = nb_streams /\ nb_out' = nb_out
  /\ stream_ctx' <=> stream_ctx
  /\ filter_ctx' <=> filter_ctx

(* The helpers of the actions, with flags as formulas: GoTo, Fail, Goto,   *)
(* Crash, LeaveLoop and NextStream.                                        *)
LEMMA GoToIs ==
  ASSUME NEW phase, NEW STATE i, NEW next, GoTo(phase, i, next)
  PROVE  GoneTo(phase, i, next)
BY Zenon DEF GoTo, GoneTo

LEMMA FailIs == Fail => Failed
BY DEF Fail, Failed

LEMMA GotoIs ==
  ASSUME NEW label, Goto(label)
  PROVE  Went(label)
BY Zenon DEF Goto, Went, SameFlow

LEMMA CrashIs == Crash => Went("crashed")
BY DEF Crash, Went, SameFlow

LEMMA LeaveLoopIs ==
  ASSUME NEW r, LeaveLoop(r)
  PROVE  Left(r)
BY Zenon DEF LeaveLoop, Left

LEMMA NextStreamIs == NextStream => GoneOn
<1>1. ASSUME NextStream
      PROVE  ret' = ret /\ (entered' <=> entered) /\ (flushing' <=> flushing)
  BY <1>1, Zenon DEF NextStream
<1>2. ASSUME NextStream, cur < nb_streams
      PROVE  tpc' = "flush" /\ cur' = cur + 1 /\ (trailer' <=> trailer)
  BY <1>2, Zenon DEF NextStream
<1>3. ASSUME NextStream, ~(cur < nb_streams)
      PROVE  tpc' = "end" /\ cur' = cur /\ trailer'
  BY <1>3, Zenon DEF NextStream
<1>. QED  BY <1>1, <1>2, <1>3, Zenon DEF GoneOn

(* What each action does to the variables that direct the program.         *)
LEMMA OpenInputFlow ==
  ASSUME OpenInput
  PROVE  /\ tpc = "input"
         /\ \/ /\ Failed
               /\ nb_streams' \in {nb_streams, NumStreams} /\ (stream_ctx' <=> stream_ctx)
            \/ GoneTo("decoders", 1, "output") /\ nb_streams' = NumStreams /\ stream_ctx'
         /\ nb_out' = nb_out /\ (filter_ctx' <=> filter_ctx)
<1>1. GoTo("decoders", 1, "output") => GoneTo("decoders", 1, "output")
  BY GoToIs, Zenon
<1>. QED  BY FailIs, <1>1 DEF OpenInput, codecvars, Kept

LEMMA OpenDecoderFlow ==
  ASSUME OpenDecoder
  PROVE  /\ tpc = "decoders" /\ Kept
         /\ \/ Failed
            \/ GoneTo("decoders", cur + 1, "output")
<1>1. GoTo("decoders", cur + 1, "output") => GoneTo("decoders", cur + 1, "output")
  BY GoToIs, Zenon
<1>. QED  BY FailIs, <1>1 DEF OpenDecoder, inputvars, Kept

LEMMA OpenOutputFlow ==
  ASSUME OpenOutput
  PROVE  /\ tpc = "output"
         /\ \/ Failed /\ nb_out' = nb_out
            \/ GoneTo("encoders", 1, "header") /\ nb_out' = 0
         /\ nb_streams' = nb_streams
         /\ (stream_ctx' <=> stream_ctx) /\ (filter_ctx' <=> filter_ctx)
<1>1. GoTo("encoders", 1, "header") => GoneTo("encoders", 1, "header")
  BY GoToIs, Zenon
<1>. QED  BY FailIs, <1>1 DEF OpenOutput, inputvars, Kept

LEMMA OpenEncoderFlow ==
  ASSUME OpenEncoder
  PROVE  /\ tpc = "encoders"
         /\ \/ Failed /\ nb_out' \in {nb_out, nb_out + 1}
            \/ GoneTo("encoders", cur + 1, "header") /\ nb_out' = nb_out + 1
         /\ nb_streams' = nb_streams
         /\ (stream_ctx' <=> stream_ctx) /\ (filter_ctx' <=> filter_ctx)
<1>1. GoTo("encoders", cur + 1, "header") => GoneTo("encoders", cur + 1, "header")
  BY GoToIs, Zenon
<1>. QED  BY FailIs, <1>1 DEF OpenEncoder, inputvars, Kept

LEMMA WriteHeaderFlow ==
  ASSUME WriteHeader
  PROVE  /\ tpc = "header" /\ Kept
         /\ \/ Failed
            \/ GoneTo("graphs", 1, "graphs")
<1>1. GoTo("graphs", 1, "graphs") => GoneTo("graphs", 1, "graphs")
  BY GoToIs, Zenon
<1>. QED  BY FailIs, <1>1 DEF WriteHeader, inputvars, codecvars, Kept

LEMMA AllocFiltersFlow ==
  ASSUME AllocFilters
  PROVE  /\ tpc = "graphs"
         /\ \/ Failed /\ (filter_ctx' <=> filter_ctx)
            \/ GoneTo("filters", 1, "read") /\ filter_ctx'
         /\ nb_streams' = nb_streams /\ nb_out' = nb_out /\ (stream_ctx' <=> stream_ctx)
<1>1. GoTo("filters", 1, "read") => GoneTo("filters", 1, "read")
  BY GoToIs, Zenon
<1>. QED  BY FailIs, <1>1 DEF AllocFilters, inputvars, Kept

LEMMA InitFilterFlow ==
  ASSUME InitFilter
  PROVE  /\ tpc = "filters" /\ Kept
         /\ \/ Failed
            \/ GoneTo("filters", cur + 1, "read")
<1>1. GoTo("filters", cur + 1, "read") => GoneTo("filters", cur + 1, "read")
  BY GoToIs, Zenon
<1>. QED  BY FailIs, <1>1 DEF InitFilter, inputvars, Kept

(* A step of the set-up fails, or goes on to a further phase.              *)
LEMMA SetupFlow ==
  ASSUME Setup
  PROVE  /\ tpc \in SettingUp /\ UNCHANGED datavars
         /\ (flushing' <=> flushing) /\ (trailer' <=> trailer)
         /\ Failed \/ tpc' \in SettingUp \cup {"read"}
<1>1. UNCHANGED datavars
  BY DEF Setup, OpenInput, OpenDecoder, OpenOutput, OpenEncoder, WriteHeader, AllocFilters,
         InitFilter
<1>. QED  BY <1>1, OpenInputFlow, OpenDecoderFlow, OpenOutputFlow, OpenEncoderFlow,
             WriteHeaderFlow, AllocFiltersFlow, InitFilterFlow
          DEF Setup, SettingUp, Failed, GoneTo

LEMMA ReadPacketFlow ==
  ASSUME NEW i \in Streams, ReadPacket(i)
  PROVE  /\ tpc = "read" /\ Kept
         /\ \/ Failed
            \/ Went("read")
            \/ Left("error")
            \/ /\ tpc' = "decode" /\ cur' = i /\ ret' = "ok"
               /\ (entered' <=> entered) /\ (flushing' <=> flushing) /\ (trailer' <=> trailer)
<1>1. Goto("read") => Went("read")
  BY GotoIs, Zenon
<1>2. LeaveLoop("error") => Left("error")
  BY LeaveLoopIs, Zenon
<1>. QED  BY FailIs, <1>1, <1>2 DEF ReadPacket, inputvars, codecvars, Kept

LEMMA NewStreamFlow ==
  ASSUME NewStream
  PROVE  /\ tpc = "read"
         /\ \/ Failed
            \/ Went("read")
            \/ Went("crashed")
         /\ nb_streams' = NumStreams + 1 /\ nb_out' = nb_out
         /\ (stream_ctx' <=> stream_ctx) /\ (filter_ctx' <=> filter_ctx)
<1>1. Goto("read") => Went("read")
  BY GotoIs, Zenon
<1>. QED  BY FailIs, <1>1, CrashIs DEF NewStream, codecvars, Kept

LEMMA ReadEndsFlow ==
  ASSUME ReadEnds
  PROVE  /\ tpc = "read" /\ Kept
         /\ \/ Left("eof")
            \/ Left("error")
<1>1. LeaveLoop("eof") => Left("eof")
  BY LeaveLoopIs, Zenon
<1>2. LeaveLoop("error") => Left("error")
  BY LeaveLoopIs, Zenon
<1>. QED  BY <1>1, <1>2 DEF ReadEnds, inputvars, codecvars, Kept

LEMMA DecodeFlow ==
  ASSUME Decode
  PROVE  /\ tpc = "decode" /\ Kept
         /\ \/ Failed
            \/ Went("read")
            \/ Went("pull")
            \/ Left("error")
<1>1. Goto("read") => Went("read")
  BY GotoIs, Zenon
<1>2. Goto("pull") => Went("pull")
  BY GotoIs, Zenon
<1>3. LeaveLoop("error") => Left("error")
  BY LeaveLoopIs, Zenon
<1>. QED  BY FailIs, <1>1, <1>2, <1>3 DEF Decode, inputvars, codecvars, Kept

LEMMA PullFrameFlow ==
  ASSUME PullFrame
  PROVE  tpc = "pull" /\ Kept /\ Went("pull")
<1>1. Goto("pull") => Went("pull")
  BY GotoIs, Zenon
<1>. QED  BY <1>1 DEF PullFrame, inputvars, codecvars, Kept

LEMMA PullEndsFlow ==
  ASSUME PullEnds
  PROVE  /\ tpc = "pull" /\ Kept
         /\ \/ flushing /\ tpc' = "flush_encoder"
            \/ ~flushing /\ tpc' = "read"
         /\ cur' = cur /\ ret' = "ok"
         /\ (entered' <=> entered) /\ (flushing' <=> flushing) /\ (trailer' <=> trailer)
BY Zenon DEF PullEnds, inputvars, codecvars, Kept

LEMMA PullFailsFlow ==
  ASSUME PullFails
  PROVE  tpc = "pull" /\ Kept /\ Failed
BY FailIs DEF PullFails, inputvars, codecvars, Kept

LEMMA FlushFilterFlow ==
  ASSUME FlushFilter
  PROVE  /\ tpc = "flush" /\ Kept
         /\ \/ cur > NumStreams /\ (Went("crashed") \/ GoneOn)
            \/ cur <= NumStreams /\ graph[cur] = "null" /\ GoneOn
            \/ cur <= NumStreams /\ graph[cur] = "held" /\ (Failed \/ Went("pull"))
<1>1. Goto("pull") => Went("pull")
  BY GotoIs, Zenon
<1>. QED  BY FailIs, <1>1, CrashIs, NextStreamIs DEF FlushFilter, inputvars, codecvars, Kept

LEMMA FlushEncoderFlow ==
  ASSUME FlushEncoder
  PROVE  /\ tpc = "flush_encoder" /\ Kept
         /\ \/ Went("flush_encoder")
            \/ Failed
            \/ GoneOn
<1>1. Goto("flush_encoder") => Went("flush_encoder")
  BY GotoIs, Zenon
<1>. QED  BY FailIs, <1>1, NextStreamIs DEF FlushEncoder, inputvars, codecvars, Kept

LEMMA CleanUpFlow ==
  ASSUME CleanUp
  PROVE  tpc = "end" /\ Kept /\ Went("exited")
BY Zenon DEF CleanUp, inputvars, Kept, Went, SameFlow

LEMMA CrashAtEndFlow ==
  ASSUME CrashAtEnd
  PROVE  tpc = "end" /\ Kept /\ Went("crashed")
BY CrashIs DEF CrashAtEnd, inputvars, codecvars, Kept

(* What follows the set-up and is not the clean-up leaves the contexts     *)
(* alone.                                                                  *)
Working == (\E i \in Streams : ReadPacket(i)) \/ NewStream \/ ReadEnds \/ Decode \/ PullFrame
             \/ PullEnds \/ PullFails \/ FlushFilter \/ FlushEncoder \/ CrashAtEnd

LEMMA WorkingFlow ==
  ASSUME Working
  PROVE  /\ UNCHANGED <<dec, enc, graph, leaked>>
         /\ tpc \notin SettingUp \cup {"exited"} /\ tpc' \notin SettingUp \cup {"exited"}
         /\ nb_out' = nb_out /\ (filter_ctx' <=> filter_ctx) /\ (entered' <=> entered)
<1>1. UNCHANGED <<dec, enc, graph, leaked>>
  BY DEF Working, ReadPacket, NewStream, ReadEnds, Decode, PullFrame, PullEnds, PullFails,
         FlushFilter, FlushEncoder, CrashAtEnd, codecvars
<1>2. ASSUME NEW i \in Streams, ReadPacket(i)
      PROVE  /\ tpc \notin SettingUp \cup {"exited"} /\ tpc' \notin SettingUp \cup {"exited"}
             /\ nb_out' = nb_out /\ (filter_ctx' <=> filter_ctx) /\ (entered' <=> entered)
  BY <1>2, ReadPacketFlow DEF SettingUp, Kept, Went, SameFlow, Failed, Left
<1>3. ASSUME NewStream \/ ReadEnds \/ Decode \/ PullFrame \/ PullEnds \/ PullFails
      PROVE  /\ tpc \notin SettingUp \cup {"exited"} /\ tpc' \notin SettingUp \cup {"exited"}
             /\ nb_out' = nb_out /\ (filter_ctx' <=> filter_ctx) /\ (entered' <=> entered)
  BY <1>3, NewStreamFlow, ReadEndsFlow, DecodeFlow, PullFrameFlow, PullEndsFlow, PullFailsFlow
  DEF SettingUp, Kept, Went, SameFlow, Failed, Left
<1>4. ASSUME FlushFilter \/ FlushEncoder \/ CrashAtEnd
      PROVE  /\ tpc \notin SettingUp \cup {"exited"} /\ tpc' \notin SettingUp \cup {"exited"}
             /\ nb_out' = nb_out /\ (filter_ctx' <=> filter_ctx) /\ (entered' <=> entered)
  BY <1>4, FlushFilterFlow, FlushEncoderFlow, CrashAtEndFlow
  DEF SettingUp, Kept, Went, SameFlow, Failed, GoneOn
<1>. QED  BY <1>1, <1>2, <1>3, <1>4 DEF Working

(* A stuttering step does nothing to them.                                 *)
LEMMA Stutters ==
  ASSUME UNCHANGED vars
  PROVE  Kept /\ Went(tpc)
BY Zenon DEF vars, inputvars, codecvars, flowvars, Kept, Went, SameFlow

(* The flags stay Boolean.                                                 *)
LEMMA FlagsStep ==
  ASSUME Control, [Next]_vars
  PROVE  Flags'
<1>1. CASE OpenInput
  BY <1>1, Zenon DEF Control, Flags, OpenInput, Fail, GoTo, codecvars
<1>2. CASE OpenDecoder
  BY <1>2, Zenon DEF Control, Flags, OpenDecoder, Fail, GoTo, inputvars
<1>3. CASE OpenOutput
  BY <1>3, Zenon DEF Control, Flags, OpenOutput, Fail, GoTo, inputvars
<1>4. CASE OpenEncoder
  BY <1>4, Zenon DEF Control, Flags, OpenEncoder, Fail, GoTo, inputvars
<1>5. CASE WriteHeader
  BY <1>5, Zenon DEF Control, Flags, WriteHeader, Fail, GoTo, inputvars, codecvars
<1>6. CASE AllocFilters
  BY <1>6, Zenon DEF Control, Flags, AllocFilters, Fail, GoTo, inputvars
<1>7. CASE InitFilter
  BY <1>7, Zenon DEF Control, Flags, InitFilter, Fail, GoTo, inputvars
<1>8. ASSUME NEW i \in Streams, ReadPacket(i)
      PROVE  Flags'
  BY <1>8, Zenon DEF Control, Flags, ReadPacket, Fail, Goto, LeaveLoop, inputvars, codecvars
<1>9. CASE NewStream
  BY <1>9, Zenon DEF Control, Flags, NewStream, Fail, Goto, Crash, codecvars
<1>10. CASE ReadEnds
  BY <1>10, Zenon DEF Control, Flags, ReadEnds, LeaveLoop, inputvars, codecvars
<1>11. CASE Decode
  BY <1>11, Zenon DEF Control, Flags, Decode, Fail, Goto, LeaveLoop, inputvars, codecvars
<1>12. CASE PullFrame
  BY <1>12, Zenon DEF Control, Flags, PullFrame, Goto, inputvars, codecvars
<1>13. CASE PullEnds
  BY <1>13, Zenon DEF Control, Flags, PullEnds, inputvars, codecvars
<1>14. CASE PullFails
  BY <1>14, Zenon DEF Control, Flags, PullFails, Fail, inputvars, codecvars
<1>15. CASE FlushFilter
  BY <1>15, Zenon
  DEF Control, Flags, FlushFilter, Fail, Goto, Crash, NextStream, inputvars, codecvars
<1>16. CASE FlushEncoder
  BY <1>16, Zenon DEF Control, Flags, FlushEncoder, Fail, Goto, NextStream, inputvars, codecvars
<1>17. CASE CleanUp
  BY <1>17, Zenon DEF Control, Flags, CleanUp, inputvars
<1>18. CASE CrashAtEnd
  BY <1>18, Zenon DEF Control, Flags, CrashAtEnd, Crash, inputvars, codecvars
<1>19. CASE UNCHANGED vars
  BY <1>19, Zenon DEF Control, Flags, vars, inputvars, codecvars, flowvars
<1>. QED  BY <1>1, <1>2, <1>3, <1>4, <1>5, <1>6, <1>7, <1>8, <1>9,
             <1>10, <1>11, <1>12, <1>13, <1>14, <1>15, <1>16, <1>17, <1>18, <1>19
          DEF Next, Setup, ReadLoop, Finish

(* A step keeps the program where its tables allow it to be.               *)
LEMMA ControlStep ==
  ASSUME Control, [Next]_vars
  PROVE  Control'
<1>1. in' = in /\ NumStreams' = NumStreams
  BY InputStays DEF NumStreams
<1>2. NumStreams \in Nat \ {0} /\ Streams = 1 .. NumStreams
  BY SomeStreams DEF Control, Typed
<1>3. Flags'
  BY FlagsStep
<1>4. CASE OpenInput
  BY <1>1, <1>2, <1>3, <1>4, OpenInputFlow
  DEF Control, Typed, Placed, Equipped, SettingUp, Running, Over,
      Kept, Went, SameFlow, Failed, GoneTo, Left, GoneOn
<1>5. CASE OpenDecoder
  BY <1>1, <1>2, <1>3, <1>5, OpenDecoderFlow
  DEF Control, Typed, Placed, Equipped, SettingUp, Running, Over,
      Kept, Went, SameFlow, Failed, GoneTo, Left, GoneOn
<1>6. CASE OpenOutput
  BY <1>1, <1>2, <1>3, <1>6, OpenOutputFlow
  DEF Control, Typed, Placed, Equipped, SettingUp, Running, Over,
      Kept, Went, SameFlow, Failed, GoneTo, Left, GoneOn
<1>7. CASE OpenEncoder
  BY <1>1, <1>2, <1>3, <1>7, OpenEncoderFlow
  DEF Control, Typed, Placed, Equipped, SettingUp, Running, Over,
      Kept, Went, SameFlow, Failed, GoneTo, Left, GoneOn
<1>8. CASE WriteHeader
  BY <1>1, <1>2, <1>3, <1>8, WriteHeaderFlow
  DEF Control, Typed, Placed, Equipped, SettingUp, Running, Over,
      Kept, Went, SameFlow, Failed, GoneTo, Left, GoneOn
<1>9. CASE AllocFilters
  BY <1>1, <1>2, <1>3, <1>9, AllocFiltersFlow
  DEF Control, Typed, Placed, Equipped, SettingUp, Running, Over,
      Kept, Went, SameFlow, Failed, GoneTo, Left, GoneOn
<1>10. CASE InitFilter
  BY <1>1, <1>2, <1>3, <1>10, InitFilterFlow
  DEF Control, Typed, Placed, Equipped, SettingUp, Running, Over,
      Kept, Went, SameFlow, Failed, GoneTo, Left, GoneOn
<1>11. ASSUME NEW i \in Streams, ReadPacket(i)
      PROVE  Control'
  BY <1>1, <1>2, <1>3, <1>11, ReadPacketFlow
  DEF Control, Typed, Placed, Equipped, SettingUp, Running, Over,
      Kept, Went, SameFlow, Failed, GoneTo, Left, GoneOn
<1>12. CASE NewStream
  BY <1>1, <1>2, <1>3, <1>12, NewStreamFlow
  DEF Control, Typed, Placed, Equipped, SettingUp, Running, Over,
      Kept, Went, SameFlow, Failed, GoneTo, Left, GoneOn
<1>13. CASE ReadEnds
  BY <1>1, <1>2, <1>3, <1>13, ReadEndsFlow
  DEF Control, Typed, Placed, Equipped, SettingUp, Running, Over,
      Kept, Went, SameFlow, Failed, GoneTo, Left, GoneOn
<1>14. CASE Decode
  BY <1>1, <1>2, <1>3, <1>14, DecodeFlow
  DEF Control, Typed, Placed, Equipped, SettingUp, Running, Over,
      Kept, Went, SameFlow, Failed, GoneTo, Left, GoneOn
<1>15. CASE PullFrame
  BY <1>1, <1>2, <1>3, <1>15, PullFrameFlow
  DEF Control, Typed, Placed, Equipped, SettingUp, Running, Over,
      Kept, Went, SameFlow, Failed, GoneTo, Left, GoneOn
<1>16. CASE PullEnds
  BY <1>1, <1>2, <1>3, <1>16, PullEndsFlow
  DEF Control, Typed, Placed, Equipped, SettingUp, Running, Over,
      Kept, Went, SameFlow, Failed, GoneTo, Left, GoneOn
<1>17. CASE PullFails
  BY <1>1, <1>2, <1>3, <1>17, PullFailsFlow
  DEF Control, Typed, Placed, Equipped, SettingUp, Running, Over,
      Kept, Went, SameFlow, Failed, GoneTo, Left, GoneOn
<1>18. CASE FlushFilter
  BY <1>1, <1>2, <1>3, <1>18, FlushFilterFlow
  DEF Control, Typed, Placed, Equipped, SettingUp, Running, Over,
      Kept, Went, SameFlow, Failed, GoneTo, Left, GoneOn
<1>19. CASE FlushEncoder
  BY <1>1, <1>2, <1>3, <1>19, FlushEncoderFlow
  DEF Control, Typed, Placed, Equipped, SettingUp, Running, Over,
      Kept, Went, SameFlow, Failed, GoneTo, Left, GoneOn
<1>20. CASE CleanUp
  BY <1>1, <1>2, <1>3, <1>20, CleanUpFlow
  DEF Control, Typed, Placed, Equipped, SettingUp, Running, Over,
      Kept, Went, SameFlow, Failed, GoneTo, Left, GoneOn
<1>21. CASE CrashAtEnd
  BY <1>1, <1>2, <1>3, <1>21, CrashAtEndFlow
  DEF Control, Typed, Placed, Equipped, SettingUp, Running, Over,
      Kept, Went, SameFlow, Failed, GoneTo, Left, GoneOn
<1>22. CASE UNCHANGED vars
  BY <1>1, <1>2, <1>3, <1>22, Stutters
  DEF Control, Typed, Placed, Equipped, SettingUp, Running, Over,
      Kept, Went, SameFlow, Failed, GoneTo, Left, GoneOn
<1>. QED  BY <1>4, <1>5, <1>6, <1>7, <1>8, <1>9, <1>10, <1>11, <1>12,
             <1>13, <1>14, <1>15, <1>16, <1>17, <1>18, <1>19, <1>20, <1>21, <1>22
          DEF Next, Setup, ReadLoop, Finish

-----------------------------------------------------------------------------
(* The filter graph that a stream gets.                                    *)
GraphOf(i) == IF Transcoded(i) THEN "held" ELSE "null"

(* What the structures hold.                                               *)
Contexts ==
  /\ dec \in [Streams -> Context] /\ enc \in [Streams -> Context]
  /\ graph \in [Streams -> Context \cup {"unset"}]
  /\ leaked \subseteq {"dec", "enc", "graph"} \X Streams

Held ==
  /\ \A i \in Streams : enc[i] = "held" => i <= nb_out
  /\ \A i \in Streams : graph[i] = "held" => filter_ctx
  /\ tpc = "filters" => \A i \in Streams : i < cur => graph[i] = GraphOf(i)
  /\ (entered /\ tpc # "exited") => \A i \in Streams : graph[i] = GraphOf(i)
  /\ (entered \/ tpc \in SettingUp) => leaked = {}
  /\ tpc = "exited" => \A i \in Streams : "held" \notin {dec[i], enc[i], graph[i]}

(* Steps that leave the structures alone.                                  *)
LEMMA HeldKept ==
  ASSUME Control, Held, in' = in,
         dec' = dec, enc' = enc, graph' = graph, leaked' = leaked,
         tpc' = "filters" => (tpc = "filters" /\ cur' = cur) \/ cur' = 1,
         tpc' \in SettingUp => tpc \in SettingUp,
         entered' <=> entered,
         tpc' = "exited" <=> tpc = "exited",
         nb_out' \in Int, nb_out' >= nb_out,
         filter_ctx => filter_ctx'
  PROVE  Held'
<1>1. Streams' = Streams /\ (\A i \in Streams : GraphOf(i)' = GraphOf(i))
  BY DEF Streams, GraphOf, Transcoded
<1>2. NumStreams \in Nat \ {0} /\ Streams = 1 .. NumStreams /\ nb_out \in Int
  BY SomeStreams DEF Control, Typed
<1>3. (\A i \in Streams : enc[i] = "held" => i <= nb_out)'
  BY <1>1, <1>2 DEF Held
<1>4. (\A i \in Streams : graph[i] = "held" => filter_ctx)'
  BY <1>1 DEF Held
<1>5. (tpc = "filters" => \A i \in Streams : i < cur => graph[i] = GraphOf(i))'
  BY <1>1, <1>2 DEF Held
<1>6. ((entered /\ tpc # "exited") => \A i \in Streams : graph[i] = GraphOf(i))'
  BY <1>1 DEF Held
<1>7. ((entered \/ tpc \in SettingUp) => leaked = {})'
  BY DEF Held
<1>8. (tpc = "exited" => \A i \in Streams : "held" \notin {dec[i], enc[i], graph[i]})'
  BY <1>1 DEF Held
<1>. QED  BY <1>3, <1>4, <1>5, <1>6, <1>7, <1>8 DEF Held

(* A step keeps the contexts of their types.                               *)
LEMMA ContextsStep ==
  ASSUME Control, Contexts, [Next]_vars
  PROVE  Contexts'
<1>1. in' = in /\ Streams' = Streams
  BY InputStays DEF Streams
<1>2. NumStreams \in Nat \ {0} /\ Streams = 1 .. NumStreams
  BY SomeStreams DEF Control, Typed
<1>3. CASE UNCHANGED <<dec, enc, graph, leaked>>
  BY <1>1, <1>3 DEF Contexts
<1>4. tpc \in {"decoders", "encoders", "filters"} => cur \in Streams
  BY <1>2 DEF Control, Typed, Placed
<1>5. CASE OpenDecoder
  BY <1>1, <1>4, <1>5 DEF OpenDecoder, Contexts, Context
<1>6. CASE OpenEncoder
  <2>1. enc' \in [Streams -> Context]
    BY <1>4, <1>6 DEF OpenEncoder, Contexts, Context
  <2>2. leaked' \subseteq {"dec", "enc", "graph"} \X Streams
    BY <1>4, <1>6 DEF OpenEncoder, Contexts
  <2>. QED  BY <1>1, <1>6, <2>1, <2>2 DEF OpenEncoder, Contexts
<1>7. CASE InitFilter
  <2>1. graph' \in [Streams -> Context \cup {"unset"}]
    BY <1>4, <1>7 DEF InitFilter, Contexts, Context
  <2>2. leaked' \subseteq {"dec", "enc", "graph"} \X Streams
    BY <1>4, <1>7 DEF InitFilter, Contexts
  <2>. QED  BY <1>1, <1>7, <2>1, <2>2 DEF InitFilter, Contexts
<1>8. CASE CleanUp
  <2>1. \A c : c \in Context => Freed(c) \in Context
    BY DEF Freed, Context
  <2>2. Freed("unset") = "unset"
    BY DEF Freed
  <2>3. dec' \in [Streams -> Context] /\ enc' \in [Streams -> Context]
    BY <1>8, <2>1 DEF CleanUp, Contexts
  <2>4. graph' \in [Streams -> Context \cup {"unset"}]
    BY <1>8, <2>1, <2>2 DEF CleanUp, Contexts
  <2>. QED  BY <1>1, <1>8, <2>3, <2>4 DEF CleanUp, Contexts
<1>9. OpenInput => UNCHANGED <<dec, enc, graph, leaked>>
  BY DEF OpenInput, codecvars
<1>10. OpenOutput => UNCHANGED <<dec, enc, graph, leaked>>
  BY DEF OpenOutput, inputvars
<1>11. WriteHeader => UNCHANGED <<dec, enc, graph, leaked>>
  BY DEF WriteHeader, inputvars, codecvars
<1>12. AllocFilters => UNCHANGED <<dec, enc, graph, leaked>>
  BY DEF AllocFilters, inputvars
<1>13. Working => UNCHANGED <<dec, enc, graph, leaked>>
  BY WorkingFlow
<1>14. UNCHANGED vars => UNCHANGED <<dec, enc, graph, leaked>>
  BY DEF vars, codecvars
<1>. QED  BY <1>3, <1>5, <1>6, <1>7, <1>8, <1>9, <1>10, <1>11, <1>12, <1>13, <1>14
          DEF Next, Setup, ReadLoop, Finish, Working

(* A step keeps what is held within reach of the clean-up.                 *)
LEMMA HeldStep ==
  ASSUME Control, Contexts, Held, [Next]_vars
  PROVE  Held'
<1>1. in' = in /\ Streams' = Streams /\ (\A i \in Streams : GraphOf(i)' = GraphOf(i))
  BY InputStays DEF Streams, GraphOf, Transcoded
<1>2. NumStreams \in Nat \ {0} /\ Streams = 1 .. NumStreams
  BY SomeStreams DEF Control, Typed
<1>3. CASE OpenInput
  <2>1. dec' = dec /\ enc' = enc /\ graph' = graph /\ leaked' = leaked
    BY <1>3 DEF OpenInput, codecvars
  <2>2. /\ tpc' = "filters" => (tpc = "filters" /\ cur' = cur) \/ cur' = 1
        /\ tpc' \in SettingUp => tpc \in SettingUp
        /\ entered' <=> entered
        /\ tpc' = "exited" <=> tpc = "exited"
        /\ nb_out' \in Int /\ nb_out' >= nb_out
        /\ filter_ctx => filter_ctx'
    BY <1>2, <1>3, OpenInputFlow
    DEF Control, Typed, Placed, SettingUp, Kept, Went, SameFlow, Failed, GoneTo, Left, GoneOn
  <2>. QED  BY <1>1, <2>1, <2>2, HeldKept
<1>4. CASE OpenDecoder
  <2>1. enc' = enc /\ graph' = graph
    BY <1>4 DEF OpenDecoder
  <2>2. leaked' = leaked \/ tpc' = "end"
    BY <1>4 DEF OpenDecoder, Fail
  <2>3. /\ tpc' \in {"end", "decoders", "output"} /\ (entered' <=> entered) /\ tpc = "decoders"
        /\ nb_out' = nb_out /\ (filter_ctx' <=> filter_ctx)
    BY <1>4, OpenDecoderFlow DEF Failed, GoneTo, Kept
  <2>4. ~entered
    BY <2>3 DEF Control, Equipped, SettingUp
  <2>. QED  BY <1>1, <2>1, <2>2, <2>3, <2>4 DEF Held, SettingUp
<1>5. CASE OpenOutput
  <2>1. dec' = dec /\ enc' = enc /\ graph' = graph /\ leaked' = leaked
    BY <1>5 DEF OpenOutput, inputvars
  <2>2. /\ tpc' = "filters" => (tpc = "filters" /\ cur' = cur) \/ cur' = 1
        /\ tpc' \in SettingUp => tpc \in SettingUp
        /\ entered' <=> entered
        /\ tpc' = "exited" <=> tpc = "exited"
        /\ nb_out' \in Int /\ nb_out' >= nb_out
        /\ filter_ctx => filter_ctx'
    BY <1>2, <1>5, OpenOutputFlow
    DEF Control, Typed, Placed, SettingUp, Kept, Went, SameFlow, Failed, GoneTo, Left, GoneOn
  <2>. QED  BY <1>1, <2>1, <2>2, HeldKept
<1>6. CASE OpenEncoder
  <2>1. graph' = graph
    BY <1>6 DEF OpenEncoder
  <2>2. leaked' = leaked \/ tpc' = "end"
    BY <1>6 DEF OpenEncoder, Fail
  <2>3. /\ tpc' \in {"end", "encoders", "header"} /\ (entered' <=> entered) /\ tpc = "encoders"
        /\ (filter_ctx' <=> filter_ctx)
    BY <1>6, OpenEncoderFlow DEF Failed, GoneTo
  <2>4. ~entered /\ nb_out = cur - 1 /\ cur \in Streams
    BY <1>2, <2>3 DEF Control, Typed, Placed, Equipped, SettingUp
  <2>5. (\A i \in Streams : enc[i] = "held" => i <= nb_out)'
    <3>1. CASE enc' = enc /\ nb_out' \in {nb_out, nb_out + 1}
      BY <1>1, <1>2, <2>4, <3>1 DEF Held
    <3>2. CASE enc' = [enc EXCEPT ![cur] = "held"] /\ nb_out' = nb_out + 1
      <4>1. \A i \in Streams : enc'[i] = IF i = cur THEN "held" ELSE enc[i]
        BY <2>4, <3>2 DEF Contexts
      <4>. QED  BY <1>1, <1>2, <2>4, <3>2, <4>1 DEF Held
    <3>. QED  BY <1>6, <3>1, <3>2 DEF OpenEncoder
  <2>. QED  BY <1>1, <2>1, <2>2, <2>3, <2>4, <2>5 DEF Held, SettingUp
<1>7. CASE WriteHeader
  <2>1. dec' = dec /\ enc' = enc /\ graph' = graph /\ leaked' = leaked
    BY <1>7 DEF WriteHeader, inputvars, codecvars
  <2>2. /\ tpc' = "filters" => (tpc = "filters" /\ cur' = cur) \/ cur' = 1
        /\ tpc' \in SettingUp => tpc \in SettingUp
        /\ entered' <=> entered
        /\ tpc' = "exited" <=> tpc = "exited"
        /\ nb_out' \in Int /\ nb_out' >= nb_out
        /\ filter_ctx => filter_ctx'
    BY <1>2, <1>7, WriteHeaderFlow
    DEF Control, Typed, Placed, SettingUp, Kept, Went, SameFlow, Failed, GoneTo, Left, GoneOn
  <2>. QED  BY <1>1, <2>1, <2>2, HeldKept
<1>8. CASE AllocFilters
  <2>1. dec' = dec /\ enc' = enc /\ graph' = graph /\ leaked' = leaked
    BY <1>8 DEF AllocFilters, inputvars
  <2>2. /\ tpc' = "filters" => (tpc = "filters" /\ cur' = cur) \/ cur' = 1
        /\ tpc' \in SettingUp => tpc \in SettingUp
        /\ entered' <=> entered
        /\ tpc' = "exited" <=> tpc = "exited"
        /\ nb_out' \in Int /\ nb_out' >= nb_out
        /\ filter_ctx => filter_ctx'
    BY <1>2, <1>8, AllocFiltersFlow
    DEF Control, Typed, Placed, SettingUp, Kept, Went, SameFlow, Failed, GoneTo, Left, GoneOn
  <2>. QED  BY <1>1, <2>1, <2>2, HeldKept
<1>9. CASE InitFilter
  <2>1. tpc = "filters" /\ enc' = enc /\ cur \in Streams /\ Kept /\ filter_ctx /\ ~entered
    BY <1>2, <1>9, InitFilterFlow DEF InitFilter, Control, Typed, Placed, Equipped, SettingUp
  <2>2. leaked' = leaked \/ Failed
    BY <1>9, FailIs DEF InitFilter
  <2>3. CASE Failed
    <3>1. \A i \in Streams : graph'[i] \in {graph[i], "null", "held"}
      BY <1>9, <2>1 DEF InitFilter, Contexts
    <3>. QED  BY <1>1, <2>1, <2>2, <2>3, <3>1 DEF Held, SettingUp, Failed, Kept
  <2>4. CASE ~Failed
    <3>1. GoneTo("filters", cur + 1, "read")
      BY <1>9, <2>4, InitFilterFlow
    <3>2. /\ graph' = [graph EXCEPT ![cur] = IF Transcoded(cur) THEN "held" ELSE "null"]
          /\ leaked' = leaked
      BY <1>9, <2>4, FailIs DEF InitFilter
    <3>3. \A i \in Streams : graph'[i] = IF i = cur THEN GraphOf(i) ELSE graph[i]
      BY <2>1, <3>2 DEF Contexts, GraphOf
    <3>4. \A i \in Streams : i < cur + 1 => graph'[i] = GraphOf(i)
      BY <1>2, <2>1, <3>3 DEF Held
    <3>5. CASE cur + 1 <= NumStreams
      <4>1. tpc' = "filters" /\ cur' = cur + 1 /\ (entered' <=> entered)
        BY <1>2, <2>1, <3>1, <3>5 DEF GoneTo
      <4>. QED  BY <1>1, <2>1, <3>2, <3>3, <3>4, <4>1 DEF Held, SettingUp, Kept
    <3>6. CASE ~(cur + 1 <= NumStreams)
      <4>1. tpc' = "read"
        BY <1>2, <2>1, <3>1, <3>6 DEF GoneTo
      <4>2. \A i \in Streams : graph'[i] = GraphOf(i)
        BY <1>2, <2>1, <3>4, <3>6
      <4>. QED  BY <1>1, <2>1, <3>2, <3>3, <4>1, <4>2 DEF Held, SettingUp, Kept
    <3>. QED  BY <3>5, <3>6
  <2>. QED  BY <2>3, <2>4
<1>10. CASE Working
  <2>1. nb_out' \in Int /\ nb_out' >= nb_out
    BY <1>10, WorkingFlow DEF Control, Typed
  <2>2. /\ dec' = dec /\ enc' = enc /\ graph' = graph /\ leaked' = leaked
        /\ tpc' # "filters" /\ (tpc' \in SettingUp => tpc \in SettingUp)
        /\ (entered' <=> entered) /\ (tpc' = "exited" <=> tpc = "exited")
        /\ (filter_ctx => filter_ctx')
    BY <1>10, WorkingFlow DEF SettingUp
  <2>. QED  BY <1>1, <2>1, <2>2, HeldKept
<1>11. CASE CleanUp
  <2>1. tpc = "end" /\ tpc' = "exited" /\ leaked' = leaked /\ Kept /\ (entered' <=> entered)
    BY <1>11, CleanUpFlow DEF CleanUp, Went, SameFlow
  <2>2. \A c : Freed(c) # "held"
    BY DEF Freed
  <2>3. \A i \in Streams : dec'[i] # "held"
    BY <1>11, <2>2 DEF CleanUp
  <2>4. \A i \in Streams : enc'[i] # "held"
    <3>1. ASSUME NEW i \in Streams
          PROVE  enc'[i] # "held"
      <4>1. CASE nb_out >= i
        BY <1>11, <2>2, <4>1 DEF CleanUp
      <4>2. CASE ~(nb_out >= i)
        <5>1. enc[i] # "held"
          BY <1>2, <4>2 DEF Held, Control, Typed
        <5>. QED  BY <1>11, <4>2, <5>1 DEF CleanUp
      <4>. QED  BY <4>1, <4>2
    <3>. QED  BY <3>1
  <2>5. \A i \in Streams : graph'[i] # "held"
    <3>1. ASSUME NEW i \in Streams
          PROVE  graph'[i] # "held"
      <4>1. CASE filter_ctx
        BY <1>11, <2>2, <4>1 DEF CleanUp
      <4>2. CASE ~filter_ctx
        <5>1. graph[i] # "held"
          BY <4>2 DEF Held
        <5>. QED  BY <1>11, <4>2, <5>1 DEF CleanUp
      <4>. QED  BY <4>1, <4>2
    <3>. QED  BY <3>1
  <2>. QED  BY <1>1, <2>1, <2>3, <2>4, <2>5 DEF Held, SettingUp
<1>12. CASE UNCHANGED vars
  <2>1. dec' = dec /\ enc' = enc /\ graph' = graph /\ leaked' = leaked
    BY <1>12 DEF vars, codecvars
  <2>2. /\ tpc' = "filters" => (tpc = "filters" /\ cur' = cur) \/ cur' = 1
        /\ tpc' \in SettingUp => tpc \in SettingUp
        /\ entered' <=> entered
        /\ tpc' = "exited" <=> tpc = "exited"
        /\ nb_out' \in Int /\ nb_out' >= nb_out
        /\ filter_ctx => filter_ctx'
    BY <1>2, <1>12, Stutters
    DEF Control, Typed, Placed, SettingUp, Kept, Went, SameFlow, Failed, GoneTo, Left, GoneOn
  <2>. QED  BY <1>1, <2>1, <2>2, HeldKept
<1>. QED  BY <1>3, <1>4, <1>5, <1>6, <1>7, <1>8, <1>9, <1>10, <1>11, <1>12
          DEF Next, Setup, ReadLoop, Finish, Working

-----------------------------------------------------------------------------
(* Units are counted.                                                      *)
Counts ==
  /\ packets \in [Streams -> Nat] /\ written \in [Streams -> Nat]
  /\ dropped \in [Streams -> Nat]
  /\ in_dec \in [Streams -> Nat] /\ in_graph \in [Streams -> Nat] /\ in_enc \in [Streams -> Nat]

(* What one more, or one less, of a stream does to a count.                *)
LEMMA AddToIs ==
  ASSUME NEW S, NEW f \in [S -> Nat], NEW i \in S, NEW n \in Int, f[i] + n \in Nat
  PROVE  /\ AddTo(f, i, n) \in [S -> Nat]
         /\ \A j \in S : AddTo(f, i, n)[j] = IF j = i THEN f[j] + n ELSE f[j]
BY DEF AddTo

(* A step leaves no count below zero.                                      *)
LEMMA CountsStep ==
  ASSUME Control, Counts, [Next]_vars
  PROVE  Counts'
<1>1. in' = in /\ Streams' = Streams
  BY InputStays DEF Streams
<1>2. NumStreams \in Nat \ {0} /\ Streams = 1 .. NumStreams
  BY SomeStreams DEF Control, Typed
<1>3. CASE UNCHANGED datavars
  BY <1>1, <1>3 DEF Counts, datavars
<1>4. tpc \in {"decode", "pull", "flush_encoder"} => cur \in Streams
  BY <1>2 DEF Control, Typed, Placed
<1>5. ASSUME NEW f \in [Streams -> Nat], NEW i \in Streams
      PROVE  /\ AddTo(f, i, 1) \in [Streams -> Nat]
             /\ f[i] > 0 => AddTo(f, i, -1) \in [Streams -> Nat]
  <2>1. f[i] \in Nat /\ f[i] + 1 \in Nat /\ (f[i] > 0 => f[i] + (-1) \in Nat)
    OBVIOUS
  <2>2. AddTo(f, i, 1) \in [Streams -> Nat]
    BY <2>1, AddToIs
  <2>3. ASSUME f[i] > 0
        PROVE  AddTo(f, i, -1) \in [Streams -> Nat]
    BY <2>1, <2>3, AddToIs
  <2>. QED  BY <2>2, <2>3
<1>6. ASSUME NEW i \in Streams, ReadPacket(i)
      PROVE  Counts'
  <2>1. packets' \in [Streams -> Nat]
    BY <1>5, <1>6 DEF ReadPacket, Counts
  <2>2. written' \in [Streams -> Nat] /\ dropped' \in [Streams -> Nat]
    BY <1>5, <1>6 DEF ReadPacket, Counts
  <2>. QED  BY <1>1, <1>6, <2>1, <2>2 DEF ReadPacket, Counts
<1>7. CASE Decode
  <2>1. cur \in Streams
    BY <1>4, <1>7 DEF Decode
  <2>2. /\ in_dec' \in [Streams -> Nat] /\ in_graph' \in [Streams -> Nat]
        /\ dropped' \in [Streams -> Nat]
    BY <1>5, <1>7, <2>1 DEF Decode, Counts
  <2>. QED  BY <1>1, <1>7, <2>2 DEF Decode, Counts
<1>8. CASE PullFrame
  <2>1. cur \in Streams
    BY <1>4, <1>8 DEF PullFrame
  <2>2. in_graph' \in [Streams -> Nat]
    BY <1>5, <1>8, <2>1 DEF PullFrame, Counts
  <2>3. in_enc' \in [Streams -> Nat] /\ written' \in [Streams -> Nat]
    BY <1>5, <1>8, <2>1 DEF PullFrame, Counts
  <2>. QED  BY <1>1, <1>8, <2>2, <2>3 DEF PullFrame, Counts
<1>9. CASE FlushEncoder
  <2>1. cur \in Streams
    BY <1>4, <1>9 DEF FlushEncoder
  <2>2. in_enc' \in [Streams -> Nat] /\ written' \in [Streams -> Nat]
    BY <1>5, <1>9, <2>1 DEF FlushEncoder, Counts
  <2>. QED  BY <1>1, <1>9, <2>2 DEF FlushEncoder, Counts
<1>10. Setup => UNCHANGED datavars
  BY
  DEF Setup, OpenInput, OpenDecoder, OpenOutput, OpenEncoder, WriteHeader, AllocFilters,
      InitFilter
<1>11. NewStream \/ ReadEnds \/ PullEnds \/ PullFails => UNCHANGED datavars
  BY DEF NewStream, ReadEnds, PullEnds, PullFails
<1>12. FlushFilter \/ CleanUp \/ CrashAtEnd => UNCHANGED datavars
  BY DEF FlushFilter, CleanUp, CrashAtEnd
<1>13. UNCHANGED vars => UNCHANGED datavars
  BY DEF vars
<1>. QED  BY <1>3, <1>6, <1>7, <1>8, <1>9, <1>10, <1>11, <1>12, <1>13 DEF Next, ReadLoop, Finish

-----------------------------------------------------------------------------
(* Neither the filter graph nor the encoder of i holds anything back.      *)
Clear(i) == in_graph[i] = 0 /\ in_enc[i] = 0

(* What is held back, and when it no longer is.                            *)
Emptied ==
  /\ tpc \in {"decode", "pull", "flush_encoder"} => Transcoded(cur)
  /\ tpc \in SettingUp \cup {"read", "decode"} => ~flushing
  /\ tpc \in {"flush", "flush_encoder"} => flushing
  /\ tpc \in SettingUp => \A i \in Streams : Clear(i)
  /\ \A i \in Streams : ~Transcoded(i) => Clear(i)
  /\ \A i \in Streams : i \notin in.delay => in_enc[i] = 0
  /\ (flushing /\ tpc \in {"flush", "pull", "flush_encoder"})
       => \A i \in Streams : i < cur => Clear(i)
  /\ tpc = "flush_encoder" => in_graph[cur] = 0
  /\ trailer => tpc \in Over /\ \A i \in Streams : Clear(i)

(* A step keeps what was flushed empty, until the trailer is written.      *)
LEMMA EmptiedStep ==
  ASSUME Control, Contexts, Held, Counts, Emptied, [Next]_vars
  PROVE  Emptied'
<1>1. in' = in /\ Streams' = Streams /\ (\A i : Transcoded(i)' = Transcoded(i))
  BY InputStays DEF Streams, Transcoded
<1>2. NumStreams \in Nat \ {0} /\ Streams = 1 .. NumStreams /\ cur \in Int /\ nb_streams \in Int
  BY SomeStreams DEF Control, Typed
<1>3. tpc \in {"decode", "pull", "flush_encoder"} => cur \in Streams
  BY <1>2 DEF Control, Typed, Placed
<1>4. ASSUME tpc \in Running, NEW i \in Streams
      PROVE  graph[i] = GraphOf(i) /\ nb_streams >= NumStreams
  BY <1>4 DEF Held, Control, Equipped, Running
<1>5. CASE Setup
  <2>1. in_graph' = in_graph /\ in_enc' = in_enc /\ (\A k \in Streams : Clear(k)' = Clear(k))
    BY <1>5, SetupFlow DEF datavars, Clear
  <2>. QED  BY <1>1, <1>2, <1>5, <2>1, SetupFlow DEF Emptied, Over, SettingUp, Failed
<1>6. ASSUME NEW i \in Streams, ReadPacket(i)
      PROVE  Emptied'
  <2>1. in_graph' = in_graph /\ in_enc' = in_enc /\ (\A k \in Streams : Clear(k)' = Clear(k))
    BY <1>6 DEF ReadPacket, Clear
  <2>2. tpc' = "decode" => cur' = i /\ graph[i] = "held"
    BY <1>6 DEF ReadPacket, Fail, Goto, LeaveLoop
  <2>3. tpc' = "decode" => Transcoded(cur')
    BY <1>4, <1>6, <2>2, ReadPacketFlow DEF GraphOf, Running
  <2>4. tpc = "read" /\ ~trailer /\ ~flushing /\ (trailer' <=> trailer)
    BY <1>6, ReadPacketFlow DEF Emptied, Over, Went, SameFlow, Failed, Left
  <2>. QED  BY <1>1, <1>2, <1>6, <2>1, <2>3, <2>4, ReadPacketFlow
            DEF Emptied, Over, SettingUp, Went, SameFlow, Failed, Left
<1>7. CASE NewStream
  <2>1. in_graph' = in_graph /\ in_enc' = in_enc /\ (\A k \in Streams : Clear(k)' = Clear(k))
    BY <1>7 DEF NewStream, datavars, Clear
  <2>. QED  BY <1>1, <1>2, <1>7, <2>1, NewStreamFlow
            DEF Emptied, Over, SettingUp, Kept, Went, SameFlow, Failed, GoneTo, Left, GoneOn
<1>8. CASE ReadEnds
  <2>1. in_graph' = in_graph /\ in_enc' = in_enc /\ (\A k \in Streams : Clear(k)' = Clear(k))
    BY <1>8 DEF ReadEnds, datavars, Clear
  <2>. QED  BY <1>1, <1>2, <1>8, <2>1, ReadEndsFlow
            DEF Emptied, Over, SettingUp, Kept, Went, SameFlow, Failed, GoneTo, Left, GoneOn
<1>9. CASE Decode
  <2>1. in_enc' = in_enc /\ cur \in Streams /\ Transcoded(cur)
    BY <1>3, <1>9 DEF Decode, Emptied
  <2>2. \A k \in Streams : k # cur => (Clear(k)' <=> Clear(k))
    <3>1. in_graph' = in_graph \/ in_graph' = AddTo(in_graph, cur, 1)
      BY <1>9 DEF Decode
    <3>2. \A k \in Streams : k # cur => in_graph'[k] = in_graph[k]
      BY <2>1, <3>1 DEF AddTo, Counts
    <3>. QED  BY <2>1, <3>2 DEF Clear
  <2>3. tpc = "decode" /\ ~trailer /\ ~flushing /\ (trailer' <=> trailer)
    BY <1>9, DecodeFlow DEF Emptied, Over, Went, SameFlow, Failed, Left
  <2>. QED  BY <1>1, <1>2, <1>9, <2>1, <2>2, <2>3, DecodeFlow
            DEF Emptied, Over, SettingUp, Went, SameFlow, Failed, Left
<1>10. CASE PullFrame
  <2>1. cur \in Streams /\ Transcoded(cur)
    BY <1>3, <1>10 DEF PullFrame, Emptied
  <2>2. in_enc' = in_enc \/ (cur \in in.delay /\ in_enc' = AddTo(in_enc, cur, 1))
    BY <1>10 DEF PullFrame
  <2>3. \A k \in Streams : k # cur => in_graph'[k] = in_graph[k] /\ in_enc'[k] = in_enc[k]
    BY <1>10, <2>1, <2>2 DEF PullFrame, AddTo, Counts
  <2>4. \A k \in Streams : k # cur => (Clear(k)' <=> Clear(k))
    BY <2>3 DEF Clear
  <2>5. \A k \in Streams : k \notin in.delay => in_enc'[k] = 0
    BY <2>1, <2>2, <2>3 DEF Emptied
  <2>6. tpc = "pull" /\ tpc' = "pull" /\ cur' = cur /\ (flushing' <=> flushing)
        /\ ~trailer /\ ~trailer'
    BY <1>10, PullFrameFlow DEF Emptied, Over, Went, SameFlow
  <2>. QED  BY <1>1, <1>2, <2>1, <2>4, <2>5, <2>6 DEF Emptied, Over, SettingUp
<1>11. CASE PullEnds
  <2>1. in_graph' = in_graph /\ in_enc' = in_enc /\ (\A k \in Streams : Clear(k)' = Clear(k))
    BY <1>11 DEF PullEnds, datavars, Clear
  <2>2. flushing => in_graph[cur] = 0
    BY <1>11 DEF PullEnds
  <2>. QED  BY <1>1, <1>2, <1>11, <2>1, <2>2, PullEndsFlow DEF Emptied, Over, SettingUp
<1>12. CASE PullFails
  <2>1. in_graph' = in_graph /\ in_enc' = in_enc /\ (\A k \in Streams : Clear(k)' = Clear(k))
    BY <1>12 DEF PullFails, datavars, Clear
  <2>. QED  BY <1>1, <1>2, <1>12, <2>1, PullFailsFlow
            DEF Emptied, Over, SettingUp, Kept, Went, SameFlow, Failed, GoneTo, Left, GoneOn
<1>13. CASE FlushFilter
  <2>1. in_graph' = in_graph /\ in_enc' = in_enc /\ (\A k \in Streams : Clear(k)' = Clear(k))
    BY <1>13 DEF FlushFilter, datavars, Clear
  <2>2. tpc = "flush" /\ flushing /\ ~trailer /\ nb_streams >= NumStreams
    BY <1>2, <1>4, <1>13, FlushFilterFlow DEF Emptied, Over, Running
  <2>3. \A k \in Streams : k < cur => Clear(k)
    BY <2>2 DEF Emptied
  <2>4. CASE GoneOn /\ (cur > NumStreams \/ (cur <= NumStreams /\ graph[cur] = "null"))
    <3>1. \A k \in Streams : k <= cur => Clear(k)
      <4>1. CASE cur > NumStreams
        BY <1>2, <2>3, <4>1
      <4>2. CASE cur <= NumStreams /\ graph[cur] = "null"
        <5>1. cur \in Streams /\ ~Transcoded(cur)
          BY <1>2, <1>4, <2>2, <4>2 DEF GraphOf, Running, Control, Typed
        <5>. QED  BY <1>2, <2>3, <5>1 DEF Emptied
      <4>. QED  BY <2>4, <4>1, <4>2
    <3>2. ~(cur < nb_streams) => \A k \in Streams : Clear(k)
      BY <1>2, <2>2, <3>1
    <3>3. \A k \in Streams : k < cur + 1 => Clear(k)
      BY <1>2, <3>1
    <3>. QED  BY <1>1, <2>1, <2>2, <2>4, <3>2, <3>3 DEF Emptied, Over, SettingUp, GoneOn
  <2>5. CASE Went("crashed") \/ Failed
    BY <1>1, <2>1, <2>2, <2>5 DEF Emptied, Over, SettingUp, Went, SameFlow, Failed
  <2>6. CASE cur <= NumStreams /\ graph[cur] = "held" /\ Went("pull")
    <3>1. Transcoded(cur)
      BY <1>2, <1>4, <2>2, <2>6 DEF GraphOf, Running, Control, Typed
    <3>. QED  BY <1>1, <2>1, <2>2, <2>3, <2>6, <3>1 DEF Emptied, Over, SettingUp, Went, SameFlow
  <2>. QED  BY <1>13, <2>4, <2>5, <2>6, FlushFilterFlow
<1>14. CASE FlushEncoder
  <2>1. in_graph' = in_graph /\ cur \in Streams /\ Transcoded(cur) /\ flushing /\ ~trailer
        /\ in_graph[cur] = 0 /\ tpc = "flush_encoder"
    BY <1>3, <1>14 DEF FlushEncoder, Emptied, Over
  <2>2. in_enc' = in_enc \/ (cur \in in.delay /\ in_enc' = AddTo(in_enc, cur, -1))
    BY <1>14 DEF FlushEncoder
  <2>3. \A k \in Streams : k # cur => in_enc'[k] = in_enc[k]
    BY <2>1, <2>2 DEF AddTo, Counts
  <2>4. \A k \in Streams : k # cur => (Clear(k)' <=> Clear(k))
    BY <2>1, <2>3 DEF Clear
  <2>5. \A k \in Streams : k \notin in.delay => in_enc'[k] = 0
    BY <2>1, <2>2, <2>3 DEF Emptied
  <2>6. CASE Went("flush_encoder") \/ Failed
    BY <1>1, <1>2, <2>1, <2>4, <2>5, <2>6 DEF Emptied, Over, SettingUp, Went, SameFlow, Failed
  <2>7. CASE ~(Went("flush_encoder") \/ Failed)
    <3>1. GoneOn
      BY <1>14, <2>7, FlushEncoderFlow
    <3>2. in_enc' = in_enc /\ (cur \in in.delay => in_enc[cur] = 0)
      BY <1>14, <2>7, GotoIs, FailIs DEF FlushEncoder
    <3>3. in_enc'[cur] = 0
      BY <2>1, <3>2 DEF Emptied
    <3>4. \A k \in Streams : k <= cur => Clear(k)'
      <4>1. \A k \in Streams : k < cur => Clear(k)
        BY <2>1 DEF Emptied
      <4>. QED  BY <1>2, <2>1, <2>4, <3>3, <4>1 DEF Clear
    <3>5. nb_streams >= NumStreams
      BY <1>4, <2>1 DEF Running
    <3>6. ~(cur < nb_streams) => \A k \in Streams : Clear(k)'
      BY <1>2, <3>4, <3>5
    <3>7. \A k \in Streams : k < cur + 1 => Clear(k)'
      BY <1>2, <3>4
    <3>8. \A k \in Streams : ~Transcoded(k) => Clear(k)'
      BY <2>1, <2>4 DEF Emptied
    <3>. QED  BY <1>1, <2>1, <2>5, <3>1, <3>6, <3>7, <3>8 DEF Emptied, Over, SettingUp, GoneOn
  <2>. QED  BY <2>6, <2>7
<1>15. CASE CleanUp
  <2>1. in_graph' = in_graph /\ in_enc' = in_enc /\ (\A k \in Streams : Clear(k)' = Clear(k))
    BY <1>15 DEF CleanUp, datavars, Clear
  <2>. QED  BY <1>1, <1>2, <1>15, <2>1, CleanUpFlow
            DEF Emptied, Over, SettingUp, Kept, Went, SameFlow, Failed, GoneTo, Left, GoneOn
<1>16. CASE CrashAtEnd
  <2>1. in_graph' = in_graph /\ in_enc' = in_enc /\ (\A k \in Streams : Clear(k)' = Clear(k))
    BY <1>16 DEF CrashAtEnd, datavars, Clear
  <2>. QED  BY <1>1, <1>2, <1>16, <2>1, CrashAtEndFlow
            DEF Emptied, Over, SettingUp, Kept, Went, SameFlow, Failed, GoneTo, Left, GoneOn
<1>17. CASE UNCHANGED vars
  <2>1. in_graph' = in_graph /\ in_enc' = in_enc /\ (\A k \in Streams : Clear(k)' = Clear(k))
    BY <1>17 DEF vars, datavars, Clear
  <2>. QED  BY <1>1, <1>2, <1>17, <2>1, Stutters
            DEF Emptied, Over, SettingUp, Kept, Went, SameFlow, Failed, GoneTo, Left, GoneOn
<1>. QED  BY <1>5, <1>6, <1>7, <1>8, <1>9, <1>10, <1>11, <1>12, <1>13, <1>14, <1>15,
             <1>16, <1>17
          DEF Next, ReadLoop, Finish

-----------------------------------------------------------------------------
(* What the result tells while the encoders are flushed, and at the end.   *)
SomeBefore(n) == \E i \in Streams : i < n /\ Transcoded(i)

Status ==
  /\ tpc = "flush" => (ret = "ok" <=> SomeBefore(cur))
  /\ tpc = "flush_encoder" => ret = "ok"
  /\ tpc \in {"end", "exited"} => (ret = "ok" <=> trailer /\ SomeBefore(NumStreams + 1))

(* A step keeps the result telling of the streams flushed so far.          *)
LEMMA StatusStep ==
  ASSUME Control, Contexts, Held, Emptied, Status, [Next]_vars
  PROVE  Status'
<1>1. in' = in /\ Streams' = Streams /\ NumStreams' = NumStreams
  BY InputStays DEF Streams, NumStreams
<1>2. NumStreams \in Nat \ {0} /\ Streams = 1 .. NumStreams /\ cur \in Int /\ nb_streams \in Int
  BY SomeStreams DEF Control, Typed
<1>3. \A n : SomeBefore(n)' <=> SomeBefore(n)
  BY <1>1 DEF SomeBefore, Transcoded
<1>4. ~SomeBefore(1)
  BY <1>2 DEF SomeBefore
<1>5. (cur > NumStreams \/ ~Transcoded(cur)) => (SomeBefore(cur + 1) <=> SomeBefore(cur))
  BY <1>2 DEF SomeBefore
<1>6. \A n \in Int : n > NumStreams => (SomeBefore(n) <=> SomeBefore(NumStreams + 1))
  BY <1>2 DEF SomeBefore
<1>7. tpc \in Running => nb_streams >= NumStreams
  BY DEF Control, Equipped
<1>8. tpc \notin Over => ~trailer
  BY DEF Emptied
<1>9. SomeBefore(cur)' <=> SomeBefore(cur')
  BY <1>1 DEF SomeBefore, Transcoded
<1>10. CASE Setup
  BY <1>8, <1>10, SetupFlow DEF Status, Over, SettingUp, Failed
<1>11. ASSUME NEW i \in Streams, ReadPacket(i)
      PROVE  Status'
  BY <1>1, <1>2, <1>3, <1>4, <1>8, <1>9, <1>11, ReadPacketFlow
  DEF Status, Over, SettingUp, Kept, Went, SameFlow, Failed, GoneTo, Left, GoneOn
<1>12. CASE NewStream
  BY <1>1, <1>2, <1>3, <1>4, <1>8, <1>9, <1>12, NewStreamFlow
  DEF Status, Over, SettingUp, Kept, Went, SameFlow, Failed, GoneTo, Left, GoneOn
<1>13. CASE ReadEnds
  BY <1>1, <1>2, <1>3, <1>4, <1>8, <1>9, <1>13, ReadEndsFlow
  DEF Status, Over, SettingUp, Kept, Went, SameFlow, Failed, GoneTo, Left, GoneOn
<1>14. CASE Decode
  BY <1>1, <1>2, <1>3, <1>4, <1>8, <1>9, <1>14, DecodeFlow
  DEF Status, Over, SettingUp, Kept, Went, SameFlow, Failed, GoneTo, Left, GoneOn
<1>15. CASE PullFrame
  BY <1>1, <1>2, <1>3, <1>4, <1>8, <1>9, <1>15, PullFrameFlow
  DEF Status, Over, SettingUp, Kept, Went, SameFlow, Failed, GoneTo, Left, GoneOn
<1>16. CASE PullEnds
  BY <1>1, <1>2, <1>3, <1>4, <1>8, <1>9, <1>16, PullEndsFlow
  DEF Status, Over, SettingUp, Kept, Went, SameFlow, Failed, GoneTo, Left, GoneOn
<1>17. CASE PullFails
  BY <1>1, <1>2, <1>3, <1>4, <1>8, <1>9, <1>17, PullFailsFlow
  DEF Status, Over, SettingUp, Kept, Went, SameFlow, Failed, GoneTo, Left, GoneOn
<1>18. CASE FlushFilter
  <2>1. tpc = "flush" /\ ~trailer /\ nb_streams >= NumStreams
    BY <1>7, <1>8, <1>18, FlushFilterFlow DEF Over, Running
  <2>2. CASE GoneOn /\ (cur > NumStreams \/ (cur <= NumStreams /\ graph[cur] = "null"))
    <3>1. cur > NumStreams \/ ~Transcoded(cur)
      <4>1. CASE cur <= NumStreams /\ graph[cur] = "null"
        <5>1. cur \in Streams
          BY <1>2, <4>1 DEF Control, Typed
        <5>. QED  BY <2>1, <4>1, <5>1 DEF Held, GraphOf, Control, Equipped, Running
      <4>. QED  BY <2>2, <4>1
    <3>2. ret = "ok" <=> SomeBefore(cur + 1)
      BY <1>5, <2>1, <3>1 DEF Status
    <3>3. CASE cur < nb_streams
      BY <1>3, <1>9, <2>1, <2>2, <3>2, <3>3 DEF GoneOn, Status
    <3>4. CASE ~(cur < nb_streams)
      <4>1. SomeBefore(cur + 1) <=> SomeBefore(NumStreams + 1)
        <5>1. cur + 1 \in Int /\ cur + 1 > NumStreams
          BY <1>2, <2>1, <3>4
        <5>. QED  BY <1>6, <5>1
      <4>. QED  BY <1>1, <1>3, <2>2, <3>2, <3>4, <4>1 DEF GoneOn, Status
    <3>. QED  BY <3>3, <3>4
  <2>3. CASE Went("crashed") \/ Failed \/ Went("pull")
    BY <1>1, <1>3, <2>1, <2>3 DEF Status, Went, SameFlow, Failed
  <2>. QED  BY <1>18, <2>2, <2>3, FlushFilterFlow
<1>19. CASE FlushEncoder
  <2>1. tpc = "flush_encoder" /\ ~trailer /\ nb_streams >= NumStreams /\ ret = "ok"
    BY <1>7, <1>8, <1>19, FlushEncoderFlow DEF Over, Running, Status
  <2>2. cur \in Streams /\ Transcoded(cur)
    BY <1>2, <2>1 DEF Emptied, Control, Typed, Placed
  <2>3. SomeBefore(cur + 1) /\ SomeBefore(NumStreams + 1)
    BY <1>2, <2>2 DEF SomeBefore
  <2>4. CASE GoneOn
    BY <1>1, <1>3, <1>9, <2>1, <2>3, <2>4 DEF GoneOn, Status
  <2>5. CASE Went("flush_encoder") \/ Failed
    BY <1>1, <1>3, <2>1, <2>5 DEF Status, Went, SameFlow, Failed
  <2>. QED  BY <1>19, <2>4, <2>5, FlushEncoderFlow
<1>20. CASE CleanUp
  BY <1>1, <1>2, <1>3, <1>4, <1>8, <1>9, <1>20, CleanUpFlow
  DEF Status, Over, SettingUp, Kept, Went, SameFlow, Failed, GoneTo, Left, GoneOn
<1>21. CASE CrashAtEnd
  BY <1>1, <1>2, <1>3, <1>4, <1>8, <1>9, <1>21, CrashAtEndFlow
  DEF Status, Over, SettingUp, Kept, Went, SameFlow, Failed, GoneTo, Left, GoneOn
<1>22. CASE UNCHANGED vars
  BY <1>1, <1>2, <1>3, <1>4, <1>8, <1>9, <1>22, Stutters
  DEF Status, Over, SettingUp, Kept, Went, SameFlow, Failed, GoneTo, Left, GoneOn
<1>. QED  BY <1>10, <1>11, <1>12, <1>13, <1>14, <1>15, <1>16, <1>17, <1>18, <1>19, <1>20,
             <1>21, <1>22
          DEF Next, ReadLoop, Finish

-----------------------------------------------------------------------------
(* Units are neither lost nor made up; one at most is given up.            *)
Balance(i) ==
  packets[i] = written[i] + in_dec[i] + dropped[i] + in_graph[i] + in_enc[i]
                 + (IF tpc = "decode" /\ i = cur THEN 1 ELSE 0)

DroppedOne ==
  /\ \A i, j \in Streams : dropped[i] <= 1 /\ (dropped[i] > 0 /\ dropped[j] > 0 => i = j)
  /\ (tpc \in SettingUp \cup {"read", "decode"} \/ (tpc = "pull" /\ ~flushing))
       => \A i \in Streams : dropped[i] = 0

Balanced == (tpc \in Over /\ ret = "error") \/ \A i \in Streams : Balance(i)

(* Steps that move no unit.                                                *)
LEMMA BalancedKept ==
  ASSUME Balanced, in' = in, UNCHANGED datavars,
         tpc \in Over /\ ret = "error" => tpc' \in Over /\ ret' = "error",
         tpc' # "decode", tpc # "decode"
  PROVE  Balanced'
<1>1. Streams' = Streams
  BY DEF Streams
<1>2. \A i \in Streams : Balance(i) => Balance(i)'
  BY DEF Balance, datavars
<1>. QED  BY <1>1, <1>2 DEF Balanced

(* Steps that give up no unit.                                             *)
LEMMA DroppedKept ==
  ASSUME DroppedOne, in' = in, dropped' = dropped,
         tpc' \in SettingUp \cup {"read", "decode"} \/ (tpc' = "pull" /\ ~flushing')
           => tpc \in SettingUp \cup {"read", "decode"} \/ (tpc = "pull" /\ ~flushing)
  PROVE  DroppedOne'
BY DEF DroppedOne, Streams

(* A unit is given up only by leaving the read loop, which happens once.   *)
LEMMA DroppedStep ==
  ASSUME Control, Counts, Emptied, DroppedOne, [Next]_vars
  PROVE  DroppedOne'
<1>1. in' = in /\ Streams' = Streams
  BY InputStays DEF Streams
<1>2. NumStreams \in Nat \ {0} /\ Streams = 1 .. NumStreams /\ cur \in Int
  BY SomeStreams DEF Control, Typed
<1>3. ASSUME NEW i \in Streams, \A k \in Streams : dropped[k] = 0,
             dropped' = AddTo(dropped, i, 1), tpc' = "flush"
      PROVE  DroppedOne'
  <2>1. \A k \in Streams : dropped'[k] = IF k = i THEN 1 ELSE 0
    BY <1>3 DEF AddTo, Counts
  <2>. QED  BY <1>1, <1>3, <2>1 DEF DroppedOne, SettingUp
<1>4. CASE Setup
  <2>1. dropped' = dropped /\ tpc \in SettingUp
    BY <1>4, SetupFlow DEF datavars
  <2>. QED  BY <1>1, <2>1, DroppedKept
<1>5. ASSUME NEW i \in Streams, ReadPacket(i)
      PROVE  DroppedOne'
  <2>1. tpc = "read" /\ \A k \in Streams : dropped[k] = 0
    BY <1>5 DEF ReadPacket, DroppedOne
  <2>2. CASE dropped' = dropped
    <3>1. tpc' \in {"end", "read", "flush", "decode"}
      BY <1>5, ReadPacketFlow DEF Went, Failed, Left
    <3>. QED  BY <1>1, <2>1, <2>2, <3>1, DroppedKept
  <2>3. CASE dropped' = AddTo(dropped, i, 1) /\ LeaveLoop("error")
    BY <1>3, <2>1, <2>3 DEF LeaveLoop
  <2>. QED  BY <1>5, <2>2, <2>3 DEF ReadPacket
<1>6. CASE NewStream
  <2>1. dropped' = dropped
    BY <1>6 DEF NewStream, datavars
  <2>2. tpc' \in SettingUp \cup {"read", "decode"} \/ (tpc' = "pull" /\ ~flushing')
           => tpc \in SettingUp \cup {"read", "decode"} \/ (tpc = "pull" /\ ~flushing)
    BY <1>6, NewStreamFlow
    DEF Emptied, SettingUp, Kept, Went, SameFlow, Failed, GoneTo, Left, GoneOn
  <2>. QED  BY <1>1, <2>1, <2>2, DroppedKept
<1>7. CASE ReadEnds
  <2>1. dropped' = dropped
    BY <1>7 DEF ReadEnds, datavars
  <2>2. tpc' \in SettingUp \cup {"read", "decode"} \/ (tpc' = "pull" /\ ~flushing')
           => tpc \in SettingUp \cup {"read", "decode"} \/ (tpc = "pull" /\ ~flushing)
    BY <1>7, ReadEndsFlow
    DEF Emptied, SettingUp, Kept, Went, SameFlow, Failed, GoneTo, Left, GoneOn
  <2>. QED  BY <1>1, <2>1, <2>2, DroppedKept
<1>8. CASE Decode
  <2>1. tpc = "decode" /\ cur \in Streams /\ \A k \in Streams : dropped[k] = 0
    BY <1>2, <1>8 DEF Decode, DroppedOne, Control, Typed, Placed
  <2>2. CASE dropped' = dropped
    BY <1>1, <2>1, <2>2, DroppedKept
  <2>3. CASE dropped' = AddTo(dropped, cur, 1) /\ LeaveLoop("error")
    BY <1>3, <2>1, <2>3 DEF LeaveLoop
  <2>. QED  BY <1>8, <2>2, <2>3 DEF Decode
<1>9. CASE PullFrame
  <2>1. dropped' = dropped
    BY <1>9 DEF PullFrame, datavars
  <2>2. tpc' \in SettingUp \cup {"read", "decode"} \/ (tpc' = "pull" /\ ~flushing')
           => tpc \in SettingUp \cup {"read", "decode"} \/ (tpc = "pull" /\ ~flushing)
    BY <1>9, PullFrameFlow
    DEF Emptied, SettingUp, Kept, Went, SameFlow, Failed, GoneTo, Left, GoneOn
  <2>. QED  BY <1>1, <2>1, <2>2, DroppedKept
<1>10. CASE PullEnds
  <2>1. dropped' = dropped
    BY <1>10 DEF PullEnds, datavars
  <2>2. tpc' \in SettingUp \cup {"read", "decode"} \/ (tpc' = "pull" /\ ~flushing')
           => tpc \in SettingUp \cup {"read", "decode"} \/ (tpc = "pull" /\ ~flushing)
    BY <1>10, PullEndsFlow
    DEF Emptied, SettingUp, Kept, Went, SameFlow, Failed, GoneTo, Left, GoneOn
  <2>. QED  BY <1>1, <2>1, <2>2, DroppedKept
<1>11. CASE PullFails
  <2>1. dropped' = dropped
    BY <1>11 DEF PullFails, datavars
  <2>2. tpc' \in SettingUp \cup {"read", "decode"} \/ (tpc' = "pull" /\ ~flushing')
           => tpc \in SettingUp \cup {"read", "decode"} \/ (tpc = "pull" /\ ~flushing)
    BY <1>11, PullFailsFlow
    DEF Emptied, SettingUp, Kept, Went, SameFlow, Failed, GoneTo, Left, GoneOn
  <2>. QED  BY <1>1, <2>1, <2>2, DroppedKept
<1>12. CASE FlushFilter
  <2>1. dropped' = dropped
    BY <1>12 DEF FlushFilter, datavars
  <2>2. tpc' \in SettingUp \cup {"read", "decode"} \/ (tpc' = "pull" /\ ~flushing')
           => tpc \in SettingUp \cup {"read", "decode"} \/ (tpc = "pull" /\ ~flushing)
    BY <1>12, FlushFilterFlow
    DEF Emptied, SettingUp, Kept, Went, SameFlow, Failed, GoneTo, Left, GoneOn
  <2>. QED  BY <1>1, <2>1, <2>2, DroppedKept
<1>13. CASE FlushEncoder
  <2>1. dropped' = dropped
    BY <1>13 DEF FlushEncoder, datavars
  <2>2. tpc' \in SettingUp \cup {"read", "decode"} \/ (tpc' = "pull" /\ ~flushing')
           => tpc \in SettingUp \cup {"read", "decode"} \/ (tpc = "pull" /\ ~flushing)
    BY <1>13, FlushEncoderFlow
    DEF Emptied, SettingUp, Kept, Went, SameFlow, Failed, GoneTo, Left, GoneOn
  <2>. QED  BY <1>1, <2>1, <2>2, DroppedKept
<1>14. CASE CleanUp
  <2>1. dropped' = dropped
    BY <1>14 DEF CleanUp, datavars
  <2>2. tpc' \in SettingUp \cup {"read", "decode"} \/ (tpc' = "pull" /\ ~flushing')
           => tpc \in SettingUp \cup {"read", "decode"} \/ (tpc = "pull" /\ ~flushing)
    BY <1>14, CleanUpFlow
    DEF Emptied, SettingUp, Kept, Went, SameFlow, Failed, GoneTo, Left, GoneOn
  <2>. QED  BY <1>1, <2>1, <2>2, DroppedKept
<1>15. CASE CrashAtEnd
  <2>1. dropped' = dropped
    BY <1>15 DEF CrashAtEnd, datavars
  <2>2. tpc' \in SettingUp \cup {"read", "decode"} \/ (tpc' = "pull" /\ ~flushing')
           => tpc \in SettingUp \cup {"read", "decode"} \/ (tpc = "pull" /\ ~flushing)
    BY <1>15, CrashAtEndFlow
    DEF Emptied, SettingUp, Kept, Went, SameFlow, Failed, GoneTo, Left, GoneOn
  <2>. QED  BY <1>1, <2>1, <2>2, DroppedKept
<1>16. CASE UNCHANGED vars
  <2>1. dropped' = dropped
    BY <1>16 DEF vars, datavars
  <2>2. tpc' \in SettingUp \cup {"read", "decode"} \/ (tpc' = "pull" /\ ~flushing')
           => tpc \in SettingUp \cup {"read", "decode"} \/ (tpc = "pull" /\ ~flushing)
    BY <1>16, Stutters
    DEF Emptied, SettingUp, Kept, Went, SameFlow, Failed, GoneTo, Left, GoneOn
  <2>. QED  BY <1>1, <2>1, <2>2, DroppedKept
<1>. QED  BY <1>4, <1>5, <1>6, <1>7, <1>8, <1>9, <1>10, <1>11, <1>12, <1>13, <1>14,
             <1>15, <1>16
          DEF Next, ReadLoop, Finish

(* A step moves a unit from one place to one other place, or ends in an    *)
(* error.                                                                  *)
LEMMA BalancedStep ==
  ASSUME Control, Counts, Balanced, [Next]_vars
  PROVE  Balanced'
<1>1. in' = in /\ Streams' = Streams
  BY InputStays DEF Streams
<1>2. NumStreams \in Nat \ {0} /\ Streams = 1 .. NumStreams /\ cur \in Int
  BY SomeStreams DEF Control, Typed
<1>3. \A k \in Streams : /\ packets[k] \in Nat /\ written[k] \in Nat /\ dropped[k] \in Nat
                         /\ in_dec[k] \in Nat /\ in_graph[k] \in Nat /\ in_enc[k] \in Nat
  BY DEF Counts
<1>4. ASSUME NEW f \in [Streams -> Nat], NEW i \in Streams
      PROVE  /\ \A k \in Streams : AddTo(f, i, 1)[k] = IF k = i THEN f[k] + 1 ELSE f[k]
             /\ \A k \in Streams : AddTo(f, i, -1)[k] = IF k = i THEN f[k] - 1 ELSE f[k]
  BY DEF AddTo
<1>5. tpc \in {"decode", "pull", "flush_encoder"} => cur \in Streams
  BY <1>2 DEF Control, Typed, Placed
<1>6. CASE Setup
  <2>1. UNCHANGED datavars
    BY <1>6, SetupFlow
  <2>2. tpc \notin Over /\ tpc' # "decode" /\ tpc # "decode"
    BY <1>6, SetupFlow DEF SettingUp, Over, Failed
  <2>. QED  BY <1>1, <2>1, <2>2, BalancedKept
<1>7. ASSUME NEW i \in Streams, ReadPacket(i)
      PROVE  Balanced'
  <2>1. /\ tpc = "read" /\ in_dec' = in_dec /\ in_graph' = in_graph /\ in_enc' = in_enc
        /\ \A k \in Streams : packets'[k] = IF k = i THEN packets[k] + 1 ELSE packets[k]
    BY <1>4, <1>7 DEF ReadPacket, Counts
  <2>2. \A k \in Streams :
          packets[k] = written[k] + in_dec[k] + dropped[k] + in_graph[k] + in_enc[k]
    BY <1>3, <2>1 DEF Balanced, Balance, Over
  <2>3. CASE Failed
    BY <2>3 DEF Failed, Balanced, Over
  <2>4. CASE tpc' = "decode" /\ cur' = i /\ written' = written /\ dropped' = dropped
    <3>1. \A k \in Streams : Balance(k)'
      BY <1>3, <2>1, <2>2, <2>4 DEF Balance
    <3>. QED  BY <1>1, <3>1 DEF Balanced
  <2>5. CASE tpc' = "flush" /\ written' = written /\ dropped' = AddTo(dropped, i, 1)
    <3>1. \A k \in Streams : dropped'[k] = IF k = i THEN dropped[k] + 1 ELSE dropped[k]
      BY <1>4, <2>5 DEF Counts
    <3>2. \A k \in Streams : Balance(k)'
      BY <1>3, <2>1, <2>2, <2>5, <3>1 DEF Balance
    <3>. QED  BY <1>1, <3>2 DEF Balanced
  <2>6. CASE tpc' = "read" /\ dropped' = dropped /\ written' = AddTo(written, i, 1)
    <3>1. \A k \in Streams : written'[k] = IF k = i THEN written[k] + 1 ELSE written[k]
      BY <1>4, <2>6 DEF Counts
    <3>2. \A k \in Streams : Balance(k)'
      BY <1>3, <2>1, <2>2, <2>6, <3>1 DEF Balance
    <3>. QED  BY <1>1, <3>2 DEF Balanced
  <2>. QED  BY <1>7, <2>3, <2>4, <2>5, <2>6, FailIs DEF ReadPacket, Goto, LeaveLoop
<1>8. CASE NewStream
  <2>1. UNCHANGED datavars
    BY <1>8 DEF NewStream, datavars
  <2>2. /\ tpc \in Over /\ ret = "error" => tpc' \in Over /\ ret' = "error"
        /\ tpc' # "decode" /\ tpc # "decode"
    BY <1>8, NewStreamFlow DEF Over, Kept, Went, SameFlow, Failed, GoneTo, Left, GoneOn
  <2>. QED  BY <1>1, <2>1, <2>2, BalancedKept
<1>9. CASE ReadEnds
  <2>1. UNCHANGED datavars
    BY <1>9 DEF ReadEnds, datavars
  <2>2. /\ tpc \in Over /\ ret = "error" => tpc' \in Over /\ ret' = "error"
        /\ tpc' # "decode" /\ tpc # "decode"
    BY <1>9, ReadEndsFlow DEF Over, Kept, Went, SameFlow, Failed, GoneTo, Left, GoneOn
  <2>. QED  BY <1>1, <2>1, <2>2, BalancedKept
<1>10. CASE Decode
  <2>1. /\ tpc = "decode" /\ packets' = packets /\ in_enc' = in_enc /\ written' = written
        /\ cur \in Streams
    BY <1>5, <1>10 DEF Decode
  <2>2. \A k \in Streams :
          packets[k] = written[k] + in_dec[k] + dropped[k] + in_graph[k] + in_enc[k]
                                          + (IF k = cur THEN 1 ELSE 0)
    BY <1>3, <2>1 DEF Balanced, Balance, Over
  <2>3. CASE Failed
    BY <2>3 DEF Failed, Balanced, Over
  <2>4. ASSUME tpc' # "decode",
               \/ in_dec' = AddTo(in_dec, cur, 1) /\ in_graph' = in_graph /\ dropped' = dropped
               \/ in_dec' = in_dec /\ in_graph' = AddTo(in_graph, cur, 1) /\ dropped' = dropped
               \/ in_dec' = in_dec /\ in_graph' = in_graph /\ dropped' = AddTo(dropped, cur, 1)
        PROVE  Balanced'
    <3>1. ASSUME NEW k \in Streams
          PROVE  in_dec'[k] + dropped'[k] + in_graph'[k]
                   = in_dec[k] + dropped[k] + in_graph[k] + (IF k = cur THEN 1 ELSE 0)
      <4>1. /\ AddTo(in_dec, cur, 1)[k] = IF k = cur THEN in_dec[k] + 1 ELSE in_dec[k]
            /\ AddTo(in_graph, cur, 1)[k] = IF k = cur THEN in_graph[k] + 1 ELSE in_graph[k]
            /\ AddTo(dropped, cur, 1)[k] = IF k = cur THEN dropped[k] + 1 ELSE dropped[k]
        BY <1>4, <2>1 DEF Counts
      <4>. QED  BY <1>3, <2>4, <4>1
    <3>2. Counts'
      BY CountsStep
    <3>3. \A k \in Streams : Balance(k)'
      <4>1. ASSUME NEW k \in Streams
            PROVE  Balance(k)'
        <5>1. in_dec'[k] \in Nat /\ dropped'[k] \in Nat /\ in_graph'[k] \in Nat
          BY <1>1, <3>2 DEF Counts
        <5>2. in_dec'[k] + dropped'[k] + in_graph'[k]
                = in_dec[k] + dropped[k] + in_graph[k] + (IF k = cur THEN 1 ELSE 0)
          BY <3>1
        <5>3. packets[k] = written[k] + in_dec[k] + dropped[k] + in_graph[k] + in_enc[k]
                             + (IF k = cur THEN 1 ELSE 0)
          BY <2>2
        <5>4. packets[k] = written[k] + in_dec'[k] + dropped'[k] + in_graph'[k] + in_enc[k]
          BY <1>3, <5>1, <5>2, <5>3
        <5>5. written[k] + in_dec'[k] + dropped'[k] + in_graph'[k] + in_enc[k] + 0
                = written[k] + in_dec'[k] + dropped'[k] + in_graph'[k] + in_enc[k]
          BY <1>3, <5>1
        <5>. QED  BY <2>1, <2>4, <5>4, <5>5, Zenon DEF Balance
      <4>. QED  BY <4>1
    <3>. QED  BY <1>1, <3>3 DEF Balanced
  <2>. QED  BY <1>10, <2>3, <2>4, FailIs DEF Decode, Goto, LeaveLoop
<1>11. CASE PullFrame
  <2>1. /\ tpc = "pull" /\ tpc' = "pull" /\ packets' = packets /\ in_dec' = in_dec
        /\ dropped' = dropped /\ cur \in Streams /\ in_graph' = AddTo(in_graph, cur, -1)
    BY <1>5, <1>11 DEF PullFrame, Goto
  <2>2. \A k \in Streams :
          packets[k] = written[k] + in_dec[k] + dropped[k] + in_graph[k] + in_enc[k]
    BY <1>3, <2>1 DEF Balanced, Balance, Over
  <2>3. \A k \in Streams : in_graph'[k] = IF k = cur THEN in_graph[k] - 1 ELSE in_graph[k]
    BY <1>4, <2>1 DEF Counts
  <2>4. CASE written' = AddTo(written, cur, 1) /\ in_enc' = in_enc
    <3>1. \A k \in Streams : written'[k] = IF k = cur THEN written[k] + 1 ELSE written[k]
      BY <1>4, <2>1, <2>4 DEF Counts
    <3>2. \A k \in Streams : Balance(k)'
      BY <1>3, <2>1, <2>2, <2>3, <2>4, <3>1 DEF Balance
    <3>. QED  BY <1>1, <3>2 DEF Balanced
  <2>5. CASE in_enc' = AddTo(in_enc, cur, 1) /\ written' = written
    <3>1. \A k \in Streams : in_enc'[k] = IF k = cur THEN in_enc[k] + 1 ELSE in_enc[k]
      BY <1>4, <2>1, <2>5 DEF Counts
    <3>2. ASSUME NEW k \in Streams
          PROVE  Balance(k)'
      <4>1. /\ in_graph'[k] + in_enc'[k] = in_graph[k] + in_enc[k]
            /\ in_graph'[k] \in Int /\ in_enc'[k] \in Int
        BY <1>3, <2>3, <3>1
      <4>. QED  BY <1>3, <2>1, <2>2, <2>5, <4>1 DEF Balance
    <3>. QED  BY <1>1, <3>2 DEF Balanced
  <2>. QED  BY <1>11, <2>4, <2>5 DEF PullFrame
<1>12. CASE PullEnds
  <2>1. UNCHANGED datavars
    BY <1>12 DEF PullEnds, datavars
  <2>2. /\ tpc \in Over /\ ret = "error" => tpc' \in Over /\ ret' = "error"
        /\ tpc' # "decode" /\ tpc # "decode"
    BY <1>12, PullEndsFlow DEF Over, Kept, Went, SameFlow, Failed, GoneTo, Left, GoneOn
  <2>. QED  BY <1>1, <2>1, <2>2, BalancedKept
<1>13. CASE PullFails
  <2>1. UNCHANGED datavars
    BY <1>13 DEF PullFails, datavars
  <2>2. /\ tpc \in Over /\ ret = "error" => tpc' \in Over /\ ret' = "error"
        /\ tpc' # "decode" /\ tpc # "decode"
    BY <1>13, PullFailsFlow DEF Over, Kept, Went, SameFlow, Failed, GoneTo, Left, GoneOn
  <2>. QED  BY <1>1, <2>1, <2>2, BalancedKept
<1>14. CASE FlushFilter
  <2>1. UNCHANGED datavars
    BY <1>14 DEF FlushFilter, datavars
  <2>2. /\ tpc \in Over /\ ret = "error" => tpc' \in Over /\ ret' = "error"
        /\ tpc' # "decode" /\ tpc # "decode"
    BY <1>14, FlushFilterFlow DEF Over, Kept, Went, SameFlow, Failed, GoneTo, Left, GoneOn
  <2>. QED  BY <1>1, <2>1, <2>2, BalancedKept
<1>15. CASE FlushEncoder
  <2>1. /\ tpc = "flush_encoder" /\ packets' = packets /\ in_dec' = in_dec
        /\ dropped' = dropped /\ cur \in Streams /\ in_graph' = in_graph /\ tpc' # "decode"
    BY <1>5, <1>15 DEF FlushEncoder, Goto, Fail, NextStream
  <2>2. \A k \in Streams :
          packets[k] = written[k] + in_dec[k] + dropped[k] + in_graph[k] + in_enc[k]
    BY <1>3, <2>1 DEF Balanced, Balance, Over
  <2>3. CASE in_enc' = in_enc /\ written' = written
    <3>1. \A k \in Streams : Balance(k)'
      BY <1>3, <2>1, <2>2, <2>3 DEF Balance
    <3>. QED  BY <1>1, <3>1 DEF Balanced
  <2>4. CASE in_enc' = AddTo(in_enc, cur, -1) /\ written' = AddTo(written, cur, 1)
    <3>1. \A k \in Streams : written'[k] = IF k = cur THEN written[k] + 1 ELSE written[k]
      BY <1>4, <2>1, <2>4 DEF Counts
    <3>2. \A k \in Streams : in_enc'[k] = IF k = cur THEN in_enc[k] - 1 ELSE in_enc[k]
      BY <1>4, <2>1, <2>4 DEF Counts
    <3>3. \A k \in Streams : Balance(k)'
      BY <1>3, <2>1, <2>2, <2>4, <3>1, <3>2 DEF Balance
    <3>. QED  BY <1>1, <3>3 DEF Balanced
  <2>. QED  BY <1>15, <2>3, <2>4 DEF FlushEncoder
<1>16. CASE CleanUp
  <2>1. UNCHANGED datavars
    BY <1>16 DEF CleanUp, datavars
  <2>2. /\ tpc \in Over /\ ret = "error" => tpc' \in Over /\ ret' = "error"
        /\ tpc' # "decode" /\ tpc # "decode"
    BY <1>16, CleanUpFlow DEF Over, Kept, Went, SameFlow, Failed, GoneTo, Left, GoneOn
  <2>. QED  BY <1>1, <2>1, <2>2, BalancedKept
<1>17. CASE CrashAtEnd
  <2>1. UNCHANGED datavars
    BY <1>17 DEF CrashAtEnd, datavars
  <2>2. /\ tpc \in Over /\ ret = "error" => tpc' \in Over /\ ret' = "error"
        /\ tpc' # "decode" /\ tpc # "decode"
    BY <1>17, CrashAtEndFlow DEF Over, Kept, Went, SameFlow, Failed, GoneTo, Left, GoneOn
  <2>. QED  BY <1>1, <2>1, <2>2, BalancedKept
<1>18. CASE UNCHANGED vars
  <2>1. UNCHANGED datavars /\ tpc' = tpc /\ cur' = cur /\ ret' = ret
    BY <1>18 DEF vars, flowvars
  <2>2. \A k \in Streams : Balance(k) => Balance(k)'
    BY <2>1 DEF Balance, datavars
  <2>. QED  BY <1>1, <2>1, <2>2 DEF Balanced
<1>. QED  BY <1>6, <1>7, <1>8, <1>9, <1>10, <1>11, <1>12, <1>13, <1>14, <1>15, <1>16,
             <1>17, <1>18
          DEF Next, ReadLoop, Finish

-----------------------------------------------------------------------------
(* A crash is in a failed set-up, or a stream was found late.              *)
LEMMA CrashStep ==
  ASSUME Control, Held, CrashesOnlyInSetup, [Next]_vars
  PROVE  CrashesOnlyInSetup'
<1>1. in' = in /\ NumStreams' = NumStreams
  BY InputStays DEF NumStreams
<1>2. NumStreams \in Nat \ {0} /\ Streams = 1 .. NumStreams
  BY SomeStreams DEF Control, Typed
<1>3. CASE Setup
  <2>1. tpc' # "crashed"
    BY <1>3, OpenInputFlow, OpenDecoderFlow, OpenOutputFlow, OpenEncoderFlow,
       WriteHeaderFlow, AllocFiltersFlow, InitFilterFlow DEF Setup, Failed, GoneTo
  <2>. QED  BY <2>1 DEF CrashesOnlyInSetup
<1>4. ASSUME NEW i \in Streams, ReadPacket(i)
      PROVE  CrashesOnlyInSetup'
  BY <1>4, ReadPacketFlow DEF CrashesOnlyInSetup, Failed, Went, Left
<1>5. CASE NewStream
  BY <1>1, <1>2, <1>5, NewStreamFlow DEF CrashesOnlyInSetup
<1>6. CASE ReadEnds \/ Decode \/ PullFrame \/ PullEnds \/ PullFails
  <2>1. tpc' # "crashed"
    BY <1>6, ReadEndsFlow, DecodeFlow, PullFrameFlow, PullEndsFlow, PullFailsFlow
    DEF Failed, Went, Left
  <2>. QED  BY <2>1 DEF CrashesOnlyInSetup
<1>7. CASE FlushFilter
  <2>1. tpc' = "crashed" => cur > NumStreams
    BY <1>7, FlushFilterFlow DEF GoneOn, Failed, Went
  <2>2. tpc = "flush" /\ nb_streams' = nb_streams
    BY <1>7, FlushFilterFlow DEF Kept
  <2>3. tpc' = "crashed" => nb_streams' > NumStreams'
    BY <1>1, <1>2, <2>1, <2>2 DEF Control, Typed, Placed
  <2>. QED  BY <2>3 DEF CrashesOnlyInSetup
<1>8. CASE FlushEncoder \/ CleanUp
  <2>1. tpc' # "crashed"
    BY <1>8, FlushEncoderFlow, CleanUpFlow DEF Failed, Went, GoneOn
  <2>. QED  BY <2>1 DEF CrashesOnlyInSetup
<1>9. CASE CrashAtEnd
  <2>1. tpc = "end" /\ nb_streams' = nb_streams /\ (entered' <=> entered)
    BY <1>9, CrashAtEndFlow DEF Kept, Went, SameFlow
  <2>2. ReadsNull \/ ReadsUnset \/ ReadsBeyond
    BY <1>9 DEF CrashAtEnd
  <2>3. entered => ~ReadsNull
    BY <1>2 DEF ReadsNull, Control, Typed, Equipped
  <2>4. entered => ~ReadsUnset
    BY <2>1 DEF ReadsUnset, Held, GraphOf
  <2>. QED  BY <1>1, <2>1, <2>2, <2>3, <2>4 DEF ReadsBeyond, CrashesOnlyInSetup
<1>10. CASE UNCHANGED vars
  BY <1>1, <1>10, Stutters DEF CrashesOnlyInSetup, Kept, Went, SameFlow
<1>. QED  BY <1>3, <1>4, <1>5, <1>6, <1>7, <1>8, <1>9, <1>10 DEF Next, ReadLoop, Finish

-----------------------------------------------------------------------------
(* The inductive invariant.                                                *)
Inv == /\ Control /\ Contexts /\ Held /\ Counts /\ Emptied /\ Status
       /\ DroppedOne /\ Balanced /\ CrashesOnlyInSetup

(* The inductive invariant holds at first,                                 *)
LEMMA InitInv == Init => Inv
<1>. SUFFICES ASSUME Init PROVE Inv
  OBVIOUS
<1>1. NumStreams \in Nat \ {0} /\ Streams = 1 .. NumStreams
  BY SomeStreams DEF Init
<1>2. Control
  <2>1. Typed
    BY <1>1 DEF Init, Typed, SettingUp
  <2>2. Flags
    BY Zenon DEF Init, Flags
  <2>3. Placed /\ Equipped
    BY <1>1 DEF Init, Placed, Equipped, SettingUp, Running
  <2>. QED  BY <2>1, <2>2, <2>3 DEF Control
<1>3. Contexts /\ Held
  BY <1>1 DEF Init, Contexts, Held, Context, SettingUp
<1>4. Counts /\ Emptied
  BY <1>1 DEF Init, Counts, Emptied, Clear, SettingUp, Over
<1>5. Status /\ DroppedOne /\ CrashesOnlyInSetup
  BY <1>1 DEF Init, Status, DroppedOne, CrashesOnlyInSetup
<1>6. Balanced
  BY <1>1 DEF Init, Balanced, Balance
<1>. QED  BY <1>2, <1>3, <1>4, <1>5, <1>6 DEF Inv

(* and every step keeps it.                                                *)
LEMMA StepInv == Inv /\ [Next]_vars => Inv'
<1>. SUFFICES ASSUME Inv, [Next]_vars PROVE Inv'
  OBVIOUS
<1>1. /\ Control /\ Contexts /\ Held /\ Counts /\ Emptied /\ Status
      /\ DroppedOne /\ Balanced /\ CrashesOnlyInSetup
  BY DEF Inv
<1>2. Control' /\ Contexts' /\ Held'
  BY <1>1, ControlStep, ContextsStep, HeldStep
<1>3. Counts' /\ Emptied' /\ Status'
  BY <1>1, CountsStep, EmptiedStep, StatusStep
<1>4. DroppedOne' /\ Balanced' /\ CrashesOnlyInSetup'
  BY <1>1, DroppedStep, BalancedStep, CrashStep
<1>. QED  BY <1>2, <1>3, <1>4 DEF Inv

(* So it always holds.                                                     *)
LEMMA Always == Spec => []Inv
BY InitInv, StepInv, PTL DEF Spec

(* Every variable keeps its type: cur never leaves the streams by more     *)
(* than one, and no count of units goes below zero.                        *)
THEOREM TypeCorrect == Spec => []TypeOK
<1>1. Inv => TypeOK
  <2>. SUFFICES ASSUME Inv PROVE TypeOK
    OBVIOUS
  <2>1. in \in Inputs /\ cur \in 1 .. NumStreams + 1 /\ ret \in {"ok", "eof", "error"}
    BY DEF Inv, Control, Typed
  <2>2. nb_streams \in 0 .. NumStreams + 1 /\ nb_out \in -1 .. NumStreams
    BY DEF Inv, Control, Typed
  <2>3. tpc \in {"input", "decoders", "output", "encoders", "header", "graphs", "filters",
                 "read", "decode", "pull", "flush", "flush_encoder", "end", "exited", "crashed"}
    BY DEF Inv, Control, Typed, SettingUp, Running, Over
  <2>4. /\ flushing \in BOOLEAN /\ entered \in BOOLEAN /\ trailer \in BOOLEAN
        /\ stream_ctx \in BOOLEAN /\ filter_ctx \in BOOLEAN
    BY Zenon DEF Inv, Control, Flags
  <2>5. /\ dec \in [Streams -> Context] /\ enc \in [Streams -> Context]
        /\ graph \in [Streams -> Context \cup {"unset"}]
        /\ leaked \subseteq {"dec", "enc", "graph"} \X Streams
    BY Zenon DEF Inv, Contexts
  <2>6. \A held \in {packets, in_dec, in_graph, in_enc, dropped, written} :
          held \in [Streams -> Nat]
    BY DEF Inv, Counts
  <2>. QED  BY <2>1, <2>2, <2>3, <2>4, <2>5, <2>6, Zenon DEF TypeOK
<1>. QED  BY Always, <1>1, PTL

(* Once the read loop runs, no failure of a library call crashes the       *)
(* program; only a stream found after the arrays were allocated does.      *)
THEOREM CrashesOnlyInSetupAlways == Spec => []CrashesOnlyInSetup
<1>1. Inv => CrashesOnlyInSetup
  BY DEF Inv
<1>. QED  BY Always, <1>1, PTL

(* Whatever way the program takes to its end, it frees what it stored, and *)
(* all that was allocated once the loop was entered is stored.             *)
THEOREM ReleasedAlways == Spec => []Released
<1>1. Inv => Released
  BY DEF Inv, Held, Released
<1>. QED  BY Always, <1>1, PTL

(* No filter graph and no encoder holds anything back when the trailer is  *)
(* written: a decoding error leads to the same flushing as the end of file.*)
THEOREM FlushedAlways == Spec => []Flushed
<1>1. Inv => Flushed
  BY DEF Inv, Emptied, Clear, Flushed
<1>. QED  BY Always, <1>1, PTL

(* A run that reports success wrote all that it read, but for one unit     *)
(* given up with the read loop and those that stay in the decoders.        *)
THEOREM AccountedAlways == Spec => []Accounted
<1>1. Inv => Accounted
  <2>. SUFFICES ASSUME Inv, Success PROVE Accounted
    BY DEF Accounted
  <2>1. tpc = "exited" /\ ret = "ok"
    BY DEF Success
  <2>2. trailer
    BY <2>1 DEF Inv, Status
  <2>3. \A i \in Streams : in_graph[i] = 0 /\ in_enc[i] = 0
    BY <2>2 DEF Inv, Emptied, Clear
  <2>4. \A i \in Streams : written[i] \in Nat /\ in_dec[i] \in Nat /\ dropped[i] \in Nat
    BY DEF Inv, Counts
  <2>5. \A i \in Streams : packets[i] = written[i] + in_dec[i] + dropped[i]
    BY <2>1, <2>3, <2>4 DEF Inv, Balanced, Balance
  <2>. QED  BY <2>5 DEF Inv, DroppedOne, Accounted
<1>. QED  BY Always, <1>1, PTL

(* The exit status is 0 exactly when the trailer was written and a stream  *)
(* was transcoded: it never tells that the read loop ended in an error.    *)
THEOREM StatusTellsAlways == Spec => []StatusTells
<1>1. Inv => StatusTells
  <2>. SUFFICES ASSUME Inv, tpc = "exited" PROVE StatusTells
    BY DEF StatusTells
  <2>1. NumStreams \in Nat /\ Streams = 1 .. NumStreams
    BY SomeStreams DEF Inv, Control, Typed
  <2>2. SomeBefore(NumStreams + 1) <=> \E i \in Streams : Transcoded(i)
    BY <2>1 DEF SomeBefore
  <2>. QED  BY <2>2 DEF Inv, Status, StatusTells
<1>. QED  BY Always, <1>1, PTL

=============================================================================
