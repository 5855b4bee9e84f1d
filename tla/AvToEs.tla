-------------------------------- MODULE AvToEs --------------------------------
(***************************************************************************)
(* The elementary-stream extractor (apps/av_to_es/av_to_es.c): it opens a  *)
(* file or a named pipe for every stream of the input that the command     *)
(* line asks for, and copies packets, each behind a header with its times, *)
(* until the input ends or a signal comes.  What reads the pipes is        *)
(* another process: the multiplexer's application or its Python sibling,   *)
(* which open all files they are given before they read any, or one        *)
(* process for each pipe.                                                  *)
(*                                                                         *)
(* Options and the streams of the input are numbered from 1 here, from 0   *)
(* in the code; 0 here is its -1.  A call of write moves all it is given,  *)
(* or kills the process, or is cut short by a signal; a reader reads what  *)
(* there is at some time, so that a full pipe only delays a write.         *)
(***************************************************************************)
EXTENDS Timestamps, Sequences, SequencesExt

CONSTANTS
  MaxStreams,   \* MAX_STREAMS
  Jobs,         \* the command lines and inputs there may be
  Garbage       \* what num_out_streams may hold when nobody set it

Slots == 1 .. MaxStreams
Types == {"video", "audio", "data"}

(* stream_<type>_<slot>.es                                                 *)
Name == Types \X Slots
NoFd == <<"stdin", 0>>

Packet == [stream : Slots, pts : Int, dts : Int]
Record == [stream : Slots, pts : Nat, dts : Nat \cup {Unset}, whole : BOOLEAN]

(* options: the pid of each -s; input: its streams, with their ids;        *)
(* packets: what av_read_frame returns; pipes: av_fifo_sink; exist: the    *)
(* pipes are there from an earlier run; reader: who reads them.            *)
Job == [options : Seq(Nat), input : Seq([id : Nat, type : Types]),
        packets : Seq(Packet), pipes : BOOLEAN, exist : BOOLEAN,
        reader : {"ts_muxer", "python", "each"}]

ASSUME StreamsAssumption == MaxStreams \in Nat \ {0}
ASSUME JobsAssumption ==
  \A job \in Jobs :
    /\ job \in Job
    /\ Len(job.options) <= MaxStreams /\ Len(job.input) <= MaxStreams
    /\ \A n \in 1 .. Len(job.packets) : job.packets[n].stream <= Len(job.input)
ASSUME GarbageAssumption == Garbage \subseteq 0 .. MaxStreams /\ Garbage # {}

VARIABLES
  job,
  num_out_streams,
  epc,          \* "opening", "waiting" in open, "main", "closed", "failed" or "killed"
  at,           \* the stream of the input that is next to be opened
  fd,           \* av_streams[].fd, by the name of the file behind it
  pos,          \* packets read
  exit_flag,
  made,         \* the pipes that exist
  files,        \* what was written under each name
  stray,        \* packets written to descriptor 0
  reads,        \* the pipes that each reader opens, in its order
  opened,       \* for each reader, how many of its pipes it has opened
  rpc           \* for each reader: "opening", "missing" (a pipe), "reading",
                \* "failed" or "gone"

evars == <<num_out_streams, epc, at, fd, pos, made, files, stray>>
vars == <<job, reads, exit_flag, evars, opened, rpc>>

-----------------------------------------------------------------------------
(***************************************************************************)
(* Which stream goes where.                                                *)
(***************************************************************************)

(* av_streams[i].pid, zero where no option set it.                         *)
PidOf(i) == IF i <= Len(job.options) THEN job.options[i] ELSE 0

(* The first slot with that pid, or 0.                                     *)
check_id_stream_is_required(pid) ==
  LET hits == {i \in 1 .. num_out_streams : PidOf(i) = pid}
  IN  IF hits = {} THEN 0 ELSE CHOOSE i \in hits : \A j \in hits : i <= j

SlotOf(i) == check_id_stream_is_required(job.input[i].id)
Wanted(i) == SlotOf(i) # 0
FileOf(i) == <<job.input[i].type, SlotOf(i)>>

(* The elements of s that are in S, in their order.                        *)
Chosen(s, S) ==
  LET chosen[k \in 0 .. Len(s)] ==
        IF k = 0 THEN << >>
        ELSE IF s[k] \in S THEN Append(chosen[k - 1], s[k]) ELSE chosen[k - 1]
  IN  chosen[Len(s)]

(* The names that are opened, in the order of the streams of the input.    *)
OpenOrder ==
  LET streams == [i \in 1 .. Len(job.input) |-> i]
      wanted  == Chosen(streams, {i \in 1 .. Len(job.input) : Wanted(i)})
  IN  [k \in 1 .. Len(wanted) |-> FileOf(wanted[k])]

(* Names of one type, by slot: the order of a command line that names them *)
(* as the extractor's did.                                                 *)
OfType(names, type) ==
  Chosen([i \in Slots |-> <<type, i>>], ToSet(names))

(* The pipes that each reading process opens, in its order: the C          *)
(* application opens the video file first, the Python one last and without *)
(* SCTE-35 tracks.                                                         *)
Readers(names) ==
  CASE ~job.pipes -> << >>
    [] job.pipes /\ job.reader = "ts_muxer" ->
         << OfType(names, "video") \o OfType(names, "audio") \o OfType(names, "data") >>
    [] job.pipes /\ job.reader = "python" ->
         << OfType(names, "audio") \o OfType(names, "video") >>
    [] OTHER -> [k \in 1 .. Len(names) |-> << names[k] >>]

TypeOK ==
  /\ job \in Jobs
  /\ num_out_streams \in 0 .. MaxStreams
  /\ epc \in {"opening", "waiting", "main", "closed", "failed", "killed"}
  /\ at \in 1 .. Len(job.input) + 1
  /\ fd \in [Slots -> Name \cup {NoFd}]
  /\ pos \in 0 .. Len(job.packets)
  /\ exit_flag \in BOOLEAN
  /\ made \subseteq Name
  /\ DOMAIN files \subseteq Name
  /\ \A n \in DOMAIN files : files[n] \in Seq(Record)
  /\ stray \in Nat
  /\ \A p \in DOMAIN reads : opened[p] \in 0 .. Len(reads[p])
  /\ \A p \in DOMAIN rpc : rpc[p] \in {"opening", "missing", "reading", "failed", "gone"}

(* Without arguments behind the path, and so with pipes, nobody sets       *)
(* num_out_streams.                                                        *)
Init ==
  /\ job \in Jobs
  /\ num_out_streams \in {Len(job.options)}
                           \cup IF job.options = << >> /\ job.pipes THEN Garbage ELSE {}
  /\ epc = "opening"
  /\ at = 1
  /\ fd = [i \in Slots |-> NoFd]
  /\ pos = 0
  /\ exit_flag = FALSE
  /\ made = IF job.pipes /\ job.exist THEN ToSet(OpenOrder) ELSE {}
  /\ files = << >>
  /\ stray = 0
  /\ reads = Readers(OpenOrder)
  /\ opened = [p \in DOMAIN reads |-> 0]
  /\ rpc = [p \in DOMAIN reads |->
              IF reads[p] = << >> THEN "reading" ELSE "opening"]

-----------------------------------------------------------------------------
(***************************************************************************)
(* Opening.                                                                *)
(***************************************************************************)

(* open returned a descriptor for the file of stream i.                    *)
HasOpened(i) ==
  /\ fd' = [fd EXCEPT ![SlotOf(i)] = FileOf(i)]
  /\ files' = [n \in DOMAIN files \cup {FileOf(i)} |->
                 IF n = FileOf(i) THEN << >> ELSE files[n]]
  /\ at' = at + 1
  /\ epc' = "opening"

SkipStream ==
  /\ epc = "opening"
  /\ at <= Len(job.input)
  /\ ~Wanted(at)
  /\ at' = at + 1
  /\ UNCHANGED <<job, reads, exit_flag, num_out_streams, epc, fd, pos, made, files, stray, opened, rpc>>

OpenFile ==
  /\ epc = "opening"
  /\ at <= Len(job.input)
  /\ Wanted(at) /\ ~job.pipes
  /\ HasOpened(at)
  /\ UNCHANGED <<job, reads, exit_flag, num_out_streams, pos, made, stray, opened, rpc>>

(* mkfifo, to which EEXIST is no error; open then waits for a reader.      *)
MakePipe ==
  /\ epc = "opening"
  /\ at <= Len(job.input)
  /\ Wanted(at) /\ job.pipes
  /\ made' = made \cup {FileOf(at)}
  /\ epc' = "waiting"
  /\ UNCHANGED <<job, reads, exit_flag, num_out_streams, at, fd, pos, files, stray, opened, rpc>>

(* errExit: the file, or the pipe, could not be made or opened.            *)
OpenFails ==
  /\ epc = "opening"
  /\ at <= Len(job.input)
  /\ Wanted(at)
  /\ epc' = "failed"
  /\ UNCHANGED <<job, reads, exit_flag, num_out_streams, at, fd, pos, made, files, stray, opened, rpc>>

(* Reader p has pipes to open, and which is next.                          *)
Opens(p) == rpc[p] \in {"opening", "missing"}
NextPipe(p) == reads[p][opened[p] + 1]

(* Behind its last pipe a reader starts to read, or crashes on the one     *)
(* that it could not open.                                                 *)
AfterPipe(p, state) ==
  IF opened[p] + 1 < Len(reads[p]) THEN state
  ELSE IF state = "missing" THEN "failed" ELSE "reading"

(* Mutation: the extractor finds its reader in whatever order it opens.    *)
Meet_AnyOrder(p) ==
  /\ epc = "waiting"
  /\ Opens(p)
  /\ FileOf(at) \in ToSet(reads[p])
  /\ HasOpened(at)
  /\ opened' = [opened EXCEPT ![p] = @ + 1]
  /\ rpc' = [rpc EXCEPT ![p] = AfterPipe(p, @)]
  /\ UNCHANGED <<job, reads, exit_flag, num_out_streams, pos, made, stray>>

(* The extractor's open and a reader's let each other go.  A signal does   *)
(* not end the wait: signal() restarts the call.                           *)
Meet(p) ==
  /\ epc = "waiting"
  /\ Opens(p)
  /\ NextPipe(p) = FileOf(at)
  /\ HasOpened(at)
  /\ opened' = [opened EXCEPT ![p] = @ + 1]
  /\ rpc' = [rpc EXCEPT ![p] = AfterPipe(p, @)]
  /\ UNCHANGED <<job, reads, exit_flag, num_out_streams, pos, made, stray>>

(* The reader comes to a pipe that was not made yet.  In C fopen returns   *)
(* NULL, and the application goes on until it reads from it; in Python     *)
(* open raises an exception.                                               *)
ReaderMisses(p) ==
  /\ Opens(p)
  /\ NextPipe(p) \notin made
  /\ opened' = [opened EXCEPT ![p] = @ + 1]
  /\ rpc' = [rpc EXCEPT ![p] = IF job.reader = "ts_muxer" THEN AfterPipe(p, "missing")
                                                         ELSE "failed"]
  /\ UNCHANGED <<job, reads, exit_flag, evars>>

(* A reader may be done before the extractor is.                           *)
ReaderLeaves(p) ==
  /\ rpc[p] = "reading"
  /\ rpc' = [rpc EXCEPT ![p] = "gone"]
  /\ UNCHANGED <<job, reads, exit_flag, evars, opened>>

StartMain ==
  /\ epc = "opening"
  /\ at > Len(job.input)
  /\ epc' = "main"
  /\ UNCHANGED <<job, reads, exit_flag, num_out_streams, at, fd, pos, made, files, stray, opened, rpc>>

-----------------------------------------------------------------------------
(***************************************************************************)
(* The main loop.                                                          *)
(***************************************************************************)

Signal ==
  /\ epc \in {"opening", "waiting", "main"}
  /\ ~exit_flag
  /\ exit_flag' = TRUE
  /\ UNCHANGED <<job, reads, evars, opened, rpc>>

(* Mutation: the loop does not look at the flag.                           *)
Goes_On == epc = "main" /\ pos < Len(job.packets)

(* The loop's condition.                                                   *)
Goes == epc = "main" /\ ~exit_flag /\ pos < Len(job.packets)

ThisPacket == job.packets[pos + 1]

(* Mutation: the timestamps stay as they are.                              *)
Cut33_Not(t) == t

(* Mutation: 32 bits.                                                      *)
Cut33_To32(t) == t % (Wrap \div 2)

(* & 0x1ffffffff                                                           *)
Cut33(t) == t % Wrap

(* What is written for a packet: of its dts only whether it is missing,    *)
(* asked when it was cut already.                                          *)
RecordOf(p, whole) ==
  [stream |-> p.stream,
   pts    |-> Cut33(p.pts),
   dts    |-> IF Cut33(p.dts) = AV_NOPTS_VALUE THEN Unset ELSE Cut33(p.pts),
   whole  |-> whole]

(* The descriptor: by the stream's number, not by its slot.                *)
Target(i) == fd[i]

(* The process at the other end of a pipe has gone.                        *)
Broken(n) ==
  \E p \in DOMAIN reads :
    /\ \E k \in 1 .. Len(reads[p]) : reads[p][k] = n
    /\ rpc[p] \in {"gone", "failed"}

Written(whole) ==
  LET p == ThisPacket
      n == Target(p.stream)
  IN  /\ pos' = pos + 1
      /\ IF n = NoFd
         THEN stray' = stray + 1 /\ UNCHANGED files
         ELSE /\ files' = [files EXCEPT ![n] = Append(@, RecordOf(p, whole))]
              /\ UNCHANGED stray

(* Mutation: the packet is written all the same.                           *)
SkipPacket_Falls ==
  /\ Goes
  /\ ~Wanted(ThisPacket.stream)
  /\ Written(TRUE)
  /\ UNCHANGED <<job, reads, exit_flag, num_out_streams, epc, at, fd, made, opened, rpc>>

SkipPacket ==
  /\ Goes
  /\ ~Wanted(ThisPacket.stream)
  /\ pos' = pos + 1
  /\ UNCHANGED <<job, reads, exit_flag, num_out_streams, epc, at, fd, made, files, stray, opened, rpc>>

WritePacket ==
  /\ Goes
  /\ Wanted(ThisPacket.stream)
  /\ ~Broken(Target(ThisPacket.stream))
  /\ Written(TRUE)
  /\ UNCHANGED <<job, reads, exit_flag, num_out_streams, epc, at, fd, made, opened, rpc>>

(* A signal comes while the write of the data waits for room in the pipe:  *)
(* it returns with what it has moved, and nobody looks.                    *)
WriteCut ==
  /\ Goes
  /\ Wanted(ThisPacket.stream)
  /\ job.pipes
  /\ Target(ThisPacket.stream) # NoFd
  /\ ~Broken(Target(ThisPacket.stream))
  /\ Written(FALSE)
  /\ exit_flag' = TRUE
  /\ UNCHANGED <<job, reads, num_out_streams, epc, at, fd, made, opened, rpc>>

(* SIGPIPE.                                                                *)
WriteKills ==
  /\ Goes
  /\ Wanted(ThisPacket.stream)
  /\ Broken(Target(ThisPacket.stream))
  /\ epc' = "killed"
  /\ UNCHANGED <<job, reads, exit_flag, num_out_streams, at, fd, pos, made, files, stray, opened, rpc>>

(* close_fds: descriptor 0 stands for none.                                *)
Close ==
  /\ epc = "main"
  /\ ~Goes
  /\ fd' = [i \in Slots |-> NoFd]
  /\ epc' = "closed"
  /\ UNCHANGED <<job, reads, exit_flag, num_out_streams, at, pos, made, files, stray, opened, rpc>>

Extract ==
  \/ SkipStream \/ OpenFile \/ MakePipe \/ OpenFails \/ StartMain
  \/ \E p \in DOMAIN reads : Meet(p)
  \/ SkipPacket \/ WritePacket \/ WriteCut \/ WriteKills \/ Close

Environment ==
  \/ Signal
  \/ \E p \in DOMAIN reads : ReaderMisses(p) \/ ReaderLeaves(p)

Next == Extract \/ Environment

Spec == Init /\ [][Next]_vars

(* A single thread, whose calls return: av_read_frame reads a file, and a  *)
(* write waits for a reader that reads.  Nothing is assumed of signals and *)
(* of the readers' ends; that they open their pipes is part of Meet.       *)
FairSpec == Spec /\ WF_vars(Extract)

-----------------------------------------------------------------------------
Connected == epc \in {"main", "closed", "killed"}

(* The packets of a stream that were read.                                 *)
PacketsOf(i) ==
  Chosen(SubSeq(job.packets, 1, pos), {p \in ToSet(job.packets) : p.stream = i})

(* The input's streams that were asked for have their slots' numbers.      *)
Aligned == \A i \in 1 .. Len(job.input) : Wanted(i) => SlotOf(i) = i

(* When the streams of the input come in the order of the options, each    *)
(* file has the packets of its stream that were read, every one and in     *)
(* order, and none goes anywhere else, though the index of the descriptor  *)
(* is not the one the check for a wanted stream returned.                  *)
ExactWhenAligned ==
  (Aligned /\ Connected) =>
     /\ stray = 0
     /\ \A i \in 1 .. Len(job.input) : Wanted(i) =>
          /\ Len(files[FileOf(i)]) = Len(PacketsOf(i))
          /\ \A k \in 1 .. Len(PacketsOf(i)) : \E whole \in BOOLEAN :
               files[FileOf(i)][k] = RecordOf(PacketsOf(i)[k], whole)

(* The Readme's usage (Readme.md:25-27): the file named for an option has  *)
(* the stream with that option's pid.                                      *)
FileHoldsItsStream ==
  \A n \in DOMAIN files : \A k \in 1 .. Len(files[n]) :
    job.input[files[n][k].stream].id = PidOf(n[2])

(* A record that a signal cut short is the last one of its file, so that   *)
(* a reader never takes the rest of a frame for a header: no other write   *)
(* follows the signal, in that file or in another one.                     *)
OnlyLastCut ==
  \A n \in DOMAIN files : \A k \in 1 .. Len(files[n]) :
    ~files[n][k].whole =>
       /\ k = Len(files[n])
       /\ \A m \in DOMAIN files : \A j \in 1 .. Len(files[m]) :
            files[m][j].whole \/ <<m, j>> = <<n, k>>

(* base_ts after each record of a file that one stream alone fills.        *)
UnrolledOf(s) ==
  LET base_ts[k \in 0 .. Len(s)] ==
        IF k = 0 THEN Unset ELSE base_after(base_ts[k - 1], s[k].pts)
  IN  base_ts

(* No packet lacks its pts, and successive ones are less than half a wrap  *)
(* apart.                                                                  *)
Regular(ps) ==
  \A k \in 1 .. Len(ps) :
    /\ ps[k].pts # AV_NOPTS_VALUE
    /\ k > 1 => LET d == ps[k].pts - ps[k - 1].pts
                IN  -(Wrap \div 2) < d /\ d < Wrap \div 2

(* Through the extractor's cut to 33 bits and the muxer's unroll_timestamp *)
(* the packets of a stream keep their distances in time, across a wrap, if *)
(* none lacks its pts: a missing one is cut to 0 and unrolls to some time. *)
TimesSurvive ==
  (Aligned /\ Connected) =>
     \A i \in 1 .. Len(job.input) :
       (Wanted(i) /\ Regular(PacketsOf(i))) =>
          \A k \in 1 .. Len(files[FileOf(i)]) :
            LET u == UnrolledOf(files[FileOf(i)])
                ps == PacketsOf(i)
            IN  \/ \E j \in 1 .. k : u[j] = Unset
                \/ u[k] - u[1] = ps[k].pts - ps[1].pts

(* Each pipe's reader has opened, before it, only pipes that the extractor *)
(* opens before it.                                                        *)
OrdersAgree ==
  \A k \in 1 .. Len(OpenOrder) : \E p \in DOMAIN reads : \E j \in 1 .. Len(reads[p]) :
    /\ reads[p][j] = OpenOrder[k]
    /\ \A before \in 1 .. j - 1 : \E m \in 1 .. k - 1 : reads[p][before] = OpenOrder[m]

(* No two of the streams that are asked for share a file, as two of the    *)
(* same id and type would: opening a pipe for the second time is not in    *)
(* this model.                                                             *)
NamesDiffer ==
  \A i, k \in 1 .. Len(job.input) :
    (Wanted(i) /\ Wanted(k) /\ FileOf(i) = FileOf(k)) => i = k

(* With pipes the two programs come together if they open them in the same *)
(* order, each pipe for one stream, and wait for each other for ever,      *)
(* whatever signals come, if they do not.  A reader can also be too early  *)
(* for a pipe that does not exist.                                         *)
ConnectsIfOrdersAgree ==
  /\ (job.pipes => (OrdersAgree /\ NamesDiffer)) =>
       <>(Connected \/ epc = "failed"
            \/ (~job.exist /\ \E p \in DOMAIN rpc : rpc[p] \in {"missing", "failed"}))
  /\ (job.pipes /\ ~OrdersAgree) => []~Connected
=============================================================================
