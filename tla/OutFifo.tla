------------------------------- MODULE OutFifo -------------------------------
(***************************************************************************)
(* The way of the multiplexed bytes from libavformat to the output file:   *)
(* the AVIO buffer of init_avio_context, its callback write_packet_fn, the *)
(* FIFO out_fifo and the application's loop that empties it                *)
(* (ts_muxer.c:133-171 and 308-320, ts_muxer_app.c:201-212 and 319-334).   *)
(*                                                                         *)
(* libavformat is external.  For each packet it is given, the mpegts muxer *)
(* emits a run of transport-stream packets (one or more, and any number of *)
(* null packets when dts jumps ahead at a constant mux rate); avio copies  *)
(* them to its buffer, calls write_packet_fn with the whole buffer each    *)
(* time it is full, wherever in a packet that falls, and once more with    *)
(* what is left at the end of the run.                                     *)
(*                                                                         *)
(* A byte is its position in the stream libavformat emits, from 1.         *)
(***************************************************************************)
EXTENDS CircularBuf

CONSTANTS
  AvioSize,     \* the size of the AVIO buffer
  PktSize,      \* bytes of a transport-stream packet: 188
  ReadChunk,    \* bytes the application asks for at a time: 188*7
  Bursts,       \* how many packets one run may have
  MaxPackets,   \* bound: the packets libavformat emits in all
  Rounds,       \* the application's rounds of draining after end of input
  Programs      \* which application it may be: "c" or "python"

ASSUME SizesAssumption == /\ AvioSize \in Nat \ {0}
                          /\ PktSize \in Nat \ {0}
                          /\ ReadChunk \in Nat \ {0}
ASSUME BurstsAssumption == Bursts \subseteq Nat \ {0}
ASSUME ProgramsAssumption == Programs \subseteq {"c", "python"}
ASSUME BoundsAssumption == MaxPackets \in Nat /\ Rounds \in Nat \ {0}

Byte == Nat \cup {Unwritten}

(* The n bytes of the stream that follow the first `from`.                 *)
StreamBytes(from, n) == [i \in 1 .. n |-> from + i]

(* Mutation: an AVIO buffer that is not a whole number of packets.         *)
Flush_Unaligned(left) == IF left > PktSize THEN PktSize + 1 ELSE left

(* The call of avio for `left` more bytes of a run: the whole buffer when  *)
(* they fill it, or all of them.                                           *)
Flush(left) == IF left >= AvioSize THEN AvioSize ELSE left

(* write_fifo of ts_muxer_fifo.c, one critical section.                    *)
write_fifo(c, s) == IF cb_writable_size(c) >= Len(s) THEN cb_write(c, s) ELSE c

(* read_fifo of ts_muxer_fifo.c finds size bytes.                          *)
CanRead(c, size) == cb_readable_size(c) >= size

VARIABLES
  out,          \* out_fifo.buf
  mpc,          \* the muxing thread: "mux", "ask" or "write"
  emitted,      \* packets emitted so far
  left,         \* bytes of the current run that avio was not called for yet
  buf_size,     \* the argument of the current write_packet_fn, or 0
  flushed,      \* bytes handed to write_packet_fn and done with
  program,      \* the application
  apc,          \* what it does: "look", "drain", "feed", "sleep" or "exited"
  rounds,       \* rounds of draining since the end of the input
  eof,          \* the input files have ended
  outfile,      \* the bytes written to mux_out_fd
  filled        \* history: some write left the ring exactly full

vars == <<out, mpc, emitted, left, buf_size, flushed, program, apc, rounds, eof, outfile, filled>>
appvars == <<program, apc, rounds, eof, outfile>>
muxvars == <<mpc, emitted, left, buf_size, flushed>>

TypeOK ==
  /\ out \in Ring(Byte)
  /\ mpc \in {"mux", "ask", "write"}
  /\ emitted \in 0 .. MaxPackets
  /\ left \in Nat
  /\ buf_size \in Nat
  /\ flushed \in Nat
  /\ program \in Programs
  /\ apc \in {"look", "drain", "feed", "sleep", "exited"}
  /\ rounds \in 0 .. Rounds
  /\ eof \in BOOLEAN
  /\ outfile \in Seq(Byte)
  /\ filled \in BOOLEAN

(* A round of draining begins: the Python application asks first whether   *)
(* there is more than a chunk.                                             *)
DrainRound == apc' = IF program = "python" THEN "look" ELSE "drain"

Init ==
  /\ program \in Programs
  /\ out = cb_create
  /\ mpc = "mux"
  /\ emitted = 0
  /\ left = 0
  /\ buf_size = 0
  /\ flushed = 0
  /\ apc = IF program = "python" THEN "look" ELSE "drain"
  /\ rounds = 0
  /\ eof = FALSE
  /\ outfile = << >>
  /\ filled = FALSE

(* The process lives until the application's main returns.                 *)
Alive == apc # "exited"

(* libavformat emits a run of n packets; avio makes its first call.        *)
Mux(n) ==
  /\ Alive
  /\ mpc = "mux" /\ left = 0
  /\ emitted + n <= MaxPackets
  /\ emitted' = emitted + n
  /\ buf_size' = Flush(n * PktSize)
  /\ left' = n * PktSize - buf_size'
  /\ mpc' = "ask"
  /\ UNCHANGED <<out, flushed, filled, appvars>>

(* The run goes on behind a full buffer: avio's next call.                 *)
MuxOn ==
  /\ Alive
  /\ mpc = "mux" /\ left > 0
  /\ buf_size' = Flush(left)
  /\ left' = left - buf_size'
  /\ mpc' = "ask"
  /\ UNCHANGED <<out, emitted, flushed, filled, appvars>>

(* Mutation: the free bytes are taken for one more than they are.          *)
AskSpace_OffByOne ==
  /\ Alive
  /\ mpc = "ask"
  /\ cb_writable_size(out) + 1 >= buf_size
  /\ mpc' = "write"
  /\ UNCHANGED <<out, emitted, left, buf_size, flushed, filled, appvars>>

(* Mutation: a chunk of room is kept in reserve.                           *)
AskSpace_Reserve ==
  /\ Alive
  /\ mpc = "ask"
  /\ cb_writable_size(out) > buf_size + ReadChunk
  /\ mpc' = "write"
  /\ UNCHANGED <<out, emitted, left, buf_size, flushed, filled, appvars>>

(* write_avail_fifo, in write_packet_fn's loop; when the answer is too     *)
(* small the thread sleeps 30 ms and asks again, which changes nothing.    *)
AskSpace ==
  /\ Alive
  /\ mpc = "ask"
  /\ cb_writable_size(out) >= buf_size
  /\ mpc' = "write"
  /\ UNCHANGED <<out, emitted, left, buf_size, flushed, filled, appvars>>

(* write_fifo, then return to avio, which forgets the bytes either way.    *)
WritePacket ==
  /\ Alive
  /\ mpc = "write"
  /\ out' = write_fifo(out, StreamBytes(flushed, buf_size))
  /\ filled' = (filled \/ cb_writable_size(out) = buf_size)
  /\ flushed' = flushed + buf_size
  /\ buf_size' = 0
  /\ mpc' = "mux"
  /\ UNCHANGED <<emitted, left, appvars>>

(* Mutation: a chunk is read short of its last packet.                     *)
Drain_Short ==
  /\ apc = "drain"
  /\ CanRead(out, ReadChunk)
  /\ outfile' = outfile \o cb_peek(out, ReadChunk - PktSize)
  /\ out' = cb_read(out, ReadChunk)
  /\ UNCHANGED <<program, apc, rounds, eof, filled, muxvars>>

(* read_muxed_data finds a chunk, fwrite.                                  *)
Drain ==
  /\ apc = "drain"
  /\ CanRead(out, ReadChunk)
  /\ outfile' = outfile \o cb_peek(out, ReadChunk)
  /\ out' = cb_read(out, ReadChunk)
  /\ UNCHANGED <<program, apc, rounds, eof, filled, muxvars>>

(* get_muxed_output_avail_size, only in Python.                            *)
Look ==
  /\ apc = "look"
  /\ apc' = IF cb_readable_size(out) > ReadChunk THEN "drain"
            ELSE IF eof THEN "sleep" ELSE "feed"
  /\ UNCHANGED <<out, program, rounds, eof, outfile, filled, muxvars>>

(* read_muxed_data fails.  Before the end of the input the application     *)
(* goes on to feed the muxer; afterwards it sleeps (half a second in C, and *)
(* in Python only when it has read nothing: time is not modelled).         *)
DrainEnds ==
  /\ apc = "drain"
  /\ ~ CanRead(out, ReadChunk)
  /\ apc' = IF eof THEN "sleep" ELSE "feed"
  /\ UNCHANGED <<out, program, rounds, eof, outfile, filled, muxvars>>

(* The next round of draining, or the return of main after the last: what  *)
(* the muxing thread wrote during that last sleep is not read any more.    *)
Wake ==
  /\ apc = "sleep"
  /\ rounds' = rounds + 1
  /\ IF rounds' = Rounds THEN apc' = "exited" ELSE DrainRound
  /\ UNCHANGED <<out, program, eof, outfile, filled, muxvars>>

(* The rest of the application's loop, which leaves out_fifo alone: one    *)
(* more frame was fed to the muxer, or the video file has ended.           *)
Feed ==
  /\ apc = "feed"
  /\ eof' \in BOOLEAN
  /\ DrainRound
  /\ UNCHANGED <<out, program, rounds, outfile, filled, muxvars>>

Muxer == (\E n \in Bursts : Mux(n)) \/ MuxOn \/ AskSpace \/ WritePacket
App   == Look \/ Drain \/ DrainEnds \/ Wake \/ Feed

Next == Muxer \/ App

Spec == Init /\ [][Next]_vars

(* Both loops sleep for bounded times only, and no mutex is held across a  *)
(* sleep: each thread runs again.                                          *)
FairSpec == Spec /\ WF_vars(Muxer) /\ WF_vars(App)

-----------------------------------------------------------------------------
(* The file is what libavformat emitted, from the start, without a gap, a  *)
(* repetition or a swap; and what was emitted and is not in the file is in *)
(* the FIFO or still to be written (unless a write ever made the ring      *)
(* exactly full).                                                          *)
OutputExact ==
  filled \/ /\ \A i \in 1 .. Len(outfile) : outfile[i] = i
            /\ Len(outfile) + cb_readable_size(out) + buf_size + left
                 = emitted * PktSize

(* The answer of write_avail_fifo is still good when write_fifo runs: the  *)
(* other thread only makes room.                                           *)
AskedSpaceIsThere == mpc = "write" => cb_writable_size(out) >= buf_size

(* The ring is never exactly full.  40000000 is not a multiple of 188, so  *)
(* this holds as long as avio's buffer is never full.                      *)
NeverFilled == ~filled

(* ts_muxer.c:139-140, "Ensure that buf_size worth data is written out":   *)
(* when write_packet_fn returns, the bytes it was given are in the FIFO or *)
(* already in the file.                                                    *)
WrittenOut == Len(outfile) + cb_readable_size(out) = flushed

(* ts_muxer.c:139-140, "or wait till it can be written out": a wait of     *)
(* write_packet_fn ends while the application runs; it is not left waiting *)
(* for the room of bytes that nobody will read.  That holds if each run    *)
(* leaves room for a chunk beside it: a longer one can wait for ever for   *)
(* the room of a residue that no program reads.                            *)
WaitsTillWritten == (mpc = "ask") ~> (mpc = "write" \/ ~Alive)

=============================================================================
