------------------------------- MODULE FrameFifo -------------------------------
(***************************************************************************)
(* One elementary-stream FIFO of the ts_muxer with the two threads that    *)
(* share it: ts_muxer_fifo.c over the ring of circular_buf.c.              *)
(*                                                                         *)
(* The producer is the application thread (muxer_process of                *)
(* ts_muxer_app.c): it reads a frame header from its file, asks the muxer  *)
(* for the space left in the FIFO (one critical section) and, when that is *)
(* more than the size of the frame, writes the frame (a second critical    *)
(* section); otherwise it seeks back and asks again later.                 *)
(* The consumer is the muxing thread (init_next_av_packet of ts_muxer.c):  *)
(* it peeks the next header (one critical section), allocates hdr.size     *)
(* bytes and reads that many (a second critical section), ignoring the     *)
(* result.                                                                 *)
(*                                                                         *)
(* A byte of the ring is abstracted to a cell: the frame it belongs to and *)
(* its position in that frame's record (size, pts, dts, payload), so that  *)
(* a record cut short or read out of step is visible.  The consumer's      *)
(* pts gate (hdr.pts <= max_pts) only delays it and is left to TsMuxer: a  *)
(* peek that the gate refuses changes nothing here.                        *)
(***************************************************************************)
EXTENDS CircularBuf

CONSTANTS
  SizeLen, PtsLen, DtsLen,    \* bytes of the header's fields: 4, 8 and 8
  Sizes,                      \* the payload sizes that occur
  NumFrames                   \* frames in the producer's file

(* The fields of a header take room, and no frame of a file is empty.      *)
ASSUME FieldAssumption == /\ SizeLen \in Nat \ {0}
                          /\ PtsLen \in Nat \ {0}
                          /\ DtsLen \in Nat \ {0}
ASSUME SizesAssumption == /\ Sizes \subseteq Nat \ {0}
                          /\ Sizes # {}
ASSUME NumFramesAssumption == NumFrames \in Nat

(* Mutation: the header counted as peek_next_header sees it, without dts.  *)
gsi_header_size_NoDts == SizeLen + PtsLen

gsi_header_size == SizeLen + PtsLen + DtsLen

Frame == [id : 1 .. NumFrames, size : Sizes]

(* The bytes a frame takes in the FIFO.                                    *)
RecLen(f) == gsi_header_size + f.size

Cell == [f : Frame, k : Nat]

Byte == Cell \cup {Unwritten}

(* The n bytes of f's record from position from on.                        *)
Slice(f, from, n) == [i \in 1 .. n |-> [f |-> f, k |-> from + i - 1]]

Payload(f) == Slice(f, gsi_header_size, f.size)

-----------------------------------------------------------------------------
(***************************************************************************)
(* The operations of ts_muxer_fifo.c, each one critical section.           *)
(***************************************************************************)

(* Mutation: the dts, which no reader of a peek looks at, is not written.  *)
write_next_header_NoDts(c, f) ==
  cb_write(cb_write(c, Slice(f, 0, SizeLen)), Slice(f, SizeLen, PtsLen))

write_next_header(c, f) ==
  LET c1 == cb_write(c, Slice(f, 0, SizeLen))
      c2 == cb_write(c1, Slice(f, SizeLen, PtsLen))
  IN  cb_write(c2, Slice(f, SizeLen + PtsLen, DtsLen))

(* Mutation: the space check leaves out the header.                        *)
write_fifo_with_hdr_NoHeader(c, f) ==
  IF cb_writable_size(c) >= f.size
  THEN cb_write(write_next_header(c, f), Payload(f))
  ELSE c

write_fifo_with_hdr(c, f) ==
  IF cb_writable_size(c) >= f.size + gsi_header_size
  THEN cb_write(write_next_header(c, f), Payload(f))
  ELSE c

(* The ring once the header's three fields have been read.                 *)
read_next_header(c) == cb_read(cb_read(cb_read(c, SizeLen), PtsLen), DtsLen)

(* A peek needs the size and the pts only.                                 *)
PeekLen == SizeLen + PtsLen

CanPeek(c) == PeekLen <= cb_readable_size(c)

(* The headers that n bytes p can be read as: the frame's own when they    *)
(* are the first bytes of its record, any header when they are not.        *)
Decoded(p, n) ==
  IF \E f \in Frame : p = Slice(f, 0, n)
  THEN {f \in Frame : p = Slice(f, 0, n)}
  ELSE Frame

(* Mutation: a frame that is all the FIFO holds is not found.              *)
CanReadFrame_OffByOne(c, size) ==
  cb_readable_size(c) > size + gsi_header_size

CanReadFrame(c, size) == cb_readable_size(c) >= size + gsi_header_size

(* Mutation: the frame is copied out and left in the FIFO.                 *)
ReadFrameRing_Peek(c, size) == c

ReadFrameRing(c, size) == cb_read(read_next_header(c), size)

-----------------------------------------------------------------------------
VARIABLES
  fifo,         \* the ring (ts_muxer_fifo.buf)
  file,         \* the frames of the producer's file
  next,         \* the next frame of the file
  ppc,          \* the producer: "ask" for space, "write", or "eof"
  cpc,          \* the consumer: "peek" or "read"
  hdr,          \* the consumer's local hdr, all zero before the peek
  packet,       \* the packet the consumer built last
  filled        \* history: some write left the ring exactly full

vars == <<fifo, file, next, ppc, cpc, hdr, packet, filled>>

(* The header es_frame_header hdr = {0}.                                   *)
NoFrame == [id |-> 0, size |-> 0]

(* A packet is the header it was built from and whether its data are       *)
(* exactly that frame's payload.                                           *)
Packet == [f : Frame \cup {NoFrame}, intact : BOOLEAN]

TypeOK ==
  /\ fifo \in Ring(Byte)
  /\ file \in [1 .. NumFrames -> Frame]
  /\ next \in 1 .. NumFrames + 1
  /\ ppc \in {"ask", "write", "eof"}
  /\ cpc \in {"peek", "read"}
  /\ hdr \in Frame \cup {NoFrame}
  /\ packet \in Packet
  /\ filled \in BOOLEAN

Init ==
  /\ fifo = cb_create
  /\ \E sz \in [1 .. NumFrames -> Sizes] :
       file = [i \in 1 .. NumFrames |-> [id |-> i, size |-> sz[i]]]
  /\ next = 1
  /\ ppc = "ask"
  /\ cpc = "peek"
  /\ hdr = NoFrame
  /\ packet = [f |-> NoFrame, intact |-> TRUE]
  /\ filled = FALSE

(* get_video_write_avail_size and the like: the answer leaves out the      *)
(* header that write_fifo_with_hdr will add.                               *)
AskSpace ==
  /\ ppc = "ask"
  /\ next <= NumFrames
  /\ cb_writable_size(fifo) > file[next].size
  /\ ppc' = "write"
  /\ UNCHANGED <<fifo, file, next, cpc, hdr, packet, filled>>

(* write_video_frame, write_audio_frame, write_scte35_frame: the result of *)
(* write_fifo_with_hdr is dropped, so the file moves on either way.        *)
WriteFrame ==
  /\ ppc = "write"
  /\ fifo' = write_fifo_with_hdr(fifo, file[next])
  /\ filled' = (filled \/ cb_writable_size(fifo) = RecLen(file[next]))
  /\ next' = next + 1
  /\ ppc' = "ask"
  /\ UNCHANGED <<file, cpc, hdr, packet>>

EndOfFile ==
  /\ ppc = "ask"
  /\ next > NumFrames
  /\ ppc' = "eof"
  /\ UNCHANGED <<fifo, file, next, cpc, hdr, packet, filled>>

(* peek_next_hdr, and a pts that the gate of init_next_av_packet passes.   *)
PeekHeader ==
  /\ cpc = "peek"
  /\ CanPeek(fifo)
  /\ hdr' \in Decoded(cb_peek(fifo, PeekLen), PeekLen)
  /\ cpc' = "read"
  /\ UNCHANGED <<fifo, file, next, ppc, packet, filled>>

(* read_fifo_with_hdr of hdr.size bytes when that many are there: hdr is   *)
(* read again from the FIFO, the data are what follows.                    *)
ReadFrame ==
  /\ cpc = "read"
  /\ CanReadFrame(fifo, hdr.size)
  /\ \E h \in Decoded(cb_peek(fifo, gsi_header_size), gsi_header_size) :
       packet' = [f |-> h,
                  intact |-> cb_peek(read_next_header(fifo), hdr.size) = Payload(h)]
  /\ fifo' = ReadFrameRing(fifo, hdr.size)
  /\ hdr' = NoFrame
  /\ cpc' = "peek"
  /\ UNCHANGED <<file, next, ppc, filled>>

(* read_fifo_with_hdr fails; the packet is built all the same, over the    *)
(* bytes av_malloc returned and the peeked header.                         *)
ReadFails ==
  /\ cpc = "read"
  /\ ~ CanReadFrame(fifo, hdr.size)
  /\ packet' = [f |-> hdr, intact |-> FALSE]
  /\ hdr' = NoFrame
  /\ cpc' = "peek"
  /\ UNCHANGED <<fifo, file, next, ppc, filled>>

Producer == AskSpace \/ WriteFrame \/ EndOfFile
Consumer == PeekHeader \/ ReadFrame \/ ReadFails

Next == Producer \/ Consumer

Spec == Init /\ [][Next]_vars

-----------------------------------------------------------------------------
(***************************************************************************)
(* Properties.                                                             *)
(***************************************************************************)

(* The unread bytes are whole records: each byte sits in the record of its *)
(* frame, and that record is there from its first byte to its last.        *)
Framed(c) ==
  \A i \in 0 .. cb_readable_size(c) - 1 :
    /\ ByteAt(c, i) \in Cell
    /\ LET x    == ByteAt(c, i)
           base == i - x.k
       IN  /\ base >= 0
           /\ x.k < RecLen(x.f)
           /\ base + RecLen(x.f) <= cb_readable_size(c)
           /\ \A j \in 0 .. RecLen(x.f) - 1 :
                ByteAt(c, base + j) = [f |-> x.f, k |-> j]

(* The FIFO never holds part of a frame, and no packet is built from bytes *)
(* other than its own frame's, as long as no write ever made the ring      *)
(* exactly full (circular_buf.c takes a full ring for an empty one).       *)
Integrity ==
  filled \/ (Framed(fifo) /\ packet.intact)

(* Between init_next_av_packet's peek and its read, which are separate     *)
(* critical sections, the frame that was peeked stays at the head of the   *)
(* FIFO: a concurrent write does not disturb it (again, no exact fill).    *)
PeekStaysValid ==
  (cpc = "read" /\ ~filled) =>
    /\ CanReadFrame(fifo, hdr.size)
    /\ \A j \in 0 .. RecLen(hdr) - 1 : ByteAt(fifo, j) = [f |-> hdr, k |-> j]

(* Packets leave in the order of the file: a new one is later in it than   *)
(* the one before and already written (again, no exact fill).              *)
DeliveredInOrder ==
  [][(cpc = "read" /\ cpc' = "peek") =>
       filled \/ (packet.f.id < packet'.f.id /\ packet'.f.id < next)]_vars

(* The ring is never exactly full.  It holds for the FIFOs whose records   *)
(* are all multiples of a unit that the FIFO's size is not.                *)
NeverFilled == ~filled

-----------------------------------------------------------------------------
(***************************************************************************)
(* The FIFO as a queue of frames.                                          *)
(***************************************************************************)

(* The frames whose first byte is in the FIFO, oldest first.               *)
Frames(c) ==
  LET bytes == Contents(c)
      heads[n \in 0 .. Len(bytes)] ==
        IF n = 0 THEN << >>
        ELSE IF bytes[n].k = 0 THEN Append(heads[n - 1], bytes[n].f) ELSE heads[n - 1]
  IN  heads[Len(bytes)]

Queue == INSTANCE FrameQueue
           WITH Capacity <- MaxSize,
                Overhead <- gsi_header_size,
                queue <- Frames(fifo),
                used <- cb_readable_size(fifo),
                offered <- next - 1,
                got <- packet.f

(* The FIFO implements the queue: nothing it accepted is lost, cut,        *)
(* duplicated or reordered, and it rejects only what does not fit.         *)
ImplementsQueue == Queue!QSpec

=============================================================================
