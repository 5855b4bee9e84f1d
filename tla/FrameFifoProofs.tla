---------------------------- MODULE FrameFifoProofs ----------------------------
(***************************************************************************)
(* Proofs about FrameFifo, for every ring size, header layout, set of      *)
(* frame sizes and length of file: the safety properties its runs check, a *)
(* condition under which the ring is never exactly full, and that it       *)
(* implements the queue of FrameQueue as long as it is not.                *)
(***************************************************************************)
EXTENDS FrameFifo, CircularBufProofs, SequenceTheorems, WellFoundedInduction

-----------------------------------------------------------------------------
(***************************************************************************)
(* What the operations of ts_muxer_fifo.c do to the unread bytes.          *)
(***************************************************************************)

(* The record of f starts at the i-th unread byte and is all there.        *)
RecordAt(c, i, f) ==
  /\ i + RecLen(f) <= cb_readable_size(c)
  /\ \A j \in 0 .. RecLen(f) - 1 : ByteAt(c, i + j) = [f |-> f, k |-> j]

(* A header takes room.                                                    *)
LEMMA HeaderLength == gsi_header_size \in Nat \ {0}
  BY FieldAssumption DEF gsi_header_size

(* What a frame is made of, and that its record is longer than a header.   *)
LEMMA FrameFields ==
  ASSUME NEW f \in Frame
  PROVE  /\ f.id \in 1 .. NumFrames
         /\ f.size \in Nat \ {0}
         /\ f.size \in Sizes
         /\ RecLen(f) \in Nat
         /\ gsi_header_size < RecLen(f)
<1>1. f.id \in 1 .. NumFrames /\ f.size \in Sizes
  BY DEF Frame
<1>2. f.size \in Nat \ {0}
  BY <1>1, SizesAssumption
<1> QED BY <1>1, <1>2, HeaderLength DEF RecLen

(* A slice of a record is a sequence of cells.                             *)
LEMMA SliceIsSeq ==
  ASSUME NEW f \in Frame, NEW a \in Nat, NEW n \in Nat
  PROVE  /\ Slice(f, a, n) \in Seq(Byte)
         /\ Len(Slice(f, a, n)) = n
         /\ \A i \in 0 .. n - 1 : Slice(f, a, n)[i + 1] = [f |-> f, k |-> a + i]
<1>1. ASSUME NEW i \in 1 .. n
      PROVE  [f |-> f, k |-> a + i - 1] \in Byte
  BY DEF Byte, Cell
<1>2. Slice(f, a, n) \in [1 .. n -> Byte]
  BY <1>1 DEF Slice
<1>3. ASSUME NEW i \in 0 .. n - 1
      PROVE  Slice(f, a, n)[i + 1] = [f |-> f, k |-> a + i]
  <2>1. i + 1 \in 1 .. n /\ a + (i + 1) - 1 = a + i
    OBVIOUS
  <2> QED BY <2>1 DEF Slice
<1> QED BY <1>2, <1>3

(* c is c0 with the first a bytes of f's record appended.                 *)
Appended(c, c0, f, a) ==
  /\ c \in Ring(Byte)
  /\ cb_readable_size(c) = cb_readable_size(c0) + a
  /\ cb_writable_size(c) = cb_writable_size(c0) - a
  /\ \A i \in 0 .. cb_readable_size(c0) - 1 : ByteAt(c, i) = ByteAt(c0, i)
  /\ \A j \in 0 .. a - 1 : ByteAt(c, cb_readable_size(c0) + j) = [f |-> f, k |-> j]

(* Every ring is itself with nothing appended.                             *)
LEMMA AppendNothing ==
  ASSUME NEW c0 \in Ring(Byte), NEW f \in Frame
  PROVE  Appended(c0, c0, f, 0)
  BY SizesAddUp, MaxSizeAssumption DEF Appended

(* Writing the next n bytes of the record extends what is there.           *)
LEMMA AppendSlice ==
  ASSUME NEW c0 \in Ring(Byte), NEW f \in Frame, NEW a \in Nat, NEW n \in Nat,
         NEW c, Appended(c, c0, f, a), n < cb_writable_size(c)
  PROVE  Appended(cb_write(c, Slice(f, a, n)), c0, f, a + n)
<1> DEFINE s    == Slice(f, a, n)
           w    == cb_write(c, s)
           base == cb_readable_size(c0)
<1>1. /\ s \in Seq(Byte) /\ Len(s) = n
      /\ \A i \in 0 .. n - 1 : s[i + 1] = [f |-> f, k |-> a + i]
  BY SliceIsSeq
<1> HIDE DEF s
<1>2. c \in Ring(Byte) /\ base \in Nat /\ cb_writable_size(c0) \in Nat
  BY SizesAddUp, MaxSizeAssumption DEF Appended
<1>3. w \in Ring(Byte)
  BY <1>1, <1>2, WriteTyped
<1>4. /\ cb_readable_size(w) = cb_readable_size(c) + n
      /\ \A i \in 0 .. cb_readable_size(c) - 1 : ByteAt(w, i) = ByteAt(c, i)
      /\ \A i \in 0 .. n - 1 : ByteAt(w, cb_readable_size(c) + i) = s[i + 1]
  <2>1. Len(s) < cb_writable_size(c)
    BY <1>1
  <2> QED BY <1>1, <1>2, <2>1, WriteAppends
<1> HIDE DEF w
<1>5. cb_readable_size(c) = base + a /\ cb_writable_size(c) = cb_writable_size(c0) - a
  BY DEF Appended
<1>6. cb_readable_size(w) = base + (a + n)
  BY <1>2, <1>4, <1>5
<1>7. cb_writable_size(w) = cb_writable_size(c0) - (a + n)
  BY <1>2, <1>3, <1>5, <1>6, SizesAddUp, MaxSizeAssumption
<1>8. ASSUME NEW i \in 0 .. base - 1
      PROVE  ByteAt(w, i) = ByteAt(c0, i)
  <2>1. i \in 0 .. cb_readable_size(c) - 1
    BY <1>2, <1>5
  <2> QED BY <1>4, <2>1 DEF Appended
<1>9. ASSUME NEW j \in 0 .. (a + n) - 1
      PROVE  ByteAt(w, base + j) = [f |-> f, k |-> j]
  <2>1. CASE j < a
    <3>1. j \in 0 .. a - 1 /\ base + j \in 0 .. cb_readable_size(c) - 1
      BY <1>2, <1>5, <2>1
    <3> QED BY <1>4, <3>1 DEF Appended
  <2>2. CASE j >= a
    <3> DEFINE i == j - a
    <3>1. i \in 0 .. n - 1 /\ cb_readable_size(c) + i = base + j /\ a + i = j
      BY <1>2, <1>5, <2>2
    <3> HIDE DEF i
    <3> QED BY <1>1, <1>4, <3>1
  <2> QED BY <2>1, <2>2
<1> QED BY <1>3, <1>6, <1>7, <1>8, <1>9 DEF Appended, w, s

(* The header of a frame that fits is appended whole.                      *)
LEMMA HeaderAppends ==
  ASSUME NEW c \in Ring(Byte), NEW f \in Frame,
         RecLen(f) <= cb_writable_size(c)
  PROVE  Appended(write_next_header(c, f), c, f, gsi_header_size)
<1> DEFINE c1 == cb_write(c, Slice(f, 0, SizeLen))
           c2 == cb_write(c1, Slice(f, SizeLen, PtsLen))
           c3 == cb_write(c2, Slice(f, SizeLen + PtsLen, DtsLen))
<1>1. /\ SizeLen \in Nat /\ PtsLen \in Nat /\ DtsLen \in Nat
      /\ cb_writable_size(c) \in Nat
      /\ SizeLen + PtsLen + DtsLen < cb_writable_size(c)
  BY FieldAssumption, FrameFields, SizesAddUp, MaxSizeAssumption
  DEF gsi_header_size
<1>2. Appended(c1, c, f, SizeLen)
  <2>1. SizeLen < cb_writable_size(c) /\ 0 + SizeLen = SizeLen
    BY <1>1
  <2>2. Appended(c1, c, f, 0 + SizeLen)
    BY <1>1, <2>1, AppendNothing, AppendSlice
  <2> QED BY <2>1, <2>2
<1> HIDE DEF c1
<1>3. Appended(c2, c, f, SizeLen + PtsLen)
  <2>1. PtsLen < cb_writable_size(c1)
    BY <1>1, <1>2 DEF Appended
  <2> QED BY <1>1, <1>2, <2>1, AppendSlice
<1> HIDE DEF c2
<1>4. Appended(c3, c, f, (SizeLen + PtsLen) + DtsLen)
  <2>1. DtsLen < cb_writable_size(c2) /\ SizeLen + PtsLen \in Nat
    BY <1>1, <1>3 DEF Appended
  <2> QED BY <1>1, <1>3, <2>1, AppendSlice
<1>5. write_next_header(c, f) = c3
  BY DEF write_next_header, c1, c2
<1> QED
  BY <1>4, <1>5 DEF gsi_header_size

(* A frame that leaves room behind it is appended whole.                   *)
LEMMA FrameAppends ==
  ASSUME NEW c \in Ring(Byte), NEW f \in Frame,
         RecLen(f) < cb_writable_size(c)
  PROVE  Appended(write_fifo_with_hdr(c, f), c, f, RecLen(f))
<1> DEFINE h == write_next_header(c, f)
<1>1. /\ gsi_header_size \in Nat /\ f.size \in Nat /\ cb_writable_size(c) \in Nat
      /\ gsi_header_size + f.size < cb_writable_size(c)
  BY FrameFields, HeaderLength, SizesAddUp, MaxSizeAssumption DEF RecLen
<1>2. Appended(h, c, f, gsi_header_size)
  BY <1>1, HeaderAppends DEF RecLen
<1>3. f.size < cb_writable_size(h)
  BY <1>1, <1>2 DEF Appended
<1>4. write_fifo_with_hdr(c, f) = cb_write(h, Slice(f, gsi_header_size, f.size))
  BY <1>1 DEF write_fifo_with_hdr, Payload
<1> HIDE DEF h
<1> QED BY <1>1, <1>2, <1>3, <1>4, AppendSlice DEF RecLen

(* A frame that takes exactly the room left empties the FIFO.              *)
LEMMA FrameFills ==
  ASSUME NEW c \in Ring(Byte), NEW f \in Frame,
         RecLen(f) = cb_writable_size(c)
  PROVE  /\ write_fifo_with_hdr(c, f) \in Ring(Byte)
         /\ cb_readable_size(write_fifo_with_hdr(c, f)) = 0
<1> DEFINE h == write_next_header(c, f)
<1>1. /\ gsi_header_size \in Nat /\ f.size \in Nat /\ cb_writable_size(c) \in Nat
      /\ gsi_header_size + f.size = cb_writable_size(c)
  BY FrameFields, HeaderLength, SizesAddUp, MaxSizeAssumption DEF RecLen
<1>2. Appended(h, c, f, gsi_header_size)
  BY <1>1, HeaderAppends DEF RecLen
<1>3. h \in Ring(Byte) /\ f.size = cb_writable_size(h)
  BY <1>1, <1>2 DEF Appended
<1>4. write_fifo_with_hdr(c, f) = cb_write(h, Payload(f))
  BY <1>1 DEF write_fifo_with_hdr
<1>5. Payload(f) \in Seq(Byte) /\ Len(Payload(f)) = f.size
  BY <1>1, SliceIsSeq DEF Payload
<1> HIDE DEF h
<1> QED BY <1>3, <1>4, <1>5, WriteTyped, WriteFills

(* A frame that does not fit leaves the FIFO alone.                        *)
LEMMA FrameRejected ==
  ASSUME NEW c \in Ring(Byte), NEW f \in Frame,
         RecLen(f) > cb_writable_size(c)
  PROVE  write_fifo_with_hdr(c, f) = c
  BY FrameFields, HeaderLength, SizesAddUp, MaxSizeAssumption
  DEF write_fifo_with_hdr, RecLen

(* Reading the header drops its bytes, one cb_read per field.              *)
LEMMA HeaderRead ==
  ASSUME NEW c \in Ring(Byte), gsi_header_size <= cb_readable_size(c)
  PROVE  /\ read_next_header(c) \in Ring(Byte)
         /\ cb_readable_size(read_next_header(c))
              = cb_readable_size(c) - gsi_header_size
         /\ \A i \in 0 .. cb_readable_size(c) - gsi_header_size - 1 :
              ByteAt(read_next_header(c), i) = ByteAt(c, gsi_header_size + i)
<1> DEFINE c1 == cb_read(c, SizeLen)
           c2 == cb_read(c1, PtsLen)
           c3 == cb_read(c2, DtsLen)
           R  == cb_readable_size(c)
<1>1. /\ SizeLen \in Nat /\ PtsLen \in Nat /\ DtsLen \in Nat /\ R \in Nat
      /\ SizeLen + PtsLen + DtsLen <= R
      /\ gsi_header_size = SizeLen + PtsLen + DtsLen
  BY FieldAssumption, SizesAddUp, MaxSizeAssumption DEF gsi_header_size
<1>2. /\ c1 \in Ring(Byte) /\ cb_readable_size(c1) = R - SizeLen
      /\ \A i \in 0 .. R - SizeLen - 1 : ByteAt(c1, i) = ByteAt(c, SizeLen + i)
  <2>1. SizeLen \in 0 .. cb_readable_size(c)
    BY <1>1
  <2> QED BY <2>1, ReadDrops
<1> HIDE DEF c1
<1>3. /\ c2 \in Ring(Byte) /\ cb_readable_size(c2) = R - SizeLen - PtsLen
      /\ \A i \in 0 .. R - SizeLen - PtsLen - 1 : ByteAt(c2, i) = ByteAt(c1, PtsLen + i)
  <2>1. PtsLen \in 0 .. cb_readable_size(c1)
    BY <1>1, <1>2
  <2> QED BY <1>2, <2>1, ReadDrops
<1> HIDE DEF c2
<1>4. /\ c3 \in Ring(Byte) /\ cb_readable_size(c3) = R - SizeLen - PtsLen - DtsLen
      /\ \A i \in 0 .. R - SizeLen - PtsLen - DtsLen - 1 :
           ByteAt(c3, i) = ByteAt(c2, DtsLen + i)
  <2>1. DtsLen \in 0 .. cb_readable_size(c2)
    BY <1>1, <1>3
  <2> QED BY <1>3, <2>1, ReadDrops
<1> HIDE DEF c3
<1>5. read_next_header(c) = c3
  BY DEF read_next_header, c1, c2, c3
<1>6. ASSUME NEW i \in 0 .. R - gsi_header_size - 1
      PROVE  ByteAt(c3, i) = ByteAt(c, gsi_header_size + i)
  <2>1. /\ i \in 0 .. R - SizeLen - PtsLen - DtsLen - 1
        /\ DtsLen + i \in 0 .. R - SizeLen - PtsLen - 1
        /\ PtsLen + (DtsLen + i) \in 0 .. R - SizeLen - 1
        /\ SizeLen + (PtsLen + (DtsLen + i)) = gsi_header_size + i
    BY <1>1
  <2> QED BY <1>2, <1>3, <1>4, <2>1
<1> QED BY <1>1, <1>4, <1>5, <1>6

(* Reading a frame drops its header and its payload.                       *)
LEMMA FrameRead ==
  ASSUME NEW c \in Ring(Byte), NEW n \in Nat, CanReadFrame(c, n)
  PROVE  /\ ReadFrameRing(c, n) \in Ring(Byte)
         /\ cb_readable_size(ReadFrameRing(c, n))
              = cb_readable_size(c) - (gsi_header_size + n)
         /\ \A i \in 0 .. cb_readable_size(c) - (gsi_header_size + n) - 1 :
              ByteAt(ReadFrameRing(c, n), i) = ByteAt(c, (gsi_header_size + n) + i)
<1> DEFINE h == read_next_header(c)
           r == cb_read(h, n)
           R == cb_readable_size(c)
<1>1. /\ gsi_header_size \in Nat /\ R \in Nat
      /\ n + gsi_header_size <= R
  BY HeaderLength, SizesAddUp, MaxSizeAssumption DEF CanReadFrame
<1>2. /\ h \in Ring(Byte) /\ cb_readable_size(h) = R - gsi_header_size
      /\ \A i \in 0 .. R - gsi_header_size - 1 :
           ByteAt(h, i) = ByteAt(c, gsi_header_size + i)
  BY <1>1, HeaderRead
<1> HIDE DEF h
<1>3. /\ r \in Ring(Byte) /\ cb_readable_size(r) = R - gsi_header_size - n
      /\ \A i \in 0 .. R - gsi_header_size - n - 1 : ByteAt(r, i) = ByteAt(h, n + i)
  <2>1. n \in 0 .. cb_readable_size(h)
    BY <1>1, <1>2
  <2> QED BY <1>2, <2>1, ReadDrops
<1> HIDE DEF r
<1>4. ASSUME NEW i \in 0 .. R - (gsi_header_size + n) - 1
      PROVE  ByteAt(r, i) = ByteAt(c, (gsi_header_size + n) + i)
  <2>1. /\ i \in 0 .. R - gsi_header_size - n - 1
        /\ n + i \in 0 .. R - gsi_header_size - 1
        /\ gsi_header_size + (n + i) = (gsi_header_size + n) + i
    BY <1>1
  <2> QED BY <1>2, <1>3, <2>1
<1>5. ReadFrameRing(c, n) = r
  BY DEF ReadFrameRing, r, h
<1> QED BY <1>1, <1>3, <1>4, <1>5

-----------------------------------------------------------------------------
(***************************************************************************)
(* Peeks at a whole record, and the framing of the unread bytes.           *)
(***************************************************************************)

(* A peek at the first bytes of a record is decoded as that frame only.    *)
LEMMA PeekDecodes ==
  ASSUME NEW c \in Ring(Byte), NEW f \in Frame, RecordAt(c, 0, f),
         NEW n \in 1 .. RecLen(f)
  PROVE  Decoded(cb_peek(c, n), n) = {f}
<1>1. n \in 0 .. cb_readable_size(c) /\ n \in Nat /\ 1 \in 1 .. n
  BY FrameFields, SizesAddUp, MaxSizeAssumption DEF RecordAt
<1>2. cb_peek(c, n) = Slice(f, 0, n)
  <2>1. ASSUME NEW i \in 1 .. n
        PROVE  ByteAt(c, i - 1) = [f |-> f, k |-> 0 + i - 1]
    <3>1. i - 1 \in 0 .. RecLen(f) - 1 /\ 0 + (i - 1) = i - 1 /\ 0 + i - 1 = i - 1
      BY FrameFields
    <3> QED BY <3>1 DEF RecordAt
  <2>2. cb_peek(c, n) = [i \in 1 .. n |-> ByteAt(c, i - 1)]
    BY <1>1, PeekReturns
  <2> QED BY <2>1, <2>2 DEF Slice
<1>3. ASSUME NEW g \in Frame, Slice(f, 0, n) = Slice(g, 0, n)
      PROVE  g = f
  <2>1. Slice(f, 0, n)[1].f = f /\ Slice(g, 0, n)[1].f = g
    BY <1>1 DEF Slice
  <2> QED BY <1>3, <2>1
<1> QED BY <1>2, <1>3 DEF Decoded

(* Behind the header of a whole record, its payload is peeked.             *)
LEMMA PayloadFollows ==
  ASSUME NEW c \in Ring(Byte), NEW f \in Frame, RecordAt(c, 0, f)
  PROVE  cb_peek(read_next_header(c), f.size) = Payload(f)
<1> DEFINE h == read_next_header(c)
           g == gsi_header_size
<1>1. /\ g \in Nat /\ f.size \in Nat /\ RecLen(f) = g + f.size
      /\ g + f.size <= cb_readable_size(c) /\ cb_readable_size(c) \in Nat
  BY FrameFields, HeaderLength, SizesAddUp, MaxSizeAssumption DEF RecordAt, RecLen
<1>2. /\ h \in Ring(Byte) /\ cb_readable_size(h) = cb_readable_size(c) - g
      /\ \A i \in 0 .. cb_readable_size(c) - g - 1 : ByteAt(h, i) = ByteAt(c, g + i)
  BY <1>1, HeaderRead
<1> HIDE DEF h
<1>3. f.size \in 0 .. cb_readable_size(h)
  BY <1>1, <1>2
<1>4. ASSUME NEW i \in 1 .. f.size
      PROVE  ByteAt(h, i - 1) = [f |-> f, k |-> g + i - 1]
  <2>1. /\ i - 1 \in 0 .. cb_readable_size(c) - g - 1
        /\ g + (i - 1) \in 0 .. RecLen(f) - 1
        /\ 0 + (g + (i - 1)) = g + (i - 1) /\ g + (i - 1) = g + i - 1
    BY <1>1
  <2> QED BY <1>2, <2>1 DEF RecordAt
<1>5. cb_peek(h, f.size) = [i \in 1 .. f.size |-> ByteAt(h, i - 1)]
  BY <1>2, <1>3, PeekReturns
<1> QED BY <1>4, <1>5 DEF Payload, Slice, h

(* What framing says of one byte.                                          *)
LEMMA FramedByte ==
  ASSUME NEW c, Framed(c), NEW i \in 0 .. cb_readable_size(c) - 1,
         NEW f, NEW k, ByteAt(c, i) = [f |-> f, k |-> k]
  PROVE  /\ f \in Frame /\ k \in Nat /\ i - k >= 0 /\ k < RecLen(f)
         /\ RecordAt(c, i - k, f)
<1>1. [f |-> f, k |-> k] \in Cell
  BY DEF Framed
<1>2. f \in Frame /\ k \in Nat
  BY <1>1 DEF Cell
<1> QED BY <1>2 DEF Framed, RecordAt

(* And the converse: each unread byte in a whole record of its own.        *)
LEMMA FramedIf ==
  ASSUME NEW c,
         \A i \in 0 .. cb_readable_size(c) - 1 :
           \E f \in Frame, k \in Nat :
             /\ ByteAt(c, i) = [f |-> f, k |-> k]
             /\ i - k >= 0 /\ k < RecLen(f)
             /\ RecordAt(c, i - k, f)
  PROVE  Framed(c)
<1> SUFFICES ASSUME NEW i \in 0 .. cb_readable_size(c) - 1
             PROVE  /\ ByteAt(c, i) \in Cell
                    /\ i - ByteAt(c, i).k >= 0
                    /\ ByteAt(c, i).k < RecLen(ByteAt(c, i).f)
                    /\ RecordAt(c, i - ByteAt(c, i).k, ByteAt(c, i).f)
  BY DEF Framed, RecordAt
<1>1. PICK f \in Frame, k \in Nat :
        /\ ByteAt(c, i) = [f |-> f, k |-> k]
        /\ i - k >= 0 /\ k < RecLen(f)
        /\ RecordAt(c, i - k, f)
  OBVIOUS
<1> QED BY <1>1 DEF Cell

(* An unread byte is a byte of some frame.                                 *)
LEMMA CellShape ==
  ASSUME NEW c, Framed(c), NEW i \in 0 .. cb_readable_size(c) - 1
  PROVE  \E f \in Frame, k \in Nat : ByteAt(c, i) = [f |-> f, k |-> k]
<1>1. ByteAt(c, i) \in Cell
  BY DEF Framed
<1> QED BY <1>1 DEF Cell

(* A non-empty framed FIFO has a whole record at its head.                 *)
LEMMA HeadRecord ==
  ASSUME NEW c \in Ring(Byte), Framed(c), cb_readable_size(c) > 0
  PROVE  \E f \in Frame : RecordAt(c, 0, f)
<1>1. 0 \in 0 .. cb_readable_size(c) - 1
  BY SizesAddUp, MaxSizeAssumption
<1>2. PICK f \in Frame, k \in Nat : ByteAt(c, 0) = [f |-> f, k |-> k]
  BY <1>1, CellShape
<1>3. 0 - k >= 0 /\ RecordAt(c, 0 - k, f)
  BY <1>1, <1>2, FramedByte
<1>4. 0 - k = 0
  BY <1>3
<1> QED BY <1>3, <1>4

(* Records that were there stay there when a frame is appended.            *)
LEMMA RecordStays ==
  ASSUME NEW c \in Ring(Byte), NEW w, NEW f \in Frame, NEW n \in Nat,
         Appended(w, c, f, n), NEW g \in Frame, NEW i \in Nat, RecordAt(c, i, g)
  PROVE  RecordAt(w, i, g)
<1>1. cb_readable_size(c) \in Nat /\ RecLen(g) \in Nat
  BY SizesAddUp, FrameFields, MaxSizeAssumption
<1>2. ASSUME NEW j \in 0 .. RecLen(g) - 1
      PROVE  ByteAt(w, i + j) = [f |-> g, k |-> j]
  <2>1. i + j \in 0 .. cb_readable_size(c) - 1
    BY <1>1 DEF RecordAt
  <2> QED BY <2>1 DEF RecordAt, Appended
<1> QED BY <1>1, <1>2 DEF RecordAt, Appended

(* Whole records stay whole records when one is appended.                  *)
LEMMA FramedAppend ==
  ASSUME NEW c \in Ring(Byte), Framed(c), NEW f \in Frame, NEW w,
         Appended(w, c, f, RecLen(f))
  PROVE  Framed(w)
<1> DEFINE R == cb_readable_size(c)
<1>1. R \in Nat /\ RecLen(f) \in Nat /\ cb_readable_size(w) = R + RecLen(f)
  BY SizesAddUp, FrameFields, MaxSizeAssumption DEF Appended
<1>2. RecordAt(w, R, f)
  BY <1>1 DEF RecordAt, Appended
<1>3. ASSUME NEW i \in 0 .. cb_readable_size(w) - 1
      PROVE  \E g \in Frame, k \in Nat :
               /\ ByteAt(w, i) = [f |-> g, k |-> k]
               /\ i - k >= 0 /\ k < RecLen(g)
               /\ RecordAt(w, i - k, g)
  <2>1. CASE i < R
    <3>1. i \in 0 .. R - 1
      BY <1>1, <2>1
    <3>2. PICK g \in Frame, k \in Nat : ByteAt(c, i) = [f |-> g, k |-> k]
      BY <3>1, CellShape
    <3>3. i - k >= 0 /\ k < RecLen(g) /\ RecordAt(c, i - k, g)
      BY <3>1, <3>2, FramedByte
    <3>4. i - k \in Nat
      BY <3>1, <3>3
    <3>5. RecordAt(w, i - k, g)
      BY <1>1, <3>3, <3>4, RecordStays
    <3>6. ByteAt(w, i) = ByteAt(c, i)
      BY <3>1 DEF Appended
    <3> QED BY <3>2, <3>3, <3>5, <3>6
  <2>2. CASE i >= R
    <3> DEFINE k == i - R
    <3>1. /\ k \in 0 .. RecLen(f) - 1 /\ R + k = i /\ i - k = R
      BY <1>1, <2>2
    <3> HIDE DEF k
    <3>2. ByteAt(w, i) = [f |-> f, k |-> k]
      BY <1>2, <3>1 DEF RecordAt
    <3>3. k \in Nat /\ i - k >= 0 /\ k < RecLen(f) /\ RecordAt(w, i - k, f)
      BY <1>1, <1>2, <3>1
    <3> QED BY <3>2, <3>3
  <2> QED BY <1>1, <2>1, <2>2
<1> QED BY <1>3, FramedIf

(* r is c without the record of f at its head.                             *)
Popped(r, c, f) ==
  /\ r \in Ring(Byte)
  /\ cb_readable_size(r) = cb_readable_size(c) - RecLen(f)
  /\ \A i \in 0 .. cb_readable_size(c) - RecLen(f) - 1 :
       ByteAt(r, i) = ByteAt(c, RecLen(f) + i)

(* A byte behind the head record belongs to a record behind it.            *)
LEMMA BehindHead ==
  ASSUME NEW c \in Ring(Byte), Framed(c), NEW f \in Frame, RecordAt(c, 0, f),
         NEW i \in RecLen(f) .. cb_readable_size(c) - 1,
         NEW g \in Frame, NEW k \in Nat, ByteAt(c, i) = [f |-> g, k |-> k]
  PROVE  i - k >= RecLen(f)
<1>1. RecLen(f) \in Nat /\ RecLen(g) \in Nat /\ i \in 0 .. cb_readable_size(c) - 1
  BY FrameFields, SizesAddUp, MaxSizeAssumption
<1>2. i - k >= 0 /\ k < RecLen(g) /\ RecordAt(c, i - k, g)
  BY <1>1, FramedByte
<1> SUFFICES ASSUME i - k < RecLen(f)
             PROVE  FALSE
  BY <1>1
<1> DEFINE b == i - k
<1>3. b \in 0 .. RecLen(f) - 1 /\ 0 + b = b /\ b + 0 = b /\ 0 \in 0 .. RecLen(g) - 1
  BY <1>1, <1>2, FrameFields
<1> HIDE DEF b
<1>4. ByteAt(c, b) = [f |-> f, k |-> b]
  BY <1>3 DEF RecordAt
<1>5. ByteAt(c, b) = [f |-> g, k |-> 0]
  <2>1. RecordAt(c, b, g)
    BY <1>2 DEF b
  <2> QED BY <1>3, <2>1 DEF RecordAt
<1>6. b = 0 /\ f = g
  <2>1. [f |-> f, k |-> b].k = b /\ [f |-> g, k |-> 0].k = 0
        /\ [f |-> f, k |-> b].f = f /\ [f |-> g, k |-> 0].f = g
    OBVIOUS
  <2> QED BY <1>4, <1>5, <2>1
<1>7. i < RecLen(f)
  BY <1>1, <1>2, <1>6 DEF b
<1> QED BY <1>1, <1>7

(* And when the one at the head is read.                                   *)
LEMMA FramedPop ==
  ASSUME NEW c \in Ring(Byte), Framed(c), NEW f \in Frame, RecordAt(c, 0, f),
         NEW r, Popped(r, c, f)
  PROVE  Framed(r)
<1> DEFINE R == cb_readable_size(c)
           L == RecLen(f)
<1>1. R \in Nat /\ L \in Nat /\ cb_readable_size(r) = R - L /\ L <= R
  BY SizesAddUp, FrameFields, MaxSizeAssumption DEF Popped, RecordAt
<1>2. ASSUME NEW i \in 0 .. cb_readable_size(r) - 1
      PROVE  \E g \in Frame, k \in Nat :
               /\ ByteAt(r, i) = [f |-> g, k |-> k]
               /\ i - k >= 0 /\ k < RecLen(g)
               /\ RecordAt(r, i - k, g)
  <2>1. L + i \in 0 .. R - 1 /\ L + i \in L .. R - 1
    BY <1>1
  <2>2. PICK g \in Frame, k \in Nat : ByteAt(c, L + i) = [f |-> g, k |-> k]
    BY <2>1, CellShape
  <2>3. k < RecLen(g) /\ RecordAt(c, (L + i) - k, g)
    BY <2>1, <2>2, FramedByte
  <2>4. (L + i) - k >= L
    BY <2>1, <2>2, BehindHead
  <2>5. i - k \in Nat /\ (L + i) - k = L + (i - k) /\ RecLen(g) \in Nat
    BY <1>1, <2>1, <2>4, FrameFields
  <2>6. RecordAt(r, i - k, g)
    <3>1. (i - k) + RecLen(g) <= cb_readable_size(r)
      BY <1>1, <2>3, <2>5 DEF RecordAt
    <3>2. ASSUME NEW j \in 0 .. RecLen(g) - 1
          PROVE  ByteAt(r, (i - k) + j) = [f |-> g, k |-> j]
      <4>1. /\ (i - k) + j \in 0 .. R - L - 1
            /\ L + ((i - k) + j) = ((L + i) - k) + j
        BY <1>1, <2>5, <3>1
      <4>2. ByteAt(c, ((L + i) - k) + j) = [f |-> g, k |-> j]
        BY <2>3 DEF RecordAt
      <4> QED BY <4>1, <4>2 DEF Popped
    <3> QED BY <3>1, <3>2 DEF RecordAt
  <2>7. ByteAt(r, i) = ByteAt(c, L + i)
    BY <1>1 DEF Popped
  <2> QED BY <2>2, <2>3, <2>5, <2>6, <2>7
<1> QED BY <1>2, FramedIf

-----------------------------------------------------------------------------
(***************************************************************************)
(* The inductive invariant.  Until a write has made the ring exactly full, *)
(* the unread bytes are whole records of frames that come later in the     *)
(* file than the last packet, in the order of the file, and a frame that   *)
(* was peeked is still the first of them.                                  *)
(***************************************************************************)

(* The pieces of control state the types do not give.                      *)
ControlOK ==
  /\ \A i \in 1 .. NumFrames : file[i].id = i
  /\ ppc = "write" => next \in 1 .. NumFrames
  /\ cpc = "read" => hdr \in Frame

Sound ==
  /\ Framed(fifo)
  /\ packet.intact
  /\ cpc = "read" => RecordAt(fifo, 0, hdr)

(* The order of the unread records, stated on their bytes.                 *)
InOrder(c, last, nxt) ==
  /\ last < nxt
  /\ \A i \in 0 .. cb_readable_size(c) - 1 :
       last < ByteAt(c, i).f.id /\ ByteAt(c, i).f.id < nxt
  /\ \A i, j \in 0 .. cb_readable_size(c) - 1 :
       (i - ByteAt(c, i).k) + RecLen(ByteAt(c, i).f) <= j
         => ByteAt(c, i).f.id < ByteAt(c, j).f.id

IInv ==
  /\ TypeOK
  /\ ControlOK
  /\ filled \/ (Sound /\ InOrder(fifo, packet.f.id, next))

(* The frame and the position of an unread byte are what they seem.        *)
LEMMA IdsAreIntegers ==
  ASSUME NEW c, Framed(c), NEW i \in 0 .. cb_readable_size(c) - 1
  PROVE  /\ ByteAt(c, i).f \in Frame /\ ByteAt(c, i).f.id \in Int
         /\ ByteAt(c, i).k \in Nat /\ RecLen(ByteAt(c, i).f) \in Nat
<1>1. PICK f \in Frame, k \in Nat : ByteAt(c, i) = [f |-> f, k |-> k]
  BY CellShape
<1> QED BY <1>1, FrameFields

(* Appending the next frame of the file keeps the order.                   *)
LEMMA OrderAppend ==
  ASSUME NEW c \in Ring(Byte), Framed(c), NEW f \in Frame, NEW w,
         Appended(w, c, f, RecLen(f)),
         NEW last \in Int, NEW nxt \in Int, f.id = nxt, InOrder(c, last, nxt)
  PROVE  InOrder(w, last, nxt + 1)
<1> DEFINE R == cb_readable_size(c)
<1>1. R \in Nat /\ RecLen(f) \in Nat /\ cb_readable_size(w) = R + RecLen(f)
  BY SizesAddUp, FrameFields, MaxSizeAssumption DEF Appended
<1>2. ASSUME NEW i \in 0 .. R - 1
      PROVE  ByteAt(w, i) = ByteAt(c, i)
  BY DEF Appended
<1>3. ASSUME NEW i \in 0 .. cb_readable_size(w) - 1, i >= R
      PROVE  ByteAt(w, i) = [f |-> f, k |-> i - R]
  <2> DEFINE j == i - R
  <2>1. j \in 0 .. RecLen(f) - 1 /\ R + j = i
    BY <1>1, <1>3
  <2> HIDE DEF j
  <2>2. ByteAt(w, i) = [f |-> f, k |-> j]
    BY <2>1 DEF Appended
  <2> QED BY <2>2 DEF j
<1>4. ASSUME NEW i \in 0 .. cb_readable_size(w) - 1
      PROVE  last < ByteAt(w, i).f.id /\ ByteAt(w, i).f.id < nxt + 1
  <2>1. CASE i < R
    <3>1. i \in 0 .. R - 1
      BY <1>1, <2>1
    <3> QED BY <1>2, <3>1, IdsAreIntegers DEF InOrder
  <2>2. CASE i >= R
    <3>1. ByteAt(w, i).f.id = nxt
      BY <1>3, <2>2
    <3> QED BY <3>1 DEF InOrder
  <2> QED BY <1>1, <2>1, <2>2
<1>5. ASSUME NEW i \in 0 .. cb_readable_size(w) - 1,
             NEW j \in 0 .. cb_readable_size(w) - 1,
             (i - ByteAt(w, i).k) + RecLen(ByteAt(w, i).f) <= j
      PROVE  ByteAt(w, i).f.id < ByteAt(w, j).f.id
  <2>1. CASE i < R /\ j < R
    <3>1. i \in 0 .. R - 1 /\ j \in 0 .. R - 1
      BY <1>1, <2>1
    <3> QED BY <1>2, <1>5, <3>1 DEF InOrder
  <2>2. CASE i < R /\ j >= R
    <3>1. i \in 0 .. R - 1
      BY <1>1, <2>2
    <3>2. ByteAt(w, j).f.id = nxt
      BY <1>3, <2>2
    <3> QED BY <1>2, <3>1, <3>2 DEF InOrder
  <2>3. CASE i >= R
    <3>1. ByteAt(w, i) = [f |-> f, k |-> i - R]
      BY <1>3, <2>3
    <3>2. ByteAt(w, i).k = i - R /\ ByteAt(w, i).f = f
      BY <3>1
    <3>3. j >= R + RecLen(f)
      BY <1>1, <1>5, <3>2
    <3> QED BY <1>1, <3>3
  <2> QED BY <1>1, <2>1, <2>2, <2>3
<1>6. last < nxt + 1
  BY DEF InOrder
<1> QED BY <1>4, <1>5, <1>6 DEF InOrder

(* Taking the head record keeps the order, with that frame as the last.    *)
LEMMA OrderPop ==
  ASSUME NEW c \in Ring(Byte), Framed(c), NEW f \in Frame, RecordAt(c, 0, f),
         NEW r, Popped(r, c, f),
         NEW last \in Int, NEW nxt \in Int, InOrder(c, last, nxt)
  PROVE  /\ last < f.id /\ f.id < nxt
         /\ InOrder(r, f.id, nxt)
<1> DEFINE R == cb_readable_size(c)
           L == RecLen(f)
<1>1. R \in Nat /\ L \in Nat /\ L > 0 /\ L <= R /\ cb_readable_size(r) = R - L
  BY SizesAddUp, FrameFields, HeaderLength, MaxSizeAssumption DEF Popped, RecordAt
<1>2. 0 \in 0 .. R - 1 /\ 0 \in 0 .. L - 1 /\ 0 + 0 = 0
  BY <1>1
<1>3. ByteAt(c, 0) = [f |-> f, k |-> 0]
  BY <1>2 DEF RecordAt
<1>4. last < f.id /\ f.id < nxt
  BY <1>2, <1>3 DEF InOrder
<1>5. ASSUME NEW i \in 0 .. R - L - 1
      PROVE  ByteAt(r, i) = ByteAt(c, L + i) /\ L + i \in 0 .. R - 1
  BY <1>1 DEF Popped
<1>6. ASSUME NEW i \in 0 .. cb_readable_size(r) - 1
      PROVE  f.id < ByteAt(r, i).f.id /\ ByteAt(r, i).f.id < nxt
  <2>1. i \in 0 .. R - L - 1 /\ (0 - 0) + L <= L + i
    BY <1>1
  <2>2. ByteAt(c, 0).f.id < ByteAt(c, L + i).f.id
    <3>1. (0 - ByteAt(c, 0).k) + RecLen(ByteAt(c, 0).f) <= L + i
      BY <1>1, <1>3, <2>1
    <3> QED BY <1>2, <1>5, <2>1, <3>1 DEF InOrder
  <2> QED BY <1>3, <1>5, <2>1, <2>2 DEF InOrder
<1>7. ASSUME NEW i \in 0 .. cb_readable_size(r) - 1,
             NEW j \in 0 .. cb_readable_size(r) - 1,
             (i - ByteAt(r, i).k) + RecLen(ByteAt(r, i).f) <= j
      PROVE  ByteAt(r, i).f.id < ByteAt(r, j).f.id
  <2>1. /\ i \in 0 .. R - L - 1 /\ j \in 0 .. R - L - 1
    BY <1>1
  <2>2. /\ ByteAt(r, i) = ByteAt(c, L + i) /\ L + i \in 0 .. R - 1
        /\ ByteAt(r, j) = ByteAt(c, L + j) /\ L + j \in 0 .. R - 1
    BY <1>5, <2>1
  <2>3. ByteAt(c, L + i).k \in Nat /\ RecLen(ByteAt(c, L + i).f) \in Nat
    BY <2>2, IdsAreIntegers
  <2>4. ((L + i) - ByteAt(c, L + i).k) + RecLen(ByteAt(c, L + i).f) <= L + j
    BY <1>1, <1>7, <2>1, <2>2, <2>3
  <2> QED BY <2>2, <2>4 DEF InOrder
<1> QED BY <1>4, <1>6, <1>7 DEF InOrder

-----------------------------------------------------------------------------
(***************************************************************************)
(* The initial states and the steps.                                       *)
(***************************************************************************)

(* The invariant holds at the start.                                       *)
LEMMA InitInv == Init => IInv
<1> SUFFICES ASSUME Init
             PROVE  IInv
  OBVIOUS
<1>1. fifo \in Ring(Byte) /\ cb_readable_size(fifo) = 0
  BY CreateIsEmpty DEF Init, Byte
<1>2. PICK sz \in [1 .. NumFrames -> Sizes] :
        file = [i \in 1 .. NumFrames |-> [id |-> i, size |-> sz[i]]]
  BY DEF Init
<1>3. file \in [1 .. NumFrames -> Frame] /\ \A i \in 1 .. NumFrames : file[i].id = i
  BY <1>2 DEF Frame
<1>4. TypeOK
  <2>1. packet \in Packet
    BY DEF Init, Packet
  <2>2. next \in 1 .. NumFrames + 1
    BY NumFramesAssumption DEF Init
  <2> QED BY <1>1, <1>3, <2>1, <2>2 DEF Init, TypeOK
<1>5. ControlOK
  BY <1>3 DEF Init, ControlOK
<1>6. Sound
  BY <1>1 DEF Init, Sound, Framed
<1>7. InOrder(fifo, packet.f.id, next)
  BY <1>1 DEF Init, InOrder, NoFrame
<1> QED BY <1>4, <1>5, <1>6, <1>7 DEF IInv

(* The last packet's id is a number.                                       *)
LEMMA PacketId ==
  ASSUME TypeOK
  PROVE  /\ packet.f.id \in Int /\ next \in Int
         /\ packet.f \in Frame \cup {NoFrame}
  BY FrameFields, NumFramesAssumption DEF TypeOK, Packet, NoFrame

(* The frame about to be written.                                          *)
LEMMA NextFrame ==
  ASSUME TypeOK, ControlOK, ppc = "write"
  PROVE  file[next] \in Frame /\ file[next].id = next
  BY DEF TypeOK, ControlOK

(* Asking for space changes the producer only.                             *)
LEMMA AskSpaceInv ==
  ASSUME IInv, AskSpace
  PROVE  IInv'
<1>1. TypeOK'
  BY DEF IInv, TypeOK, AskSpace
<1>2. ControlOK'
  BY DEF IInv, TypeOK, ControlOK, AskSpace
<1>3. (filled \/ (Sound /\ InOrder(fifo, packet.f.id, next)))'
  BY DEF IInv, Sound, AskSpace, RecordAt, Framed, InOrder
<1> QED BY <1>1, <1>2, <1>3 DEF IInv

(* So does the end of its file.                                            *)
LEMMA EndOfFileInv ==
  ASSUME IInv, EndOfFile
  PROVE  IInv'
<1>1. TypeOK'
  BY DEF IInv, TypeOK, EndOfFile
<1>2. ControlOK'
  BY DEF IInv, ControlOK, EndOfFile
<1>3. (filled \/ (Sound /\ InOrder(fifo, packet.f.id, next)))'
  BY DEF IInv, Sound, EndOfFile, RecordAt, Framed, InOrder
<1> QED BY <1>1, <1>2, <1>3 DEF IInv

(* A write appends a whole record, refuses it, or fills the ring.          *)
LEMMA WriteFrameInv ==
  ASSUME IInv, WriteFrame
  PROVE  IInv'
<1> DEFINE f == file[next]
<1>1. TypeOK /\ ControlOK /\ fifo \in Ring(Byte) /\ filled \in BOOLEAN
  BY DEF IInv, TypeOK
<1>2. f \in Frame /\ f.id = next /\ next \in 1 .. NumFrames
  BY <1>1, NextFrame DEF WriteFrame, ControlOK
<1>3. /\ fifo' = write_fifo_with_hdr(fifo, f)
      /\ filled' = (filled \/ cb_writable_size(fifo) = RecLen(f))
      /\ next' = next + 1 /\ ppc' = "ask"
      /\ file' = file /\ cpc' = cpc /\ hdr' = hdr /\ packet' = packet
  BY DEF WriteFrame
<1>4. cb_writable_size(fifo) \in Nat /\ RecLen(f) \in Nat
  BY <1>1, <1>2, SizesAddUp, FrameFields, MaxSizeAssumption
<1>5. fifo' \in Ring(Byte)
  <2>1. CASE RecLen(f) < cb_writable_size(fifo)
    BY <1>1, <1>2, <1>3, <2>1, FrameAppends DEF Appended
  <2>2. CASE RecLen(f) = cb_writable_size(fifo)
    BY <1>1, <1>2, <1>3, <2>2, FrameFills
  <2>3. CASE RecLen(f) > cb_writable_size(fifo)
    BY <1>1, <1>2, <1>3, <2>3, FrameRejected
  <2> QED BY <1>4, <2>1, <2>2, <2>3
<1>6. TypeOK'
  <2>1. next' \in 1 .. NumFrames + 1
    BY <1>2, <1>3, NumFramesAssumption
  <2>2. filled' \in BOOLEAN
    BY <1>3
  <2> QED BY <1>1, <1>3, <1>5, <2>1, <2>2 DEF TypeOK
<1>7. ControlOK'
  BY <1>1, <1>3 DEF ControlOK
<1>8. ASSUME ~ filled'
      PROVE  Sound' /\ InOrder(fifo', packet'.f.id, next')
  <2>1. ~ filled /\ cb_writable_size(fifo) # RecLen(f)
    BY <1>3, <1>8
  <2>2. Sound /\ InOrder(fifo, packet.f.id, next) /\ Framed(fifo)
    BY <2>1 DEF IInv, Sound
  <2>3. packet.f.id \in Int /\ next \in Int
    BY <1>1, PacketId
  <2>4. CASE RecLen(f) < cb_writable_size(fifo)
    <3>1. Appended(fifo', fifo, f, RecLen(f))
      BY <1>1, <1>2, <1>3, <2>4, FrameAppends
    <3>2. Framed(fifo')
      BY <1>1, <1>2, <2>2, <3>1, FramedAppend
    <3>3. InOrder(fifo', packet.f.id, next + 1)
      BY <1>1, <1>2, <2>2, <2>3, <3>1, OrderAppend
    <3>4. ASSUME cpc = "read"
          PROVE  RecordAt(fifo', 0, hdr)
      <4>1. hdr \in Frame /\ RecordAt(fifo, 0, hdr)
        BY <1>1, <2>2, <3>4 DEF ControlOK, Sound
      <4> QED BY <1>1, <1>2, <1>4, <3>1, <4>1, RecordStays
    <3>5. Sound'
      BY <1>3, <2>2, <3>2, <3>4 DEF Sound, Framed, RecordAt
    <3> QED BY <1>3, <3>3, <3>5
  <2>5. CASE RecLen(f) > cb_writable_size(fifo)
    <3>1. fifo' = fifo
      BY <1>1, <1>2, <1>3, <2>5, FrameRejected
    <3>2. Sound'
      BY <1>3, <2>2, <3>1 DEF Sound, Framed, RecordAt
    <3>3. InOrder(fifo, packet.f.id, next + 1)
      <4>1. ASSUME NEW i \in 0 .. cb_readable_size(fifo) - 1
            PROVE  ByteAt(fifo, i).f.id < next + 1
        BY <2>2, <2>3, <4>1, IdsAreIntegers DEF InOrder
      <4> QED BY <2>2, <2>3, <4>1 DEF InOrder
    <3> QED BY <1>3, <3>1, <3>2, <3>3
  <2> QED BY <1>4, <2>1, <2>4, <2>5
<1> QED BY <1>6, <1>7, <1>8 DEF IInv, InOrder

(* A FIFO in which PeekHeader finds enough bytes has a record at its head. *)
LEMMA PeekFinds ==
  ASSUME TypeOK, Framed(fifo), CanPeek(fifo)
  PROVE  \E f \in Frame : /\ RecordAt(fifo, 0, f)
                         /\ Decoded(cb_peek(fifo, PeekLen), PeekLen) = {f}
<1>1. /\ fifo \in Ring(Byte) /\ PeekLen \in Nat /\ PeekLen >= 1
      /\ PeekLen <= gsi_header_size
      /\ cb_readable_size(fifo) > 0
  BY FieldAssumption, SizesAddUp, MaxSizeAssumption
  DEF TypeOK, CanPeek, PeekLen, gsi_header_size
<1>2. PICK f \in Frame : RecordAt(fifo, 0, f)
  BY <1>1, HeadRecord
<1>3. PeekLen \in 1 .. RecLen(f)
  BY <1>1, FrameFields, HeaderLength
<1> QED BY <1>1, <1>2, <1>3, PeekDecodes

(* A peek finds the record at the head.                                    *)
LEMMA PeekHeaderInv ==
  ASSUME IInv, PeekHeader
  PROVE  IInv'
<1>1. TypeOK /\ ControlOK
  BY DEF IInv
<1>2. hdr' \in Frame /\ hdr' \in Decoded(cb_peek(fifo, PeekLen), PeekLen)
  BY DEF PeekHeader, Decoded
<1>3. TypeOK'
  BY <1>1, <1>2 DEF TypeOK, PeekHeader
<1>4. ControlOK'
  BY <1>1, <1>2 DEF ControlOK, PeekHeader
<1>5. ASSUME ~ filled'
      PROVE  Sound' /\ InOrder(fifo', packet'.f.id, next')
  <2>1. Sound /\ InOrder(fifo, packet.f.id, next) /\ Framed(fifo)
    BY <1>5 DEF IInv, Sound, PeekHeader
  <2>2. RecordAt(fifo, 0, hdr')
    BY <1>1, <1>2, <2>1, PeekFinds DEF PeekHeader
  <2>3. fifo' = fifo /\ packet' = packet /\ next' = next
    BY DEF PeekHeader
  <2>4. Sound'
    BY <2>1, <2>2, <2>3 DEF Sound, Framed, RecordAt
  <2> QED BY <2>1, <2>3, <2>4
<1> QED BY <1>3, <1>4, <1>5 DEF IInv, InOrder

(* Before an exact fill the read delivers the frame that was peeked.       *)
LEMMA ReadDelivers ==
  ASSUME IInv, ~ filled, ReadFrame
  PROVE  /\ hdr \in Frame /\ RecordAt(fifo, 0, hdr)
         /\ packet' = [f |-> hdr, intact |-> TRUE]
         /\ Popped(fifo', fifo, hdr)
<1>1. /\ hdr \in Frame /\ RecordAt(fifo, 0, hdr) /\ fifo \in Ring(Byte)
      /\ CanReadFrame(fifo, hdr.size)
  BY DEF IInv, ControlOK, Sound, TypeOK, ReadFrame
<1>2. gsi_header_size \in 1 .. RecLen(hdr)
  BY <1>1, FrameFields, HeaderLength
<1>3. Decoded(cb_peek(fifo, gsi_header_size), gsi_header_size) = {hdr}
  BY <1>1, <1>2, PeekDecodes
<1>4. cb_peek(read_next_header(fifo), hdr.size) = Payload(hdr)
  BY <1>1, PayloadFollows
<1>5. packet' = [f |-> hdr, intact |-> TRUE]
  BY <1>3, <1>4 DEF ReadFrame
<1>6. Popped(fifo', fifo, hdr)
  <2>1. hdr.size \in Nat /\ fifo' = ReadFrameRing(fifo, hdr.size)
    BY <1>1, FrameFields DEF ReadFrame
  <2> QED BY <1>1, <2>1, FrameRead DEF Popped, RecLen
<1> QED BY <1>1, <1>5, <1>6

(* A read takes the record at the head.                                    *)
LEMMA ReadFrameInv ==
  ASSUME IInv, ReadFrame
  PROVE  IInv'
<1>1. TypeOK /\ ControlOK /\ hdr \in Frame /\ fifo \in Ring(Byte)
  BY DEF IInv, ControlOK, TypeOK, ReadFrame
<1>2. fifo' \in Ring(Byte)
  <2>1. hdr.size \in Nat /\ CanReadFrame(fifo, hdr.size)
        /\ fifo' = ReadFrameRing(fifo, hdr.size)
    BY <1>1, FrameFields DEF ReadFrame
  <2> QED BY <1>1, <2>1, FrameRead
<1>3. packet' \in Packet
  <2>1. PICK h \in Frame :
          packet' = [f |-> h,
                     intact |-> cb_peek(read_next_header(fifo), hdr.size) = Payload(h)]
    BY DEF ReadFrame, Decoded
  <2>2. (cb_peek(read_next_header(fifo), hdr.size) = Payload(h)) \in BOOLEAN
    OBVIOUS
  <2> HIDE DEF Payload
  <2> QED BY <2>1, <2>2, Zenon DEF Packet
<1>4. TypeOK'
  BY <1>1, <1>2, <1>3 DEF TypeOK, ReadFrame
<1>5. ControlOK'
  BY <1>1 DEF ControlOK, ReadFrame
<1>6. ASSUME ~ filled'
      PROVE  Sound' /\ InOrder(fifo', packet'.f.id, next')
  <2>1. ~ filled /\ next' = next /\ cpc' = "peek"
    BY <1>6 DEF ReadFrame
  <2>2. /\ RecordAt(fifo, 0, hdr)
        /\ packet' = [f |-> hdr, intact |-> TRUE]
        /\ Popped(fifo', fifo, hdr)
    BY <2>1, ReadDelivers
  <2>3. Framed(fifo) /\ InOrder(fifo, packet.f.id, next)
    BY <2>1 DEF IInv, Sound
  <2>4. Framed(fifo')
    BY <1>1, <2>2, <2>3, FramedPop
  <2>5. InOrder(fifo', hdr.id, next)
    BY <1>1, <2>2, <2>3, PacketId, OrderPop
  <2>6. Sound'
    BY <2>1, <2>2, <2>4 DEF Sound, Framed
  <2> QED BY <2>1, <2>2, <2>5, <2>6
<1> QED BY <1>4, <1>5, <1>6 DEF IInv, InOrder

(* A read fails only after an exact fill.                                  *)
LEMMA ReadFailsInv ==
  ASSUME IInv, ReadFails
  PROVE  IInv'
<1>1. TypeOK /\ ControlOK /\ hdr \in Frame /\ fifo \in Ring(Byte)
  BY DEF IInv, ControlOK, TypeOK, ReadFails
<1>2. filled
  <2> SUFFICES ASSUME ~ filled
               PROVE  FALSE
    OBVIOUS
  <2>1. RecordAt(fifo, 0, hdr) /\ ~ CanReadFrame(fifo, hdr.size)
    BY DEF IInv, Sound, ReadFails
  <2> QED BY <1>1, <2>1, FrameFields, HeaderLength, SizesAddUp, MaxSizeAssumption
          DEF RecordAt, CanReadFrame, RecLen
<1>3. TypeOK'
  BY <1>1 DEF TypeOK, ReadFails, Packet
<1>4. ControlOK'
  BY <1>1 DEF ControlOK, ReadFails
<1> QED BY <1>2, <1>3, <1>4 DEF IInv, ReadFails

(* Nothing happens.                                                        *)
LEMMA StutterInv ==
  ASSUME IInv, UNCHANGED vars
  PROVE  IInv'
<1>1. TypeOK' /\ ControlOK'
  BY DEF IInv, TypeOK, ControlOK, vars
<1>2. (filled \/ (Sound /\ InOrder(fifo, packet.f.id, next)))'
  BY DEF IInv, Sound, vars, RecordAt, Framed, InOrder
<1> QED BY <1>1, <1>2 DEF IInv

(* Every step keeps the invariant.                                         *)
LEMMA NextInv == IInv /\ [Next]_vars => IInv'
<1> SUFFICES ASSUME IInv, [Next]_vars
             PROVE  IInv'
  OBVIOUS
<1> QED
  BY AskSpaceInv, WriteFrameInv, EndOfFileInv, PeekHeaderInv, ReadFrameInv,
     ReadFailsInv, StutterInv
  DEF Next, Producer, Consumer

(* The inductive invariant holds in every reachable state.                 *)
THEOREM InductiveInvariant == Spec => []IInv
  BY InitInv, NextInv, PTL DEF Spec

-----------------------------------------------------------------------------
(***************************************************************************)
(* The properties.                                                         *)
(***************************************************************************)

(* The ring, the two threads' locals and the history keep their types,     *)
(* whatever a garbled header made the consumer read.                       *)
THEOREM TypeCorrect == Spec => []TypeOK
<1>1. IInv => TypeOK
  BY DEF IInv
<1> QED BY <1>1, InductiveInvariant, PTL

(* Until an exact fill, the FIFO holds whole records only and every packet *)
(* built by init_next_av_packet carries its own frame's payload.           *)
THEOREM IntegrityHolds == Spec => []Integrity
<1>1. IInv => Integrity
  BY DEF IInv, Sound, Integrity
<1> QED BY <1>1, InductiveInvariant, PTL

(* Until an exact fill, the frame peeked stays at the head until it is     *)
(* read, however many frames the application writes in between.            *)
THEOREM PeekStaysValidHolds == Spec => []PeekStaysValid
<1>1. IInv => PeekStaysValid
  <2> SUFFICES ASSUME IInv, cpc = "read", ~ filled
               PROVE  /\ CanReadFrame(fifo, hdr.size)
                      /\ \A j \in 0 .. RecLen(hdr) - 1 :
                           ByteAt(fifo, j) = [f |-> hdr, k |-> j]
    BY DEF PeekStaysValid
  <2>1. hdr \in Frame /\ RecordAt(fifo, 0, hdr) /\ fifo \in Ring(Byte)
    BY DEF IInv, ControlOK, Sound, TypeOK
  <2>2. CanReadFrame(fifo, hdr.size)
    BY <2>1, FrameFields, HeaderLength, SizesAddUp, MaxSizeAssumption
    DEF RecordAt, CanReadFrame, RecLen
  <2>3. ASSUME NEW j \in 0 .. RecLen(hdr) - 1
        PROVE  ByteAt(fifo, j) = [f |-> hdr, k |-> j]
    <3>1. 0 + j = j
      BY <2>1, FrameFields
    <3> QED BY <2>1, <3>1 DEF RecordAt
  <2> QED BY <2>2, <2>3
<1> QED BY <1>1, InductiveInvariant, PTL

(* Until an exact fill, packets come out in the order of the file.         *)
THEOREM DeliveredInOrderHolds == Spec => DeliveredInOrder
<1>1. ASSUME IInv, [Next]_vars
      PROVE  [(cpc = "read" /\ cpc' = "peek") =>
               filled \/ (packet.f.id < packet'.f.id /\ packet'.f.id < next)]_vars
  <2> SUFFICES ASSUME cpc = "read", cpc' = "peek", ~ filled
               PROVE  packet.f.id < packet'.f.id /\ packet'.f.id < next
    OBVIOUS
  <2>1. ReadFrame \/ ReadFails
    BY <1>1 DEF Next, Producer, Consumer, AskSpace, WriteFrame, EndOfFile,
                PeekHeader, vars
  <2>2. ~ ReadFails
    <3>1. hdr \in Frame /\ RecordAt(fifo, 0, hdr) /\ fifo \in Ring(Byte)
      BY <1>1 DEF IInv, ControlOK, Sound, TypeOK
    <3> QED BY <3>1, FrameFields, HeaderLength, SizesAddUp, MaxSizeAssumption
            DEF ReadFails, RecordAt, CanReadFrame, RecLen
  <2>3. /\ hdr \in Frame /\ RecordAt(fifo, 0, hdr)
        /\ packet' = [f |-> hdr, intact |-> TRUE] /\ Popped(fifo', fifo, hdr)
    BY <1>1, <2>1, <2>2, ReadDelivers
  <2>4. /\ TypeOK /\ fifo \in Ring(Byte) /\ Framed(fifo)
        /\ InOrder(fifo, packet.f.id, next)
    BY <1>1 DEF IInv, TypeOK, Sound
  <2>5. packet.f.id < hdr.id /\ hdr.id < next
    BY <2>3, <2>4, PacketId, OrderPop
  <2> QED BY <2>3, <2>5
<1> QED BY <1>1, InductiveInvariant, PTL DEF Spec, DeliveredInOrder

-----------------------------------------------------------------------------
(***************************************************************************)
(* Where an exact fill cannot happen.                                      *)
(***************************************************************************)

(* When every record is a whole number of units and the ring is not, no    *)
(* write fills the ring exactly, so that all of the above holds without    *)
(* its proviso.  This is the condition the sizes in ts_muxer.c:14-16 would *)
(* have to meet; a FIFO of mixed video frame sizes does not.               *)
THEOREM UnitNeverFilled ==
  ASSUME NEW u \in Nat,
         \A z \in Sizes : Whole(gsi_header_size + z, u),
         ~ Whole(MaxSize, u)
  PROVE  Spec => []NeverFilled
<1> DEFINE J == ~ filled /\ Whole(cb_readable_size(fifo), u)
<1>1. ASSUME NEW f \in Frame
      PROVE  Whole(RecLen(f), u)
  BY FrameFields DEF RecLen
<1>2. Init => J
  <2> SUFFICES ASSUME Init
               PROVE  J
    OBVIOUS
  <2>1. cb_readable_size(fifo) = 0
    BY CreateIsEmpty DEF Init, Byte
  <2>2. ~ filled
    BY DEF Init
  <2>3. Whole(0, u)
    <3>1. 0 = 0 * u
      OBVIOUS
    <3> QED BY <3>1 DEF Whole
  <2> QED BY <2>1, <2>2, <2>3
<1>3. IInv /\ J /\ [Next]_vars => J'
  <2> SUFFICES ASSUME IInv, J, [Next]_vars
               PROVE  J'
    OBVIOUS
  <2>1. /\ fifo \in Ring(Byte) /\ TypeOK /\ ControlOK
        /\ cb_readable_size(fifo) \in Nat /\ cb_writable_size(fifo) \in Nat
        /\ cb_writable_size(fifo) + cb_readable_size(fifo) = MaxSize
    BY SizesAddUp, MaxSizeAssumption DEF IInv, TypeOK
  <2>2. CASE WriteFrame
    <3> DEFINE f == file[next]
    <3>1. f \in Frame /\ RecLen(f) \in Nat /\ Whole(RecLen(f), u)
      BY <1>1, <2>1, <2>2, NextFrame, FrameFields DEF WriteFrame
    <3>2. cb_writable_size(fifo) # RecLen(f)
      BY <2>1, <3>1, WholeSums
    <3>3. ~ filled' /\ fifo' = write_fifo_with_hdr(fifo, f)
      BY <2>2, <3>2 DEF WriteFrame
    <3> HIDE DEF f
    <3>4. CASE RecLen(f) < cb_writable_size(fifo)
      <4>1. cb_readable_size(fifo') = cb_readable_size(fifo) + RecLen(f)
        BY <2>1, <3>1, <3>3, <3>4, FrameAppends DEF Appended
      <4> QED BY <2>1, <3>1, <3>3, <4>1, WholeSums
    <3>5. CASE RecLen(f) > cb_writable_size(fifo)
      BY <2>1, <3>1, <3>3, <3>5, FrameRejected
    <3> QED BY <2>1, <3>1, <3>2, <3>4, <3>5
  <2>3. CASE ReadFrame
    <3>1. /\ hdr \in Frame /\ RecordAt(fifo, 0, hdr) /\ Popped(fifo', fifo, hdr)
      BY <2>3, ReadDelivers
    <3>2. /\ cb_readable_size(fifo') = cb_readable_size(fifo) - RecLen(hdr)
          /\ RecLen(hdr) \in Nat /\ RecLen(hdr) <= cb_readable_size(fifo)
          /\ Whole(RecLen(hdr), u)
      BY <1>1, <2>1, <3>1, FrameFields DEF Popped, RecordAt
    <3>3. filled' = filled
      BY <2>3 DEF ReadFrame
    <3> QED BY <2>1, <3>2, <3>3, WholeSums
  <2>4. CASE AskSpace \/ EndOfFile \/ PeekHeader \/ ReadFails \/ UNCHANGED vars
    BY <2>4 DEF AskSpace, EndOfFile, PeekHeader, ReadFails, vars
  <2> QED BY <2>2, <2>3, <2>4 DEF Next, Producer, Consumer
<1>4. J => NeverFilled
  BY DEF NeverFilled
<1> HIDE DEF J
<1> QED BY <1>2, <1>3, <1>4, InductiveInvariant, PTL DEF Spec

-----------------------------------------------------------------------------
(***************************************************************************)
(* Induction, for a set in place of a predicate.                           *)
(***************************************************************************)

(* A set of naturals that is not empty has a least element.                *)
LEMMA LeastElement ==
  ASSUME NEW T \in SUBSET Nat, T # {}
  PROVE  \E x \in T : \A y \in T : x <= y
<1>. DEFINE R == OpToRel(<, Nat)
<1>1. \A x, y \in Nat : y < x => <<y, x>> \in R
  BY DEF OpToRel
<1>2. IsWellFoundedOn(R, Nat)
  BY NatLessThanWellFounded
<1>. HIDE DEF R
<1>3. PICK x \in T : \A y \in T : ~ (<<y, x>> \in R)
  BY <1>2, WFMin
<1>4. ASSUME NEW y \in T
      PROVE  x <= y
  <2>1. x \in Nat /\ y \in Nat
    OBVIOUS
  <2>2. ~ (y < x)
    BY <1>1, <1>3, <2>1
  <2>. QED  BY <2>1, <2>2
<1>. QED  BY <1>4

(* Induction up to m, for a set in place of a predicate.                   *)
LEMMA InductionTo ==
  ASSUME NEW m \in Nat, NEW T,
         0 \in T,
         \A i \in 0 .. m - 1 : i \in T => i + 1 \in T
  PROVE  \A i \in 0 .. m : i \in T
<1>. DEFINE U == {i \in 0 .. m : i \notin T}
<1>1. SUFFICES ASSUME U # {}
               PROVE  FALSE
  OBVIOUS
<1>2. PICK x \in U : \A y \in U : x <= y
  <2>1. U \in SUBSET Nat
    OBVIOUS
  <2>. HIDE DEF U
  <2>. QED  BY <1>1, <2>1, LeastElement
<1>3. x # 0
  OBVIOUS
<1>4. x - 1 \in 0 .. m - 1 /\ x - 1 \in T
  BY <1>2, <1>3
<1>. QED  BY <1>4

-----------------------------------------------------------------------------
(***************************************************************************)
(* The FIFO as a queue of frames: Frames(c), defined along the bytes, gets *)
(* the frame of a record that is appended at its end and loses that of a   *)
(* record read at its head.                                                *)
(***************************************************************************)

(* The frames that begin in the first bytes, up to the m-th.               *)
IsHeads(h, bytes, m) ==
  h = [n \in 0 .. m |->
         IF n = 0 THEN << >>
         ELSE IF bytes[n].k = 0 THEN Append(h[n - 1], bytes[n].f) ELSE h[n - 1]]

HeadsOf(bytes) == CHOOSE h : IsHeads(h, bytes, Len(bytes))

(* Any string of cells has them: the function Frames chooses exists.       *)
LEMMA HeadsExist ==
  ASSUME NEW s \in Seq(Cell)
  PROVE  \E h \in [0 .. Len(s) -> Seq(Frame)] : IsHeads(h, s, Len(s))
<1>. DEFINE T == {m \in 0 .. Len(s) : \E h \in [0 .. m -> Seq(Frame)] : IsHeads(h, s, m)}
<1>1. 0 \in T
  <2>. DEFINE none == [k \in 0 .. 0 |-> << >>]
  <2>1. none \in [0 .. 0 -> Seq(Frame)]
    <3>1. << >> \in Seq(Frame)
      OBVIOUS
    <3>. QED  BY <3>1
  <2>2. none = [n \in 0 .. 0 |->
         IF n = 0 THEN << >>
         ELSE IF s[n].k = 0 THEN Append(none[n - 1], s[n].f) ELSE none[n - 1]]
    <3>1. \A k \in 0 .. 0 : k = 0
      OBVIOUS
    <3>. QED  BY <3>1
  <2>3. IsHeads(none, s, 0)
    BY <2>2 DEF IsHeads
  <2>4. 0 \in 0 .. Len(s)
    OBVIOUS
  <2>. HIDE DEF none
  <2>. QED  BY <2>1, <2>3, <2>4
<1>2. ASSUME NEW i \in 0 .. Len(s) - 1, i \in T
      PROVE  i + 1 \in T
  <2>1. PICK g \in [0 .. i -> Seq(Frame)] : IsHeads(g, s, i)
    BY <1>2
  <2>2. s[i + 1] \in Cell /\ i + 1 \in 0 .. Len(s) /\ i \in Nat
    OBVIOUS
  <2>. DEFINE new == IF s[i + 1].k = 0 THEN Append(g[i], s[i + 1].f) ELSE g[i]
  <2>3. new \in Seq(Frame)
    <3>1. g[i] \in Seq(Frame)
      BY <2>1, <2>2
    <3>2. s[i + 1].f \in Frame
      BY <2>2 DEF Cell
    <3>. HIDE DEF Frame
    <3>3. Append(g[i], s[i + 1].f) \in Seq(Frame)
      BY <3>1, <3>2
    <3>. QED  BY <3>1, <3>3
  <2>. DEFINE h == [k \in 0 .. i + 1 |-> IF k = i + 1 THEN new ELSE g[k]]
  <2>. HIDE DEF new
  <2>4. h \in [0 .. i + 1 -> Seq(Frame)]
    BY <2>1, <2>3
  <2>5. ASSUME NEW n \in 0 .. i + 1
        PROVE  h[n] = IF n = 0 THEN << >>
                      ELSE IF s[n].k = 0 THEN Append(h[n - 1], s[n].f) ELSE h[n - 1]
    <3>0. \A j \in 0 .. i : g[j] = IF j = 0 THEN << >>
                      ELSE IF s[j].k = 0 THEN Append(g[j - 1], s[j].f) ELSE g[j - 1]
      BY <2>1 DEF IsHeads
    <3>1. CASE n = i + 1
      <4>1. h[n] = new /\ h[n - 1] = g[i] /\ n # 0
        BY <2>2, <3>1
      <4>2. new = IF s[n].k = 0 THEN Append(g[i], s[n].f) ELSE g[i]
        BY <3>1 DEF new
      <4>. QED  BY <4>1, <4>2
    <3>2. CASE n # i + 1
      <4>1. n \in 0 .. i /\ h[n] = g[n]
        BY <2>5, <3>2
      <4>2. n # 0 => h[n - 1] = g[n - 1]
        BY <4>1
      <4>. QED  BY <3>0, <4>1, <4>2
    <3>. QED  BY <3>1, <3>2
  <2>6. IsHeads(h, s, i + 1)
    <3>1. h = [k \in 0 .. i + 1 |-> h[k]]
      OBVIOUS
    <3>. HIDE DEF h
    <3>. QED  BY <2>5, <3>1 DEF IsHeads
  <2>. HIDE DEF h
  <2>. QED  BY <2>2, <2>4, <2>6
<1>3. Len(s) \in Nat
  OBVIOUS
<1>. HIDE DEF T
<1>4. \A i \in 0 .. Len(s) : i \in T
  BY <1>1, <1>2, <1>3, InductionTo
<1>5. Len(s) \in T
  BY <1>3, <1>4
<1>. QED  BY <1>5 DEF T

(* They grow by one where a record begins.                                 *)
LEMMA HeadsAre ==
  ASSUME NEW s \in Seq(Cell)
  PROVE  /\ HeadsOf(s)[0] = << >>
         /\ \A n \in 1 .. Len(s) : HeadsOf(s)[n] =
              IF s[n].k = 0 THEN Append(HeadsOf(s)[n - 1], s[n].f) ELSE HeadsOf(s)[n - 1]
<1>1. \E h : IsHeads(h, s, Len(s))
  BY HeadsExist
<1>2. IsHeads(HeadsOf(s), s, Len(s))
  BY <1>1, Zenon DEF HeadsOf
<1>. DEFINE h == HeadsOf(s)
<1>. HIDE DEF h
<1>3. \A n \in 0 .. Len(s) : h[n] = IF n = 0 THEN << >>
         ELSE IF s[n].k = 0 THEN Append(h[n - 1], s[n].f) ELSE h[n - 1]
  BY <1>2 DEF IsHeads, h
<1>4. Len(s) \in Nat
  OBVIOUS
<1>5. 0 \in 0 .. Len(s) /\ \A k \in 1 .. Len(s) : k \in 0 .. Len(s) /\ k # 0
  BY <1>4
<1>6. h[0] = << >>
  BY <1>3, <1>5
<1>7. ASSUME NEW n \in 1 .. Len(s)
      PROVE  h[n] = IF s[n].k = 0 THEN Append(h[n - 1], s[n].f) ELSE h[n - 1]
  BY <1>3, <1>5, <1>7
<1>. QED  BY <1>6, <1>7 DEF h

(* They are sequences of frames.                                           *)
LEMMA HeadsType ==
  ASSUME NEW s \in Seq(Cell), NEW m \in 0 .. Len(s)
  PROVE  HeadsOf(s)[m] \in Seq(Frame)
<1>. DEFINE h == HeadsOf(s)
            T == {n \in 0 .. Len(s) : h[n] \in Seq(Frame)}
<1>1. h[0] = << >> /\ \A n \in 1 .. Len(s) : h[n] =
              IF s[n].k = 0 THEN Append(h[n - 1], s[n].f) ELSE h[n - 1]
  BY HeadsAre
<1>. HIDE DEF h
<1>2. Len(s) \in Nat /\ \A n \in 1 .. Len(s) : s[n].f \in Frame
  <2>1. \A n \in 1 .. Len(s) : s[n] \in Cell
    OBVIOUS
  <2>. QED  BY <2>1 DEF Cell
<1>3. 0 \in T
  <2>1. << >> \in Seq(Frame)
    OBVIOUS
  <2>2. h[0] \in Seq(Frame)
    BY <1>1, <2>1, Zenon
  <2>. QED  BY <1>2, <2>2
<1>4. ASSUME NEW i \in 0 .. Len(s) - 1, i \in T
      PROVE  i + 1 \in T
  <2>1. i + 1 \in 1 .. Len(s) /\ (i + 1) - 1 = i /\ h[i] \in Seq(Frame)
    BY <1>2, <1>4
  <2>2. h[i + 1] = IF s[i + 1].k = 0 THEN Append(h[i], s[i + 1].f) ELSE h[i]
    BY <1>1, <2>1
  <2>3. s[i + 1].f \in Frame
    BY <1>2, <2>1
  <2>4. Append(h[i], s[i + 1].f) \in Seq(Frame)
    <3>. HIDE DEF Frame
    <3>. QED  BY <2>1, <2>3
  <2>5. h[i + 1] \in Seq(Frame)
    BY <2>1, <2>2, <2>4, Zenon
  <2>6. i + 1 \in 0 .. Len(s)
    BY <1>2, <2>1
  <2>. QED  BY <2>5, <2>6
<1>. HIDE DEF T
<1>5. \A n \in 0 .. Len(s) : n \in T
  BY <1>2, <1>3, <1>4, InductionTo
<1>. QED  BY <1>5 DEF T, h

(* A frame behind two sequences of frames.                                 *)
LEMMA FrameBehind ==
  ASSUME NEW s \in Seq(Frame), NEW t \in Seq(Frame), NEW e \in Frame
  PROVE  Append(s \o t, e) = s \o Append(t, e)
<1>. DEFINE w == << e >>
<1>1. w \in Seq(Frame) /\ s \o t \in Seq(Frame)
  OBVIOUS
<1>2. Append(s \o t, e) = (s \o t) \o w /\ Append(t, e) = t \o w
  BY <1>1, AppendIsConcat
<1>. HIDE DEF w
<1>3. (s \o t) \o w = s \o (t \o w)
  BY <1>1, ConcatAssociative
<1>. QED  BY <1>2, <1>3

(* The frames q, later than those of front.                                *)
Behind(front, q) == front \o q

(* The n bytes of s behind its first a are those of t behind its first b.  *)
Alike(s, a, t, b, n) == \A i \in 1 .. n : s[a + i] = t[b + i]

(* Equal bytes begin equal frames: two strings whose next n bytes are      *)
(* equal, and whose frames so far differ by a front, differ by the same    *)
(* front after them.                                                       *)
LEMMA HeadsShift ==
  ASSUME NEW s \in Seq(Cell), NEW t \in Seq(Cell), NEW a \in Nat, NEW b \in Nat,
         NEW n \in Nat, a + n <= Len(s), b + n <= Len(t),
         Alike(s, a, t, b, n),
         NEW front \in Seq(Frame), HeadsOf(s)[a] = Behind(front, HeadsOf(t)[b])
  PROVE  HeadsOf(s)[a + n] = Behind(front, HeadsOf(t)[b + n])
<1>. DEFINE hs == HeadsOf(s)
            ht == HeadsOf(t)
            T == {m \in 0 .. n : hs[a + m] = front \o ht[b + m]}
<1>1. \A m \in 1 .. Len(s) : hs[m] =
              IF s[m].k = 0 THEN Append(hs[m - 1], s[m].f) ELSE hs[m - 1]
  BY HeadsAre
<1>2. \A m \in 1 .. Len(t) : ht[m] =
              IF t[m].k = 0 THEN Append(ht[m - 1], t[m].f) ELSE ht[m - 1]
  BY HeadsAre
<1>3. \A m \in 0 .. Len(t) : ht[m] \in Seq(Frame)
  BY HeadsType
<1>4. hs[a] = front \o ht[b]
  BY DEF Behind
<1>. HIDE DEF hs, ht
<1>5. Len(s) \in Nat /\ Len(t) \in Nat
  OBVIOUS
<1>6. 0 \in T
  BY <1>4
<1>7. ASSUME NEW i \in 0 .. n - 1, i \in T
      PROVE  i + 1 \in T
  <2>1. /\ a + (i + 1) \in 1 .. Len(s) /\ (a + (i + 1)) - 1 = a + i
        /\ b + (i + 1) \in 1 .. Len(t) /\ (b + (i + 1)) - 1 = b + i
        /\ b + i \in 0 .. Len(t) /\ i + 1 \in 1 .. n /\ i + 1 \in 0 .. n
    BY <1>5
  <2>. DEFINE x == s[a + (i + 1)]
  <2>2. x = t[b + (i + 1)] /\ x \in Cell
    <3>1. s[a + (i + 1)] = t[b + (i + 1)]
      BY <2>1, Zenon DEF Alike
    <3>2. s[a + (i + 1)] \in Cell
      BY <2>1
    <3>. QED  BY <3>1, <3>2
  <2>3. x.f \in Frame
    BY <2>2 DEF Cell
  <2>4. hs[a + (i + 1)] = IF x.k = 0 THEN Append(hs[a + i], x.f) ELSE hs[a + i]
    BY <1>1, <2>1
  <2>5. ht[b + (i + 1)] = IF x.k = 0 THEN Append(ht[b + i], x.f) ELSE ht[b + i]
    BY <1>2, <2>1, <2>2
  <2>6. hs[a + i] = front \o ht[b + i] /\ ht[b + i] \in Seq(Frame)
    BY <1>3, <1>7, <2>1
  <2>. DEFINE y == x.f
              z == ht[b + i]
  <2>7. Append(front \o z, y) = front \o Append(z, y)
    <3>1. y \in Frame
      BY <2>3
    <3>2. z \in Seq(Frame)
      BY <2>6
    <3>3. front \in Seq(Frame)
      OBVIOUS
    <3>. HIDE DEF y, z
    <3>. QED  BY <3>1, <3>2, <3>3, FrameBehind
  <2>8. hs[a + (i + 1)] = front \o ht[b + (i + 1)]
    BY <2>4, <2>5, <2>6, <2>7
  <2>. QED  BY <2>1, <2>8
<1>. HIDE DEF T
<1>8. \A m \in 0 .. n : m \in T
  BY <1>6, <1>7, InductionTo
<1>9. n \in T
  BY <1>8
<1>. QED  BY <1>9 DEF T, hs, ht, Behind

(* The bytes of a record are one frame more than those before them.        *)
LEMMA HeadsRecord ==
  ASSUME NEW s \in Seq(Cell), NEW a \in Nat, NEW f \in Frame, NEW n \in Nat \ {0},
         a + n <= Len(s),
         \A j \in 0 .. n - 1 : s[a + 1 + j] = [f |-> f, k |-> j]
  PROVE  HeadsOf(s)[a + n] = Append(HeadsOf(s)[a], f)
<1>. DEFINE h == HeadsOf(s)
            T == {m \in 0 .. n - 1 : h[a + 1 + m] = Append(h[a], f)}
<1>1. \A m \in 1 .. Len(s) : h[m] =
              IF s[m].k = 0 THEN Append(h[m - 1], s[m].f) ELSE h[m - 1]
  BY HeadsAre
<1>. HIDE DEF h
<1>2. Len(s) \in Nat
  OBVIOUS
<1>3. ASSUME NEW j \in 0 .. n - 1
      PROVE  s[a + 1 + j].k = j /\ s[a + 1 + j].f = f
  <2>1. s[a + 1 + j] = [f |-> f, k |-> j]
    BY <1>3, Zenon
  <2>. QED  BY <2>1
<1>4. 0 \in T
  <2>1. a + 1 \in 1 .. Len(s) /\ 0 \in 0 .. n - 1 /\ (a + 1) - 1 = a /\ a + 1 + 0 = a + 1
    BY <1>2
  <2>2. s[a + 1].k = 0 /\ s[a + 1].f = f
    BY <1>3, <2>1
  <2>3. h[a + 1] = Append(h[a], f)
    BY <1>1, <2>1, <2>2
  <2>. QED  BY <2>1, <2>3
<1>5. ASSUME NEW i \in 0 .. (n - 1) - 1, i \in T
      PROVE  i + 1 \in T
  <2>0. i \in Nat /\ i + 1 <= n - 1
    OBVIOUS
  <2>1. /\ a + 1 + (i + 1) \in 1 .. Len(s) /\ (a + 1 + (i + 1)) - 1 = a + 1 + i
        /\ i + 1 \in 0 .. n - 1 /\ i + 1 # 0
    <3>1. PICK l \in Nat : l = Len(s)
      BY <1>2
    <3>2. a + n <= l
      BY <3>1
    <3>3. /\ a + 1 + (i + 1) \in 1 .. l /\ (a + 1 + (i + 1)) - 1 = a + 1 + i
          /\ i + 1 \in 0 .. n - 1 /\ i + 1 # 0
      BY ONLY <2>0, <3>2, a \in Nat, n \in Nat, l \in Nat
    <3>. QED  BY <3>1, <3>3
  <2>2. s[a + 1 + (i + 1)].k = i + 1
    <3>. DEFINE j == i + 1
    <3>1. j \in 0 .. n - 1
      BY <2>1
    <3>. HIDE DEF j
    <3>2. s[a + 1 + j].k = j
      BY <1>3, <3>1
    <3>. QED  BY <3>2 DEF j
  <2>3. h[a + 1 + (i + 1)] = h[a + 1 + i]
    BY <1>1, <2>1, <2>2
  <2>. QED  BY <1>5, <2>1, <2>3
<1>6. \A m \in 0 .. n - 1 : m \in T
  <2>1. n - 1 \in Nat
    OBVIOUS
  <2>. HIDE DEF T
  <2>. QED  BY <1>4, <1>5, <2>1, InductionTo
<1>7. n - 1 \in T
  <2>1. n - 1 \in 0 .. n - 1
    OBVIOUS
  <2>. HIDE DEF T
  <2>. QED  BY <1>6, <2>1
<1>8. a + 1 + (n - 1) = a + n
  OBVIOUS
<1>. QED  BY <1>7, <1>8 DEF h

(* The unread bytes of framed bytes are cells.                             *)
LEMMA ContentsAre ==
  ASSUME NEW c \in Ring(Byte), Framed(c)
  PROVE  /\ Contents(c) \in Seq(Cell)
         /\ Len(Contents(c)) = cb_readable_size(c)
         /\ cb_readable_size(c) \in Nat
         /\ \A i \in 0 .. cb_readable_size(c) - 1 : Contents(c)[i + 1] = ByteAt(c, i)
<1>. DEFINE R == cb_readable_size(c)
<1>1. R \in Nat
  BY SizesAddUp, MaxSizeAssumption
<1>2. \A i \in 0 .. R - 1 : ByteAt(c, i) \in Cell
  BY DEF Framed
<1>. HIDE DEF R
<1>3. Contents(c) = [i \in 1 .. R |-> ByteAt(c, i - 1)]
  BY DEF Contents, R
<1>4. \A i \in 1 .. R : ByteAt(c, i - 1) \in Cell
  <2>1. \A i \in 1 .. R : i - 1 \in 0 .. R - 1
    BY <1>1
  <2>. QED  BY <1>2, <2>1
<1>5. Contents(c) \in [1 .. R -> Cell]
  BY <1>3, <1>4
<1>6. Contents(c) \in Seq(Cell) /\ Len(Contents(c)) = R
  BY <1>1, <1>5
<1>7. ASSUME NEW i \in 0 .. R - 1
      PROVE  Contents(c)[i + 1] = ByteAt(c, i)
  <2>1. i + 1 \in 1 .. R /\ (i + 1) - 1 = i
    BY <1>1
  <2>. QED  BY <1>3, <2>1
<1>. QED  BY <1>1, <1>6, <1>7 DEF R

(* The frames of the FIFO are those that begin in its unread bytes.        *)
LEMMA FramesAre ==
  ASSUME NEW c
  PROVE  Frames(c) = HeadsOf(Contents(c))[Len(Contents(c))]
BY Zenon DEF Frames, HeadsOf, IsHeads

(* The frames are a sequence of frames.                                    *)
LEMMA FramesType ==
  ASSUME NEW c \in Ring(Byte), Framed(c)
  PROVE  Frames(c) \in Seq(Frame)
<1>1. Contents(c) \in Seq(Cell) /\ Len(Contents(c)) \in 0 .. Len(Contents(c))
  BY ContentsAre
<1>. QED  BY <1>1, FramesAre, HeadsType

(* An empty FIFO has no frames.                                            *)
LEMMA FramesEmpty ==
  ASSUME NEW c \in Ring(Byte), cb_readable_size(c) = 0
  PROVE  Frames(c) = << >>
<1>1. Framed(c)
  BY DEF Framed
<1>2. Contents(c) \in Seq(Cell) /\ Len(Contents(c)) = 0
  BY <1>1, ContentsAre
<1>3. HeadsOf(Contents(c))[0] = << >>
  BY <1>2, HeadsAre
<1>. QED  BY <1>2, <1>3, FramesAre

(* A record appended is its frame put at the end.                          *)
LEMMA FramesAppend ==
  ASSUME NEW c \in Ring(Byte), Framed(c), NEW f \in Frame, NEW w,
         Appended(w, c, f, RecLen(f))
  PROVE  Frames(w) = Append(Frames(c), f)
<1>. DEFINE s == Contents(w)
            t == Contents(c)
            R == cb_readable_size(c)
            L == RecLen(f)
            hs == HeadsOf(s)
            ht == HeadsOf(t)
<1>1. w \in Ring(Byte) /\ Framed(w)
  BY FramedAppend DEF Appended
<1>2. /\ s \in Seq(Cell) /\ Len(s) = cb_readable_size(w)
      /\ \A i \in 0 .. cb_readable_size(w) - 1 : s[i + 1] = ByteAt(w, i)
  BY <1>1, ContentsAre
<1>3. /\ t \in Seq(Cell) /\ Len(t) = R /\ R \in Nat
      /\ \A i \in 0 .. R - 1 : t[i + 1] = ByteAt(c, i)
  BY ContentsAre
<1>4. L \in Nat \ {0}
  BY FrameFields, HeaderLength
<1>5. /\ cb_readable_size(w) = R + L
      /\ \A i \in 0 .. R - 1 : ByteAt(w, i) = ByteAt(c, i)
      /\ \A j \in 0 .. L - 1 : ByteAt(w, R + j) = [f |-> f, k |-> j]
  BY DEF Appended
<1>6. Frames(w) = hs[Len(s)] /\ Frames(c) = ht[Len(t)]
  BY FramesAre
<1>7. hs[0] = << >> /\ ht[0] = << >>
  BY <1>2, <1>3, HeadsAre
<1>8. ht[R] \in Seq(Frame)
  <2>1. R \in 0 .. Len(t)
    BY <1>3
  <2>. QED  BY <1>3, <2>1, HeadsType
<1>. HIDE DEF s, t, R, L
<1>9. hs[R] = ht[R]
  <2>1. Alike(s, 0, t, 0, R)
    <3>. SUFFICES ASSUME NEW i \in 1 .. R
                  PROVE  s[0 + i] = t[0 + i]
      BY DEF Alike
    <3>1. /\ i - 1 \in 0 .. R - 1 /\ i - 1 \in 0 .. (R + L) - 1
          /\ (i - 1) + 1 = i /\ 0 + i = i
      BY <1>3, <1>4
    <3>2. s[(i - 1) + 1] = ByteAt(w, i - 1) /\ t[(i - 1) + 1] = ByteAt(c, i - 1)
      BY <1>2, <1>3, <1>5, <3>1
    <3>3. ByteAt(w, i - 1) = ByteAt(c, i - 1)
      BY <1>5, <3>1
    <3>. QED  BY <3>1, <3>2, <3>3
  <2>2. 0 + R <= Len(s) /\ 0 + R <= Len(t) /\ 0 \in Nat /\ 0 + R = R
    BY <1>2, <1>3, <1>4, <1>5
  <2>3. << >> \in Seq(Frame)
    OBVIOUS
  <2>4. HeadsOf(s)[0] = Behind(<< >>, HeadsOf(t)[0])
    <3>1. << >> \o << >> = << >>
      OBVIOUS
    <3>. QED  BY <1>7, <3>1 DEF Behind
  <2>5. HeadsOf(s)[0 + R] = Behind(<< >>, HeadsOf(t)[0 + R])
    <3>1. s \in Seq(Cell) /\ t \in Seq(Cell) /\ R \in Nat
      BY <1>2, <1>3
    <3>2. PICK z \in Nat : z = 0
      OBVIOUS
    <3>3. PICK front \in Seq(Frame) : front = << >>
      BY <2>3
    <3>4. /\ z + R <= Len(s) /\ z + R <= Len(t) /\ Alike(s, z, t, z, R)
          /\ HeadsOf(s)[z] = Behind(front, HeadsOf(t)[z])
      BY <2>1, <2>2, <2>4, <3>2, <3>3
    <3>5. HeadsOf(s)[z + R] = Behind(front, HeadsOf(t)[z + R])
      BY <3>1, <3>4, HeadsShift
    <3>. QED  BY <3>2, <3>3, <3>5
  <2>. DEFINE x == HeadsOf(t)[R]
  <2>6. x \in Seq(Frame)
    BY <1>8
  <2>. HIDE DEF x
  <2>7. << >> \o x = x
    BY <2>6
  <2>. QED  BY <2>2, <2>5, <2>7 DEF x, Behind
<1>10. hs[R + L] = Append(hs[R], f)
  <2>1. \A j \in 0 .. L - 1 : s[R + 1 + j] = [f |-> f, k |-> j]
    <3>. SUFFICES ASSUME NEW j \in 0 .. L - 1
                  PROVE  s[R + 1 + j] = [f |-> f, k |-> j]
      OBVIOUS
    <3>1. R + j \in 0 .. (R + L) - 1 /\ (R + j) + 1 = R + 1 + j
      BY <1>3, <1>4
    <3>2. s[(R + j) + 1] = ByteAt(w, R + j)
      BY <1>2, <1>5, <3>1
    <3>. QED  BY <1>5, <3>1, <3>2, Zenon
  <2>2. R + L <= Len(s) /\ s \in Seq(Cell) /\ R \in Nat
    BY <1>2, <1>3, <1>4, <1>5
  <2>. QED  BY <1>4, <2>1, <2>2, HeadsRecord
<1>. QED  BY <1>2, <1>3, <1>5, <1>6, <1>9, <1>10

(* A record read is its frame taken from the front.                        *)
LEMMA FramesPop ==
  ASSUME NEW c \in Ring(Byte), Framed(c), NEW f \in Frame, RecordAt(c, 0, f),
         NEW r, Popped(r, c, f)
  PROVE  /\ Frames(c) # << >>
         /\ f = Head(Frames(c))
         /\ Frames(r) = Tail(Frames(c))
<1>. DEFINE s == Contents(c)
            t == Contents(r)
            R == cb_readable_size(c)
            L == RecLen(f)
            hs == HeadsOf(s)
            ht == HeadsOf(t)
<1>1. r \in Ring(Byte) /\ Framed(r)
  BY FramedPop DEF Popped
<1>2. /\ t \in Seq(Cell) /\ Len(t) = cb_readable_size(r)
      /\ \A i \in 0 .. cb_readable_size(r) - 1 : t[i + 1] = ByteAt(r, i)
  BY <1>1, ContentsAre
<1>3. /\ s \in Seq(Cell) /\ Len(s) = R /\ R \in Nat
      /\ \A i \in 0 .. R - 1 : s[i + 1] = ByteAt(c, i)
  BY ContentsAre
<1>4. L \in Nat \ {0}
  BY FrameFields, HeaderLength
<1>5. /\ cb_readable_size(r) = R - L
      /\ \A i \in 0 .. R - L - 1 : ByteAt(r, i) = ByteAt(c, L + i)
  BY DEF Popped
<1>6. L <= R /\ \A j \in 0 .. L - 1 : ByteAt(c, j) = [f |-> f, k |-> j]
  <2>1. 0 + L <= R /\ \A j \in 0 .. L - 1 : ByteAt(c, 0 + j) = [f |-> f, k |-> j]
    BY DEF RecordAt
  <2>2. \A j \in 0 .. L - 1 : 0 + j = j
    BY <1>4
  <2>3. ASSUME NEW j \in 0 .. L - 1
        PROVE  ByteAt(c, j) = [f |-> f, k |-> j]
    BY <2>1, <2>2, <2>3, Zenon
  <2>. QED  BY <1>3, <1>4, <2>1, <2>3
<1>7. Frames(c) = hs[Len(s)] /\ Frames(r) = ht[Len(t)]
  BY FramesAre
<1>8. hs[0] = << >> /\ ht[0] = << >>
  BY <1>2, <1>3, HeadsAre
<1>9. Frames(r) \in Seq(Frame)
  BY <1>1, FramesType
<1>. HIDE DEF s, t, R, L
<1>10. hs[L] = << f >>
  <2>1. \A j \in 0 .. L - 1 : s[0 + 1 + j] = [f |-> f, k |-> j]
    <3>. SUFFICES ASSUME NEW j \in 0 .. L - 1
                  PROVE  s[0 + 1 + j] = [f |-> f, k |-> j]
      OBVIOUS
    <3>1. j \in 0 .. R - 1 /\ 0 + 1 + j = j + 1
      BY <1>3, <1>4, <1>6
    <3>2. s[j + 1] = ByteAt(c, j)
      BY <1>3, <3>1
    <3>. QED  BY <1>6, <3>1, <3>2, Zenon
  <2>2. 0 + L <= Len(s) /\ 0 \in Nat /\ 0 + L = L
    BY <1>3, <1>4, <1>6
  <2>3. hs[0 + L] = Append(hs[0], f)
    BY <1>3, <1>4, <2>1, <2>2, HeadsRecord
  <2>4. Append(<< >>, f) = << f >>
    OBVIOUS
  <2>. QED  BY <1>8, <2>2, <2>3, <2>4
<1>11. hs[L + (R - L)] = << f >> \o ht[0 + (R - L)]
  <2>1. Alike(s, L, t, 0, R - L)
    <3>. SUFFICES ASSUME NEW i \in 1 .. R - L
                  PROVE  s[L + i] = t[0 + i]
      BY DEF Alike
    <3>1. /\ i - 1 \in 0 .. R - L - 1 /\ (i - 1) + 1 = i /\ 0 + i = i
          /\ L + (i - 1) \in 0 .. R - 1 /\ (L + (i - 1)) + 1 = L + i
      BY <1>3, <1>4, <1>6
    <3>2. s[(L + (i - 1)) + 1] = ByteAt(c, L + (i - 1))
      BY <1>3, <3>1
    <3>3. t[(i - 1) + 1] = ByteAt(r, i - 1)
      BY <1>2, <1>5, <3>1
    <3>4. ByteAt(r, i - 1) = ByteAt(c, L + (i - 1))
      BY <1>5, <3>1
    <3>. QED  BY <3>1, <3>2, <3>3, <3>4
  <2>2. /\ R - L \in Nat /\ L \in Nat /\ 0 \in Nat
        /\ L + (R - L) <= Len(s) /\ 0 + (R - L) <= Len(t)
    BY <1>2, <1>3, <1>4, <1>5, <1>6
  <2>3. << f >> \in Seq(Frame)
    OBVIOUS
  <2>4. HeadsOf(s)[L] = << f >> \o HeadsOf(t)[0]
    <3>1. << f >> \o << >> = << f >>
      OBVIOUS
    <3>. QED  BY <1>8, <1>10, <3>1
  <2>. DEFINE front == << f >>
  <2>5. front \in Seq(Frame) /\ HeadsOf(s)[L] = Behind(front, HeadsOf(t)[0])
    BY <2>3, <2>4 DEF Behind
  <2>. HIDE DEF front
  <2>6. HeadsOf(s)[L + (R - L)] = Behind(front, HeadsOf(t)[0 + (R - L)])
    <3>1. s \in Seq(Cell) /\ t \in Seq(Cell)
      BY <1>2, <1>3
    <3>2. PICK z \in Nat : z = 0
      OBVIOUS
    <3>3. PICK n \in Nat : n = R - L
      BY <2>2
    <3>4. /\ L + n <= Len(s) /\ z + n <= Len(t) /\ Alike(s, L, t, z, n)
          /\ HeadsOf(s)[L] = Behind(front, HeadsOf(t)[z])
      BY <2>1, <2>2, <2>5, <3>2, <3>3
    <3>5. HeadsOf(s)[L + n] = Behind(front, HeadsOf(t)[z + n])
      BY <2>2, <2>5, <3>1, <3>4, HeadsShift
    <3>. QED  BY <3>2, <3>3, <3>5
  <2>. QED  BY <2>6 DEF front, Behind
<1>12. Frames(c) = << f >> \o Frames(r)
  <2>1. L + (R - L) = Len(s) /\ 0 + (R - L) = Len(t)
    BY <1>2, <1>3, <1>4, <1>5
  <2>. QED  BY <1>7, <1>11, <2>1
<1>13. \A q \in Seq(Frame) : /\ << f >> \o q # << >>
                             /\ Head(<< f >> \o q) = f
                             /\ Tail(<< f >> \o q) = q
  <2>. SUFFICES ASSUME NEW q \in Seq(Frame)
                PROVE  /\ << f >> \o q # << >>
                       /\ Head(<< f >> \o q) = f
                       /\ Tail(<< f >> \o q) = q
    OBVIOUS
  <2>. HIDE DEF Frame
  <2>1. Len(<< f >> \o q) = 1 + Len(q) /\ (<< f >> \o q)[1] = f
    OBVIOUS
  <2>2. Tail(<< f >> \o q) = q
    OBVIOUS
  <2>3. << f >> \o q # << >>
    BY <2>1
  <2>4. Head(<< f >> \o q) = f
    BY <2>1, <2>3
  <2>. QED  BY <2>2, <2>3, <2>4
<1>. QED  BY <1>9, <1>12, <1>13

(* At the start the queue is empty.                                        *)
LEMMA QueueInit == Init => Queue!QInit
<1>. SUFFICES ASSUME Init
              PROVE  Queue!QInit
  OBVIOUS
<1>1. fifo \in Ring(Byte) /\ cb_readable_size(fifo) = 0
  BY CreateIsEmpty DEF Init, Byte
<1>2. Frames(fifo) = << >>
  BY <1>1, FramesEmpty
<1>3. next - 1 = 0 /\ packet.f = [id |-> 0, size |-> 0]
  BY DEF Init, NoFrame
<1>. QED  BY <1>1, <1>2, <1>3 DEF Queue!QInit, Queue!NoFrame

(* The producer's write offers the frame to the queue.                     *)
LEMMA WriteIsPut ==
  ASSUME IInv, ~ filled, ~ filled', WriteFrame
  PROVE  Queue!Put(file[next])
<1>. DEFINE f == file[next]
<1>1. TypeOK /\ ControlOK /\ Framed(fifo) /\ fifo \in Ring(Byte)
  BY DEF IInv, TypeOK, Sound
<1>2. f \in Frame /\ f.id = next /\ next \in Int
  BY <1>1, NextFrame, PacketId DEF WriteFrame
<1>3. /\ fifo' = write_fifo_with_hdr(fifo, f)
      /\ cb_writable_size(fifo) # RecLen(f)
      /\ next' = next + 1
      /\ packet' = packet
  BY DEF WriteFrame
<1>. HIDE DEF f
<1>4. /\ cb_writable_size(fifo) \in Nat /\ cb_readable_size(fifo) \in Nat
      /\ cb_writable_size(fifo) + cb_readable_size(fifo) = MaxSize
      /\ RecLen(f) \in Nat /\ f.size \in Nat /\ gsi_header_size \in Nat
      /\ MaxSize \in Nat
  BY <1>1, <1>2, SizesAddUp, FrameFields, HeaderLength, MaxSizeAssumption
<1>5. f.id = (next - 1) + 1 /\ next' - 1 = f.id
  BY <1>2, <1>3
<1>6. Queue!Need(f) = RecLen(f)
  BY <1>4 DEF Queue!Need, RecLen
<1>7. packet'.f = packet.f
  BY <1>3
<1>8. CASE RecLen(f) < cb_writable_size(fifo)
  <2>1. Appended(fifo', fifo, f, RecLen(f))
    BY <1>1, <1>2, <1>3, <1>8, FrameAppends
  <2>2. Frames(fifo') = Append(Frames(fifo), f)
    BY <1>1, <1>2, <2>1, FramesAppend
  <2>3. cb_readable_size(fifo') = cb_readable_size(fifo) + Queue!Need(f)
    BY <1>6, <2>1 DEF Appended
  <2>4. cb_readable_size(fifo) + Queue!Need(f) <= MaxSize
    BY <1>4, <1>6, <1>8
  <2>. QED  BY <1>5, <1>7, <2>2, <2>3, <2>4 DEF Queue!Put, f
<1>9. CASE RecLen(f) > cb_writable_size(fifo)
  <2>1. fifo' = fifo
    BY <1>1, <1>2, <1>3, <1>9, FrameRejected
  <2>2. Frames(fifo') = Frames(fifo) /\ cb_readable_size(fifo') = cb_readable_size(fifo)
    BY <2>1
  <2>3. cb_readable_size(fifo) + Queue!Need(f) > MaxSize
    BY <1>4, <1>6, <1>9
  <2>. QED  BY <1>5, <1>7, <2>2, <2>3 DEF Queue!Put, f
<1>. QED  BY <1>3, <1>4, <1>8, <1>9

(* The consumer's read takes the frame at the head of the queue.           *)
LEMMA ReadIsGet ==
  ASSUME IInv, ~ filled, ReadFrame
  PROVE  Queue!Get
<1>1. fifo \in Ring(Byte) /\ Framed(fifo)
  BY DEF IInv, TypeOK, Sound
<1>2. /\ hdr \in Frame /\ RecordAt(fifo, 0, hdr)
      /\ packet' = [f |-> hdr, intact |-> TRUE]
      /\ Popped(fifo', fifo, hdr)
  BY ReadDelivers
<1>3. /\ Frames(fifo) # << >>
      /\ hdr = Head(Frames(fifo))
      /\ Frames(fifo') = Tail(Frames(fifo))
  BY <1>1, <1>2, FramesPop
<1>4. hdr.size \in Nat /\ gsi_header_size \in Nat
  BY <1>2, FrameFields, HeaderLength
<1>5. cb_readable_size(fifo') = cb_readable_size(fifo) - Queue!Need(hdr)
  <2>1. Queue!Need(hdr) = RecLen(hdr)
    BY <1>4 DEF Queue!Need, RecLen
  <2>. QED  BY <1>2, <2>1 DEF Popped
<1>6. packet'.f = hdr
  BY <1>2
<1>7. next' = next
  BY DEF ReadFrame
<1>. QED  BY <1>3, <1>5, <1>6, <1>7 DEF Queue!Get

(* Each step of the two threads is a step of the queue or leaves it alone. *)
LEMMA QueueStep ==
  ASSUME IInv, ~ filled, ~ filled', [Next]_vars
  PROVE  [Queue!QNext]_(Queue!qvars)
<1>1. CASE WriteFrame
  <2>1. file[next] \in Frame
    BY <1>1, NextFrame DEF IInv, WriteFrame
  <2>. QED  BY <1>1, <2>1, WriteIsPut DEF Queue!QNext
<1>2. CASE ReadFrame
  BY <1>2, ReadIsGet DEF Queue!QNext
<1>3. ~ ReadFails
  <2>. SUFFICES ASSUME ReadFails
                PROVE  FALSE
    OBVIOUS
  <2>1. hdr \in Frame /\ RecordAt(fifo, 0, hdr) /\ fifo \in Ring(Byte)
    BY DEF IInv, ControlOK, Sound, TypeOK, ReadFails
  <2>. QED  BY <2>1, FrameFields, HeaderLength, SizesAddUp, MaxSizeAssumption
            DEF ReadFails, RecordAt, CanReadFrame, RecLen
<1>4. CASE AskSpace \/ EndOfFile \/ PeekHeader \/ UNCHANGED vars
  <2>1. fifo' = fifo /\ next' = next /\ packet' = packet
    BY <1>4 DEF AskSpace, EndOfFile, PeekHeader, vars
  <2>2. /\ Frames(fifo') = Frames(fifo)
        /\ cb_readable_size(fifo') = cb_readable_size(fifo)
        /\ next' - 1 = next - 1 /\ packet'.f = packet.f
    BY <2>1
  <2>. QED  BY <2>2 DEF Queue!qvars
<1>. QED  BY <1>1, <1>2, <1>3, <1>4 DEF Next, Producer, Consumer

(* The FIFO with its two threads is a queue of frames as long as no write  *)
(* makes the ring exactly full: nothing write_fifo_with_hdr accepted is    *)
(* lost, cut, duplicated or reordered before read_fifo_with_hdr, and only  *)
(* what does not fit is rejected.                                          *)
THEOREM ImplementsQueueHolds == Spec /\ []NeverFilled => ImplementsQueue
<1>1. IInv /\ NeverFilled /\ NeverFilled' /\ [Next]_vars => [Queue!QNext]_(Queue!qvars)
  BY QueueStep DEF NeverFilled
<1>. QED
  BY <1>1, QueueInit, InductiveInvariant, PTL DEF Spec, ImplementsQueue, Queue!QSpec

(* So it is for the FIFOs whose records are whole numbers of a unit that   *)
(* the size of the ring is not, with no proviso.                           *)
THEOREM UnitImplementsQueue ==
  ASSUME NEW u \in Nat,
         \A z \in Sizes : Whole(gsi_header_size + z, u),
         ~ Whole(MaxSize, u)
  PROVE  Spec => ImplementsQueue
<1>1. Spec => []NeverFilled
  BY UnitNeverFilled
<1>. QED  BY <1>1, ImplementsQueueHolds, PTL

=============================================================================
