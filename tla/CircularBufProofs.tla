--------------------------- MODULE CircularBufProofs ---------------------------
(***************************************************************************)
(* The laws of the ring of circular_buf.c, for every size: what a call     *)
(* does to the unread bytes, whichever memcpy branch it takes.             *)
(***************************************************************************)
EXTENDS CircularBuf, TLAPS

(* The two size functions on the pointers alone.                           *)
Free(rd, wr)   == IF rd <= wr THEN MaxSize - wr + rd ELSE rd - wr
Unread(rd, wr) == IF rd > wr THEN MaxSize - rd + wr ELSE wr - rd

-----------------------------------------------------------------------------
(***************************************************************************)
(* Arithmetic of the pointers.                                             *)
(***************************************************************************)

(* The pointers stay inside the ring.                                      *)
LEMMA PointerAlgebra ==
  ASSUME NEW rd \in Index, NEW wr \in Index
  PROVE  /\ Free(rd, wr) \in 1 .. MaxSize
         /\ Unread(rd, wr) \in 0 .. MaxSize - 1
         /\ Free(rd, wr) + Unread(rd, wr) = MaxSize
         /\ \A n \in 0 .. MaxSize : Advance(wr, n) \in Index
         /\ \A i \in Index : Slot(rd, i) \in Index
  BY MaxSizeAssumption DEF Index, Free, Unread, Advance, Slot

(* Moving the write pointer over n of the free bytes makes n more unread,  *)
(* or none at all when they were the last.                                 *)
LEMMA AdvanceWrite ==
  ASSUME NEW rd \in Index, NEW wr \in Index, NEW n \in 0 .. Free(rd, wr)
  PROVE  /\ n < Free(rd, wr) => Unread(rd, Advance(wr, n)) = Unread(rd, wr) + n
         /\ n = Free(rd, wr) => Advance(wr, n) = rd
  BY MaxSizeAssumption DEF Index, Free, Unread, Advance

(* Moving the read pointer over n unread bytes leaves the others.          *)
LEMMA AdvanceRead ==
  ASSUME NEW rd \in Index, NEW wr \in Index, NEW n \in 0 .. Unread(rd, wr)
  PROVE  /\ Advance(rd, n) \in Index
         /\ Unread(Advance(rd, n), wr) = Unread(rd, wr) - n
         /\ \A i \in 0 .. Unread(rd, wr) - n - 1 :
              Slot(Advance(rd, n), i) = Slot(rd, n + i)
  BY MaxSizeAssumption DEF Index, Unread, Advance, Slot

(* The slot of an unread byte is outside the bytes a write copies.         *)
LEMMA UnreadSlots ==
  ASSUME NEW rd \in Index, NEW wr \in Index, NEW n \in 0 .. Free(rd, wr),
         NEW i \in 0 .. Unread(rd, wr) - 1
  PROVE  /\ Slot(rd, i) \in Index
         /\ ~ (Slot(rd, i) >= wr /\ Slot(rd, i) < wr + n)
         /\ ~ (Slot(rd, i) < n - (MaxSize - wr))
  BY MaxSizeAssumption DEF Index, Free, Unread, Slot

(* The byte that follows the unread ones is the first a write copies.      *)
LEMMA WrittenSlots ==
  ASSUME NEW rd \in Index, NEW wr \in Index, NEW n \in 0 .. Free(rd, wr),
         NEW i \in 0 .. n - 1
  PROVE  /\ n < Free(rd, wr) => Slot(rd, Unread(rd, wr) + i) = Slot(wr, i)
         /\ Slot(wr, i) \in Index
         /\ wr + i < MaxSize => /\ Slot(wr, i) >= wr /\ Slot(wr, i) < wr + n
                                /\ Slot(wr, i) - wr = i
         /\ wr + i >= MaxSize => /\ ~ (Slot(wr, i) >= wr)
                                 /\ Slot(wr, i) < n - (MaxSize - wr)
                                 /\ (MaxSize - wr) + Slot(wr, i) = i
  BY MaxSizeAssumption DEF Index, Free, Unread, Slot

-----------------------------------------------------------------------------
(***************************************************************************)
(* The calls.                                                              *)
(***************************************************************************)

(* The fields of a ring, and its sizes by its pointers.                    *)
LEMMA RingFields ==
  ASSUME NEW Byte, NEW c \in Ring(Byte)
  PROVE  /\ c.data \in [Index -> Byte]
         /\ c.data_rd \in Index
         /\ c.data_wr \in Index
         /\ c = [data |-> c.data, data_rd |-> c.data_rd, data_wr |-> c.data_wr]
         /\ cb_writable_size(c) = Free(c.data_rd, c.data_wr)
         /\ cb_readable_size(c) = Unread(c.data_rd, c.data_wr)
  BY DEF Ring, cb_writable_size, cb_readable_size, Free, Unread

(* The two size functions always add up to the size of the ring, and a     *)
(* ring whose pointers are equal reads as empty: MaxSize bytes can never   *)
(* be seen as unread.                                                      *)
LEMMA SizesAddUp ==
  ASSUME NEW Byte, NEW c \in Ring(Byte)
  PROVE  /\ cb_writable_size(c) \in 1 .. MaxSize
         /\ cb_readable_size(c) \in 0 .. MaxSize - 1
         /\ cb_writable_size(c) + cb_readable_size(c) = MaxSize
  BY RingFields, PointerAlgebra

(* cb_create makes an empty ring.                                          *)
LEMMA CreateIsEmpty ==
  ASSUME NEW Byte, Unwritten \in Byte
  PROVE  cb_create \in Ring(Byte) /\ cb_readable_size(cb_create) = 0
  BY MaxSizeAssumption DEF Ring, Index, cb_create, cb_readable_size

(* A write that is not refused keeps the ring a ring.                      *)
LEMMA WriteTyped ==
  ASSUME NEW Byte, NEW c \in Ring(Byte), NEW s \in Seq(Byte)
  PROVE  cb_write(c, s) \in Ring(Byte)
<1> DEFINE rd == c.data_rd
           wr == c.data_wr
           n  == Len(s)
<1>1. CASE n > cb_writable_size(c)
  BY <1>1 DEF cb_write
<1>2. CASE ~ (n > cb_writable_size(c))
  <2>1. n \in 0 .. Free(rd, wr) /\ n \in 0 .. MaxSize /\ wr \in 0 .. MaxSize - 1
    BY <1>2, RingFields, PointerAlgebra, MaxSizeAssumption DEF Index
  <2>2. \A j \in 1 .. n : s[j] \in Byte
    OBVIOUS
  <2>3. ASSUME NEW i \in Index
        PROVE  Copied(c.data, wr, s)[i] \in Byte
    <3>1. i \in Int /\ MaxSize \in Int
      BY MaxSizeAssumption DEF Index
    <3>2. CASE i >= wr /\ i < wr + n
      <4>1. i - wr + 1 \in 1 .. n
        BY <2>1, <3>1, <3>2
      <4> QED BY <2>2, <3>2, <4>1 DEF Copied
    <3>3. CASE ~ (i >= wr /\ i < wr + n) /\ i < n - (MaxSize - wr)
      <4>1. (MaxSize - wr) + i + 1 \in 1 .. n
        BY <2>1, <3>1, <3>3 DEF Index
      <4> QED BY <2>2, <3>3, <4>1 DEF Copied
    <3>4. CASE ~ (i >= wr /\ i < wr + n) /\ ~ (i < n - (MaxSize - wr))
      BY <3>4, RingFields DEF Copied
    <3> QED BY <3>2, <3>3, <3>4
  <2>4. Copied(c.data, wr, s) \in [Index -> Byte]
    BY <2>3 DEF Copied
  <2>5. Advance(wr, n) \in Index
    BY <2>1, RingFields, PointerAlgebra
  <2> QED BY <1>2, <2>4, <2>5, RingFields DEF cb_write, Ring
<1> QED BY <1>1, <1>2

(* cb_write of a size that is not writable changes nothing.                *)
LEMMA WriteRejected ==
  ASSUME NEW c, NEW s, Len(s) > cb_writable_size(c)
  PROVE  cb_write(c, s) = c
  BY DEF cb_write

(* cb_write that leaves at least one byte free appends its bytes to the    *)
(* unread ones.                                                            *)
LEMMA WriteAppends ==
  ASSUME NEW Byte, NEW c \in Ring(Byte), NEW s \in Seq(Byte),
         Len(s) < cb_writable_size(c)
  PROVE  /\ cb_readable_size(cb_write(c, s)) = cb_readable_size(c) + Len(s)
         /\ \A i \in 0 .. cb_readable_size(c) - 1 :
              ByteAt(cb_write(c, s), i) = ByteAt(c, i)
         /\ \A i \in 0 .. Len(s) - 1 :
              ByteAt(cb_write(c, s), cb_readable_size(c) + i) = s[i + 1]
<1> DEFINE rd == c.data_rd
           wr == c.data_wr
           n  == Len(s)
           w  == cb_write(c, s)
<1>1. /\ rd \in Index /\ wr \in Index
      /\ n \in 0 .. Free(rd, wr) /\ n < Free(rd, wr)
  BY RingFields, PointerAlgebra
<1>2. w = [data |-> Copied(c.data, wr, s), data_rd |-> rd, data_wr |-> Advance(wr, n)]
  BY <1>1, RingFields, PointerAlgebra DEF cb_write
<1>3. w \in Ring(Byte)
  BY WriteTyped
<1> HIDE DEF w
<1>4. cb_readable_size(w) = cb_readable_size(c) + n
  BY <1>1, <1>2, <1>3, RingFields, AdvanceWrite
<1>5. ASSUME NEW i \in 0 .. cb_readable_size(c) - 1
      PROVE  ByteAt(w, i) = ByteAt(c, i)
  <2>1. i \in 0 .. Unread(rd, wr) - 1
    BY RingFields
  <2>2. Copied(c.data, wr, s)[Slot(rd, i)] = c.data[Slot(rd, i)]
    BY <1>1, <2>1, UnreadSlots DEF Copied
  <2> QED BY <1>2, <2>2 DEF ByteAt
<1>6. ASSUME NEW i \in 0 .. n - 1
      PROVE  ByteAt(w, cb_readable_size(c) + i) = s[i + 1]
  <2>1. Slot(rd, Unread(rd, wr) + i) = Slot(wr, i)
    BY <1>1, WrittenSlots
  <2>2. Copied(c.data, wr, s)[Slot(wr, i)] = s[i + 1]
    <3>1. wr \in Int /\ MaxSize \in Int /\ Slot(wr, i) \in Index
      BY <1>1, WrittenSlots, MaxSizeAssumption DEF Index
    <3>2. CASE wr + i < MaxSize
      BY <1>1, <3>1, <3>2, WrittenSlots DEF Copied
    <3>3. CASE wr + i >= MaxSize
      BY <1>1, <3>1, <3>3, WrittenSlots DEF Copied
    <3> QED BY <3>1, <3>2, <3>3
  <2> QED BY <1>2, <2>1, <2>2, RingFields DEF ByteAt
<1> QED BY <1>4, <1>5, <1>6 DEF w

(* cb_write of exactly the writable size succeeds and empties the ring:    *)
(* the pointers meet and every unread byte is forgotten.                   *)
LEMMA WriteFills ==
  ASSUME NEW Byte, NEW c \in Ring(Byte), NEW s \in Seq(Byte),
         Len(s) = cb_writable_size(c)
  PROVE  cb_readable_size(cb_write(c, s)) = 0
<1>1. Len(s) = Free(c.data_rd, c.data_wr) /\ Len(s) \in 0 .. Free(c.data_rd, c.data_wr)
  BY RingFields, PointerAlgebra
<1>2. cb_write(c, s).data_rd = c.data_rd /\ cb_write(c, s).data_wr = c.data_rd
  BY <1>1, RingFields, PointerAlgebra, AdvanceWrite DEF cb_write
<1> QED
  BY <1>2, RingFields, MaxSizeAssumption DEF cb_readable_size, Index

(* cb_read drops the oldest bytes and keeps the others.                    *)
LEMMA ReadDrops ==
  ASSUME NEW Byte, NEW c \in Ring(Byte), NEW n \in 0 .. cb_readable_size(c)
  PROVE  /\ cb_read(c, n) \in Ring(Byte)
         /\ cb_readable_size(cb_read(c, n)) = cb_readable_size(c) - n
         /\ \A i \in 0 .. cb_readable_size(c) - n - 1 :
              ByteAt(cb_read(c, n), i) = ByteAt(c, n + i)
<1> DEFINE rd == c.data_rd
           wr == c.data_wr
           r  == cb_read(c, n)
<1>1. rd \in Index /\ wr \in Index /\ n \in 0 .. Unread(rd, wr)
  BY RingFields
<1>2. ~ (n > cb_readable_size(c))
  BY SizesAddUp
<1>3. r = [data |-> c.data, data_rd |-> Advance(rd, n), data_wr |-> wr]
  BY <1>2, RingFields DEF cb_read, Ring
<1> HIDE DEF r
<1>4. r \in Ring(Byte)
  BY <1>1, <1>3, RingFields, AdvanceRead DEF Ring
<1>5. cb_readable_size(r) = cb_readable_size(c) - n
  BY <1>1, <1>3, <1>4, RingFields, AdvanceRead
<1>6. ASSUME NEW i \in 0 .. cb_readable_size(c) - n - 1
      PROVE  ByteAt(r, i) = ByteAt(c, n + i)
  BY <1>1, <1>3, RingFields, AdvanceRead DEF ByteAt
<1> QED BY <1>4, <1>5, <1>6 DEF r

(* cb_peek returns the oldest bytes.                                       *)
LEMMA PeekReturns ==
  ASSUME NEW Byte, NEW c \in Ring(Byte), NEW n \in 0 .. cb_readable_size(c)
  PROVE  cb_peek(c, n) = [i \in 1 .. n |-> ByteAt(c, i - 1)]
<1> DEFINE rd == c.data_rd
<1>1. n \in Nat /\ n < MaxSize /\ rd \in 0 .. MaxSize - 1 /\ MaxSize \in Nat
  BY SizesAddUp, RingFields, MaxSizeAssumption DEF Index
<1>2. CASE n > MaxSize - rd
  <2>1. ASSUME NEW i \in 1 .. n
        PROVE  (IF i <= MaxSize - rd THEN c.data[rd + i - 1]
                                     ELSE c.data[i - (MaxSize - rd) - 1])
               = ByteAt(c, i - 1)
    <3>1. Slot(rd, i - 1) = IF i <= MaxSize - rd THEN rd + i - 1
                                                 ELSE i - (MaxSize - rd) - 1
      BY <1>1 DEF Slot
    <3> QED BY <3>1 DEF ByteAt
  <2> QED BY <1>2, <2>1 DEF cb_peek
<1>3. CASE ~ (n > MaxSize - rd)
  <2>1. ASSUME NEW i \in 1 .. n
        PROVE  c.data[rd + i - 1] = ByteAt(c, i - 1)
    <3>1. Slot(rd, i - 1) = rd + i - 1
      BY <1>1, <1>3 DEF Slot
    <3> QED BY <3>1 DEF ByteAt
  <2> QED BY <1>3, <2>1 DEF cb_peek
<1> QED BY <1>2, <1>3

-----------------------------------------------------------------------------
(***************************************************************************)
(* Whole numbers of units, for the rings that can never be exactly full.   *)
(***************************************************************************)

(* n is a whole number of units.                                           *)
Whole(n, u) == \E q \in Nat : n = q * u

LEMMA WholeSums ==
  ASSUME NEW u \in Nat, NEW m \in Int, NEW n \in Int
  PROVE  /\ Whole(m, u) /\ Whole(n, u) => Whole(m + n, u)
         /\ Whole(m, u) /\ Whole(n, u) /\ n <= m => Whole(m - n, u)
<1>1. ASSUME Whole(m, u), Whole(n, u)
      PROVE  Whole(m + n, u)
  <2>1. PICK p \in Nat, q \in Nat : m = p * u /\ n = q * u
    BY <1>1 DEF Whole
  <2>2. p * u + q * u = (p + q) * u
    OBVIOUS
  <2> QED BY <2>1, <2>2 DEF Whole
<1>2. ASSUME Whole(m, u), Whole(n, u), n <= m
      PROVE  Whole(m - n, u)
  <2>1. PICK p \in Nat, q \in Nat : m = p * u /\ n = q * u
    BY <1>2 DEF Whole
  <2>2. CASE q <= p
    <3>1. p * u - q * u = (p - q) * u /\ p - q \in Nat
      BY <2>2
    <3> QED BY <2>1, <3>1 DEF Whole
  <2>3. CASE q > p
    <3>1. q * u = p * u + (q - p) * u
      OBVIOUS
    <3>2. (q - p) * u >= 0
      BY <2>3
    <3>3. p * u \in Int /\ q * u \in Int /\ (q - p) * u \in Int
      OBVIOUS
    <3>4. m - n = 0 * u
      BY <1>2, <2>1, <3>1, <3>2, <3>3
    <3> QED BY <3>4 DEF Whole
  <2> QED BY <2>2, <2>3
<1> QED BY <1>1, <1>2

=============================================================================
