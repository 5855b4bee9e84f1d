------------------------------ MODULE CircularBuf ------------------------------
(***************************************************************************)
(* The byte ring of apps/ts_muxer/src/circular_buf.c, as pure operators on *)
(* a record with the fields of circular_buf_t: data, data_rd, data_wr (the *)
(* size, data_max_size, never changes and is the constant MaxSize).  The   *)
(* callers hold the FIFO's mutex around every call, so a call is a value   *)
(* of these operators inside one step of the modules that extend this one. *)
(*                                                                         *)
(* The two memcpy branches of cb_write, cb_peek and cb_read are kept: they *)
(* are where the ring wraps.  What a byte is does not matter here: the     *)
(* modules that use the ring store the cells their properties talk about.  *)
(***************************************************************************)
EXTENDS Integers, Sequences

CONSTANTS
  MaxSize,      \* data_max_size: the size cb_create was called with
  Unwritten     \* what malloc left in a byte that was never written

(* Every FIFO of the program has a positive compile-time size.             *)
ASSUME MaxSizeAssumption == MaxSize \in Nat \ {0}

Index == 0 .. MaxSize - 1

(* The rings whose bytes are taken from a set.                             *)
Ring(Byte) == [data : [Index -> Byte], data_rd : Index, data_wr : Index]

cb_create == [data |-> [i \in Index |-> Unwritten], data_rd |-> 0, data_wr |-> 0]

cb_writable_size(c) ==
  IF c.data_rd <= c.data_wr
  THEN MaxSize - c.data_wr + c.data_rd
  ELSE c.data_rd - c.data_wr

cb_readable_size(c) ==
  IF c.data_rd > c.data_wr
  THEN MaxSize - c.data_rd + c.data_wr
  ELSE c.data_wr - c.data_rd

(* A pointer moved over size bytes, in the two branches that cb_write and  *)
(* cb_read share: wrapped inside the copy, or not past the end.            *)
Advance(p, size) ==
  IF size > MaxSize - p
  THEN size - (MaxSize - p)
  ELSE IF p + size = MaxSize THEN 0 ELSE p + size

(* The bytes after s is copied in from wr on: to the end of data and, when *)
(* it is longer than that, on from its start.                              *)
Copied(data, wr, s) ==
  LET size_wr == MaxSize - wr
  IN  [i \in Index |->
         IF i >= wr /\ i < wr + Len(s) THEN s[i - wr + 1]
         ELSE IF i < Len(s) - size_wr THEN s[size_wr + i + 1]
         ELSE data[i]]

(* The ring after cb_write of the bytes s; a write that does not fit       *)
(* returns -1 and leaves the ring alone.                                   *)
cb_write(c, s) ==
  IF Len(s) > cb_writable_size(c)
  THEN c
  ELSE [data    |-> Copied(c.data, c.data_wr, s),
        data_rd |-> c.data_rd,
        data_wr |-> Advance(c.data_wr, Len(s))]

(* What cb_peek and cb_read copy out, for a size that is readable.         *)
cb_peek(c, size) ==
  LET rd_size == MaxSize - c.data_rd
  IN  IF size > rd_size
      THEN [i \in 1 .. size |-> IF i <= rd_size
                                THEN c.data[c.data_rd + i - 1]
                                ELSE c.data[i - rd_size - 1]]
      ELSE [i \in 1 .. size |-> c.data[c.data_rd + i - 1]]

(* The ring after cb_read of size bytes; a read of more than is readable   *)
(* returns -1 and leaves the ring alone.                                   *)
cb_read(c, size) ==
  IF size > cb_readable_size(c)
  THEN c
  ELSE [c EXCEPT !.data_rd = Advance(c.data_rd, size)]

-----------------------------------------------------------------------------
(***************************************************************************)
(* What a ring holds, independently of how calls wrap.                     *)
(***************************************************************************)

(* The index of the i-th byte from p on, counting from 0.                  *)
Slot(p, i) == IF p + i < MaxSize THEN p + i ELSE p + i - MaxSize

(* The i-th unread byte.                                                   *)
ByteAt(c, i) == c.data[Slot(c.data_rd, i)]

(* The unread bytes, oldest first.                                         *)
Contents(c) == [i \in 1 .. cb_readable_size(c) |-> ByteAt(c, i - 1)]

=============================================================================
