----------------------------- MODULE OutFifoProofs -----------------------------
(***************************************************************************)
(* Proofs about OutFifo, for every size of FIFO, AVIO buffer, packet, run  *)
(* and read.                                                               *)
(***************************************************************************)
EXTENDS OutFifo, CircularBufProofs, SequenceTheorems

(* The inductive invariant: besides the types, the bytes of the current    *)
(* call and run are accounted for, and until an exact fill the unread      *)
(* bytes are those of the stream that follow the file.                     *)
Accounted ==
  /\ flushed + buf_size + left = emitted * PktSize
  /\ mpc = "mux" => buf_size = 0
  /\ apc # "exited" => rounds < Rounds
  /\ mpc = "write" => buf_size <= cb_writable_size(out)

Follows ==
  /\ Len(outfile) + cb_readable_size(out) = flushed
  /\ \A i \in 1 .. Len(outfile) : outfile[i] = i
  /\ \A i \in 0 .. cb_readable_size(out) - 1 : ByteAt(out, i) = Len(outfile) + i + 1

IInv == TypeOK /\ Accounted /\ (filled \/ Follows)

LEMMA StreamBytesIsSeq ==
  ASSUME NEW from \in Nat, NEW n \in Nat
  PROVE  /\ StreamBytes(from, n) \in Seq(Byte)
         /\ Len(StreamBytes(from, n)) = n
         /\ \A i \in 0 .. n - 1 : StreamBytes(from, n)[i + 1] = from + i + 1
<1>1. StreamBytes(from, n) \in [1 .. n -> Byte]
  BY DEF StreamBytes, Byte
<1>2. ASSUME NEW i \in 0 .. n - 1
      PROVE  StreamBytes(from, n)[i + 1] = from + i + 1
  <2>1. i + 1 \in 1 .. n /\ from + (i + 1) = from + i + 1
    OBVIOUS
  <2> QED BY <2>1 DEF StreamBytes
<1> QED BY <1>1, <1>2

LEMMA FlushBounds ==
  ASSUME NEW n \in Nat
  PROVE  Flush(n) \in Nat /\ n - Flush(n) \in Nat
  BY SizesAssumption DEF Flush

LEMMA InitInv == Init => IInv
<1> SUFFICES ASSUME Init
             PROVE  IInv
  OBVIOUS
<1>1. out \in Ring(Byte) /\ cb_readable_size(out) = 0
  BY CreateIsEmpty DEF Init, Byte
<1>2. TypeOK
  <2>1. /\ emitted \in 0 .. MaxPackets /\ rounds \in 0 .. Rounds
        /\ left \in Nat /\ buf_size \in Nat /\ flushed \in Nat
    BY BoundsAssumption DEF Init
  <2>2. outfile \in Seq(Byte)
    BY DEF Init
  <2>3. filled \in BOOLEAN /\ eof \in BOOLEAN
    BY DEF Init
  <2> QED BY <1>1, <2>1, <2>2, <2>3 DEF Init, TypeOK
<1>3. Accounted
  BY SizesAssumption, BoundsAssumption DEF Init, Accounted
<1>4. Follows
  BY <1>1 DEF Init, Follows
<1> QED BY <1>2, <1>3, <1>4 DEF IInv

LEMMA MuxInv ==
  ASSUME IInv, NEW n \in Bursts, Mux(n)
  PROVE  IInv'
<1>1. /\ n \in Nat /\ emitted \in Nat /\ PktSize \in Nat
      /\ left = 0 /\ buf_size = 0 /\ flushed \in Nat
      /\ emitted' = emitted + n /\ buf_size' = Flush(n * PktSize)
      /\ left' = n * PktSize - buf_size'
      /\ mpc' = "ask" /\ flushed' = flushed /\ emitted' <= MaxPackets
      /\ out' = out /\ filled' = filled /\ outfile' = outfile
  BY BurstsAssumption, SizesAssumption, BoundsAssumption
  DEF Mux, IInv, TypeOK, Accounted, appvars
<1>2. n * PktSize \in Nat /\ buf_size' \in Nat /\ left' \in Nat
  <2>1. n * PktSize \in Nat
    BY <1>1
  <2> QED BY <1>1, <2>1, FlushBounds
<1>3. TypeOK'
  <2>1. emitted' \in 0 .. MaxPackets
    BY <1>1, BoundsAssumption
  <2> QED BY <1>1, <1>2, <2>1 DEF IInv, TypeOK, Mux, appvars
<1>4. Accounted'
  <2>0. apc' = apc /\ rounds' = rounds
    BY DEF Mux, appvars
  <2>1. (emitted + n) * PktSize = emitted * PktSize + n * PktSize
    BY <1>1
  <2>2. flushed = emitted * PktSize
    BY <1>1 DEF IInv, Accounted
  <2>3. flushed' + buf_size' + left' = flushed + n * PktSize
    BY <1>1, <1>2
  <2> QED BY <1>1, <2>0, <2>1, <2>2, <2>3 DEF IInv, Accounted
<1>5. (filled \/ Follows)'
  BY <1>1 DEF IInv, Follows
<1> QED BY <1>3, <1>4, <1>5 DEF IInv

LEMMA MuxOnInv ==
  ASSUME IInv, MuxOn
  PROVE  IInv'
<1>1. /\ left \in Nat /\ buf_size = 0 /\ flushed \in Nat
      /\ buf_size' = Flush(left) /\ left' = left - buf_size'
      /\ mpc' = "ask" /\ flushed' = flushed /\ emitted' = emitted
      /\ out' = out /\ filled' = filled /\ outfile' = outfile
  BY DEF MuxOn, IInv, TypeOK, Accounted, appvars
<1>2. buf_size' \in Nat /\ left' \in Nat
  BY <1>1, FlushBounds
<1>3. TypeOK'
  BY <1>1, <1>2 DEF IInv, TypeOK, MuxOn, appvars
<1>4. Accounted'
  <2>1. flushed' + buf_size' + left' = flushed + buf_size + left
    BY <1>1, <1>2
  <2> QED BY <1>1, <2>1 DEF IInv, Accounted, MuxOn, appvars
<1>5. (filled \/ Follows)'
  BY <1>1 DEF IInv, Follows
<1> QED BY <1>3, <1>4, <1>5 DEF IInv

LEMMA AskSpaceInv ==
  ASSUME IInv, AskSpace
  PROVE  IInv'
<1>1. TypeOK'
  BY DEF IInv, TypeOK, AskSpace, appvars
<1>2. Accounted'
  <2>1. out \in Ring(Byte) /\ cb_writable_size(out) \in Nat /\ buf_size \in Nat
    BY SizesAddUp, MaxSizeAssumption DEF IInv, TypeOK
  <2> QED BY <2>1 DEF IInv, Accounted, AskSpace, appvars
<1>3. (filled \/ Follows)'
  BY DEF IInv, Follows, AskSpace, appvars
<1> QED BY <1>1, <1>2, <1>3 DEF IInv

(* Before an exact fill write_fifo appends the bytes it is given.          *)
LEMMA WritePacketInv ==
  ASSUME IInv, WritePacket
  PROVE  IInv'
<1> DEFINE s == StreamBytes(flushed, buf_size)
           R == cb_readable_size(out)
<1>1. /\ out \in Ring(Byte) /\ flushed \in Nat /\ buf_size \in Nat
      /\ filled \in BOOLEAN /\ outfile \in Seq(Byte) /\ Len(outfile) \in Nat
      /\ R \in Nat /\ cb_writable_size(out) \in Nat /\ left \in Nat
      /\ buf_size <= cb_writable_size(out)
  BY SizesAddUp, MaxSizeAssumption DEF IInv, TypeOK, Accounted, WritePacket
<1>2. /\ s \in Seq(Byte) /\ Len(s) = buf_size
      /\ \A i \in 0 .. buf_size - 1 : s[i + 1] = flushed + i + 1
  BY <1>1, StreamBytesIsSeq
<1>3. out' = cb_write(out, s)
  BY <1>1, <1>2 DEF WritePacket, write_fifo
<1>4. /\ filled' = (filled \/ cb_writable_size(out) = buf_size)
      /\ flushed' = flushed + buf_size /\ buf_size' = 0 /\ mpc' = "mux"
      /\ emitted' = emitted /\ left' = left /\ outfile' = outfile
  BY DEF WritePacket, appvars
<1> HIDE DEF s
<1>5. out' \in Ring(Byte)
  BY <1>1, <1>2, <1>3, WriteTyped
<1>6. TypeOK'
  BY <1>1, <1>4, <1>5 DEF IInv, TypeOK, WritePacket, appvars
<1>7. Accounted'
  BY <1>1, <1>4 DEF IInv, Accounted, WritePacket, appvars
<1>8. ASSUME ~ filled'
      PROVE  Follows'
  <2>1. ~ filled /\ buf_size < cb_writable_size(out)
    <3>1. ~ filled /\ cb_writable_size(out) # buf_size
      BY <1>4, <1>8
    <3>2. buf_size \in Nat /\ cb_writable_size(out) \in Nat
          /\ buf_size <= cb_writable_size(out)
      BY <1>1
    <3> QED BY <3>1, <3>2
  <2>2. /\ Len(outfile) + R = flushed
        /\ \A i \in 1 .. Len(outfile) : outfile[i] = i
        /\ \A i \in 0 .. R - 1 : ByteAt(out, i) = Len(outfile) + i + 1
    BY <2>1 DEF IInv, Follows
  <2>3. /\ cb_readable_size(out') = R + buf_size
        /\ \A i \in 0 .. R - 1 : ByteAt(out', i) = ByteAt(out, i)
        /\ \A i \in 0 .. buf_size - 1 : ByteAt(out', R + i) = s[i + 1]
    <3>1. out \in Ring(Byte) /\ s \in Seq(Byte) /\ Len(s) < cb_writable_size(out)
      BY <1>1, <1>2, <2>1
    <3>2. /\ cb_readable_size(cb_write(out, s)) = R + Len(s)
          /\ \A i \in 0 .. R - 1 : ByteAt(cb_write(out, s), i) = ByteAt(out, i)
          /\ \A i \in 0 .. Len(s) - 1 : ByteAt(cb_write(out, s), R + i) = s[i + 1]
      BY <3>1, WriteAppends, Zenon
    <3> QED BY <1>2, <1>3, <3>2, Zenon
  <2>4. ASSUME NEW i \in 0 .. cb_readable_size(out') - 1
        PROVE  ByteAt(out', i) = Len(outfile) + i + 1
    <3>1. CASE i < R
      <4>1. i \in 0 .. R - 1
        BY <1>1, <3>1
      <4> QED BY <2>2, <2>3, <4>1
    <3>2. CASE i >= R
      <4> DEFINE j == i - R
      <4>1. j \in 0 .. buf_size - 1 /\ R + j = i
            /\ flushed + j + 1 = Len(outfile) + i + 1
        BY <1>1, <2>2, <2>3, <3>2
      <4> HIDE DEF j
      <4> QED BY <1>2, <2>3, <4>1
    <3> QED BY <1>1, <3>1, <3>2
  <2>5. Len(outfile) + cb_readable_size(out') = flushed + buf_size
    <3>1. Len(outfile) \in Nat /\ R \in Nat /\ buf_size \in Nat
      BY <1>1
    <3>2. Len(outfile) + R = flushed /\ cb_readable_size(out') = R + buf_size
      BY <2>2, <2>3
    <3> HIDE DEF R
    <3> QED BY <3>1, <3>2
  <2> QED BY <1>4, <2>2, <2>4, <2>5 DEF Follows
<1> QED BY <1>6, <1>7, <1>8 DEF IInv

LEMMA DrainInv ==
  ASSUME IInv, Drain
  PROVE  IInv'
<1> DEFINE R == cb_readable_size(out)
           n == ReadChunk
           p == cb_peek(out, n)
           L == Len(outfile)
<1>1. /\ out \in Ring(Byte) /\ outfile \in Seq(Byte) /\ L \in Nat
      /\ R \in Nat /\ n \in Nat /\ n <= R /\ n \in 0 .. R
      /\ cb_writable_size(out) \in Nat /\ cb_writable_size(out) = MaxSize - R
      /\ MaxSize \in Nat /\ buf_size \in Nat
  BY SizesAddUp, MaxSizeAssumption, SizesAssumption DEF IInv, TypeOK, Drain, CanRead
<1>2. /\ outfile' = outfile \o p /\ out' = cb_read(out, n)
      /\ mpc' = mpc /\ emitted' = emitted /\ left' = left
      /\ buf_size' = buf_size /\ flushed' = flushed /\ filled' = filled
  BY DEF Drain, muxvars
<1>3. p = [i \in 1 .. n |-> ByteAt(out, i - 1)]
  BY <1>1, PeekReturns
<1>4. /\ out' \in Ring(Byte) /\ cb_readable_size(out') = R - n
      /\ \A i \in 0 .. R - n - 1 : ByteAt(out', i) = ByteAt(out, n + i)
  BY <1>1, <1>2, ReadDrops
<1>5. /\ p \in Seq(Byte) /\ Len(p) = n
      /\ \A i \in 1 .. n : p[i] = ByteAt(out, i - 1)
  <2>1. ASSUME NEW i \in 1 .. n
        PROVE  ByteAt(out, i - 1) \in Byte
    <3>1. i - 1 \in Index
      BY <1>1, SizesAddUp, MaxSizeAssumption DEF Index
    <3> QED BY <1>1, <3>1, RingFields, PointerAlgebra DEF ByteAt
  <2>2. p \in [1 .. n -> Byte]
    BY <1>3, <2>1
  <2> QED BY <1>1, <1>3, <2>2
<1> HIDE DEF p
<1>6. /\ outfile' \in Seq(Byte) /\ Len(outfile') = L + n
      /\ \A i \in 1 .. L + n :
           outfile'[i] = IF i <= L THEN outfile[i] ELSE p[i - L]
  <2>1. outfile \in Seq(Byte) /\ p \in Seq(Byte) /\ Len(p) = n
    BY <1>1, <1>5
  <2> QED BY <1>2, <2>1, ConcatProperties
<1>7. TypeOK'
  BY <1>2, <1>4, <1>6 DEF IInv, TypeOK, Drain, muxvars
<1>8. Accounted'
  <2>1. cb_writable_size(out') >= cb_writable_size(out)
    BY <1>1, <1>4, SizesAddUp
  <2>2. cb_writable_size(out') \in Nat
    BY <1>4, SizesAddUp, MaxSizeAssumption
  <2> QED BY <1>1, <1>2, <2>1, <2>2 DEF IInv, Accounted, Drain
<1>9. ASSUME ~ filled
      PROVE  Follows'
  <2>1. /\ L + R = flushed
        /\ \A i \in 1 .. L : outfile[i] = i
        /\ \A i \in 0 .. R - 1 : ByteAt(out, i) = L + i + 1
    BY <1>9 DEF IInv, Follows
  <2>2. ASSUME NEW i \in 1 .. Len(outfile')
        PROVE  outfile'[i] = i
    <3>1. CASE i <= L
      BY <1>1, <1>6, <2>1, <3>1
    <3>2. CASE i > L
      <4> DEFINE j == i - L
      <4>1. j \in 1 .. n /\ j - 1 \in 0 .. R - 1 /\ L + (j - 1) + 1 = i /\ i \in 1 .. L + n
        BY <1>1, <1>6, <3>2
      <4>2. outfile'[i] = p[j]
        BY <1>1, <1>6, <3>2, <4>1
      <4> HIDE DEF j
      <4> QED BY <1>5, <2>1, <4>1, <4>2
    <3> QED BY <1>1, <1>6, <3>1, <3>2
  <2>3. ASSUME NEW i \in 0 .. cb_readable_size(out') - 1
        PROVE  ByteAt(out', i) = Len(outfile') + i + 1
    <3>1. i \in 0 .. R - n - 1 /\ n + i \in 0 .. R - 1
          /\ L + (n + i) + 1 = (L + n) + i + 1
      BY <1>1, <1>4
    <3> QED BY <1>4, <1>6, <2>1, <3>1
  <2>4. Len(outfile') + cb_readable_size(out') = flushed'
    BY <1>1, <1>2, <1>4, <1>6, <2>1
  <2> QED BY <2>2, <2>3, <2>4 DEF Follows
<1> QED BY <1>2, <1>7, <1>8, <1>9 DEF IInv

(* The application's other steps leave the bytes alone.                    *)
LEMMA AppInv ==
  ASSUME IInv, Look \/ DrainEnds \/ Wake \/ Feed \/ UNCHANGED vars
  PROVE  IInv'
<1>1. /\ out' = out /\ mpc' = mpc /\ emitted' = emitted /\ left' = left
      /\ buf_size' = buf_size /\ flushed' = flushed /\ outfile' = outfile
      /\ filled' = filled /\ program' = program
  BY DEF Look, DrainEnds, Wake, Feed, vars, muxvars
<1>2. /\ apc' \in {"look", "drain", "feed", "sleep", "exited"} /\ eof' \in BOOLEAN
  BY DEF Look, DrainEnds, Wake, DrainRound, Feed, vars, IInv, TypeOK
<1>3. rounds' \in 0 .. Rounds /\ (apc' # "exited" => rounds' < Rounds)
  <2>1. /\ rounds \in Nat /\ Rounds \in Nat /\ rounds <= Rounds
        /\ apc # "exited" => rounds < Rounds
    BY BoundsAssumption DEF IInv, TypeOK, Accounted
  <2>2. CASE Wake
    BY <2>1, <2>2 DEF Wake
  <2>3. CASE Look \/ DrainEnds \/ Feed
    BY <2>1, <2>3 DEF Look, DrainEnds, Feed
  <2>4. CASE UNCHANGED vars
    BY <2>1, <2>4 DEF vars
  <2> QED BY <2>2, <2>3, <2>4
<1>4. TypeOK'
  BY <1>1, <1>2, <1>3 DEF IInv, TypeOK
<1>5. Accounted'
  BY <1>1, <1>3 DEF IInv, Accounted
<1>6. (filled \/ Follows)'
  BY <1>1 DEF IInv, Follows
<1> QED BY <1>4, <1>5, <1>6 DEF IInv

LEMMA NextInv == IInv /\ [Next]_vars => IInv'
<1> SUFFICES ASSUME IInv, [Next]_vars
             PROVE  IInv'
  OBVIOUS
<1> QED BY MuxInv, MuxOnInv, AskSpaceInv, WritePacketInv, DrainInv, AppInv
        DEF Next, Muxer, App

(* The invariant holds in every state.                                     *)
THEOREM InductiveInvariant == Spec => []IInv
  BY InitInv, NextInv, PTL DEF Spec

-----------------------------------------------------------------------------
(* The FIFO, the two threads' locals and the file keep their types.        *)
THEOREM TypeCorrect == Spec => []TypeOK
<1>1. IInv => TypeOK
  BY DEF IInv
<1> QED BY <1>1, InductiveInvariant, PTL

(* Until an exact fill the output file is a prefix of what libavformat     *)
(* emitted, and no byte is missing between the two.                        *)
THEOREM OutputExactHolds == Spec => []OutputExact
<1>1. IInv => OutputExact
  <2> SUFFICES ASSUME IInv, ~ filled
               PROVE  /\ \A i \in 1 .. Len(outfile) : outfile[i] = i
                      /\ Len(outfile) + cb_readable_size(out) + buf_size + left
                           = emitted * PktSize
    BY DEF OutputExact
  <2>1. /\ Len(outfile) + cb_readable_size(out) = flushed
        /\ \A i \in 1 .. Len(outfile) : outfile[i] = i
    BY DEF IInv, Follows
  <2>2. flushed + buf_size + left = emitted * PktSize
    BY DEF IInv, Accounted
  <2> QED BY <2>1, <2>2
<1> QED BY <1>1, InductiveInvariant, PTL

(* Between its two critical sections write_packet_fn loses no room, so its *)
(* write_fifo never fails.                                                 *)
THEOREM AskedSpaceIsThereHolds == Spec => []AskedSpaceIsThere
<1>1. IInv => AskedSpaceIsThere
  BY SizesAddUp, MaxSizeAssumption DEF IInv, TypeOK, Accounted, AskedSpaceIsThere
<1> QED BY <1>1, InductiveInvariant, PTL

(* When no run is as long as the AVIO buffer, reads are whole packets and  *)
(* the FIFO is not a whole number of packets (188 does not divide          *)
(* 40000000, ts_muxer.c:17), no write fills the FIFO exactly, so that the  *)
(* output is exact without a proviso.                                      *)
THEOREM ShortRunsNeverFill ==
  ASSUME \A n \in Bursts : n * PktSize < AvioSize,
         Whole(ReadChunk, PktSize),
         ~ Whole(MaxSize, PktSize)
  PROVE  Spec => []NeverFilled
<1> DEFINE J == /\ ~ filled
                /\ left = 0
                /\ Whole(buf_size, PktSize)
                /\ Whole(cb_readable_size(out), PktSize)
<1>1. Whole(0, PktSize)
  <2>1. 0 = 0 * PktSize
    BY SizesAssumption
  <2> QED BY <2>1 DEF Whole
<1>2. Init => J
  <2> SUFFICES ASSUME Init
               PROVE  J
    OBVIOUS
  <2>1. cb_readable_size(out) = 0
    BY CreateIsEmpty DEF Init, Byte
  <2>2. ~ filled /\ left = 0 /\ buf_size = 0
    BY DEF Init
  <2> QED BY <1>1, <2>1, <2>2
<1>3. IInv /\ J /\ [Next]_vars => J'
  <2> SUFFICES ASSUME IInv, J, [Next]_vars
               PROVE  J'
    OBVIOUS
  <2>1. /\ out \in Ring(Byte) /\ buf_size \in Nat /\ flushed \in Nat /\ PktSize \in Nat
        /\ cb_readable_size(out) \in Nat /\ cb_writable_size(out) \in Nat
        /\ cb_writable_size(out) + cb_readable_size(out) = MaxSize
    BY SizesAddUp, MaxSizeAssumption, SizesAssumption DEF IInv, TypeOK
  <2>2. ASSUME NEW n \in Bursts, Mux(n)
        PROVE  J'
    <3>1. n \in Nat /\ n * PktSize \in Nat /\ n * PktSize < AvioSize
      <4>1. n \in Nat
        BY BurstsAssumption
      <4> QED BY <2>1, <4>1
    <3>2. Flush(n * PktSize) = n * PktSize
      BY <3>1, SizesAssumption DEF Flush
    <3>3. buf_size' = n * PktSize /\ left' = 0 /\ out' = out /\ filled' = filled
      BY <2>2, <3>1, <3>2 DEF Mux
    <3>4. Whole(n * PktSize, PktSize)
      BY <3>1 DEF Whole
    <3> QED BY <3>3, <3>4
  <2>3. CASE MuxOn
    BY <2>3 DEF MuxOn
  <2>4. CASE WritePacket
    <3> DEFINE s == StreamBytes(flushed, buf_size)
    <3>1. s \in Seq(Byte) /\ Len(s) = buf_size /\ buf_size <= cb_writable_size(out)
      BY <2>1, <2>4, StreamBytesIsSeq DEF IInv, Accounted, WritePacket
    <3>2. cb_writable_size(out) # buf_size
      BY <2>1, WholeSums
    <3>3. /\ ~ filled' /\ left' = left /\ buf_size' = 0
          /\ out' = cb_write(out, s)
      BY <2>1, <2>4, <3>1, <3>2 DEF WritePacket, write_fifo
    <3> HIDE DEF s
    <3>4. cb_readable_size(out') = cb_readable_size(out) + buf_size
      <4>1. Len(s) < cb_writable_size(out)
        BY <2>1, <3>1, <3>2
      <4> QED BY <2>1, <3>1, <3>3, <4>1, WriteAppends
    <3> QED BY <1>1, <2>1, <3>3, <3>4, WholeSums
  <2>5. CASE Drain
    <3>1. /\ ReadChunk \in 0 .. cb_readable_size(out) /\ ReadChunk \in Nat
      BY <2>1, <2>5, SizesAssumption DEF Drain, CanRead
    <3>2. cb_readable_size(out') = cb_readable_size(out) - ReadChunk
      BY <2>1, <2>5, <3>1, ReadDrops DEF Drain
    <3>3. filled' = filled /\ left' = left /\ buf_size' = buf_size
      BY <2>5 DEF Drain, muxvars
    <3> QED BY <2>1, <3>1, <3>2, <3>3, WholeSums
  <2>6. CASE AskSpace \/ Look \/ DrainEnds \/ Wake \/ Feed \/ UNCHANGED vars
    BY <2>6 DEF AskSpace, Look, DrainEnds, Wake, Feed, vars, muxvars
  <2> QED BY <2>2, <2>3, <2>4, <2>5, <2>6 DEF Next, Muxer, App
<1>4. J => NeverFilled
  BY DEF NeverFilled
<1> HIDE DEF J
<1> QED BY <1>2, <1>3, <1>4, InductiveInvariant, PTL DEF Spec

-----------------------------------------------------------------------------
(***************************************************************************)
(* A wait for room, and what ends it.                                      *)
(***************************************************************************)
HasRoom  == cb_writable_size(out) >= buf_size
Draining == apc \in {"look", "drain"}
Resting  == apc \in {"feed", "sleep"}

(* The FIFO has room for any write of avio beside a chunk that is not      *)
(* read.  avio's buffer is as large as the FIFO (ts_muxer.c:500 and 514),  *)
(* so this says that no run is longer than the FIFO less a chunk.          *)
RoomForAChunk == \A n \in Bursts : Flush(n * PktSize) + ReadChunk <= MaxSize

(* So it is for the write that comes, and for those of the run behind it.  *)
FitsAChunk ==
  /\ buf_size + ReadChunk <= MaxSize
  /\ Flush(left) + ReadChunk <= MaxSize

(* Less to write is not more in a write.                                   *)
LEMMA FlushGrows ==
  ASSUME NEW m \in Nat, NEW n \in Nat, m <= n
  PROVE  Flush(m) <= Flush(n) /\ Flush(m) \in Nat /\ Flush(n) \in Nat /\ Flush(m) <= m
  BY SizesAssumption DEF Flush

(* At the start there is nothing to write.                                 *)
LEMMA FitsInit ==
  ASSUME Init, ReadChunk <= MaxSize
  PROVE  FitsAChunk
<1>1. buf_size = 0 /\ left = 0 /\ Flush(0) = 0
  BY SizesAssumption DEF Init, Flush
<1>. QED  BY <1>1, SizesAssumption, MaxSizeAssumption DEF FitsAChunk

(* Every write that avio asks for fits.                                    *)
LEMMA FitsStep ==
  ASSUME IInv, FitsAChunk, RoomForAChunk, ReadChunk <= MaxSize, [Next]_vars
  PROVE  FitsAChunk'
<1>1. /\ left \in Nat /\ buf_size \in Nat /\ ReadChunk \in Nat /\ PktSize \in Nat /\ MaxSize \in Nat
  BY SizesAssumption, MaxSizeAssumption DEF IInv, TypeOK
<1>2. ASSUME NEW n \in Bursts, Mux(n)
      PROVE  FitsAChunk'
  <2>1. n * PktSize \in Nat
    <3>1. n \in Nat
      BY BurstsAssumption
    <3>. QED  BY <1>1, <3>1
  <2>2. buf_size' = Flush(n * PktSize) /\ left' = n * PktSize - Flush(n * PktSize)
    BY <1>2 DEF Mux
  <2>3. Flush(n * PktSize) + ReadChunk <= MaxSize
    BY DEF RoomForAChunk
  <2>. DEFINE run == n * PktSize
  <2>4. run \in Nat /\ buf_size' = Flush(run) /\ left' = run - Flush(run)
        /\ Flush(run) + ReadChunk <= MaxSize
    BY <2>1, <2>2, <2>3
  <2>. HIDE DEF run
  <2>5. Flush(run) \in Nat /\ Flush(run) <= run
    BY <2>4, FlushGrows
  <2>6. left' \in Nat /\ left' <= run
    BY <2>4, <2>5
  <2>7. Flush(left') <= Flush(run) /\ Flush(left') \in Nat
    BY <2>4, <2>6, FlushGrows
  <2>8. Flush(left)' = Flush(left')
    BY DEF Flush
  <2>. QED  BY <1>1, <2>4, <2>5, <2>7, <2>8 DEF FitsAChunk
<1>3. CASE MuxOn
  <2>1. buf_size' = Flush(left) /\ left' = left - Flush(left)
    BY <1>3 DEF MuxOn
  <2>2. Flush(left) \in Nat /\ Flush(left) <= left /\ Flush(left) + ReadChunk <= MaxSize
    BY <1>1, FlushGrows DEF FitsAChunk
  <2>3. left' \in Nat /\ left' <= left
    BY <1>1, <2>1, <2>2
  <2>4. Flush(left') <= Flush(left) /\ Flush(left') \in Nat
    BY <1>1, <2>3, FlushGrows
  <2>5. Flush(left)' = Flush(left')
    BY DEF Flush
  <2>. QED  BY <1>1, <2>1, <2>2, <2>4, <2>5 DEF FitsAChunk
<1>4. CASE AskSpace \/ WritePacket \/ App \/ UNCHANGED vars
  <2>1. left' = left /\ (buf_size' = buf_size \/ buf_size' = 0)
    BY <1>4 DEF AskSpace, WritePacket, App, Look, Drain, DrainEnds, Wake, Feed,
                vars, muxvars, appvars
  <2>2. Flush(left)' = Flush(left)
    BY <2>1 DEF Flush
  <2>3. buf_size' + ReadChunk <= MaxSize
    <3>1. buf_size + ReadChunk <= MaxSize
      BY DEF FitsAChunk
    <3>. QED  BY <1>1, <2>1, <3>1
  <2>. QED  BY <2>2, <2>3 DEF FitsAChunk
<1>. QED  BY <1>2, <1>3, <1>4 DEF Next, Muxer

(* While write_packet_fn waits for room, room that is there stays, and an  *)
(* application that stops draining has made it: what it leaves unread is   *)
(* less than a chunk, or in Python a chunk.                                *)
LEMMA DrainedIsRoom ==
  ASSUME IInv, FitsAChunk, mpc = "ask", mpc' = "ask", [Next]_vars
  PROVE  /\ HasRoom => HasRoom'
         /\ (Draining /\ Resting') => HasRoom'
<1>1. /\ out \in Ring(Byte) /\ buf_size \in Nat /\ ReadChunk \in Nat /\ MaxSize \in Nat
      /\ cb_readable_size(out) \in Nat /\ cb_writable_size(out) \in Nat
      /\ cb_writable_size(out) + cb_readable_size(out) = MaxSize
      /\ buf_size + ReadChunk <= MaxSize
  BY SizesAddUp, MaxSizeAssumption, SizesAssumption DEF IInv, TypeOK, FitsAChunk
<1>2. ASSUME NEW n \in Bursts, Mux(n)
      PROVE  FALSE
  BY <1>2 DEF Mux
<1>3. ~MuxOn /\ ~AskSpace /\ ~WritePacket
  BY DEF MuxOn, AskSpace, WritePacket
<1>4. CASE Drain
  <2>1. ReadChunk \in 0 .. cb_readable_size(out) /\ out' = cb_read(out, ReadChunk)
        /\ buf_size' = buf_size /\ apc' = "drain"
    BY <1>1, <1>4 DEF Drain, CanRead, muxvars
  <2>2. cb_readable_size(out') = cb_readable_size(out) - ReadChunk /\ out' \in Ring(Byte)
    BY <1>1, <2>1, ReadDrops
  <2>3. cb_writable_size(out') + cb_readable_size(out') = MaxSize /\ cb_writable_size(out') \in Nat
    BY <2>2, SizesAddUp, MaxSizeAssumption
  <2>4. cb_writable_size(out') >= cb_writable_size(out)
    BY <1>1, <2>2, <2>3
  <2>5. cb_writable_size(out)' = cb_writable_size(out')
    BY DEF cb_writable_size
  <2>6. HasRoom => HasRoom'
    BY <1>1, <2>1, <2>3, <2>4, <2>5 DEF HasRoom
  <2>7. ~Resting'
    BY <2>1 DEF Resting
  <2>. QED  BY <2>6, <2>7
<1>5. CASE Look \/ DrainEnds
  <2>1. out' = out /\ buf_size' = buf_size
    BY <1>5 DEF Look, DrainEnds, muxvars
  <2>2. HasRoom' = HasRoom
    BY <2>1 DEF HasRoom, cb_writable_size
  <2>3. Resting' => cb_readable_size(out) <= ReadChunk
    BY <1>1, <1>5 DEF Look, DrainEnds, CanRead, Resting
  <2>4. cb_readable_size(out) <= ReadChunk => HasRoom
    BY <1>1 DEF HasRoom
  <2>. QED  BY <2>2, <2>3, <2>4
<1>6. CASE Wake \/ Feed \/ UNCHANGED vars
  <2>1. out' = out /\ buf_size' = buf_size
    BY <1>6 DEF Wake, Feed, muxvars, vars
  <2>2. HasRoom' = HasRoom
    BY <2>1 DEF HasRoom, cb_writable_size
  <2>3. ~ (Draining /\ Resting')
    BY <1>6 DEF Wake, Feed, vars, Draining, Resting
  <2>. QED  BY <2>2, <2>3
<1>. QED  BY <1>2, <1>3, <1>4, <1>5, <1>6 DEF Next, Muxer, App

(* A round of draining does not end before there is room for the write     *)
(* that the muxing thread waits to make.                                   *)
RoundMakesRoom ==
  [][(mpc = "ask" /\ mpc' = "ask" /\ Draining /\ Resting') => HasRoom']_vars

(* It holds in every behaviour, with any FIFO that is large enough.        *)
THEOREM RoundMakesRoomHolds ==
  ASSUME RoomForAChunk, ReadChunk <= MaxSize
  PROVE  Spec => RoundMakesRoom
<1>1. Init => FitsAChunk
  BY FitsInit
<1>2. IInv /\ FitsAChunk /\ [Next]_vars => FitsAChunk'
  BY FitsStep
<1>3. IInv /\ FitsAChunk /\ [Next]_vars
        => [(mpc = "ask" /\ mpc' = "ask" /\ Draining /\ Resting') => HasRoom']_vars
  BY DrainedIsRoom
<1>. QED  BY <1>1, <1>2, <1>3, InductiveInvariant, PTL DEF Spec, RoundMakesRoom

(* Neither thread stops without a reason: a write with room is made, and   *)
(* while it waits the application neither drains nor rests for ever, for   *)
(* there is less and less to read, and its sleeps are bounded.             *)
ThreadsTurn ==
  /\ []<>~(mpc = "ask" /\ Alive /\ HasRoom)
  /\ []<>~(mpc = "ask" /\ Draining)
  /\ []<>~(mpc = "ask" /\ Resting)

(* With threads that go on like this write_packet_fn waits for no room     *)
(* that nobody makes, whatever the sizes.                                  *)
THEOREM WaitsWhileThreadsTurn ==
  ASSUME RoomForAChunk, ReadChunk <= MaxSize
  PROVE  (Spec /\ ThreadsTurn) => WaitsTillWritten
<1>. DEFINE Ask   == mpc = "ask"
            Write == mpc = "write"
<1>1. Init => FitsAChunk
  BY FitsInit
<1>2. IInv /\ FitsAChunk /\ [Next]_vars => FitsAChunk'
  BY FitsStep
<1>3. IInv /\ FitsAChunk /\ Ask /\ Ask' /\ [Next]_vars
        => (HasRoom => HasRoom') /\ (Draining /\ Resting' => HasRoom')
  BY DrainedIsRoom
<1>4. Ask /\ [Next]_vars => (Ask' \/ Write')
  BY DEF Next, Muxer, App, Mux, MuxOn, AskSpace, WritePacket, Look, Drain, DrainEnds, Wake,
         Feed, vars, muxvars, appvars
<1>5. IInv => (~Alive \/ Draining \/ Resting)
  BY DEF IInv, TypeOK, Alive, Draining, Resting
<1>6. ThreadsTurn <=> /\ []<>~(Ask /\ Alive /\ HasRoom)
                      /\ []<>~(Ask /\ Draining)
                      /\ []<>~(Ask /\ Resting)
  BY DEF ThreadsTurn
<1>7. WaitsTillWritten <=> (Ask ~> (Write \/ ~Alive))
  BY DEF WaitsTillWritten
<1>8. Draining => ~Resting
  BY DEF Draining, Resting
<1>. HIDE DEF Ask, Write
<1>. QED
  BY <1>1, <1>2, <1>3, <1>4, <1>5, <1>6, <1>7, <1>8, InductiveInvariant, PTL DEF Spec
=============================================================================
