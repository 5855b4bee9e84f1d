---------------------------- MODULE TsWriterProofs ----------------------------
(***************************************************************************)
(* Theorems about TsPacket and TsWriter.  A packet of a PES is whole, and  *)
(* a clock reference is coded exactly and read back.  For any number of    *)
(* streams, any units, rates and periods: the types; what is gathered      *)
(* neither overruns its memory nor waits too long, and fits the limits;    *)
(* every unit is written once and in order; the counters are continuous;   *)
(* the clock is one and goes forward; padding leaves time for all that     *)
(* waits, and no clock reference is behind the dts of its PES if the calls *)
(* have time for them; key frames are behind tables; and every turn of the *)
(* loop brings its end nearer.                                             *)
(***************************************************************************)
EXTENDS TsWriter, WellFoundedInduction, TLAPS

-----------------------------------------------------------------------------
(* A set of naturals that is not empty has a least element.                *)
LEMMA LeastElement ==
  ASSUME NEW T \in SUBSET Nat, T # {}
  PROVE  \E x \in T : \A y \in T : x <= y
<1>. DEFINE R == OpToRel(<, Nat)
<1>1. \A x, y \in Nat : y < x => <<y, x>> \in R
  BY DEF OpToRel
<1>2. IsWellFoundedOn(R, Nat)
  BY NatLessThanWellFounded
<1>. HIDE DEF R
<1>3. PICK x \in T : \A y \in T : ~ (<<y, x>> \in R)
  BY <1>2, WFMin
<1>4. ASSUME NEW y \in T
      PROVE  x <= y
  <2>1. x \in Nat /\ y \in Nat
    OBVIOUS
  <2>2. ~ (y < x)
    BY <1>1, <1>3, <2>1
  <2>. QED  BY <2>1, <2>2
<1>. QED  BY <1>4

(* Induction up to m, for a set in place of a predicate.                   *)
LEMMA InductionTo ==
  ASSUME NEW m \in Nat, NEW T,
         0 \in T,
         \A i \in 0 .. m - 1 : i \in T => i + 1 \in T
  PROVE  \A i \in 0 .. m : i \in T
<1>. DEFINE U == {i \in 0 .. m : i \notin T}
<1>1. SUFFICES ASSUME U # {}
               PROVE  FALSE
  OBVIOUS
<1>2. PICK x \in U : \A y \in U : x <= y
  <2>1. U \in SUBSET Nat
    OBVIOUS
  <2>. HIDE DEF U
  <2>. QED  BY <1>1, <2>1, LeastElement
<1>3. x # 0
  OBVIOUS
<1>4. x - 1 \in 0 .. m - 1 /\ x - 1 \in T
  BY <1>2, <1>3
<1>. QED  BY <1>4

(* A set of positions that is not empty has a last one.                    *)
LEMMA LastPosition ==
  ASSUME NEW n \in Nat, NEW S, S \subseteq 1 .. n, S # {}
  PROVE  \E m \in S : \A i \in S : i <= m
<1>. DEFINE T == {n - i : i \in S}
<1>1. \A i \in S : n - i \in Nat
  OBVIOUS
<1>2. T \in SUBSET Nat /\ T # {}
  BY <1>1
<1>. HIDE DEF T
<1>3. PICK x \in T : \A y \in T : x <= y
  BY <1>2, LeastElement
<1>4. PICK m \in S : x = n - m
  BY <1>3 DEF T
<1>5. ASSUME NEW i \in S
      PROVE  i <= m
  <2>1. n - i \in T
    BY DEF T
  <2>2. x <= n - i
    BY <1>3, <2>1
  <2>3. i \in Int /\ m \in Int
    OBVIOUS
  <2>. QED  BY <1>4, <2>2, <2>3
<1>. QED  BY <1>5

-----------------------------------------------------------------------------
(* The sum of the first n numbers of f: it exists,                         *)
IsTotal(sum, f, n) ==
  sum = [k \in 0 .. n |-> IF k = 0 THEN 0 ELSE sum[k - 1] + f[k]]

LEMMA TotalExists ==
  ASSUME NEW n \in Nat, NEW f, \A k \in 1 .. n : f[k] \in Nat
  PROVE  \E sum \in [0 .. n -> Nat] : IsTotal(sum, f, n)
<1>. DEFINE T == {m \in 0 .. n : \E sum \in [0 .. m -> Nat] : IsTotal(sum, f, m)}
<1>1. 0 \in T
  <2>. DEFINE zero == [k \in 0 .. 0 |-> 0]
  <2>1. zero \in [0 .. 0 -> Nat]
    OBVIOUS
  <2>2. IsTotal(zero, f, 0)
    BY DEF IsTotal
  <2>. QED  BY <2>1, <2>2
<1>2. ASSUME NEW i \in 0 .. n - 1, i \in T
      PROVE  i + 1 \in T
  <2>1. PICK g \in [0 .. i -> Nat] : IsTotal(g, f, i)
    BY <1>2
  <2>2. f[i + 1] \in Nat
    OBVIOUS
  <2>. DEFINE h == [k \in 0 .. i + 1 |-> IF k = i + 1 THEN g[i] + f[i + 1] ELSE g[k]]
  <2>3. h \in [0 .. i + 1 -> Nat]
    BY <2>1, <2>2
  <2>4. ASSUME NEW k \in 0 .. i + 1
        PROVE  h[k] = IF k = 0 THEN 0 ELSE h[k - 1] + f[k]
    BY <2>1 DEF IsTotal
  <2>5. IsTotal(h, f, i + 1)
    BY <2>4 DEF IsTotal
  <2>. HIDE DEF h
  <2>. QED  BY <2>3, <2>5
<1>. HIDE DEF T
<1>3. \A i \in 0 .. n : i \in T
  BY <1>1, <1>2, InductionTo
<1>4. n \in T
  BY <1>3
<1>. QED  BY <1>4 DEF T

(* and there is one only.                                                  *)
LEMMA TotalUnique ==
  ASSUME NEW n \in Nat, NEW f, NEW g, NEW a, NEW b, NEW m \in Nat, n <= m,
         \A k \in 1 .. n : f[k] = g[k],
         IsTotal(a, f, m), IsTotal(b, g, n)
  PROVE  \A k \in 0 .. n : a[k] = b[k]
<1>. DEFINE T == {k \in 0 .. n : a[k] = b[k]}
<1>1. 0 \in T
  BY DEF IsTotal
<1>2. ASSUME NEW i \in 0 .. n - 1, i \in T
      PROVE  i + 1 \in T
  <2>1. a[i + 1] = a[i] + f[i + 1]
    BY DEF IsTotal
  <2>2. b[i + 1] = b[i] + g[i + 1]
    BY DEF IsTotal
  <2>. QED  BY <1>2, <2>1, <2>2
<1>3. \A k \in 0 .. n : k \in T
  <2>. HIDE DEF T
  <2>. QED  BY <1>1, <1>2, InductionTo
<1>. QED  BY <1>3

(* and so it is what Total stands for.                                     *)
LEMMA TotalIs ==
  ASSUME NEW n \in Nat, NEW f, \A k \in 1 .. n : f[k] \in Nat
  PROVE  \E sum \in [0 .. n -> Nat] : IsTotal(sum, f, n) /\ Total(f, n) = sum[n]
<1>. DEFINE sum == CHOOSE g : g = [k \in 0 .. n |-> IF k = 0 THEN 0 ELSE g[k - 1] + f[k]]
<1>1. PICK g \in [0 .. n -> Nat] : IsTotal(g, f, n)
  BY TotalExists
<1>2. IsTotal(sum, f, n)
  BY <1>1 DEF IsTotal
<1>3. Total(f, n) = sum[n]
  BY DEF Total
<1>. HIDE DEF sum
<1>4. Total(f, n) = g[n]
  BY <1>1, <1>2, <1>3, TotalUnique
<1>. QED  BY <1>1, <1>4

(* What is put behind others adds what it has.                             *)
LEMMA TotalStep ==
  ASSUME NEW n \in Nat, NEW f, NEW g,
         \A k \in 1 .. n : f[k] \in Nat,
         \A k \in 1 .. n + 1 : g[k] \in Nat,
         \A k \in 1 .. n : f[k] = g[k]
  PROVE  /\ Total(f, n) \in Nat
         /\ Total(g, n + 1) = Total(f, n) + g[n + 1]
<1>1. PICK a \in [0 .. n -> Nat] : IsTotal(a, f, n) /\ Total(f, n) = a[n]
  BY TotalIs
<1>2. PICK b \in [0 .. n + 1 -> Nat] : IsTotal(b, g, n + 1) /\ Total(g, n + 1) = b[n + 1]
  <2>1. n + 1 \in Nat
    OBVIOUS
  <2>. QED  BY <2>1, TotalIs
<1>3. a[n] = b[n]
  <2>1. \A k \in 0 .. n : b[k] = a[k]
    BY <1>1, <1>2, TotalUnique
  <2>. QED  BY <2>1
<1>4. b[n + 1] = b[n] + g[n + 1]
  BY <1>2 DEF IsTotal
<1>. QED  BY <1>1, <1>2, <1>3, <1>4

-----------------------------------------------------------------------------
(* q lists those of the first n streams that are chosen, in order.         *)
Lists(q, chosen, n) ==
  /\ q \in Seq(chosen \cap 1 .. n)
  /\ \A a, b \in 1 .. Len(q) : a < b => q[a] < q[b]
  /\ \A i \in chosen \cap 1 .. n : \E a \in 1 .. Len(q) : q[a] = i

(* Behind the list of the first n comes the next one, if it is chosen.     *)
LEMMA ListsStep ==
  ASSUME NEW n \in Nat, NEW chosen, NEW q, Lists(q, chosen, n)
  PROVE  /\ n + 1 \in chosen => Lists(Append(q, n + 1), chosen, n + 1)
         /\ n + 1 \notin chosen => Lists(q, chosen, n + 1)
<1>1. q \in Seq(chosen \cap 1 .. n + 1)
  <2>1. chosen \cap 1 .. n \subseteq chosen \cap 1 .. n + 1
    OBVIOUS
  <2>. QED  BY <2>1 DEF Lists
<1>2. \A a \in 1 .. Len(q) : q[a] \in 1 .. n
  BY DEF Lists
<1>3. ASSUME n + 1 \in chosen
      PROVE  Lists(Append(q, n + 1), chosen, n + 1)
  <2>. DEFINE r == Append(q, n + 1)
  <2>1. r \in Seq(chosen \cap 1 .. n + 1) /\ Len(r) = Len(q) + 1
    BY <1>1, <1>3
  <2>2. r[Len(q) + 1] = n + 1 /\ \A a \in 1 .. Len(q) : r[a] = q[a]
    BY <1>1
  <2>. HIDE DEF r
  <2>3. Len(q) \in Nat
    BY <1>1
  <2>4. ASSUME NEW a \in 1 .. Len(r), NEW b \in 1 .. Len(r), a < b
        PROVE  r[a] < r[b]
    <3>1. a \in 1 .. Len(q) /\ r[a] = q[a]
      BY <2>1, <2>2, <2>3, <2>4
    <3>2. CASE b = Len(q) + 1
      <4>1. q[a] \in 1 .. n
        BY <1>2, <3>1
      <4>. QED  BY <2>2, <3>1, <3>2, <4>1
    <3>3. CASE b # Len(q) + 1
      <4>1. b \in 1 .. Len(q) /\ r[b] = q[b]
        BY <2>1, <2>2, <2>3, <3>3
      <4>. QED  BY <2>4, <3>1, <4>1 DEF Lists
    <3>. QED  BY <3>2, <3>3
  <2>5. ASSUME NEW i \in chosen \cap 1 .. n + 1
        PROVE  \E a \in 1 .. Len(r) : r[a] = i
    <3>1. CASE i = n + 1
      BY <2>1, <2>2, <2>3, <3>1
    <3>2. CASE i # n + 1
      <4>0. i \in chosen \cap 1 .. n
        BY <3>2
      <4>1. PICK a \in 1 .. Len(q) : q[a] = i
        BY <4>0 DEF Lists
      <4>2. a \in 1 .. Len(r) /\ r[a] = i
        BY <2>1, <2>2, <2>3, <4>1
      <4>. QED  BY <4>2
    <3>. QED  BY <3>1, <3>2
  <2>6. Lists(r, chosen, n + 1)
    BY <2>1, <2>4, <2>5 DEF Lists
  <2>. QED  BY <2>6 DEF r
<1>4. ASSUME n + 1 \notin chosen
      PROVE  Lists(q, chosen, n + 1)
  <2>1. \A i \in chosen \cap 1 .. n + 1 : i \in chosen \cap 1 .. n
    BY <1>4
  <2>. QED  BY <1>1, <2>1 DEF Lists
<1>. QED  BY <1>3, <1>4

(* The loop over the streams finds every chosen stream once, in order.     *)
IsUpto(upto, chosen, n) ==
  upto = [i \in 0 .. n |->
            IF i = 0 THEN << >>
            ELSE IF i \in chosen THEN Append(upto[i - 1], PesOf(i)) ELSE upto[i - 1]]

ListsPes(pes, chosen, n) ==
  \E q : Lists(q, chosen, n) /\ pes = [k \in 1 .. Len(q) |-> PesOf(q[k])]

(* As far as the loop has come, it has the PES of the streams it found:    *)
LEMMA UptoLists ==
  ASSUME NEW n \in Nat, NEW chosen, NEW upto, IsUpto(upto, chosen, n)
  PROVE  \A i \in 0 .. n : ListsPes(upto[i], chosen, i)
<1>. DEFINE T == {i \in 0 .. n : \E q : /\ Lists(q, chosen, i)
                                        /\ upto[i] = [k \in 1 .. Len(q) |-> PesOf(q[k])]}
<1>1. 0 \in T
  <2>1. Lists(<< >>, chosen, 0)
    BY DEF Lists
  <2>2. upto[0] = << >>
    BY DEF IsUpto
  <2>3. << >> = [k \in 1 .. Len(<< >>) |-> PesOf(<< >>[k])]
    OBVIOUS
  <2>. QED  BY <2>1, <2>2, <2>3
<1>2. ASSUME NEW i \in 0 .. n - 1, i \in T
      PROVE  i + 1 \in T
  <2>1. PICK q : Lists(q, chosen, i) /\ upto[i] = [k \in 1 .. Len(q) |-> PesOf(q[k])]
    BY <1>2
  <2>2. upto[i + 1] = IF i + 1 \in chosen THEN Append(upto[i], PesOf(i + 1)) ELSE upto[i]
    <3>1. i + 1 \in 0 .. n /\ i + 1 # 0 /\ (i + 1) - 1 = i
      OBVIOUS
    <3>. QED  BY <3>1, Zenon DEF IsUpto
  <2>3. Len(q) \in Nat /\ q \in Seq(chosen \cap 1 .. i)
    BY <2>1 DEF Lists
  <2>4. CASE i + 1 \in chosen
    <3>. DEFINE r == Append(q, i + 1)
    <3>1. Lists(r, chosen, i + 1)
      BY <2>1, <2>4, ListsStep
    <3>2. Len(r) = Len(q) + 1 /\ r[Len(q) + 1] = i + 1 /\ \A k \in 1 .. Len(q) : r[k] = q[k]
      BY <2>3
    <3>. HIDE DEF r
    <3>3. upto[i + 1] = Append([k \in 1 .. Len(q) |-> PesOf(q[k])], PesOf(i + 1))
      BY <2>1, <2>2, <2>4
    <3>4. Append([k \in 1 .. Len(q) |-> PesOf(q[k])], PesOf(i + 1))
            = [k \in 1 .. Len(r) |-> PesOf(r[k])]
      BY <2>3, <3>2
    <3>5. i + 1 \in 0 .. n
      OBVIOUS
    <3>6. upto[i + 1] = [k \in 1 .. Len(r) |-> PesOf(r[k])]
      BY <3>3, <3>4, Zenon
    <3>. QED  BY <3>1, <3>5, <3>6, Zenon
  <2>5. CASE i + 1 \notin chosen
    <3>1. Lists(q, chosen, i + 1)
      BY <2>1, <2>5, ListsStep
    <3>2. i + 1 \in 0 .. n /\ upto[i + 1] = [k \in 1 .. Len(q) |-> PesOf(q[k])]
      BY <2>1, <2>2, <2>5
    <3>. QED  BY <3>1, <3>2, Zenon
  <2>. QED  BY <2>4, <2>5
<1>3. \A i \in 0 .. n : i \in T
  <2>. HIDE DEF T
  <2>. QED  BY <1>1, <1>2, InductionTo
<1>. QED  BY <1>3 DEF ListsPes

(* such a sequence of sequences exists,                                    *)
LEMMA UptoExists ==
  ASSUME NEW n \in Nat, NEW chosen
  PROVE  \E upto : IsUpto(upto, chosen, n)
<1>. DEFINE T == {i \in 0 .. n : \E upto : IsUpto(upto, chosen, i)}
<1>1. 0 \in T
  <2>. DEFINE none == [k \in 0 .. 0 |-> << >>]
  <2>1. IsUpto(none, chosen, 0)
    BY DEF IsUpto
  <2>. QED  BY <2>1
<1>2. ASSUME NEW i \in 0 .. n - 1, i \in T
      PROVE  i + 1 \in T
  <2>1. PICK g : IsUpto(g, chosen, i)
    BY <1>2
  <2>. DEFINE h == [k \in 0 .. i + 1 |->
                      IF k = i + 1
                      THEN IF k \in chosen THEN Append(g[i], PesOf(k)) ELSE g[i]
                      ELSE g[k]]
  <2>2. ASSUME NEW k \in 0 .. i + 1
        PROVE  h[k] = IF k = 0 THEN << >>
                      ELSE IF k \in chosen THEN Append(h[k - 1], PesOf(k)) ELSE h[k - 1]
    <3>1. CASE k = i + 1
      <4>1. k # 0 /\ k - 1 = i /\ i # i + 1 /\ i \in 0 .. i + 1
        BY <3>1
      <4>2. h[k] = IF k \in chosen THEN Append(g[i], PesOf(k)) ELSE g[i]
        BY <3>1
      <4>3. h[k - 1] = g[i]
        BY <4>1
      <4>. HIDE DEF h
      <4>. QED  BY <4>1, <4>2, <4>3
    <3>2. CASE k # i + 1
      <4>1. k \in 0 .. i /\ h[k] = g[k]
        BY <3>2
      <4>2. k # 0 => h[k - 1] = g[k - 1]
        BY <4>1
      <4>3. g[k] = IF k = 0 THEN << >>
                   ELSE IF k \in chosen THEN Append(g[k - 1], PesOf(k)) ELSE g[k - 1]
        BY <2>1, <4>1, Zenon DEF IsUpto
      <4>. HIDE DEF h
      <4>. QED  BY <4>1, <4>2, <4>3
    <3>. QED  BY <3>1, <3>2
  <2>3. IsUpto(h, chosen, i + 1)
    BY <2>2 DEF IsUpto
  <2>. HIDE DEF h
  <2>. QED  BY <2>3
<1>3. \A i \in 0 .. n : i \in T
  <2>. HIDE DEF T
  <2>. QED  BY <1>1, <1>2, InductionTo
<1>. QED  BY <1>3

(* and the last of them is PesOfAll.                                       *)
LEMMA PesOfAllLists ==
  ASSUME NEW chosen \in SUBSET Streams
  PROVE  ListsPes(PesOfAll(chosen), chosen, NumStreams)
<1>. DEFINE upto == CHOOSE g : g = [i \in 0 .. NumStreams |->
                       IF i = 0 THEN << >>
                       ELSE IF i \in chosen THEN Append(g[i - 1], PesOf(i)) ELSE g[i - 1]]
<1>1. NumStreams \in Nat
  BY StreamsAssumption
<1>2. IsUpto(upto, chosen, NumStreams)
  BY <1>1, UptoExists DEF IsUpto
<1>3. PesOfAll(chosen) = upto[NumStreams]
  BY DEF PesOfAll
<1>. HIDE DEF upto
<1>4. NumStreams \in 0 .. NumStreams
  BY <1>1
<1>5. \A i \in 0 .. NumStreams : ListsPes(upto[i], chosen, i)
  BY <1>1, <1>2, UptoLists
<1>. QED  BY <1>3, <1>4, <1>5

-----------------------------------------------------------------------------
(* The longest headers leave room for payload.                             *)
LEMMA HeaderBound ==
  ASSUME NEW random_access \in BOOLEAN, NEW write_pcr \in BOOLEAN,
         NEW is_start \in BOOLEAN, NEW own_dts \in BOOLEAN, NEW pes_extension \in BOOLEAN
  PROVE  /\ AfBytes(random_access, write_pcr) \in Nat
         /\ PesHeader(is_start, own_dts, pes_extension) \in Nat
         /\ TsHeader + AfBytes(random_access, write_pcr)
              + PesHeader(is_start, own_dts, pes_extension) \in 4 .. 34
<1>1. AfBytes(random_access, write_pcr) \in {0, 2, 8}
  BY DEF AfBytes
<1>2. PesHeader(is_start, own_dts, pes_extension) \in {0, 14, 17, 19, 22}
  BY DEF PesHeader
<1>. QED  BY <1>1, <1>2 DEF TsHeader

(* Whatever its flags and however little payload is left, a packet written *)
(* by mpegts_write_pes is TS_PACKET_SIZE bytes, its adaptation field's     *)
(* length is right, and it carries a byte of payload at least, so that the *)
(* loop over the payload ends.                                             *)
THEOREM PacketIsFull ==
  ASSUME NEW random_access \in BOOLEAN, NEW write_pcr \in BOOLEAN,
         NEW is_start \in BOOLEAN, NEW own_dts \in BOOLEAN, NEW pes_extension \in BOOLEAN,
         NEW left \in Nat \ {0}
  PROVE  LET p == PesPacket(AfBytes(random_access, write_pcr),
                            PesHeader(is_start, own_dts, pes_extension), left)
         IN  Whole(p) /\ p.len \in 1 .. left
<1>. DEFINE af == AfBytes(random_access, write_pcr)
            pes == PesHeader(is_start, own_dts, pes_extension)
            header_len == TsHeader + af + pes
            len == PayloadLen(header_len, left)
            stuffing_len == TS_PACKET_SIZE - header_len - len
            p == PesPacket(af, pes, left)
<1>1. af \in Nat /\ pes \in Nat /\ header_len \in 4 .. 34
  BY HeaderBound
<1>2. TS_PACKET_SIZE \in Nat /\ TS_PACKET_SIZE > 34
  BY PacketSizeAssumption
<1>3. p.af = StuffedAf(af, stuffing_len) /\ p.pes = pes /\ p.len = len
  BY DEF PesPacket
<1>. HIDE DEF p, af, pes
<1>4. len \in 1 .. left /\ stuffing_len \in Nat
  BY <1>1, <1>2 DEF PayloadLen, TsHeader
<1>5. StuffedAf(af, stuffing_len) = af + stuffing_len
  BY <1>1, <1>4 DEF StuffedAf
<1>6. Whole(p)
  BY <1>1, <1>2, <1>3, <1>4, <1>5 DEF Whole, TsHeader
<1>. QED  BY <1>3, <1>4, <1>6 DEF p, af, pes

-----------------------------------------------------------------------------
(* A multiple of m is one of -m, and 0 modulo m.                           *)
LEMMA MultipleMod ==
  ASSUME NEW m \in Nat \ {0}, NEW k \in Int, NEW r \in 0 .. m - 1
  PROVE  (r - k * m) % m = r
<1> DEFINE x == r - k * m
           q == x \div m
<1>1. x \in Int /\ k * m \in Int
  OBVIOUS
<1>2. q \in Int /\ x % m \in 0 .. m - 1 /\ x = m * q + (x % m)
  BY <1>1
<1>3. r - (x % m) = (k + q) * m
  BY <1>1, <1>2
<1>. QED  
  BY <1>1, <1>2, <1>3

(* C's division leaves a remainder of the sign of the clock.               *)
LEMMA DivTowardsZero ==
  ASSUME NEW pcr \in Int
  PROVE  /\ Ticks(pcr) \in Int
         /\ pcr - Ticks(pcr) * PcrScale \in Int
         /\ pcr >= 0 => pcr - Ticks(pcr) * PcrScale \in 0 .. PcrScale - 1
         /\ pcr < 0  => pcr - Ticks(pcr) * PcrScale \in -(PcrScale - 1) .. 0
<1>1. PcrScale \in 1 .. 512
  BY PcrAssumption
<1>2. CASE pcr >= 0
  BY <1>1, <1>2 DEF Ticks
<1>3. CASE pcr < 0
  BY <1>1, <1>3 DEF Ticks
<1>. QED  BY <1>2, <1>3

(* The low bits of the ticks and the remainder are the clock, one wrap or  *)
(* another away.                                                           *)
LEMMA CodedError ==
  ASSUME NEW w \in Nat \ {0}, NEW s \in Nat \ {0}, NEW h \in Int, NEW low \in Int,
         NEW extra \in Nat, extra < w * s
  PROVE  (((h % w) * s + low + extra) - (h * s + low)) % (w * s) = extra
<1>1. PICK k \in Int, b \in Int : h = w * k + b /\ b = h % w
  <2>1. (h \div w) \in Int /\ (h % w) \in Int /\ h = w * (h \div w) + (h % w)
    OBVIOUS
  <2>. QED  BY <2>1
<1>2. PICK m \in Nat \ {0} : m = w * s
  OBVIOUS
<1>3. h * s = k * m + b * s
  BY <1>1, <1>2
<1>4. PICK x \in Int : x = b * s
  BY <1>1
<1>5. PICK y \in Int : y = k * m
  BY <1>1, <1>2
<1>6. (x + low + extra) - ((y + x) + low) = extra - y
  BY <1>4, <1>5
<1>7. (extra - k * m) % m = extra
  <2>1. extra \in 0 .. m - 1
    BY <1>2
  <2>. QED  BY <1>1, <2>1, MultipleMod
<1>8. ((b * s + low + extra) - (h * s + low)) = extra - k * m
  BY <1>3, <1>4, <1>5, <1>6
<1>. QED  BY <1>1, <1>2, <1>7, <1>8

(* The nine bits of a remainder; a negative one wraps into them.           *)
LEMMA Remainder512 ==
  ASSUME NEW low \in Int
  PROVE  /\ low \in 0 .. 511 => low % 512 = low
         /\ low \in -511 .. -1 => low % 512 = low + 512
  OBVIOUS

(* What a clock is beyond whole ticks, whichever way they were rounded.    *)
LEMMA ScaleMod ==
  ASSUME NEW s \in Nat \ {0}, NEW h \in Int, NEW low \in Int
  PROVE  /\ low \in 0 .. s - 1      => (h * s + low) % s = low
         /\ low \in -(s - 1) .. -1  => (h * s + low) % s = low + s
<1>1. ASSUME low \in 0 .. s - 1
      PROVE  (h * s + low) % s = low
  <2>1. PICK g \in Int : g = -h
    OBVIOUS
  <2>2. (low - g * s) % s = low
    BY <1>1, <2>1, MultipleMod
  <2>3. low - g * s = h * s + low
    BY <2>1
  <2>. QED  BY <2>2, <2>3
<1>2. ASSUME low \in -(s - 1) .. -1
      PROVE  (h * s + low) % s = low + s
  <2>1. PICK g \in Int : g = 1 - h
    OBVIOUS
  <2>2. PICK r \in 0 .. s - 1 : r = low + s
    BY <1>2
  <2>3. (r - g * s) % s = r
    BY <2>1, <2>2, MultipleMod
  <2>4. r - g * s = h * s + low
    <3>1. g * s = s - h * s
      BY <2>1
    <3>2. h * s \in Int
      OBVIOUS
    <3>. QED  BY <2>2, <3>1, <3>2
  <2>. QED  BY <2>2, <2>3, <2>4
<1>. QED  BY <1>1, <1>2

(* write_pcr_bits, read back: exact for every clock from 0 on, across any  *)
(* number of wraps, and for whole ticks; the error of the others is that   *)
(* of the sign bits that run into the ticks.                               *)
THEOREM PcrExact ==
  ASSUME NEW pcr \in Int
  PROVE  PcrError(pcr, write_pcr_bits(pcr)) \in
           IF pcr >= 0 \/ pcr % PcrScale = 0 THEN {0} ELSE {512, 512 + PcrScale}
<1>1. PcrScale \in 1 .. 512 /\ PcrWrap \in Nat \ {0}
  BY PcrAssumption
<1>2. PICK h \in Int : h = Ticks(pcr)
  BY DivTowardsZero
<1>3. PICK low \in Int : low = pcr - h * PcrScale
  BY <1>2, DivTowardsZero
<1>4. /\ pcr >= 0 => low \in 0 .. PcrScale - 1
      /\ pcr < 0  => low \in -(PcrScale - 1) .. 0
  BY <1>2, <1>3, DivTowardsZero
<1>5. pcr = h * PcrScale + low
  <2>1. h * PcrScale \in Int
    BY <1>1
  <2>. QED  BY <1>3, <2>1
<1>6. PICK b \in Int : b = h % PcrWrap
  BY <1>1
<1>7. PICK ext \in Int : ext = low % 512
  OBVIOUS
<1>8. PICK base \in Int : base = IF low < 0 /\ b % 2 = 0 THEN b + 1 ELSE b
  OBVIOUS
<1>9. write_pcr_bits(pcr) = [base |-> base, ext |-> ext]
  BY <1>2, <1>3, <1>6, <1>7, <1>8 DEF write_pcr_bits
<1>10. b * PcrScale \in Int /\ (b + 1) * PcrScale = b * PcrScale + PcrScale
  BY <1>1
<1>11. ASSUME NEW extra \in 0 .. 1024, base * PcrScale + ext = b * PcrScale + low + extra
       PROVE  PcrError(pcr, write_pcr_bits(pcr)) = extra
  <2>1. PcrScale \in Nat \ {0} /\ PcrWrap \in Nat \ {0} /\ extra \in Nat
    BY <1>1
  <2>2. extra < PcrWrap * PcrScale
    <3>1. PcrWrap * PcrScale > 1024 /\ PcrWrap * PcrScale \in Int
      BY <2>1, PcrAssumption
    <3>. QED  BY <3>1
  <2>3. (((h % PcrWrap) * PcrScale + low + extra) - (h * PcrScale + low)) % (PcrWrap * PcrScale) = extra
    BY <2>1, <2>2, CodedError
  <2>4. ReadPcr([base |-> base, ext |-> ext]) = base * PcrScale + ext
    BY Zenon DEF ReadPcr
  <2>5. PcrError(pcr, [base |-> base, ext |-> ext])
          = ((base * PcrScale + ext) - pcr) % (PcrWrap * PcrScale)
    BY <2>4, Zenon DEF PcrError
  <2>6. (base * PcrScale + ext) - pcr
          = ((h % PcrWrap) * PcrScale + low + extra) - (h * PcrScale + low)
    BY <1>5, <1>6, <1>11, Zenon
  <2>. QED  BY <1>9, <2>3, <2>5, <2>6, Zenon
<1>12. CASE low >= 0
  <2>1. pcr >= 0 \/ pcr % PcrScale = 0
    <3>1. CASE pcr < 0
      <4>1. low \in 0 .. PcrScale - 1 /\ low = 0
        BY <1>1, <1>4, <1>12, <3>1
      <4>. QED  BY <1>1, <1>5, <4>1, ScaleMod
    <3>. QED  BY <3>1
  <2>2. low \in 0 .. 511
    BY <1>1, <1>4, <1>12
  <2>3. base = b /\ ext = low
    BY <1>7, <1>8, <1>12, <2>2, Remainder512
  <2>4. base * PcrScale + ext = b * PcrScale + low + 0
    BY <1>10, <2>3
  <2>5. PcrError(pcr, write_pcr_bits(pcr)) = 0
    BY <1>11, <2>4
  <2>. QED  BY <2>1, <2>5
<1>13. CASE low < 0
  <2>1. low \in -(PcrScale - 1) .. -1 /\ pcr < 0
    BY <1>1, <1>4, <1>13
  <2>2. pcr % PcrScale = low + PcrScale
    <3>1. (h * PcrScale + low) % PcrScale = low + PcrScale
      <4>1. PcrScale \in Nat \ {0}
        BY <1>1
      <4>. QED  BY <2>1, <4>1, ScaleMod, Zenon
    <3>. QED  BY <1>5, <3>1
  <2>3. ~(pcr >= 0 \/ pcr % PcrScale = 0)
    BY <1>1, <2>1, <2>2
  <2>4. ext = low + 512
    BY <1>1, <1>7, <2>1, Remainder512
  <2>5. CASE b % 2 = 0
    <3>1. base = b + 1
      BY <1>8, <1>13, <2>5
    <3>2. PICK extra \in 0 .. 1024 : extra = 512 + PcrScale
      BY <1>1
    <3>3. base * PcrScale + ext = b * PcrScale + low + extra
      BY <1>1, <1>10, <2>4, <3>1, <3>2
    <3>4. PcrError(pcr, write_pcr_bits(pcr)) = extra
      BY <1>11, <3>3
    <3>. QED  BY <2>3, <3>2, <3>4
  <2>6. CASE b % 2 # 0
    <3>1. base = b
      BY <1>8, <2>6
    <3>2. base * PcrScale + ext = b * PcrScale + low + 512
      BY <1>10, <2>4, <3>1
    <3>3. PcrError(pcr, write_pcr_bits(pcr)) = 512
      BY <1>11, <3>2
    <3>. QED  BY <2>3, <3>3
  <2>. QED  BY <2>5, <2>6
<1>. QED  BY <1>12, <1>13

-----------------------------------------------------------------------------
(* What is gathered of one stream when the last dts, shifted, is now.      *)
Sound(h, now) ==
  /\ h.size \in Nat
  /\ h.size <= pes_payload_size
  /\ h.units # << >> => h.size > 0
  /\ h.size > 0 => h.dts \in Int /\ now - h.dts <= max_delay

(* Both properties in one inductive invariant.                             *)
HeldInv ==
  /\ last_dts \in Int
  /\ given_dts \in [Streams -> Int]
  /\ \A s \in Streams : Sound(held[s], last_dts + Shift)

(* Shift is a time.                                                        *)
LEMMA ShiftType == Shift \in Int
  BY TimesAssumption DEF Shift

(* Nothing gathered is sound.                                              *)
LEMMA EmptiedSound ==
  ASSUME NEW h, NEW now
  PROVE  Sound(Emptied(h), now)
<1>1. Emptied(h).size = 0 /\ Emptied(h).units = << >>
  BY DEF Emptied
<1>. QED  BY <1>1, TimesAssumption DEF Sound

(* A unit joins what it fits in with, and the first one its own time.      *)
LEMMA GatheredSound ==
  ASSUME NEW h, NEW u, NEW now \in Int,
         Sound(h, now),
         u.size \in Nat \ {0},
         u.dts = now,
         h.size + u.size <= pes_payload_size
  PROVE  Sound(Gathered(h, u), now)
<1>. DEFINE g == Gathered(h, u)
<1>1. g.size = h.size + u.size
  BY DEF Gathered
<1>2. h.size = 0 => g.dts = now
  BY DEF Gathered
<1>3. h.size # 0 => g.dts = h.dts
  BY DEF Gathered
<1>. HIDE DEF g
<1>4. h.size \in Nat
  BY DEF Sound
<1>5. g.size \in Nat /\ g.size > 0 /\ g.size <= pes_payload_size
  BY <1>1, <1>4
<1>6. g.dts \in Int /\ now - g.dts <= max_delay
  <2>1. CASE h.size = 0
    BY <2>1, <1>2, TimesAssumption
  <2>2. CASE h.size # 0
    BY <2>2, <1>3, <1>4 DEF Sound
  <2>. QED  BY <2>1, <2>2
<1>. QED  BY <1>5, <1>6 DEF Sound, g

-----------------------------------------------------------------------------

(* The invariant holds at first,                                           *)
LEMMA InitHeld ==
  ASSUME Init
  PROVE  HeldInv
<1>1. PICK start \in Starts : given_dts = [s \in Streams |-> start] /\ last_dts = start
  BY DEF Init
<1>2. start \in Int
  BY UnitsAssumption
<1>3. ASSUME NEW s \in Streams
      PROVE  Sound(held[s], last_dts + Shift)
  <2>1. held[s].size = 0 /\ held[s].units = << >>
    BY DEF Init, Empty
  <2>. QED  BY <2>1, TimesAssumption DEF Sound
<1>. QED  BY <1>1, <1>2, <1>3 DEF HeldInv

(* Behind the flush of stale payloads all that is left is recent.          *)
LEMMA KeptSound ==
  ASSUME NEW s \in Streams, NEW before \in Int, NEW now \in Int,
         Sound(held[s], before)
  PROVE  Sound(IF Stale(s, now) THEN Emptied(held[s]) ELSE held[s], now)
<1>1. CASE Stale(s, now)
  BY <1>1, EmptiedSound
<1>2. CASE ~Stale(s, now)
  <2>1. held[s].size \in Nat
    BY DEF Sound
  <2>2. held[s].size > 0 => now - held[s].dts <= max_delay
    <3>1. held[s].size > 0 => held[s].dts \in Int
      BY DEF Sound
    <3>. QED  BY <3>1, <1>2, TimesAssumption DEF Stale
  <2>3. Sound(held[s], now)
    BY <2>1, <2>2 DEF Sound
  <2>. QED  BY <1>2, <2>3
<1>. QED  BY <1>1, <1>2

(* A unit joins what is not full, or does not join anything.               *)
LEMMA WriteUnitHeld ==
  ASSUME NEW s \in Streams, NEW u, NEW before \in Int,
         u.dts \in Int,
         u.size \in Nat \ {0},
         \A i \in Streams : Sound(held[i], before),
         WriteUnit(s, u)
  PROVE  \A i \in Streams : Sound(held'[i], u.dts)
<1>. DEFINE kept == [i \in Streams |-> IF Stale(i, u.dts) THEN Emptied(held[i]) ELSE held[i]]
            full == kept[s].size > 0 /\ Full(s, u)
            mine == IF full THEN Emptied(kept[s]) ELSE kept[s]
            direct == s \notin Audio \/ u.size > pes_payload_size
            own == IF direct THEN mine ELSE Gathered(mine, u)
<1>1. held' = [kept EXCEPT ![s] = own]
  BY DEF WriteUnit
<1>2. \A i \in Streams : Sound(kept[i], u.dts)
  BY KeptSound
<1>3. Sound(mine, u.dts)
  <2>1. Sound(Emptied(kept[s]), u.dts)
    BY EmptiedSound
  <2>2. Sound(kept[s], u.dts)
    BY <1>2
  <2>. HIDE DEF kept
  <2>. QED  BY <2>1, <2>2
<1>4. Sound(own, u.dts)
  <2>1. CASE direct
    BY <2>1, <1>3
  <2>2. CASE ~direct
    <3>1. u.size <= pes_payload_size
      BY <2>2, TimesAssumption
    <3>2. mine.size + u.size <= pes_payload_size
      <4>1. CASE mine.size = 0
        BY <4>1, <3>1
      <4>2. CASE mine.size # 0
        <5>1. ~full
          BY <4>2 DEF Emptied
        <5>2. mine = kept[s]
          BY <5>1
        <5>3. kept[s].size \in Nat /\ kept[s].size > 0
          BY <4>2, <5>2, <1>2 DEF Sound
        <5>4. ~Full(s, u)
          BY <5>1, <5>3
        <5>5. kept[s] = held[s]
          BY <5>3 DEF Emptied
        <5>6. ~(held[s].size + u.size > pes_payload_size)
          BY <5>4 DEF Full
        <5>7. held[s].size \in Nat
          BY <5>3, <5>5
        <5>. HIDE DEF kept, mine
        <5>. QED  BY <5>2, <5>5, <5>6, <5>7, TimesAssumption
      <4>. QED  BY <4>1, <4>2
    <3>3. Sound(Gathered(mine, u), u.dts)
      <4>. HIDE DEF mine
      <4>. QED  BY <1>3, <3>2, GatheredSound
    <3>. QED  BY <2>2, <3>3
  <2>. QED  BY <2>1, <2>2
<1>5. ASSUME NEW i \in Streams
      PROVE  Sound(held'[i], u.dts)
  <2>. HIDE DEF own
  <2>1. CASE i = s
    <3>1. held'[s] = own
      BY <1>1
    <3>. QED  BY <2>1, <3>1, <1>4
  <2>2. CASE i # s
    <3>1. held'[i] = kept[i]
      BY <2>2, <1>1
    <3>. QED  BY <3>1, <1>2
  <2>. QED  BY <2>1, <2>2
<1>. QED  BY <1>5

(* and with every step.                                                    *)
LEMMA NextHeld ==
  ASSUME HeldInv, [Next]_vars
  PROVE  HeldInv'
<1>. USE DEF HeldInv
<1>1. ASSUME NEW s \in Streams, NEW kind \in Kinds[s], NEW gap \in Gaps[s],
             GiveUnit(s, kind, gap)
      PROVE  HeldInv'
  <2>. DEFINE dts == given_dts[s] + gap
              u == [id |-> given[s] + 1, size |-> kind.size, pts |-> dts + kind.late + Shift,
                    dts |-> dts + Shift, key |-> kind.key, samples |-> kind.samples]
  <2>1. dts \in Int /\ kind.size \in Nat \ {0}
    BY UnitsAssumption
  <2>2. WriteUnit(s, u) /\ last_dts' = dts /\ given_dts' = [given_dts EXCEPT ![s] = dts]
    BY <1>1 DEF GiveUnit
  <2>3. u.dts = dts + Shift /\ u.size = kind.size
    OBVIOUS
  <2>. HIDE DEF u, dts
  <2>4. \A i \in Streams : Sound(held'[i], u.dts)
    BY <2>1, <2>2, <2>3, ShiftType, WriteUnitHeld
  <2>5. Shift' = Shift
    BY DEF Shift
  <2>6. last_dts' \in Int /\ given_dts' \in [Streams -> Int]
    BY <2>1, <2>2
  <2>7. u.dts = last_dts' + Shift'
    BY <2>2, <2>3, <2>5
  <2>8. ASSUME NEW i \in Streams
        PROVE  Sound(held[i], last_dts + Shift)'
    BY <2>4, <2>7 DEF Sound
  <2>. QED  BY <2>6, <2>8
<1>2. CASE Flush
  <2>1. last_dts' = last_dts /\ given_dts' = given_dts
    BY <1>2 DEF Flush, inputvars
  <2>2. held' = [s \in Streams |-> Emptied(held[s])]
    BY <1>2 DEF Flush
  <2>3. ASSUME NEW s \in Streams
        PROVE  Sound(held[s], last_dts + Shift)'
    <3>1. Sound(Emptied(held[s]), (last_dts + Shift)')
      BY EmptiedSound
    <3>. QED  BY <3>1, <2>2 DEF Sound
  <2>. QED  BY <2>1, <2>3
<1>3. CASE UNCHANGED <<held, last_dts, given_dts>>
  BY <1>3 DEF Sound, Shift
<1>4. ASSUME NEW p \in Sections, NEW len \in SectionLens, GiveSection(p, len)
      PROVE  UNCHANGED <<held, last_dts, given_dts>>
  BY <1>4 DEF GiveSection, payloadvars
<1>5. ASSUME NEW j, NEW t, NEW own, NEW packet, Turned(j, t, own, packet)
      PROVE  UNCHANGED <<held, last_dts, given_dts>>
  BY <1>5 DEF Turned, payloadvars, inputvars
<1>6. Pad => UNCHANGED <<held, last_dts, given_dts>>
  BY <1>5 DEF Pad
<1>7. Emit => UNCHANGED <<held, last_dts, given_dts>>
  BY <1>5 DEF Emit
<1>8. UNCHANGED vars => UNCHANGED <<held, last_dts, given_dts>>
  BY DEF vars, payloadvars, inputvars
<1>. QED  BY <1>1, <1>2, <1>3, <1>4, <1>6, <1>7, <1>8 DEF Next

(* However many streams there are, whatever sizes and times their units    *)
(* have and whenever the muxer is flushed: the memory for gathered units,  *)
(* pes_payload_size bytes, is never overrun by the memcpy of               *)
(* mpegts_write_packet_internal.                                           *)
THEOREM PayloadFitsHolds == Spec => []PayloadFits
<1>1. Init => HeldInv
  BY InitHeld
<1>2. HeldInv /\ [Next]_vars => HeldInv'
  BY NextHeld
<1>3. HeldInv => PayloadFits
  BY DEF HeldInv, Sound, PayloadFits
<1>. QED  BY <1>1, <1>2, <1>3, PTL DEF Spec

(* And no gathered unit waits for longer than max_delay while the units of *)
(* any stream go on.                                                       *)
THEOREM NotHeldBackHolds == Spec => []NotHeldBack
<1>1. Init => HeldInv
  BY InitHeld
<1>2. HeldInv /\ [Next]_vars => HeldInv'
  BY NextHeld
<1>3. ASSUME HeldInv
      PROVE  NotHeldBack
  <2>1. ASSUME NEW s \in Streams, held[s].units # << >>
        PROVE  last_dts + Shift - held[s].dts <= max_delay
    <3>1. Sound(held[s], last_dts + Shift)
      BY <1>3 DEF HeldInv
    <3>2. held[s].size > 0
      BY <2>1, <3>1 DEF Sound
    <3>3. last_dts \in Int
      BY <1>3 DEF HeldInv
    <3>. QED  BY <3>1, <3>2, <3>3, ShiftType, TimesAssumption DEF Sound
  <2>. QED  BY <2>1 DEF NotHeldBack
<1>. QED  BY <1>1, <1>2, <1>3, PTL DEF Spec

-----------------------------------------------------------------------------
(* Types.                                                                  *)
LEMMA PesOfType ==
  ASSUME NEW i \in Streams, held[i] \in Payload, held[i].size > 0
  PROVE  PesOf(i) \in Pes
<1>1. /\ held[i].units \in Seq(Unit) /\ held[i].size \in Nat \ {0}
      /\ held[i].pts \in Int /\ held[i].dts \in Int /\ held[i].key \in BOOLEAN
  BY DEF Payload
<1>. QED  BY <1>1 DEF PesOf, Pes

(* A PES of one unit is a PES,                                             *)
LEMMA UnitPesType ==
  ASSUME NEW s \in Streams, NEW u \in Unit
  PROVE  UnitPes(s, u) \in Pes
<1>1. /\ u.size \in Nat \ {0} /\ u.pts \in Int /\ u.dts \in Int /\ u.key \in BOOLEAN
  BY DEF Unit
<1>2. <<u>> \in Seq(Unit)
  OBVIOUS
<1>. QED  BY <1>1, <1>2 DEF UnitPes, Pes

(* a payload stays one when it is emptied                                  *)
LEMMA EmptiedType ==
  ASSUME NEW h \in Payload
  PROVE  Emptied(h) \in Payload
  BY DEF Emptied, Payload

(* and when a unit joins it,                                               *)
LEMMA GatheredType ==
  ASSUME NEW h \in Payload, NEW u \in Unit
  PROVE  Gathered(h, u) \in Payload
<1>1. /\ h.units \in Seq(Unit) /\ h.size \in Nat
      /\ h.pts \in Int /\ h.dts \in Int /\ h.key \in BOOLEAN
  BY DEF Payload
<1>2. /\ u.size \in Nat /\ u.pts \in Int /\ u.dts \in Int /\ u.key \in BOOLEAN
  BY DEF Unit
<1>3. Append(h.units, u) \in Seq(Unit) /\ h.size + u.size \in Nat
  BY <1>1, <1>2
<1>4. CASE h.size = 0
  BY <1>2, <1>3, <1>4 DEF Gathered, Payload
<1>5. CASE h.size # 0
  BY <1>1, <1>3, <1>5 DEF Gathered, Payload
<1>. QED  BY <1>4, <1>5

(* a loop over streams with payload leaves a list of PES,                  *)
LEMMA PesOfAllType ==
  ASSUME NEW chosen \in SUBSET Streams,
         held \in [Streams -> Payload],
         \A i \in chosen : held[i].size > 0
  PROVE  PesOfAll(chosen) \in Seq(Pes)
<1>1. PICK q : /\ Lists(q, chosen, NumStreams)
               /\ PesOfAll(chosen) = [k \in 1 .. Len(q) |-> PesOf(q[k])]
  BY PesOfAllLists DEF ListsPes
<1>2. Len(q) \in Nat /\ \A k \in 1 .. Len(q) : q[k] \in chosen
  BY <1>1 DEF Lists
<1>3. \A k \in 1 .. Len(q) : PesOf(q[k]) \in Pes
  BY <1>2, PesOfType
<1>. QED  BY <1>1, <1>2, <1>3

(* and all that a unit sets off keeps its type.                            *)
LEMMA WriteUnitType ==
  ASSUME NEW s \in Streams, NEW u \in Unit,
         held \in [Streams -> Payload], queued \in [Streams -> Nat],
         WriteUnit(s, u)
  PROVE  /\ jobs' \in Seq(Pes)
         /\ held' \in [Streams -> Payload]
         /\ queued' \in [Streams -> Nat]
<1>. DEFINE kept == [i \in Streams |-> IF Stale(i, u.dts) THEN Emptied(held[i]) ELSE held[i]]
            full == kept[s].size > 0 /\ Full(s, u)
            mine == IF full THEN Emptied(kept[s]) ELSE kept[s]
            direct == s \notin Audio \/ u.size > pes_payload_size
            stale == {i \in Streams : Stale(i, u.dts)}
<1>1. /\ jobs' = PesOfAll(stale) \o (IF full THEN <<PesOf(s)>> ELSE << >>)
                   \o (IF direct THEN <<UnitPes(s, u)>> ELSE << >>)
      /\ held' = [kept EXCEPT ![s] = IF direct THEN mine ELSE Gathered(mine, u)]
      /\ queued' = [queued EXCEPT ![s] = IF direct THEN 0
                                         ELSE (IF full THEN 0 ELSE @) + u.samples]
  BY DEF WriteUnit
<1>2. \A i \in Streams : held[i] \in Payload /\ Emptied(held[i]) \in Payload
  BY EmptiedType
<1>3. kept \in [Streams -> Payload]
  BY <1>2
<1>4. full => held[s].size > 0
  BY DEF Emptied
<1>5. PesOfAll(stale) \in Seq(Pes)
  <2>1. \A i \in stale : held[i].size > 0
    BY DEF Stale
  <2>2. stale \in SUBSET Streams
    OBVIOUS
  <2>. HIDE DEF stale
  <2>. QED  BY <2>1, <2>2, PesOfAllType
<1>6. full => PesOf(s) \in Pes
  BY <1>2, <1>4, PesOfType
<1>7. UnitPes(s, u) \in Pes
  BY UnitPesType
<1>8. mine \in Payload
  <2>1. kept[s] \in Payload
    BY <1>3
  <2>2. Emptied(kept[s]) \in Payload
    BY <2>1, EmptiedType
  <2>. HIDE DEF kept, full
  <2>. QED  BY <2>1, <2>2
<1>9. u.samples \in Nat
  BY DEF Unit
<1>. HIDE DEF kept, full, mine, direct, stale
<1>10. Gathered(mine, u) \in Payload
  BY <1>8, GatheredType
<1>11. jobs' \in Seq(Pes)
  <2>. DEFINE a == PesOfAll(stale)
              b == IF full THEN <<PesOf(s)>> ELSE << >>
              c == IF direct THEN <<UnitPes(s, u)>> ELSE << >>
  <2>1. a \in Seq(Pes) /\ b \in Seq(Pes) /\ c \in Seq(Pes)
    BY <1>5, <1>6, <1>7
  <2>2. jobs' = a \o b \o c
    BY <1>1
  <2>. HIDE DEF a, b, c
  <2>. QED  BY <2>1, <2>2
<1>12. held' \in [Streams -> Payload]
  BY <1>1, <1>3, <1>8, <1>10
<1>13. queued' \in [Streams -> Nat]
  BY <1>1, <1>9
<1>. QED  BY <1>11, <1>12, <1>13

(* A section takes a packet at least, an empty one included.               *)
LEMMA SectionPacketsType ==
  ASSUME NEW len \in Nat
  PROVE  SectionPackets(len) \in Nat \ {0}
<1>. DEFINE room == TS_PACKET_SIZE - TsHeader
<1>1. room \in Nat /\ room > 1
  BY PacketSizeAssumption DEF TsHeader
<1>2. SectionPackets(len) = IF len <= room - 1 THEN 1 ELSE 1 + (len - (room - 1) + room - 1) \div room
  BY DEF SectionPackets
<1>. HIDE DEF room
<1>3. CASE len > room - 1
  <2>1. PICK x \in Nat : x = len - (room - 1) + room - 1
    BY <1>1, <1>3
  <2>2. (x \div room) \in Nat
    BY <1>1, <2>1
  <2>. QED  BY <1>1, <1>2, <1>3, <2>1, <2>2
<1>. QED  BY <1>1, <1>2, <1>3

(* The packets of a section have no clock reference and are of no PES.     *)
Plain(k) == k.pcr = << >> /\ k.payload /\ ~k.key

(* A null packet is a plain one.                                           *)
LEMMA NullPacketType == NullPacket \in Packet /\ Plain(NullPacket)
  BY DEF NullPacket, Packet, Plain

(* The packets of a section are plain, with counters that go on.           *)
LEMMA SectionOfType ==
  ASSUME NEW p \in Pids, NEW len \in Nat, cc \in [Pids -> 0 .. 15]
  PROVE  /\ SectionOf(p, len) \in Seq(Packet)
         /\ Len(SectionOf(p, len)) = SectionPackets(len)
         /\ \A k \in 1 .. SectionPackets(len) :
              /\ Plain(SectionOf(p, len)[k])
              /\ SectionOf(p, len)[k].pid = p
              /\ SectionOf(p, len)[k].cc = (cc[p] + k) % 16
<1>. DEFINE pack(k) == [NullPacket EXCEPT !.pid = p, !.cc = (cc[p] + k) % 16]
<1>1. SectionPackets(len) \in Nat
  BY SectionPacketsType
<1>2. ASSUME NEW k \in 1 .. SectionPackets(len)
      PROVE  /\ pack(k) \in Packet
             /\ Plain(pack(k)) /\ pack(k).pid = p /\ pack(k).cc = (cc[p] + k) % 16
  <2>1. PICK c \in 0 .. 15 : c = (cc[p] + k) % 16
    <3>1. cc[p] \in 0 .. 15 /\ k \in Nat
      BY <1>1
    <3>. QED  BY <3>1
  <2>2. pack(k) = [NullPacket EXCEPT !.pid = p, !.cc = c]
    BY <2>1
  <2>3. [NullPacket EXCEPT !.pid = p, !.cc = c] \in Packet
    BY NullPacketType DEF Packet
  <2>4. Plain(pack(k)) /\ pack(k).pid = p /\ pack(k).cc = c
    BY <2>2 DEF NullPacket, Plain
  <2>. HIDE DEF pack
  <2>. QED  BY <2>1, <2>2, <2>3, <2>4
<1>3. SectionOf(p, len) = [k \in 1 .. SectionPackets(len) |-> pack(k)]
  BY DEF SectionOf
<1>. HIDE DEF pack
<1>. QED  BY <1>1, <1>2, <1>3

(* Those of the tables are too, and a PMT is among them when it is due.    *)
LEMMA TablePacketsType ==
  ASSUME NEW sdt \in BOOLEAN, NEW pat \in BOOLEAN, cc \in [Pids -> 0 .. 15]
  PROVE  /\ TablePackets(sdt, pat) \in Seq(Packet)
         /\ \A k \in 1 .. Len(TablePackets(sdt, pat)) :
              /\ Plain(TablePackets(sdt, pat)[k])
              /\ TablePackets(sdt, pat)[k].pid \in {SDT, PAT, PMT}
         /\ pat => \E k \in 1 .. Len(TablePackets(sdt, pat)) :
                     TablePackets(sdt, pat)[k].pid = PMT
<1>. DEFINE a == SectionOf(SDT, TableLen.sdt)
            b == SectionOf(PAT, TableLen.pat)
            c == SectionOf(PMT, TableLen.pmt)
            Good(q) == /\ q \in Seq(Packet)
                       /\ \A k \in 1 .. Len(q) : Plain(q[k]) /\ q[k].pid \in {SDT, PAT, PMT}
<1>1. TableLen.sdt \in Nat /\ TableLen.pat \in Nat /\ TableLen.pmt \in Nat
  BY SectionsAssumption DEF SectionLen
<1>2. SDT \in Pids /\ PAT \in Pids /\ PMT \in Pids
  BY DEF Pids
<1>3. Good(a) /\ Good(b) /\ Good(c)
  <2>1. ASSUME NEW p \in {SDT, PAT, PMT}, NEW len \in Nat
        PROVE  Good(SectionOf(p, len))
    <3>. DEFINE x == SectionOf(p, len)
                n == SectionPackets(len)
    <3>1. p \in Pids
      BY <1>2
    <3>2. /\ x \in Seq(Packet) /\ Len(x) = n
          /\ \A k \in 1 .. n : Plain(x[k]) /\ x[k].pid = p
      BY <3>1, SectionOfType
    <3>. HIDE DEF x, n
    <3>3. Good(x)
      BY <3>2
    <3>. QED  BY <3>3 DEF x
  <2>. HIDE DEF Good
  <2>. QED  BY <1>1, <2>1
<1>4. Len(c) \in Nat /\ Len(c) > 0 /\ c[1].pid = PMT
  <2>1. SectionPackets(TableLen.pmt) \in Nat \ {0}
    BY <1>1, SectionPacketsType
  <2>2. 1 \in 1 .. SectionPackets(TableLen.pmt)
    BY <2>1
  <2>3. Len(c) = SectionPackets(TableLen.pmt) /\ c[1].pid = PMT
    BY <1>1, <1>2, <2>2, SectionOfType
  <2>. QED  BY <2>1, <2>3
<1>5. TablePackets(sdt, pat) = (IF sdt THEN a ELSE << >>) \o (IF pat THEN b \o c ELSE << >>)
  BY DEF TablePackets
<1>6. ASSUME NEW x, NEW y, Good(x), Good(y)
      PROVE  Good(x \o y)
  <2>1. x \o y \in Seq(Packet) /\ Len(x \o y) = Len(x) + Len(y)
    BY <1>6
  <2>2. Len(x) \in Nat /\ Len(y) \in Nat
    BY <1>6
  <2>3. ASSUME NEW k \in 1 .. Len(x \o y)
        PROVE  Plain((x \o y)[k]) /\ (x \o y)[k].pid \in {SDT, PAT, PMT}
    <3>1. CASE k <= Len(x)
      <4>1. k \in 1 .. Len(x) /\ (x \o y)[k] = x[k]
        BY <1>6, <2>2, <3>1
      <4>. QED  BY <1>6, <4>1
    <3>2. CASE ~(k <= Len(x))
      <4>1. k - Len(x) \in 1 .. Len(y) /\ (x \o y)[k] = y[k - Len(x)]
        BY <1>6, <2>1, <2>2, <3>2
      <4>. QED  BY <1>6, <4>1
    <3>. QED  BY <3>1, <3>2
  <2>. QED  BY <2>1, <2>3
<1>7. Good(<< >>)
  OBVIOUS
<1>8. a \in Seq(Packet) /\ b \in Seq(Packet) /\ c \in Seq(Packet)
  BY <1>3
<1>. HIDE DEF a, b, c
<1>9. pat => \E k \in 1 .. Len(TablePackets(sdt, pat)) : TablePackets(sdt, pat)[k].pid = PMT
  <2>1. SUFFICES ASSUME pat
                 PROVE  \E k \in 1 .. Len(TablePackets(sdt, pat)) :
                          TablePackets(sdt, pat)[k].pid = PMT
    OBVIOUS
  <2>. DEFINE first == IF sdt THEN a ELSE << >>
  <2>2. first \in Seq(Packet)
    BY <1>8
  <2>3. TablePackets(sdt, pat) = first \o (b \o c)
    BY <1>5, <2>1
  <2>. DEFINE d == b \o c
  <2>4. d \in Seq(Packet) /\ Len(d) = Len(b) + Len(c) /\ d[Len(b) + 1] = c[1]
    BY <1>4, <1>8
  <2>5. Len(b) \in Nat
    BY <1>8
  <2>. HIDE DEF first, d
  <2>6. PICK m \in 1 .. Len(d) : d[m] = c[1]
    BY <1>4, <2>4, <2>5
  <2>7. Len(first) + m \in 1 .. Len(first \o d) /\ (first \o d)[Len(first) + m] = d[m]
    BY <2>2, <2>4
  <2>. QED  BY <1>4, <2>3, <2>6, <2>7 DEF d
<1>10. Good(TablePackets(sdt, pat))
  <2>. HIDE DEF Good
  <2>1. Good(IF sdt THEN a ELSE << >>)
    BY <1>3, <1>7
  <2>2. Good(IF pat THEN b \o c ELSE << >>)
    BY <1>3, <1>6, <1>7
  <2>. QED  BY <1>5, <1>6, <2>1, <2>2
<1>. QED  BY <1>9, <1>10

(* What a receiver saw last is a counter.                                  *)
LEMMA LastSeenType ==
  ASSUME NEW packets \in Seq(Packet), NEW k \in 1 .. Len(packets) + 1, NEW p \in Pids,
         seen \in [Pids -> 0 .. 15]
  PROVE  LastSeen(packets, k, p) \in 0 .. 15
<1>. DEFINE mine == {m \in 1 .. k - 1 : packets[m].pid = p}
<1>1. LastSeen(packets, k, p) = IF mine = {} THEN seen[p]
                                ELSE packets[CHOOSE m \in mine : \A i \in mine : i <= m].cc
  BY DEF LastSeen
<1>2. mine \subseteq 1 .. Len(packets) /\ Len(packets) \in Nat
  OBVIOUS
<1>. HIDE DEF mine
<1>3. mine # {} => (CHOOSE m \in mine : \A i \in mine : i <= m) \in 1 .. Len(packets)
  BY <1>2, LastPosition
<1>4. \A m \in 1 .. Len(packets) : packets[m].cc \in 0 .. 15
  <2>1. \A m \in 1 .. Len(packets) : packets[m] \in Packet
    OBVIOUS
  <2>. QED  BY <2>1 DEF Packet
<1>. QED  BY <1>1, <1>3, <1>4

(* The bits of a clock reference are two naturals.                         *)
LEMMA PcrBitsType ==
  ASSUME NEW pcr \in Int
  PROVE  write_pcr_bits(pcr) \in [base : Nat, ext : Nat]
<1>1. PcrScale \in 1 .. 512 /\ PcrWrap \in Nat \ {0}
  BY PcrAssumption
<1>2. PICK h \in Int : h = Ticks(pcr)
  BY DivTowardsZero
<1>3. PICK low \in Int : low = pcr - h * PcrScale
  BY <1>2, DivTowardsZero
<1>4. PICK b \in Nat : b = h % PcrWrap
  BY <1>1
<1>5. PICK ext \in Nat : ext = low % 512
  OBVIOUS
<1>6. PICK base \in Nat : base = IF low < 0 /\ b % 2 = 0 THEN b + 1 ELSE b
  OBVIOUS
<1>7. write_pcr_bits(pcr) = [base |-> base, ext |-> ext]
  BY <1>2, <1>3, <1>4, <1>5, <1>6 DEF write_pcr_bits
<1>. QED  BY <1>7

(* The type of last_pcr.                                                   *)
LastPcrType == [value : Int, coded : [base : Nat, ext : Nat], at : Int, dts : Int]

(* Writing packets keeps the types of what a receiver knows.               *)
LEMMA WritePacketsType ==
  ASSUME NEW packets \in Seq(Packet), packets # << >>,
         sent \in Nat, seen \in [Pids -> 0 .. 15], fed \subseteq Streams,
         last_pcr \in LastPcrType,
         WritePackets(packets)
  PROVE  /\ wrote' \in Seq(Packet)
         /\ sent' \in Nat /\ sent' > sent
         /\ seen' \in [Pids -> 0 .. 15]
         /\ fed' \subseteq Streams
         /\ last_pcr' \in LastPcrType
<1>. DEFINE n == Len(packets)
            own == packets[n]
<1>1. n \in Nat /\ n > 0 /\ own \in Packet
  OBVIOUS
<1>2. /\ wrote' = packets
      /\ sent' = sent + n
      /\ seen' = [p \in Pids |-> LastSeen(packets, n + 1, p)]
      /\ fed' = (IF \E k \in 1 .. n : packets[k].pid = PMT THEN {} ELSE fed)
                  \cup ({own.pid} \cap {p \in Streams : own.payload})
      /\ last_pcr' = IF own.pcr = << >> THEN last_pcr
                     ELSE [value |-> own.pcr[1], coded |-> write_pcr_bits(own.pcr[1]),
                           at |-> sent + n - 1, dts |-> own.dts]
  BY DEF WritePackets
<1>3. \A p \in Pids : LastSeen(packets, n + 1, p) \in 0 .. 15
  BY LastSeenType
<1>4. own.pcr \in Seq(Int) /\ own.dts \in Int
  BY <1>1 DEF Packet
<1>5. own.pcr # << >> => own.pcr[1] \in Int
  BY <1>4
<1>6. own.pcr # << >> => write_pcr_bits(own.pcr[1]) \in [base : Nat, ext : Nat]
  BY <1>5, PcrBitsType
<1>. HIDE DEF n, own
<1>7. sent' \in Nat /\ sent' > sent
  BY <1>1, <1>2
<1>8. seen' \in [Pids -> 0 .. 15]
  BY <1>2, <1>3
<1>9. fed' \subseteq Streams
  BY <1>2
<1>10. last_pcr' \in LastPcrType
  <2>1. CASE own.pcr = << >>
    BY <1>2, <2>1
  <2>2. CASE own.pcr # << >>
    <3>1. sent + n - 1 \in Int
      BY <1>1
    <3>. QED  BY <1>2, <1>4, <1>5, <1>6, <2>2, <3>1 DEF LastPcrType
  <2>. QED  BY <2>1, <2>2
<1>. QED  BY <1>2, <1>7, <1>8, <1>9, <1>10

-----------------------------------------------------------------------------
(* A turn of the loop.                                                     *)
LEMMA TurnFields ==
  ASSUME NEW j, NEW t, t = Turn(j)
  PROVE  /\ t.sdt = SdtDue(j.dts)
         /\ t.pat = PatDue(j.dts, ForcePat(j))
         /\ t.first = FirstPcr(j)
         /\ t.n = sent + Len(TablePackets(t.sdt, t.pat))
         /\ t.write_pcr = (j.s = PcrStream /\ PcrCount(j) >= pcr_packet_period)
         /\ t.pcr_count = IF t.write_pcr THEN 0 ELSE PcrCount(j)
         /\ t.pad = TooEarly(j, t.n, t.first)
<1>. DEFINE sdt == SdtDue(j.dts)
            pat == PatDue(j.dts, ForcePat(j))
            first == FirstPcr(j)
            n == sent + Len(TablePackets(sdt, pat))
            due == j.s = PcrStream /\ PcrCount(j) >= pcr_packet_period
            count == IF due THEN 0 ELSE PcrCount(j)
            pad == TooEarly(j, n, first)
<1>1. t = [sdt |-> sdt, pat |-> pat, first |-> first, n |-> n, pcr_count |-> count,
           write_pcr |-> due, pad |-> pad]
  BY DEF Turn
<1>2. /\ t.sdt = sdt /\ t.pat = pat /\ t.first = first /\ t.n = n /\ t.pcr_count = count
      /\ t.write_pcr = due /\ t.pad = pad
  <2>. HIDE DEF sdt, pat, first, n, count, due, pad
  <2>. QED  BY <1>1
<1>. QED  BY <1>2, Zenon

(* What a turn decides is decided one way or the other.                    *)
LEMMA TurnBool ==
  ASSUME NEW j, NEW t, t = Turn(j)
  PROVE  /\ t.sdt \in BOOLEAN /\ t.pat \in BOOLEAN
         /\ t.write_pcr \in BOOLEAN /\ t.pad \in BOOLEAN
<1>1. SdtDue(j.dts) \in BOOLEAN
  BY Zenon DEF SdtDue
<1>2. PatDue(j.dts, ForcePat(j)) \in BOOLEAN
  BY Zenon DEF PatDue
<1>3. (j.s = PcrStream /\ PcrCount(j) >= pcr_packet_period) \in BOOLEAN
  BY Zenon
<1>4. TooEarly(j, t.n, t.first) \in BOOLEAN
  BY Zenon DEF TooEarly
<1>. QED  BY <1>1, <1>2, <1>3, <1>4, TurnFields, Zenon

(* What is in a PES.                                                       *)
LEMMA PesFields ==
  ASSUME NEW j \in Pes
  PROVE  /\ j.s \in Streams /\ j.units \in Seq(Unit) /\ j.pts \in Int /\ j.dts \in Int
         /\ j.key \in BOOLEAN /\ j.left \in Nat \ {0}
         /\ j.fresh \in BOOLEAN /\ j.start \in BOOLEAN
  BY DEF Pes

(* The clock's start is a number,                                          *)
LEMMA FirstPcrType ==
  ASSUME NEW j \in Pes, first_pcr \in Int
  PROVE  FirstPcr(j) \in Int
<1>1. j.dts \in Int /\ max_delay \in Int /\ PcrScale \in Int
  BY PesFields, TimesAssumption, PcrAssumption
<1>2. (j.dts - max_delay) * PcrScale \in Int
  BY <1>1
<1>. QED  BY <1>2 DEF FirstPcr

(* and so is the clock.                                                    *)
LEMMA ClockType ==
  ASSUME NEW n \in Int, NEW first \in Int
  PROVE  get_pcr(n, first) \in Int
<1>1. PacketPcr \in Int /\ PcrOffset \in Int
  BY TimesAssumption
<1>2. n * PacketPcr \in Int
  BY <1>1
<1>. QED  BY <1>1, <1>2 DEF get_pcr

(* The numbers of a turn.                                                  *)
LEMMA TurnType ==
  ASSUME TypeOK, NEW j \in Pes, NEW t, t = Turn(j)
  PROVE  /\ t.first \in Int
         /\ t.pcr_count \in Nat
         /\ t.n \in Nat /\ t.n >= sent
<1>1. cc \in [Pids -> 0 .. 15] /\ first_pcr \in Int /\ pcr_count \in Nat /\ sent \in Nat
  BY DEF TypeOK
<1>2. t.first \in Int
  BY <1>1, FirstPcrType, TurnFields
<1>3. TablePackets(t.sdt, t.pat) \in Seq(Packet)
  BY <1>1, TurnBool, TablePacketsType
<1>4. t.n \in Nat /\ t.n >= sent
  <2>1. PICK k \in Nat : k = Len(TablePackets(t.sdt, t.pat))
    BY <1>3
  <2>2. t.n = sent + k
    BY <2>1, TurnFields
  <2>. QED  BY <1>1, <2>1, <2>2
<1>5. t.pcr_count \in Nat
  <2>1. PcrCount(j) \in Nat
    BY <1>1 DEF PcrCount
  <2>. QED  BY <2>1, TurnFields
<1>. QED  BY <1>2, <1>4, <1>5

(* retransmit_si_info's state keeps its type,                              *)
LEMMA TablesAfterType ==
  ASSUME NEW sdt \in BOOLEAN, NEW pat \in BOOLEAN, NEW dts \in Int,
         tables \in [sdt_count : Nat, pat_count : Nat, last_sdt_ts : Int, last_pat_ts : Int]
  PROVE  TablesAfter(sdt, pat, dts) \in
           [sdt_count : Nat, pat_count : Nat, last_sdt_ts : Int, last_pat_ts : Int]
<1>1. PICK a \in Nat : a = IF sdt THEN 0 ELSE tables.sdt_count + 1
  OBVIOUS
<1>2. PICK b \in Nat : b = IF pat THEN 0 ELSE tables.pat_count + 1
  OBVIOUS
<1>3. PICK c \in Int : c = IF sdt THEN Larger(dts, tables.last_sdt_ts) ELSE tables.last_sdt_ts
  BY DEF Larger
<1>4. PICK d \in Int : d = IF pat THEN Larger(dts, tables.last_pat_ts) ELSE tables.last_pat_ts
  BY DEF Larger
<1>5. TablesAfter(sdt, pat, dts)
        = [sdt_count |-> a, pat_count |-> b, last_sdt_ts |-> c, last_pat_ts |-> d]
  BY <1>1, <1>2, <1>3, <1>4, Zenon DEF TablesAfter
<1>. QED  BY <1>5

(* and so do the counters, by % 16,                                        *)
LEMMA CountersAfterType ==
  ASSUME NEW sdt, NEW pat, NEW own, cc \in [Pids -> 0 .. 15]
  PROVE  CountersAfter(sdt, pat, own) \in [Pids -> 0 .. 15]
<1>. DEFINE n(p) == IF sdt /\ p = SDT THEN SectionPackets(TableLen.sdt)
                    ELSE IF pat /\ p = PAT THEN SectionPackets(TableLen.pat)
                    ELSE IF pat /\ p = PMT THEN SectionPackets(TableLen.pmt)
                    ELSE IF p = own THEN 1 ELSE 0
<1>1. TableLen.sdt \in Nat /\ TableLen.pat \in Nat /\ TableLen.pmt \in Nat
  BY SectionsAssumption DEF SectionLen
<1>2. ASSUME NEW p \in Pids
      PROVE  n(p) \in Nat
  <2>1. /\ SectionPackets(TableLen.sdt) \in Nat /\ SectionPackets(TableLen.pat) \in Nat
        /\ SectionPackets(TableLen.pmt) \in Nat
    BY <1>1, SectionPacketsType
  <2>. QED  BY <2>1
<1>3. CountersAfter(sdt, pat, own) = [p \in Pids |-> (cc[p] + n(p)) % 16]
  BY DEF CountersAfter
<1>. HIDE DEF n
<1>4. ASSUME NEW p \in Pids
      PROVE  (cc[p] + n(p)) % 16 \in 0 .. 15
  <2>1. PICK x \in Nat : x = cc[p] + n(p)
    BY <1>2
  <2>. QED  BY <2>1
<1>. QED  BY <1>3, <1>4

(* The packets of a turn, the own one last.                                *)
LEMMA TurnedPackets ==
  ASSUME NEW j, NEW t, NEW own, NEW packet, Turned(j, t, own, packet)
  PROVE  WritePackets(Append(TablePackets(t.sdt, t.pat), packet))
  BY DEF Turned

(* and all that a turn changes.                                            *)
LEMMA TurnedType ==
  ASSUME TypeOK, NEW j \in Pes, NEW t, t = Turn(j),
         NEW own, NEW packet \in Packet, Turned(j, t, own, packet)
  PROVE  /\ tables' \in [sdt_count : Nat, pat_count : Nat, last_sdt_ts : Int, last_pat_ts : Int]
         /\ pcr_count' \in Nat
         /\ first_pcr' \in Int
         /\ cc' \in [Pids -> 0 .. 15]
         /\ wrote' \in Seq(Packet)
         /\ sent' \in Nat /\ sent' > sent
         /\ seen' \in [Pids -> 0 .. 15]
         /\ fed' \subseteq Streams
         /\ last_pcr' \in LastPcrType
<1>1. /\ tables \in [sdt_count : Nat, pat_count : Nat, last_sdt_ts : Int, last_pat_ts : Int]
      /\ cc \in [Pids -> 0 .. 15] /\ sent \in Nat
      /\ seen \in [Pids -> 0 .. 15] /\ fed \subseteq Streams /\ last_pcr \in LastPcrType
  BY DEF TypeOK, LastPcrType
<1>2. /\ tables' = TablesAfter(t.sdt, t.pat, j.dts)
      /\ pcr_count' = t.pcr_count /\ first_pcr' = t.first
      /\ cc' = CountersAfter(t.sdt, t.pat, own)
  BY DEF Turned
<1>3. t.sdt \in BOOLEAN /\ t.pat \in BOOLEAN
  BY TurnBool
<1>4. tables' \in [sdt_count : Nat, pat_count : Nat, last_sdt_ts : Int, last_pat_ts : Int]
  BY <1>1, <1>2, <1>3, PesFields, TablesAfterType
<1>5. cc' \in [Pids -> 0 .. 15]
  BY <1>1, <1>2, CountersAfterType
<1>6. PICK packets : packets = Append(TablePackets(t.sdt, t.pat), packet)
  OBVIOUS
<1>7. packets \in Seq(Packet) /\ packets # << >>
  <2>1. TablePackets(t.sdt, t.pat) \in Seq(Packet)
    BY <1>1, <1>3, TablePacketsType
  <2>. QED  BY <1>6, <2>1
<1>8. WritePackets(packets)
  BY <1>6, TurnedPackets
<1>9. /\ wrote' \in Seq(Packet) /\ sent' \in Nat /\ sent' > sent
      /\ seen' \in [Pids -> 0 .. 15] /\ fed' \subseteq Streams /\ last_pcr' \in LastPcrType
  BY <1>1, <1>7, <1>8, WritePacketsType
<1>. QED  BY <1>2, <1>4, <1>5, <1>9, TurnType

-----------------------------------------------------------------------------

(* The types at first.                                                     *)
LEMMA InitType ==
  ASSUME Init
  PROVE  TypeOK
<1>1. Empty \in Payload
  <2>1. NOPTS \in Int /\ << >> \in Seq(Unit)
    BY TimesAssumption
  <2>. QED  BY <2>1 DEF Empty, Payload
<1>2. PICK start \in Starts : given_dts = [s \in Streams |-> start] /\ last_dts = start
  BY DEF Init
<1>3. start \in Int
  BY UnitsAssumption
<1>4. /\ held \in [Streams -> Payload] /\ queued \in [Streams -> Nat]
      /\ prev_key \in [Streams -> BOOLEAN] /\ cc \in [Pids -> 0 .. 15]
  BY <1>1 DEF Init
<1>5. tables \in [sdt_count : Nat, pat_count : Nat, last_sdt_ts : Int, last_pat_ts : Int]
  <2>1. sdt_packet_period - 1 \in Nat /\ pat_packet_period - 1 \in Nat /\ NOPTS \in Int
    BY PeriodsAssumption, TimesAssumption
  <2>. QED  BY <2>1 DEF Init
<1>6. pcr_count \in Nat /\ first_pcr \in Int /\ sent \in Nat /\ jobs \in Seq(Pes)
  <2>1. max_delay * PcrScale \in Int
    BY TimesAssumption, PcrAssumption
  <2>2. pcr_packet_period \in Nat
    BY PeriodsAssumption
  <2>3. first_pcr = IF CBR /\ ~copyts THEN max_delay * PcrScale ELSE 0
    BY DEF Init
  <2>4. first_pcr \in Int
    BY <2>1, <2>3
  <2>5. jobs = << >> /\ pcr_count = pcr_packet_period /\ sent = 0
    BY DEF Init
  <2>. QED  BY <2>2, <2>4, <2>5
<1>7. /\ given \in [Streams -> Nat] /\ done \in [Streams -> Nat]
      /\ given_dts \in [Streams -> Int] /\ last_dts \in Int
      /\ budget \in 0 .. MaxUnits
  BY <1>2, <1>3, BoundsAssumption DEF Init
<1>8. /\ wrote \in Seq(Packet) /\ seen \in [Pids -> 0 .. 15] /\ fed \subseteq Streams
      /\ last_pcr \in LastPcrType
  BY DEF Init, LastPcrType
<1>. QED  BY <1>4, <1>5, <1>6, <1>7, <1>8 DEF TypeOK, LastPcrType

(* The unit that a stream is given.                                        *)
UnitOf(s, kind, dts) ==
  [id |-> given[s] + 1, size |-> kind.size, pts |-> dts + kind.late + Shift,
   dts |-> dts + Shift, key |-> kind.key, samples |-> kind.samples]

(* It is a unit.                                                           *)
LEMMA UnitOfType ==
  ASSUME NEW s \in Streams, NEW kind \in Kinds[s], NEW dts \in Int,
         given \in [Streams -> Nat]
  PROVE  UnitOf(s, kind, dts) \in Unit
<1>1. kind \in [size : Nat \ {0}, late : Int, key : BOOLEAN, samples : Nat]
  BY UnitsAssumption
<1>2. PICK a \in Nat \ {0} : a = given[s] + 1
  OBVIOUS
<1>3. PICK b \in Int : b = dts + kind.late + Shift
  BY <1>1, ShiftType
<1>4. PICK c \in Int : c = dts + Shift
  BY ShiftType
<1>5. UnitOf(s, kind, dts) = [id |-> a, size |-> kind.size, pts |-> b, dts |-> c,
                              key |-> kind.key, samples |-> kind.samples]
  BY <1>2, <1>3, <1>4, Zenon DEF UnitOf
<1>. QED  BY <1>1, <1>5 DEF Unit

(* What giving a unit does.                                                *)
LEMMA GiveUnitIs ==
  ASSUME TypeOK, NEW s \in Streams, NEW kind \in Kinds[s], NEW gap \in Gaps[s],
         GiveUnit(s, kind, gap)
  PROVE  \E dts \in Int :
           /\ dts = given_dts[s] + gap /\ dts >= last_dts
           /\ jobs = << >>
           /\ WriteUnit(s, UnitOf(s, kind, dts))
           /\ UnitOf(s, kind, dts) \in Unit
           /\ given' = [given EXCEPT ![s] = @ + 1]
           /\ given_dts' = [given_dts EXCEPT ![s] = dts]
           /\ last_dts' = dts
           /\ budget' \in 0 .. MaxUnits
           /\ wrote' = << >>
           /\ UNCHANGED <<prev_key, cc, tables, pcr_count, first_pcr, sent, done,
                          seen, fed, last_pcr>>
<1>1. given_dts[s] \in Int /\ gap \in Int /\ given \in [Streams -> Nat]
  BY UnitsAssumption DEF TypeOK
<1>2. PICK dts \in Int : dts = given_dts[s] + gap
  BY <1>1
<1>3. /\ dts >= last_dts /\ jobs = << >>
      /\ WriteUnit(s, UnitOf(s, kind, dts))
      /\ given' = [given EXCEPT ![s] = @ + 1]
      /\ given_dts' = [given_dts EXCEPT ![s] = dts]
      /\ last_dts' = dts
      /\ wrote' = << >>
      /\ budget > 0 /\ budget' = budget - 1
      /\ UNCHANGED <<prev_key, cc, clockvars, sent, done, receiver>>
  BY <1>2, Zenon DEF GiveUnit, UnitOf
<1>4. budget' \in 0 .. MaxUnits
  <2>1. budget \in 0 .. MaxUnits /\ MaxUnits \in Nat
    BY BoundsAssumption DEF TypeOK
  <2>. QED  BY <1>3, <2>1
<1>5. UnitOf(s, kind, dts) \in Unit
  BY <1>1, UnitOfType
<1>6. UNCHANGED <<prev_key, cc, tables, pcr_count, first_pcr, sent, done, seen, fed, last_pcr>>
  BY <1>3 DEF clockvars, receiver
<1>. QED  BY <1>2, <1>3, <1>4, <1>5, <1>6

(* What the turns of the loop do, whether they pad or not: the PES in hand *)
(* at the front of the jobs, what the turn is, and the own packet.         *)
LEMMA PadIs ==
  ASSUME TypeOK, Pad
  PROVE  \E j \in Pes, packet \in Packet : \E t :
           /\ jobs # << >> /\ j = Head(jobs) /\ t = Turn(j) /\ t.pad
           /\ sent < MaxPackets
           /\ packet = IF t.write_pcr THEN PcrOnly(j, get_pcr(t.n, t.first)) ELSE NullPacket
           /\ Turned(j, t, Null, packet)
           /\ jobs' = <<[j EXCEPT !.fresh = FALSE]>> \o Tail(jobs)
           /\ UNCHANGED <<prev_key, done>>
<1>1. PICK j \in InHand : \E t \in {Turn(j)} :
        /\ t.pad
        /\ Turned(j, t, Null,
             IF t.write_pcr THEN PcrOnly(j, get_pcr(t.n, t.first)) ELSE NullPacket)
        /\ jobs' = <<[j EXCEPT !.fresh = FALSE]>> \o Tail(jobs)
  BY Zenon DEF Pad
<1>2. PICK t : t = Turn(j)
  OBVIOUS
<1>3. /\ t.pad
      /\ Turned(j, t, Null,
           IF t.write_pcr THEN PcrOnly(j, get_pcr(t.n, t.first)) ELSE NullPacket)
      /\ jobs' = <<[j EXCEPT !.fresh = FALSE]>> \o Tail(jobs)
  BY <1>1, <1>2, Zenon
<1>4. jobs # << >> /\ j = Head(jobs) /\ j \in Pes
  <2>1. jobs # << >> /\ j = Head(jobs)
    BY DEF InHand
  <2>2. jobs \in Seq(Pes)
    BY DEF TypeOK
  <2>. QED  BY <2>1, <2>2
<1>5. sent < MaxPackets /\ prev_key' = prev_key /\ done' = done
  BY DEF Pad
<1>6. get_pcr(t.n, t.first) \in Int
  <2>1. t.n \in Int /\ t.first \in Int
    BY <1>2, <1>4, TurnType
  <2>. QED  BY <2>1, ClockType
<1>7. PcrOnly(j, get_pcr(t.n, t.first)) \in Packet
  <2>1. PICK pcr \in Int : pcr = get_pcr(t.n, t.first)
    BY <1>6
  <2>2. PICK c \in 0 .. 15 : c = cc[j.s]
    <3>1. j.s \in Pids /\ cc \in [Pids -> 0 .. 15]
      BY <1>4, PesFields DEF Pids, TypeOK
    <3>. QED  BY <3>1
  <2>3. PICK p \in Pids \cup {Null} : p = j.s
    BY <1>4, PesFields DEF Pids
  <2>4. PICK d \in Int : d = j.dts
    BY <1>4, PesFields
  <2>5. PICK q \in Seq(Int) : q = <<pcr>>
    <3>1. <<pcr>> \in Seq(Int)
      OBVIOUS
    <3>. QED  BY <3>1, Zenon
  <2>6. [NullPacket EXCEPT !.pid = p, !.cc = c, !.payload = FALSE, !.pcr = q, !.dts = d]
          \in Packet
    BY NullPacketType DEF Packet
  <2>. QED  BY <2>1, <2>2, <2>3, <2>4, <2>5, <2>6, Zenon DEF PcrOnly
<1>8. (IF t.write_pcr THEN PcrOnly(j, get_pcr(t.n, t.first)) ELSE NullPacket) \in Packet
  BY <1>7, NullPacketType
<1>9. PICK packet \in Packet :
        packet = IF t.write_pcr THEN PcrOnly(j, get_pcr(t.n, t.first)) ELSE NullPacket
  BY <1>8, Zenon
<1>10. Turned(j, t, Null, packet)
  BY <1>3, <1>9, Zenon
<1>11. UNCHANGED <<prev_key, done>>
  BY <1>5
<1>12. t.pad /\ jobs' = <<[j EXCEPT !.fresh = FALSE]>> \o Tail(jobs)
  BY <1>3, Zenon
<1>13. j \in Pes /\ packet \in Packet
  BY <1>4
<1>. QED  BY <1>2, <1>4, <1>5, <1>9, <1>10, <1>11, <1>12, <1>13

(* The packet of Emit, its clock reference and what is left behind it.     *)
WithPcr(j, t) == t.write_pcr \/ (RandomAccess(j) /\ j.s = PcrStream)

(* the clock reference,                                                    *)
PcrOf(j, t) == IF CBR THEN get_pcr(t.n, t.first) ELSE (j.dts - max_delay) * PcrScale

(* the packet,                                                             *)
OwnPacket(j, t) ==
  [pid |-> j.s, cc |-> (cc[j.s] + 1) % 16, payload |-> TRUE, key |-> RandomAccess(j),
   pcr |-> IF WithPcr(j, t) THEN <<PcrOf(j, t)>> ELSE << >>, dts |-> j.dts]

(* and the PES behind it.                                                  *)
RestOf(j, t) ==
  [j EXCEPT !.left = @ - Layout(j, WithPcr(j, t)).len, !.fresh = FALSE, !.start = FALSE]

(* A clock reference is a number,                                          *)
LEMMA PcrOfType ==
  ASSUME TypeOK, NEW j \in Pes, NEW t, t = Turn(j)
  PROVE  PcrOf(j, t) \in Int
<1>1. get_pcr(t.n, t.first) \in Int
  BY TurnType, ClockType
<1>2. j.dts \in Int /\ max_delay \in Int /\ PcrScale \in Int
  BY PesFields, TimesAssumption, PcrAssumption
<1>3. (j.dts - max_delay) * PcrScale \in Int
  BY <1>2
<1>. QED  BY <1>1, <1>3 DEF PcrOf

(* and the packet a packet.                                                *)
LEMMA OwnPacketType ==
  ASSUME TypeOK, NEW j \in Pes, NEW t, t = Turn(j)
  PROVE  OwnPacket(j, t) \in Packet
<1>1. PICK pcr \in Int : pcr = PcrOf(j, t)
  BY PcrOfType
<1>2. PICK c \in 0 .. 15 : c = (cc[j.s] + 1) % 16
  <2>1. j.s \in Pids /\ cc \in [Pids -> 0 .. 15]
    BY PesFields DEF Pids, TypeOK
  <2>. QED  BY <2>1
<1>3. PICK q \in Seq(Int) : q = IF WithPcr(j, t) THEN <<PcrOf(j, t)>> ELSE << >>
  <2>1. <<pcr>> \in Seq(Int) /\ << >> \in Seq(Int)
    OBVIOUS
  <2>. QED  BY <1>1, <2>1, Zenon
<1>4. PICK p \in Pids \cup {Null} : p = j.s
  BY PesFields DEF Pids
<1>5. PICK d \in Int : d = j.dts
  BY PesFields
<1>6. PICK key \in BOOLEAN : key = RandomAccess(j)
  BY PesFields, Zenon DEF RandomAccess
<1>7. OwnPacket(j, t) = [pid |-> p, cc |-> c, payload |-> TRUE, key |-> key, pcr |-> q, dts |-> d]
  BY <1>2, <1>3, <1>4, <1>5, <1>6, Zenon DEF OwnPacket
<1>. QED  BY <1>7 DEF Packet

(* At least a byte of the PES goes into the packet, and no more than is    *)
(* left of it.                                                             *)
LEMMA RestOfType ==
  ASSUME NEW j \in Pes, NEW t, t = Turn(j)
  PROVE  /\ RestOf(j, t).left \in Nat /\ RestOf(j, t).left < j.left
         /\ RestOf(j, t).left > 0 => RestOf(j, t) \in Pes
         /\ RestOf(j, t).fresh = FALSE /\ RestOf(j, t).start = FALSE
         /\ RestOf(j, t).s = j.s /\ RestOf(j, t).units = j.units
         /\ RestOf(j, t).dts = j.dts /\ RestOf(j, t).key = j.key
<1>1. PICK len \in Int : len = Layout(j, WithPcr(j, t)).len /\ len \in 1 .. j.left
  <2>1. PICK a \in BOOLEAN : a = RandomAccess(j)
    BY PesFields, Zenon DEF RandomAccess
  <2>2. PICK b \in BOOLEAN : b = WithPcr(j, t)
    BY TurnBool, Zenon DEF WithPcr
  <2>3. PICK c \in BOOLEAN : c = j.start
    BY PesFields
  <2>4. PICK d \in BOOLEAN : d = (j.dts # j.pts)
    OBVIOUS
  <2>5. j.left \in Nat \ {0}
    BY PesFields
  <2>6. PesPacket(AfBytes(a, b), PesHeader(c, d, FALSE), j.left).len \in 1 .. j.left
    BY <2>5, PacketIsFull
  <2>7. Layout(j, WithPcr(j, t)).len = PesPacket(AfBytes(a, b), PesHeader(c, d, FALSE), j.left).len
    BY <2>1, <2>2, <2>3, <2>4, Zenon DEF Layout
  <2>8. PICK len \in 1 .. j.left :
          len = PesPacket(AfBytes(a, b), PesHeader(c, d, FALSE), j.left).len
    BY <2>6, Zenon
  <2>9. len = Layout(j, WithPcr(j, t)).len
    BY <2>7, <2>8, Zenon
  <2>10. len \in Int
    BY <2>5
  <2>. QED  BY <2>9, <2>10, Zenon
<1>2. RestOf(j, t) = [j EXCEPT !.left = j.left - len, !.fresh = FALSE, !.start = FALSE]
  BY <1>1 DEF RestOf
<1>3. j.left \in Nat \ {0} /\ j.left - len \in Nat /\ j.left - len < j.left
  BY <1>1, PesFields
<1>4. PICK left \in Nat : left = j.left - len
  BY <1>3
<1>5. left > 0 => [j EXCEPT !.left = left, !.fresh = FALSE, !.start = FALSE] \in Pes
  <2>1. left > 0 => left \in Nat \ {0}
    OBVIOUS
  <2>. QED  BY <2>1 DEF Pes
<1>6. /\ RestOf(j, t).left = left
      /\ RestOf(j, t).fresh = FALSE /\ RestOf(j, t).start = FALSE
      /\ RestOf(j, t).s = j.s /\ RestOf(j, t).units = j.units
      /\ RestOf(j, t).dts = j.dts /\ RestOf(j, t).key = j.key
  BY <1>2, <1>4 DEF Pes
<1>. QED  BY <1>2, <1>3, <1>4, <1>5, <1>6

(* Emit, in these terms.                                                   *)
LEMMA EmitIs ==
  ASSUME TypeOK, Emit
  PROVE  \E j \in Pes : \E t :
           /\ jobs # << >> /\ j = Head(jobs) /\ t = Turn(j) /\ ~t.pad
           /\ Turned(j, t, j.s, OwnPacket(j, t))
           /\ IF RestOf(j, t).left > 0
              THEN /\ jobs' = <<RestOf(j, t)>> \o Tail(jobs)
                   /\ UNCHANGED <<prev_key, done>>
              ELSE /\ jobs' = Tail(jobs)
                   /\ prev_key' = [prev_key EXCEPT ![j.s] = j.key]
                   /\ done' = [done EXCEPT ![j.s] = @ + Len(j.units)]
<1>1. PICK j \in InHand : \E t \in {Turn(j)} :
        LET write_pcr == t.write_pcr \/ (RandomAccess(j) /\ j.s = PcrStream)
            pcr == IF CBR THEN get_pcr(t.n, t.first) ELSE (j.dts - max_delay) * PcrScale
            rest == [j EXCEPT !.left = @ - Layout(j, write_pcr).len,
                              !.fresh = FALSE, !.start = FALSE]
        IN  /\ ~t.pad
            /\ Turned(j, t, j.s,
                 [pid |-> j.s, cc |-> (cc[j.s] + 1) % 16, payload |-> TRUE,
                  key |-> RandomAccess(j), pcr |-> IF write_pcr THEN <<pcr>> ELSE << >>,
                  dts |-> j.dts])
            /\ IF rest.left > 0
               THEN /\ jobs' = <<rest>> \o Tail(jobs)
                    /\ UNCHANGED <<prev_key, done>>
               ELSE /\ jobs' = Tail(jobs)
                    /\ prev_key' = [prev_key EXCEPT ![j.s] = j.key]
                    /\ done' = [done EXCEPT ![j.s] = @ + Len(j.units)]
  BY Zenon DEF Emit
<1>2. PICK t : t = Turn(j)
  OBVIOUS
<1>3. /\ ~t.pad
      /\ Turned(j, t, j.s, OwnPacket(j, t))
      /\ IF RestOf(j, t).left > 0
         THEN /\ jobs' = <<RestOf(j, t)>> \o Tail(jobs)
              /\ UNCHANGED <<prev_key, done>>
         ELSE /\ jobs' = Tail(jobs)
              /\ prev_key' = [prev_key EXCEPT ![j.s] = j.key]
              /\ done' = [done EXCEPT ![j.s] = @ + Len(j.units)]
  BY <1>1, <1>2, Zenon DEF OwnPacket, RestOf, WithPcr, PcrOf
<1>4. jobs # << >> /\ j = Head(jobs) /\ j \in Pes
  <2>1. jobs # << >> /\ j = Head(jobs)
    BY DEF InHand
  <2>2. jobs \in Seq(Pes)
    BY DEF TypeOK
  <2>. QED  BY <2>1, <2>2
<1>. QED  BY <1>2, <1>3, <1>4

-----------------------------------------------------------------------------

(* The jobs behind the first are PES, and so are they behind another.      *)
LEMMA TailType ==
  ASSUME jobs \in Seq(Pes), jobs # << >>
  PROVE  /\ Tail(jobs) \in Seq(Pes)
         /\ \A j \in Pes : <<j>> \o Tail(jobs) \in Seq(Pes)
<1>1. Tail(jobs) \in Seq(Pes)
  OBVIOUS
<1>2. ASSUME NEW j \in Pes, NEW q \in Seq(Pes)
      PROVE  <<j>> \o q \in Seq(Pes)
  OBVIOUS
<1>. QED  BY <1>1, <1>2

(* Every step keeps the types.                                             *)
LEMMA NextType ==
  ASSUME TypeOK, [Next]_vars
  PROVE  TypeOK'
<1>0. /\ held \in [Streams -> Payload] /\ queued \in [Streams -> Nat]
      /\ prev_key \in [Streams -> BOOLEAN] /\ cc \in [Pids -> 0 .. 15]
      /\ tables \in [sdt_count : Nat, pat_count : Nat, last_sdt_ts : Int, last_pat_ts : Int]
      /\ pcr_count \in Nat /\ first_pcr \in Int /\ sent \in Nat
      /\ jobs \in Seq(Pes)
      /\ given \in [Streams -> Nat] /\ done \in [Streams -> Nat]
      /\ given_dts \in [Streams -> Int] /\ last_dts \in Int
      /\ budget \in 0 .. MaxUnits
      /\ wrote \in Seq(Packet) /\ seen \in [Pids -> 0 .. 15] /\ fed \subseteq Streams
      /\ last_pcr \in LastPcrType
  BY DEF TypeOK, LastPcrType
<1>1. ASSUME NEW s \in Streams, NEW kind \in Kinds[s], NEW gap \in Gaps[s],
             GiveUnit(s, kind, gap)
      PROVE  TypeOK'
  <2>1. PICK dts \in Int :
          /\ WriteUnit(s, UnitOf(s, kind, dts))
          /\ UnitOf(s, kind, dts) \in Unit
          /\ given' = [given EXCEPT ![s] = @ + 1]
          /\ given_dts' = [given_dts EXCEPT ![s] = dts]
          /\ last_dts' = dts
          /\ budget' \in 0 .. MaxUnits
          /\ wrote' = << >>
          /\ UNCHANGED <<prev_key, cc, tables, pcr_count, first_pcr, sent, done,
                         seen, fed, last_pcr>>
    BY <1>1, GiveUnitIs
  <2>2. jobs' \in Seq(Pes) /\ held' \in [Streams -> Payload] /\ queued' \in [Streams -> Nat]
    BY <1>0, <2>1, WriteUnitType
  <2>3. /\ given' \in [Streams -> Nat] /\ given_dts' \in [Streams -> Int] /\ last_dts' \in Int
        /\ wrote' \in Seq(Packet)
    BY <1>0, <2>1
  <2>4. /\ prev_key' \in [Streams -> BOOLEAN] /\ cc' \in [Pids -> 0 .. 15]
        /\ tables' \in [sdt_count : Nat, pat_count : Nat, last_sdt_ts : Int, last_pat_ts : Int]
        /\ pcr_count' \in Nat /\ first_pcr' \in Int /\ sent' \in Nat
        /\ done' \in [Streams -> Nat] /\ seen' \in [Pids -> 0 .. 15] /\ fed' \subseteq Streams
        /\ last_pcr' \in LastPcrType
    BY <1>0, <2>1
  <2>. QED  BY <2>1, <2>2, <2>3, <2>4 DEF TypeOK, LastPcrType
<1>2. ASSUME NEW p \in Sections, NEW len \in SectionLens, GiveSection(p, len)
      PROVE  TypeOK'
  <2>1. p \in Pids /\ len \in Nat
    BY SectionsAssumption DEF SectionLen, Pids
  <2>2. PICK packets : packets = SectionOf(p, len)
    OBVIOUS
  <2>3. packets \in Seq(Packet) /\ packets # << >>
    <3>1. packets \in Seq(Packet) /\ Len(packets) = SectionPackets(len)
      BY <1>0, <2>1, <2>2, SectionOfType
    <3>2. SectionPackets(len) > 0
      BY <2>1, SectionPacketsType
    <3>. QED  BY <3>1, <3>2
  <2>4. WritePackets(packets)
    BY <1>2, <2>2 DEF GiveSection
  <2>5. /\ wrote' \in Seq(Packet) /\ sent' \in Nat /\ seen' \in [Pids -> 0 .. 15]
        /\ fed' \subseteq Streams /\ last_pcr' \in LastPcrType
    BY <1>0, <2>3, <2>4, WritePacketsType
  <2>6. cc' \in [Pids -> 0 .. 15]
    <3>1. PICK n \in Nat : n = SectionPackets(len)
      BY <2>1, SectionPacketsType
    <3>2. (cc[p] + n) % 16 \in 0 .. 15
      <4>1. cc[p] \in 0 .. 15
        BY <1>0, <2>1
      <4>2. PICK x \in Nat : x = cc[p] + n
        BY <3>1, <4>1
      <4>. QED  BY <4>2
    <3>3. cc' = [cc EXCEPT ![p] = (cc[p] + n) % 16]
      BY <1>2, <3>1 DEF GiveSection
    <3>. QED  BY <1>0, <3>2, <3>3
  <2>7. budget' \in 0 .. MaxUnits
    <3>1. budget > 0 /\ budget' = budget - 1 /\ MaxUnits \in Nat
      BY <1>2, BoundsAssumption DEF GiveSection
    <3>. QED  BY <1>0, <3>1
  <2>8. /\ held' = held /\ queued' = queued /\ prev_key' = prev_key /\ tables' = tables
        /\ pcr_count' = pcr_count /\ first_pcr' = first_pcr /\ jobs' = jobs
        /\ given' = given /\ given_dts' = given_dts /\ last_dts' = last_dts /\ done' = done
    BY <1>2 DEF GiveSection, payloadvars, clockvars
  <2>. QED  BY <1>0, <2>5, <2>6, <2>7, <2>8 DEF TypeOK, LastPcrType
<1>3. CASE Flush
  <2>. DEFINE rest == {i \in Streams : held[i].size > 0}
  <2>1. /\ jobs' = PesOfAll(rest)
        /\ held' = [s \in Streams |-> Emptied(held[s])]
        /\ queued' = [s \in Streams |-> IF held[s].size > 0 THEN 0 ELSE queued[s]]
        /\ wrote' = << >>
    BY <1>3 DEF Flush
  <2>2. jobs' \in Seq(Pes)
    <3>1. rest \in SUBSET Streams /\ \A i \in rest : held[i].size > 0
      OBVIOUS
    <3>. HIDE DEF rest
    <3>. QED  BY <1>0, <2>1, <3>1, PesOfAllType
  <2>3. held' \in [Streams -> Payload] /\ queued' \in [Streams -> Nat]
    <3>1. \A s \in Streams : Emptied(held[s]) \in Payload
      BY <1>0, EmptiedType
    <3>2. held' \in [Streams -> Payload]
      BY <2>1, <3>1
    <3>3. \A s \in Streams : (IF held[s].size > 0 THEN 0 ELSE queued[s]) \in Nat
      BY <1>0
    <3>4. queued' \in [Streams -> Nat]
      BY <2>1, <3>3
    <3>. QED  BY <3>2, <3>4
  <2>4. /\ prev_key' = prev_key /\ cc' = cc /\ tables' = tables
        /\ pcr_count' = pcr_count /\ first_pcr' = first_pcr /\ sent' = sent
        /\ given' = given /\ given_dts' = given_dts /\ last_dts' = last_dts
        /\ budget' = budget /\ done' = done
        /\ seen' = seen /\ fed' = fed /\ last_pcr' = last_pcr
    BY <1>3 DEF Flush, clockvars, inputvars, receiver
  <2>5. wrote' \in Seq(Packet)
    BY <2>1
  <2>. QED  BY <1>0, <2>2, <2>3, <2>4, <2>5 DEF TypeOK, LastPcrType
<1>4. ASSUME NEW j \in Pes, NEW t, t = Turn(j), NEW own, NEW packet \in Packet,
             Turned(j, t, own, packet),
             jobs' \in Seq(Pes), prev_key' \in [Streams -> BOOLEAN], done' \in [Streams -> Nat]
      PROVE  TypeOK'
  <2>1. /\ tables' \in [sdt_count : Nat, pat_count : Nat, last_sdt_ts : Int, last_pat_ts : Int]
        /\ pcr_count' \in Nat /\ first_pcr' \in Int /\ cc' \in [Pids -> 0 .. 15]
        /\ wrote' \in Seq(Packet) /\ sent' \in Nat /\ seen' \in [Pids -> 0 .. 15]
        /\ fed' \subseteq Streams /\ last_pcr' \in LastPcrType
    BY <1>4, TurnedType
  <2>2. /\ held' = held /\ queued' = queued /\ given' = given /\ given_dts' = given_dts
        /\ last_dts' = last_dts /\ budget' = budget
    BY <1>4 DEF Turned, payloadvars, inputvars
  <2>. QED  BY <1>0, <1>4, <2>1, <2>2 DEF TypeOK, LastPcrType
<1>5. CASE Pad
  <2>1. PICK j \in Pes, packet \in Packet : \E t :
          /\ jobs # << >> /\ t = Turn(j)
          /\ Turned(j, t, Null, packet)
          /\ jobs' = <<[j EXCEPT !.fresh = FALSE]>> \o Tail(jobs)
          /\ UNCHANGED <<prev_key, done>>
    BY <1>5, PadIs
  <2>2. PICK t :
          /\ jobs # << >> /\ t = Turn(j)
          /\ Turned(j, t, Null, packet)
          /\ jobs' = <<[j EXCEPT !.fresh = FALSE]>> \o Tail(jobs)
          /\ UNCHANGED <<prev_key, done>>
    BY <2>1
  <2>3. [j EXCEPT !.fresh = FALSE] \in Pes
    BY DEF Pes
  <2>4. jobs' \in Seq(Pes)
    BY <1>0, <2>2, <2>3, TailType
  <2>5. prev_key' \in [Streams -> BOOLEAN] /\ done' \in [Streams -> Nat]
    BY <1>0, <2>2
  <2>. QED  BY <1>4, <2>2, <2>4, <2>5
<1>6. CASE Emit
  <2>1. PICK j \in Pes : \E t :
          /\ jobs # << >> /\ t = Turn(j)
          /\ Turned(j, t, j.s, OwnPacket(j, t))
          /\ IF RestOf(j, t).left > 0
             THEN /\ jobs' = <<RestOf(j, t)>> \o Tail(jobs)
                  /\ UNCHANGED <<prev_key, done>>
             ELSE /\ jobs' = Tail(jobs)
                  /\ prev_key' = [prev_key EXCEPT ![j.s] = j.key]
                  /\ done' = [done EXCEPT ![j.s] = @ + Len(j.units)]
    BY <1>6, EmitIs
  <2>2. PICK t :
          /\ jobs # << >> /\ t = Turn(j)
          /\ Turned(j, t, j.s, OwnPacket(j, t))
          /\ IF RestOf(j, t).left > 0
             THEN /\ jobs' = <<RestOf(j, t)>> \o Tail(jobs)
                  /\ UNCHANGED <<prev_key, done>>
             ELSE /\ jobs' = Tail(jobs)
                  /\ prev_key' = [prev_key EXCEPT ![j.s] = j.key]
                  /\ done' = [done EXCEPT ![j.s] = @ + Len(j.units)]
    BY <2>1
  <2>3. OwnPacket(j, t) \in Packet
    BY <2>2, OwnPacketType
  <2>4. RestOf(j, t).left > 0 => RestOf(j, t) \in Pes
    BY <2>2, RestOfType
  <2>5. jobs' \in Seq(Pes)
    BY <1>0, <2>2, <2>4, TailType
  <2>6. j.key \in BOOLEAN /\ Len(j.units) \in Nat /\ j.s \in Streams
    BY PesFields
  <2>7. prev_key' \in [Streams -> BOOLEAN]
    <3>1. CASE RestOf(j, t).left > 0
      BY <1>0, <2>2, <3>1
    <3>2. CASE ~(RestOf(j, t).left > 0)
      <4>1. prev_key' = [prev_key EXCEPT ![j.s] = j.key]
        BY <2>2, <3>2
      <4>. QED  BY <1>0, <2>6, <4>1
    <3>. QED  BY <3>1, <3>2
  <2>8. done' \in [Streams -> Nat]
    <3>1. CASE RestOf(j, t).left > 0
      BY <1>0, <2>2, <3>1
    <3>2. CASE ~(RestOf(j, t).left > 0)
      <4>1. done' = [done EXCEPT ![j.s] = @ + Len(j.units)]
        BY <2>2, <3>2
      <4>. QED  BY <1>0, <2>6, <4>1
    <3>. QED  BY <3>1, <3>2
  <2>. QED  BY <1>4, <2>2, <2>3, <2>5, <2>7, <2>8
<1>7. CASE UNCHANGED vars
  BY <1>7 DEF TypeOK, vars, payloadvars, clockvars, inputvars, receiver
<1>. QED  BY <1>1, <1>2, <1>3, <1>5, <1>6, <1>7 DEF Next

(* Whatever the streams, units, sections and rates are.                    *)
THEOREM TypeOKHolds == Spec => []TypeOK
<1>1. Init => TypeOK
  BY InitType
<1>2. TypeOK /\ [Next]_vars => TypeOK'
  BY NextType
<1>. QED  BY <1>1, <1>2, PTL DEF Spec

-----------------------------------------------------------------------------
(* What a unit sets off, stream by stream: q lists the streams whose       *)
(* payload is written.                                                     *)
Written(q, i) == \E k \in 1 .. Len(q) : q[k] = i

(* None is listed twice,                                                   *)
Distinct(q) == \A a, b \in 1 .. Len(q) : a # b => q[a] # q[b]

(* and all of them have something gathered.                                *)
Flushes(q) ==
  /\ q \in Seq(Streams) /\ Distinct(q)
  /\ \A k \in 1 .. Len(q) : held[q[k]].size > 0

(* Their PES.                                                              *)
PesList(q) == [k \in 1 .. Len(q) |-> PesOf(q[k])]

(* The unit makes a PES of its own.                                        *)
Direct(s, u) == s \notin Audio \/ u.size > pes_payload_size

(* What stays gathered.                                                    *)
Left(q, i) == IF Written(q, i) THEN Emptied(held[i]) ELSE held[i]

(* The streams that are written all are the listed ones, each once.        *)
LEMMA AllOnce ==
  ASSUME NEW chosen \in SUBSET Streams, \A i \in chosen : held[i].size > 0
  PROVE  \E q : /\ Flushes(q)
                /\ PesOfAll(chosen) = PesList(q)
                /\ \A i \in Streams : Written(q, i) <=> i \in chosen
<1>1. PICK q : /\ Lists(q, chosen, NumStreams)
               /\ PesOfAll(chosen) = [k \in 1 .. Len(q) |-> PesOf(q[k])]
  BY PesOfAllLists DEF ListsPes
<1>2. chosen \cap 1 .. NumStreams = chosen
  BY DEF Streams
<1>3. q \in Seq(chosen) /\ Len(q) \in Nat
  BY <1>1, <1>2 DEF Lists
<1>4. q \in Seq(Streams) /\ \A k \in 1 .. Len(q) : q[k] \in chosen /\ q[k] \in Int
  <2>1. q \in Seq(Streams) /\ \A k \in 1 .. Len(q) : q[k] \in chosen
    BY <1>3
  <2>2. \A i \in Streams : i \in Int
    BY StreamsAssumption DEF Streams
  <2>. QED  BY <2>1, <2>2
<1>5. \A a, b \in 1 .. Len(q) : a < b => q[a] < q[b]
  BY <1>1 DEF Lists
<1>6. Distinct(q)
  <2>1. ASSUME NEW a \in 1 .. Len(q), NEW b \in 1 .. Len(q), a # b
        PROVE  q[a] # q[b]
    <3>1. a < b \/ b < a
      BY <1>3, <2>1
    <3>2. q[a] < q[b] \/ q[b] < q[a]
      BY <1>5, <3>1
    <3>. QED  BY <1>4, <3>2
  <2>. QED  BY <2>1 DEF Distinct
<1>7. \A i \in chosen : Written(q, i)
  <2>1. \A i \in chosen \cap 1 .. NumStreams : \E a \in 1 .. Len(q) : q[a] = i
    BY <1>1 DEF Lists
  <2>. QED  BY <1>2, <2>1 DEF Written
<1>8. \A i \in Streams : Written(q, i) => i \in chosen
  BY <1>4 DEF Written
<1>. QED  BY <1>1, <1>4, <1>6, <1>7, <1>8 DEF Flushes, PesList

(* mpegts_write_packet_internal: payloads that are too old or that the     *)
(* unit does not fit behind are written, and the unit itself is, or joins  *)
(* what is left.                                                           *)
LEMMA WriteUnitJobs ==
  ASSUME NEW s \in Streams, NEW u \in Unit,
         held \in [Streams -> Payload],
         WriteUnit(s, u)
  PROVE  \E q :
           /\ Flushes(q)
           /\ \A i \in Streams : Stale(i, u.dts) => Written(q, i)
           /\ held[s].size > 0 /\ Full(s, u) => Written(q, s)
           /\ jobs' = PesList(q) \o (IF Direct(s, u) THEN <<UnitPes(s, u)>> ELSE << >>)
           /\ held' = [i \in Streams |-> IF i = s /\ ~Direct(s, u) THEN Gathered(Left(q, i), u)
                                         ELSE Left(q, i)]
<1>. DEFINE stale == {i \in Streams : Stale(i, u.dts)}
            kept == [i \in Streams |-> IF Stale(i, u.dts) THEN Emptied(held[i]) ELSE held[i]]
            full == kept[s].size > 0 /\ Full(s, u)
            mine == IF full THEN Emptied(kept[s]) ELSE kept[s]
            direct == s \notin Audio \/ u.size > pes_payload_size
            tail == IF direct THEN <<UnitPes(s, u)>> ELSE << >>
<1>1. /\ jobs' = PesOfAll(stale) \o (IF full THEN <<PesOf(s)>> ELSE << >>) \o tail
      /\ held' = [kept EXCEPT ![s] = IF direct THEN mine ELSE Gathered(mine, u)]
  BY DEF WriteUnit
<1>2. stale \in SUBSET Streams /\ \A i \in stale : held[i].size > 0
  BY DEF Stale
<1>3. PICK q : /\ Flushes(q)
               /\ PesOfAll(stale) = PesList(q)
               /\ \A i \in Streams : Written(q, i) <=> i \in stale
  <2>. HIDE DEF stale
  <2>. QED  BY <1>2, AllOnce
<1>4. full => s \notin stale /\ held[s].size > 0
  BY DEF Emptied
<1>5. \A i \in Streams : kept[i] = Left(q, i)
  BY <1>3 DEF Left
<1>6. tail \in Seq(Pes) /\ PesOf(s) \in {PesOf(i) : i \in Streams}
  BY UnitPesType
<1>7. direct = Direct(s, u)
  BY DEF Direct
<1>8. q \in Seq(Streams) /\ Len(q) \in Nat
  BY <1>3 DEF Flushes
<1>9. CASE full
  <2>. DEFINE r == Append(q, s)
  <2>1. /\ r \in Seq(Streams) /\ Len(r) = Len(q) + 1 /\ r[Len(q) + 1] = s
        /\ \A k \in 1 .. Len(q) : r[k] = q[k]
    BY <1>8
  <2>. HIDE DEF r
  <2>2. \A k \in 1 .. Len(q) : q[k] \in Streams /\ q[k] # s /\ held[q[k]].size > 0
    BY <1>3, <1>4, <1>9, <1>8 DEF Written, Flushes
  <2>3. \A k \in 1 .. Len(r) : k = Len(q) + 1 \/ k \in 1 .. Len(q)
    BY <1>8, <2>1
  <2>4. Flushes(r)
    <3>1. Distinct(r)
      <4>1. ASSUME NEW a \in 1 .. Len(r), NEW b \in 1 .. Len(r), a # b
            PROVE  r[a] # r[b]
        <5>1. CASE a \in 1 .. Len(q) /\ b \in 1 .. Len(q)
          <6>1. q[a] # q[b]
            BY <1>3, <4>1, <5>1 DEF Flushes, Distinct
          <6>. QED  BY <2>1, <5>1, <6>1
        <5>2. CASE a = Len(q) + 1
          <6>1. b \in 1 .. Len(q)
            BY <2>3, <4>1, <5>2
          <6>. QED  BY <2>1, <2>2, <5>2, <6>1
        <5>3. CASE b = Len(q) + 1
          <6>1. a \in 1 .. Len(q)
            BY <2>3, <4>1, <5>3
          <6>. QED  BY <2>1, <2>2, <5>3, <6>1
        <5>. QED  BY <2>3, <5>1, <5>2, <5>3
      <4>. QED  BY <4>1 DEF Distinct
    <3>2. \A k \in 1 .. Len(r) : held[r[k]].size > 0
      BY <1>4, <1>9, <2>1, <2>2, <2>3
    <3>. QED  BY <2>1, <3>1, <3>2 DEF Flushes
  <2>5. \A i \in Streams : Written(r, i) <=> (Written(q, i) \/ i = s)
    <3>1. ASSUME NEW i \in Streams, Written(r, i)
          PROVE  Written(q, i) \/ i = s
      BY <2>1, <2>3, <3>1 DEF Written
    <3>2. ASSUME NEW i \in Streams, Written(q, i)
          PROVE  Written(r, i)
      <4>1. PICK k \in 1 .. Len(q) : q[k] = i
        BY <3>2 DEF Written
      <4>2. k \in 1 .. Len(r) /\ r[k] = i
        BY <1>8, <2>1, <4>1
      <4>. QED  BY <4>2 DEF Written
    <3>3. Written(r, s)
      BY <1>8, <2>1 DEF Written
    <3>. QED  BY <3>1, <3>2, <3>3
  <2>6. PesList(q) \o <<PesOf(s)>> = PesList(r)
    BY <1>8, <2>1 DEF PesList
  <2>7. jobs' = PesList(r) \o tail
    BY <1>1, <1>3, <1>9, <2>6
  <2>8. Left(r, s) = mine /\ \A i \in Streams : i # s => Left(r, i) = kept[i]
    <3>1. kept[s] = held[s]
      BY <1>4, <1>9
    <3>2. mine = Emptied(held[s])
      BY <1>9, <3>1
    <3>3. Left(r, s) = Emptied(held[s])
      BY <2>5 DEF Left
    <3>4. ASSUME NEW i \in Streams, i # s
          PROVE  Left(r, i) = kept[i]
      <4>1. Left(r, i) = Left(q, i)
        BY <2>5, <3>4 DEF Left
      <4>. QED  BY <1>5, <4>1
    <3>. QED  BY <3>2, <3>3, <3>4
  <2>9. held' = [i \in Streams |-> IF i = s /\ ~Direct(s, u) THEN Gathered(Left(r, i), u)
                                   ELSE Left(r, i)]
    <3>1. DOMAIN kept = Streams
      OBVIOUS
    <3>. HIDE DEF kept, mine, full, direct
    <3>2. held' = [i \in Streams |-> IF i = s THEN IF direct THEN mine ELSE Gathered(mine, u)
                                     ELSE kept[i]]
      BY <1>1, <3>1
    <3>3. ASSUME NEW i \in Streams
          PROVE  (IF i = s THEN IF direct THEN mine ELSE Gathered(mine, u) ELSE kept[i])
                   = IF i = s /\ ~Direct(s, u) THEN Gathered(Left(r, i), u) ELSE Left(r, i)
      BY <1>7, <2>8
    <3>. QED  BY <3>2, <3>3
  <2>10. \A i \in Streams : Stale(i, u.dts) => Written(r, i)
    BY <1>3, <2>5
  <2>11. Written(r, s)
    BY <2>5
  <2>. QED  BY <1>7, <2>4, <2>7, <2>9, <2>10, <2>11
<1>10. CASE ~full
  <2>1. jobs' = PesList(q) \o tail
    <3>1. PesList(q) \o << >> = PesList(q)
      BY <1>8 DEF PesList
    <3>. QED  BY <1>1, <1>3, <1>10, <3>1
  <2>2. mine = Left(q, s)
    BY <1>5, <1>10
  <2>3. held' = [i \in Streams |-> IF i = s /\ ~Direct(s, u) THEN Gathered(Left(q, i), u)
                                   ELSE Left(q, i)]
    <3>1. DOMAIN kept = Streams
      OBVIOUS
    <3>. HIDE DEF kept, mine, full, direct
    <3>2. held' = [i \in Streams |-> IF i = s THEN IF direct THEN mine ELSE Gathered(mine, u)
                                     ELSE kept[i]]
      BY <1>1, <3>1
    <3>3. ASSUME NEW i \in Streams
          PROVE  (IF i = s THEN IF direct THEN mine ELSE Gathered(mine, u) ELSE kept[i])
                   = IF i = s /\ ~Direct(s, u) THEN Gathered(Left(q, i), u) ELSE Left(q, i)
      BY <1>5, <1>7, <2>2
    <3>. QED  BY <3>2, <3>3
  <2>4. \A i \in Streams : Stale(i, u.dts) => Written(q, i)
    BY <1>3
  <2>5. held[s].size > 0 /\ Full(s, u) => Written(q, s)
    BY <1>3, <1>10
  <2>. QED  BY <1>3, <1>7, <2>1, <2>3, <2>4, <2>5
<1>. QED  BY <1>9, <1>10

-----------------------------------------------------------------------------

(* The jobs when the first is replaced,                                    *)
LEMMA FrontIs ==
  ASSUME jobs \in Seq(Pes), jobs # << >>, NEW x
  PROVE  /\ Len(jobs) \in Nat \ {0} /\ Head(jobs) = jobs[1]
         /\ Len(<<x>> \o Tail(jobs)) = Len(jobs)
         /\ (<<x>> \o Tail(jobs))[1] = x
         /\ \A n \in 2 .. Len(jobs) : (<<x>> \o Tail(jobs))[n] = jobs[n]
<1>1. Len(jobs) \in Nat \ {0} /\ Head(jobs) = jobs[1]
  <2>1. Len(jobs) \in Nat
    OBVIOUS
  <2>2. Len(jobs) # 0
    <3>1. PICK p \in Seq(Pes) : p = jobs
      OBVIOUS
    <3>2. p # << >> => Len(p) # 0
      OBVIOUS
    <3>. QED  BY <3>1, <3>2
  <2>3. Head(jobs) = jobs[1]
    OBVIOUS
  <2>. QED  BY <2>1, <2>2, <2>3
<1>2. PICK q \in Seq(Pes) : q = Tail(jobs)
  BY TailType
<1>3. Len(q) = Len(jobs) - 1 /\ \A n \in 1 .. Len(q) : q[n] = jobs[n + 1]
  BY <1>2
<1>4. Len(<<x>> \o q) = 1 + Len(q) /\ (<<x>> \o q)[1] = x
  OBVIOUS
<1>5. ASSUME NEW n \in 2 .. Len(jobs)
      PROVE  (<<x>> \o q)[n] = jobs[n]
  <2>1. (<<x>> \o q)[n] = q[n - 1]
    BY <1>1, <1>3
  <2>2. n - 1 \in 1 .. Len(q) /\ (n - 1) + 1 = n
    BY <1>1, <1>3
  <2>. QED  BY <1>3, <2>1, <2>2
<1>. QED  BY <1>1, <1>2, <1>3, <1>4, <1>5

(* and when it is gone.                                                    *)
LEMMA TailIs ==
  ASSUME jobs \in Seq(Pes), jobs # << >>
  PROVE  /\ Len(jobs) \in Nat \ {0}
         /\ Len(Tail(jobs)) = Len(jobs) - 1
         /\ \A n \in 1 .. Len(jobs) - 1 : Tail(jobs)[n] = jobs[n + 1]
  OBVIOUS

(* The PES that a unit leaves to be written.                               *)
LEMMA ListIs ==
  ASSUME NEW q \in Seq(Streams)
  PROVE  /\ Len(q) \in Nat /\ Len(PesList(q)) = Len(q)
         /\ \A n \in 1 .. Len(q) : PesList(q)[n] = PesOf(q[n])
         /\ PesList(q) \o << >> = PesList(q)
         /\ \A x : /\ Len(PesList(q) \o <<x>>) = Len(q) + 1
                   /\ (PesList(q) \o <<x>>)[Len(q) + 1] = x
                   /\ \A n \in 1 .. Len(q) : (PesList(q) \o <<x>>)[n] = PesOf(q[n])
<1>1. Len(q) \in Nat
  OBVIOUS
<1>2. Len(PesList(q)) = Len(q) /\ \A n \in 1 .. Len(q) : PesList(q)[n] = PesOf(q[n])
  BY <1>1 DEF PesList
<1>3. PesList(q) \o << >> = PesList(q)
  BY <1>1 DEF PesList
<1>4. ASSUME NEW x
      PROVE  /\ Len(PesList(q) \o <<x>>) = Len(q) + 1
             /\ (PesList(q) \o <<x>>)[Len(q) + 1] = x
             /\ \A n \in 1 .. Len(q) : (PesList(q) \o <<x>>)[n] = PesOf(q[n])
  BY <1>1 DEF PesList
<1>. QED  BY <1>1, <1>2, <1>3, <1>4

(* The jobs behind a unit: those listed, then the unit's own.              *)
JobsBehind(q, s, u) ==
  /\ Len(jobs') = IF Direct(s, u) THEN Len(q) + 1 ELSE Len(q)
  /\ \A n \in 1 .. Len(q) : jobs'[n] = PesOf(q[n])
  /\ Direct(s, u) => jobs'[Len(q) + 1] = UnitPes(s, u)

(* WriteUnitJobs in these terms.                                           *)
LEMMA JobsBehindUnit ==
  ASSUME NEW q \in Seq(Streams), NEW s, NEW u,
         jobs' = PesList(q) \o (IF Direct(s, u) THEN <<UnitPes(s, u)>> ELSE << >>)
  PROVE  JobsBehind(q, s, u)
<1>1. CASE Direct(s, u)
  BY <1>1, ListIs DEF JobsBehind
<1>2. CASE ~Direct(s, u)
  BY <1>2, ListIs DEF JobsBehind
<1>. QED  BY <1>1, <1>2

(* What flushing does.                                                     *)
LEMMA FlushIs ==
  ASSUME TypeOK, Flush
  PROVE  \E q : /\ Flushes(q)
                /\ jobs = << >>
                /\ jobs' = PesList(q)
                /\ held' = [i \in Streams |-> Emptied(held[i])]
                /\ \A i \in Streams : held[i].size > 0 => Written(q, i)
                /\ queued' = [i \in Streams |-> IF held[i].size > 0 THEN 0 ELSE queued[i]]
                /\ wrote' = << >>
                /\ UNCHANGED <<prev_key, cc, tables, pcr_count, first_pcr, sent, given,
                               given_dts, last_dts, budget, done, seen, fed, last_pcr>>
<1>. DEFINE rest == {i \in Streams : held[i].size > 0}
<1>1. /\ jobs = << >> /\ jobs' = PesOfAll(rest)
      /\ held' = [s \in Streams |-> Emptied(held[s])]
      /\ queued' = [i \in Streams |-> IF held[i].size > 0 THEN 0 ELSE queued[i]]
      /\ wrote' = << >>
      /\ UNCHANGED <<prev_key, cc, clockvars, sent, inputvars, done, receiver>>
  BY DEF Flush
<1>2. rest \in SUBSET Streams /\ \A i \in rest : held[i].size > 0
  OBVIOUS
<1>3. \A i \in Streams : held[i].size > 0 => i \in rest
  OBVIOUS
<1>. HIDE DEF rest
<1>4. PICK q : /\ Flushes(q) /\ PesOfAll(rest) = PesList(q)
               /\ \A i \in Streams : Written(q, i) <=> i \in rest
  BY <1>2, AllOnce
<1>5. UNCHANGED <<prev_key, cc, tables, pcr_count, first_pcr, sent, given,
                  given_dts, last_dts, budget, done, seen, fed, last_pcr>>
  BY <1>1 DEF clockvars, inputvars, receiver
<1>. QED  BY <1>1, <1>3, <1>4, <1>5

-----------------------------------------------------------------------------
(* Only the PES in hand was begun, and its loop counted it.                *)
JobsInv ==
  /\ \A n \in 2 .. Len(jobs) : jobs[n].fresh /\ jobs[n].start
  /\ jobs # << >> =>
       /\ jobs[1].fresh => jobs[1].start
       /\ jobs[1].s = PcrStream /\ ~jobs[1].start /\ ~CBR => pcr_count < pcr_packet_period

(* There is no PES at first,                                               *)
LEMMA InitJobs ==
  ASSUME Init
  PROVE  JobsInv
  BY DEF Init, JobsInv

(* a list of fresh PES is as it should be,                                 *)
LEMMA NewJobs ==
  ASSUME NEW n \in Nat, Len(jobs') = n,
         \A k \in 1 .. n : jobs'[k].fresh /\ jobs'[k].start,
         jobs' \in Seq(Pes)
  PROVE  JobsInv'
<1>1. \A k \in 2 .. Len(jobs') : jobs'[k].fresh /\ jobs'[k].start
  OBVIOUS
<1>2. jobs' # << >> => jobs'[1].fresh /\ jobs'[1].start
  OBVIOUS
<1>. QED  BY <1>1, <1>2 DEF JobsInv

(* What giving a unit does to jobs and payloads.                           *)
LEMMA GiveUnitJobs ==
  ASSUME TypeOK, NEW s \in Streams, NEW kind \in Kinds[s], NEW gap \in Gaps[s],
         GiveUnit(s, kind, gap)
  PROVE  \E u \in Unit : \E q :
           /\ u = UnitOf(s, kind, given_dts[s] + gap)
           /\ Flushes(q)
           /\ \A i \in Streams : Stale(i, u.dts) => Written(q, i)
           /\ held[s].size > 0 /\ Full(s, u) => Written(q, s)
           /\ JobsBehind(q, s, u)
           /\ held' = [i \in Streams |-> IF i = s /\ ~Direct(s, u) THEN Gathered(Left(q, i), u)
                                         ELSE Left(q, i)]
<1>1. PICK dts \in Int :
        /\ dts = given_dts[s] + gap
        /\ WriteUnit(s, UnitOf(s, kind, dts))
        /\ UnitOf(s, kind, dts) \in Unit
  BY GiveUnitIs
<1>2. PICK u \in Unit : u = UnitOf(s, kind, dts)
  BY <1>1, Zenon
<1>3. WriteUnit(s, u) /\ held \in [Streams -> Payload]
  BY <1>1, <1>2, Zenon DEF TypeOK
<1>4. PICK q :
        /\ Flushes(q)
        /\ \A i \in Streams : Stale(i, u.dts) => Written(q, i)
        /\ held[s].size > 0 /\ Full(s, u) => Written(q, s)
        /\ jobs' = PesList(q) \o (IF Direct(s, u) THEN <<UnitPes(s, u)>> ELSE << >>)
        /\ held' = [i \in Streams |-> IF i = s /\ ~Direct(s, u) THEN Gathered(Left(q, i), u)
                                      ELSE Left(q, i)]
  BY <1>3, WriteUnitJobs
<1>5. JobsBehind(q, s, u)
  <2>1. q \in Seq(Streams)
    BY <1>4 DEF Flushes
  <2>. QED  BY <1>4, <2>1, JobsBehindUnit
<1>6. u = UnitOf(s, kind, given_dts[s] + gap)
  BY <1>1, <1>2, Zenon
<1>. QED  BY <1>4, <1>5, <1>6

(* The fields of new PES.                                                  *)
LEMMA PesOfFresh ==
  /\ \A i : PesOf(i).fresh = TRUE /\ PesOf(i).start = TRUE /\ PesOf(i).s = i
            /\ PesOf(i).units = held[i].units /\ PesOf(i).dts = held[i].dts
            /\ PesOf(i).pts = held[i].pts /\ PesOf(i).left = held[i].size
            /\ PesOf(i).key = held[i].key
  /\ \A s, u : UnitPes(s, u).fresh = TRUE /\ UnitPes(s, u).start = TRUE
               /\ UnitPes(s, u).s = s /\ UnitPes(s, u).units = <<u>>
               /\ UnitPes(s, u).dts = u.dts /\ UnitPes(s, u).pts = u.pts
               /\ UnitPes(s, u).left = u.size /\ UnitPes(s, u).key = u.key
  BY DEF PesOf, UnitPes

-----------------------------------------------------------------------------
(* All PES that a unit or a flush leaves are fresh.                        *)
LEMMA GiveUnitFresh ==
  ASSUME TypeOK, NEW s \in Streams, NEW kind \in Kinds[s], NEW gap \in Gaps[s],
         GiveUnit(s, kind, gap)
  PROVE  /\ Len(jobs') \in Nat
         /\ \A k \in 1 .. Len(jobs') : jobs'[k].fresh /\ jobs'[k].start
<1>1. PICK u \in Unit : \E q : Flushes(q) /\ JobsBehind(q, s, u)
  BY GiveUnitJobs
<1>2. PICK q : Flushes(q) /\ JobsBehind(q, s, u)
  BY <1>1, Zenon
<1>3. Len(q) \in Nat
  BY <1>2 DEF Flushes
<1>4. PICK n \in Nat : n = IF Direct(s, u) THEN Len(q) + 1 ELSE Len(q)
  BY <1>3
<1>5. \A k \in 1 .. n : jobs'[k].fresh /\ jobs'[k].start
  <2>1. ASSUME NEW k \in 1 .. n
        PROVE  jobs'[k].fresh /\ jobs'[k].start
    <3>1. CASE k \in 1 .. Len(q)
      <4>1. jobs'[k] = PesOf(q[k])
        BY <1>2, <3>1 DEF JobsBehind
      <4>. QED  BY <4>1, PesOfFresh
    <3>2. CASE ~(k \in 1 .. Len(q))
      <4>1. k = Len(q) + 1 /\ Direct(s, u)
        BY <1>3, <1>4, <3>2
      <4>2. jobs'[k] = UnitPes(s, u)
        BY <1>2, <4>1 DEF JobsBehind
      <4>. QED  BY <4>2, PesOfFresh
    <3>. QED  BY <3>1, <3>2
  <2>. QED  BY <2>1
<1>6. Len(jobs') = n
  BY <1>2, <1>4 DEF JobsBehind
<1>. QED  BY <1>5, <1>6

(* A flush leaves fresh PES too.                                           *)
LEMMA FlushFresh ==
  ASSUME TypeOK, Flush
  PROVE  /\ Len(jobs') \in Nat
         /\ \A k \in 1 .. Len(jobs') : jobs'[k].fresh /\ jobs'[k].start
<1>1. PICK q : Flushes(q) /\ jobs' = PesList(q)
  BY FlushIs
<1>2. q \in Seq(Streams) /\ Len(q) \in Nat
  BY <1>1 DEF Flushes
<1>3. Len(jobs') = Len(q)
  BY <1>1, <1>2, ListIs
<1>4. \A k \in 1 .. Len(q) : jobs'[k].fresh /\ jobs'[k].start
  BY <1>1, <1>2, ListIs, PesOfFresh
<1>. QED  BY <1>2, <1>3, <1>4

(* Every step leaves at most the first PES begun.                          *)
LEMMA NextJobs ==
  ASSUME TypeOK, JobsInv, [Next]_vars
  PROVE  JobsInv'
<1>0. TypeOK'
  BY NextType
<1>a. jobs' \in Seq(Pes) /\ jobs \in Seq(Pes)
  BY <1>0 DEF TypeOK
<1>1. ASSUME NEW s \in Streams, NEW kind \in Kinds[s], NEW gap \in Gaps[s],
             GiveUnit(s, kind, gap)
      PROVE  JobsInv'
  BY <1>a, <1>1, GiveUnitFresh, NewJobs
<1>2. ASSUME UNCHANGED <<jobs, pcr_count>>
      PROVE  JobsInv'
  <2>1. jobs' = jobs /\ pcr_count' = pcr_count
    BY <1>2
  <2>. QED  BY <2>1 DEF JobsInv
<1>3. ASSUME NEW p \in Sections, NEW len \in SectionLens, GiveSection(p, len)
      PROVE  JobsInv'
  BY <1>2, <1>3 DEF GiveSection, clockvars
<1>4. ASSUME Flush
      PROVE  JobsInv'
  BY <1>a, <1>4, FlushFresh, NewJobs
<1>5. ASSUME Pad
      PROVE  JobsInv'
  <2>1. PICK j \in Pes, packet \in Packet : \E t :
          /\ jobs # << >> /\ j = Head(jobs) /\ t = Turn(j) /\ t.pad
          /\ jobs' = <<[j EXCEPT !.fresh = FALSE]>> \o Tail(jobs)
    BY <1>5, PadIs
  <2>2. PICK t :
          /\ jobs # << >> /\ j = Head(jobs) /\ t = Turn(j) /\ t.pad
          /\ jobs' = <<[j EXCEPT !.fresh = FALSE]>> \o Tail(jobs)
    BY <2>1
  <2>3. CBR
    <3>1. t.pad = TooEarly(j, t.n, t.first)
      BY <2>2, TurnFields
    <3>. QED  BY <2>2, <3>1, Zenon DEF TooEarly
  <2>4. PICK x : x = [j EXCEPT !.fresh = FALSE]
    OBVIOUS
  <2>5. x.fresh = FALSE
    BY <2>4 DEF Pes
  <2>6. jobs' = <<x>> \o Tail(jobs)
    BY <2>2, <2>4
  <2>7. /\ Len(jobs') = Len(jobs) /\ jobs'[1] = x
        /\ \A n \in 2 .. Len(jobs) : jobs'[n] = jobs[n]
    BY <1>a, <2>2, <2>6, FrontIs
  <2>. QED  BY <2>3, <2>5, <2>7 DEF JobsInv
<1>6. ASSUME Emit
      PROVE  JobsInv'
  <2>1. PICK j \in Pes : \E t :
          /\ jobs # << >> /\ j = Head(jobs) /\ t = Turn(j)
          /\ Turned(j, t, j.s, OwnPacket(j, t))
          /\ IF RestOf(j, t).left > 0
             THEN jobs' = <<RestOf(j, t)>> \o Tail(jobs)
             ELSE jobs' = Tail(jobs)
    BY <1>6, EmitIs
  <2>2. PICK t :
          /\ jobs # << >> /\ j = Head(jobs) /\ t = Turn(j)
          /\ Turned(j, t, j.s, OwnPacket(j, t))
          /\ IF RestOf(j, t).left > 0
             THEN jobs' = <<RestOf(j, t)>> \o Tail(jobs)
             ELSE jobs' = Tail(jobs)
    BY <2>1
  <2>3. CASE jobs' = <<RestOf(j, t)>> \o Tail(jobs)
    <3>1. PICK x : x = RestOf(j, t)
      OBVIOUS
    <3>2. /\ Len(jobs') = Len(jobs) /\ jobs'[1] = x
          /\ \A n \in 2 .. Len(jobs) : jobs'[n] = jobs[n]
      BY <1>a, <2>2, <2>3, <3>1, FrontIs
    <3>3. x.fresh = FALSE /\ x.start = FALSE /\ x.s = j.s
      BY <2>2, <3>1, RestOfType
    <3>4. j.s = PcrStream /\ ~CBR => pcr_count' < pcr_packet_period
      <4>1. ASSUME j.s = PcrStream, ~CBR
            PROVE  pcr_count' < pcr_packet_period
        <5>1. /\ t.write_pcr = (j.s = PcrStream /\ PcrCount(j) >= pcr_packet_period)
              /\ t.pcr_count = IF t.write_pcr THEN 0 ELSE PcrCount(j)
          BY <2>2, TurnFields
        <5>2. pcr_count' = t.pcr_count
          BY <2>2 DEF Turned
        <5>3. pcr_packet_period \in Nat \ {0}
          BY PeriodsAssumption
        <5>4. PcrCount(j) \in Int
          BY DEF TypeOK, PcrCount
        <5>5. t.write_pcr => pcr_count' = 0
          BY <5>1, <5>2
        <5>6. ~t.write_pcr => pcr_count' = PcrCount(j) /\ ~(PcrCount(j) >= pcr_packet_period)
          BY <4>1, <5>1, <5>2, Zenon
        <5>. QED  BY <5>3, <5>4, <5>5, <5>6
      <4>. QED  BY <4>1
    <3>. QED  BY <3>2, <3>3, <3>4 DEF JobsInv
  <2>4. CASE jobs' = Tail(jobs)
    <3>1. PICK n \in Nat : n = Len(jobs) - 1
      <4>1. Len(jobs) \in Nat \ {0}
        BY <1>a, <2>2, TailIs
      <4>. QED  BY <4>1
    <3>2. Len(jobs') = n /\ \A k \in 1 .. n : jobs'[k] = jobs[k + 1]
      BY <1>a, <2>2, <2>4, <3>1, TailIs
    <3>3. \A k \in 1 .. n : k + 1 \in 2 .. Len(jobs)
      BY <3>1, <1>a, <2>2, TailIs
    <3>4. \A k \in 1 .. n : jobs'[k].fresh /\ jobs'[k].start
      BY <3>2, <3>3 DEF JobsInv
    <3>. QED  BY <1>a, <3>2, <3>4, NewJobs
  <2>. QED  BY <2>2, <2>3, <2>4
<1>7. ASSUME UNCHANGED vars
      PROVE  JobsInv'
  BY <1>2, <1>7 DEF vars, clockvars
<1>. QED  BY <1>1, <1>3, <1>4, <1>5, <1>6, <1>7 DEF Next

-----------------------------------------------------------------------------
(* The clock references: each is that of a turn for a PES of the PCR       *)
(* stream, and at a variable rate that of its first packet.                *)
Clocked(j, t) ==
  /\ jobs # << >> /\ j = Head(jobs) /\ t = Turn(j)
  /\ j.s = PcrStream
  /\ CBR \/ j.start
  /\ first_pcr' = t.first
  /\ sent' = t.n + 1
  /\ last_pcr' = [value |-> PcrOf(j, t), coded |-> write_pcr_bits(PcrOf(j, t)),
                  at |-> t.n, dts |-> j.dts]

(* Packets whose last has no clock reference leave the last one alone.     *)
LEMMA NoClock ==
  ASSUME NEW packets, WritePackets(packets), packets[Len(packets)].pcr = << >>
  PROVE  last_pcr' = last_pcr
  BY DEF WritePackets

(* A turn writes the clock reference of its own packet, if it has one.     *)
LEMMA TurnedClock ==
  ASSUME TypeOK, NEW j \in Pes, NEW t, t = Turn(j), NEW own, NEW packet \in Packet,
         Turned(j, t, own, packet)
  PROVE  /\ first_pcr' = t.first
         /\ sent' = t.n + 1
         /\ packet.pcr = << >> => last_pcr' = last_pcr
         /\ \A pcr \in Int : packet.pcr = <<pcr>> =>
              last_pcr' = [value |-> pcr, coded |-> write_pcr_bits(pcr),
                           at |-> t.n, dts |-> packet.dts]
<1>1. TablePackets(t.sdt, t.pat) \in Seq(Packet)
  BY TurnBool, TablePacketsType DEF TypeOK
<1>2. PICK packets : packets = Append(TablePackets(t.sdt, t.pat), packet)
  OBVIOUS
<1>3. PICK n \in Nat : n = Len(TablePackets(t.sdt, t.pat))
  BY <1>1
<1>4. Len(packets) = n + 1 /\ packets[n + 1] = packet
  BY <1>1, <1>2, <1>3
<1>5. WritePackets(packets)
  BY <1>2, TurnedPackets
<1>6. t.n = sent + n
  BY <1>3, TurnFields
<1>7. sent \in Nat
  BY DEF TypeOK
<1>8. sent' = t.n + 1
  <2>1. sent' = sent + Len(packets)
    BY <1>5 DEF WritePackets
  <2>. QED  BY <1>4, <1>6, <1>7, <2>1
<1>9. last_pcr' = IF packet.pcr = << >> THEN last_pcr
                  ELSE [value |-> packet.pcr[1], coded |-> write_pcr_bits(packet.pcr[1]),
                        at |-> sent + (n + 1) - 1, dts |-> packet.dts]
  BY <1>4, <1>5 DEF WritePackets
<1>10. sent + (n + 1) - 1 = t.n
  BY <1>6, <1>7
<1>11. ASSUME NEW pcr \in Int, packet.pcr = <<pcr>>
       PROVE  last_pcr' = [value |-> pcr, coded |-> write_pcr_bits(pcr),
                           at |-> t.n, dts |-> packet.dts]
  <2>1. packet.pcr # << >> /\ packet.pcr[1] = pcr
    BY <1>11
  <2>. QED  BY <1>9, <1>10, <2>1, Zenon
<1>12. first_pcr' = t.first
  BY DEF Turned
<1>. QED  BY <1>8, <1>9, <1>11, <1>12

(* Every change of the clock reference is that of a turn for the PCR       *)
(* stream.                                                                 *)
LEMMA ClockStep ==
  ASSUME TypeOK, JobsInv, [Next]_vars
  PROVE  \/ last_pcr' = last_pcr
         \/ \E j \in Pes : \E t : Clocked(j, t)
<1>1. ASSUME NEW s \in Streams, NEW kind \in Kinds[s], NEW gap \in Gaps[s],
             GiveUnit(s, kind, gap)
      PROVE  last_pcr' = last_pcr
  BY <1>1 DEF GiveUnit, receiver
<1>2. ASSUME NEW p \in Sections, NEW len \in SectionLens, GiveSection(p, len)
      PROVE  last_pcr' = last_pcr
  <2>1. p \in Pids /\ len \in Nat
    BY SectionsAssumption DEF SectionLen, Pids
  <2>2. PICK packets : packets = SectionOf(p, len)
    OBVIOUS
  <2>3. PICK n \in Nat \ {0} : n = SectionPackets(len)
    BY <2>1, SectionPacketsType
  <2>4. Len(packets) = n /\ Plain(packets[n])
    <3>1. cc \in [Pids -> 0 .. 15] /\ n \in 1 .. n
      BY <2>3 DEF TypeOK
    <3>. QED  BY <2>1, <2>2, <2>3, <3>1, SectionOfType
  <2>5. WritePackets(packets)
    BY <1>2, <2>2 DEF GiveSection
  <2>. QED  BY <2>4, <2>5, NoClock DEF Plain
<1>3. Flush => last_pcr' = last_pcr
  BY DEF Flush, receiver
<1>4. ASSUME Pad, ~(last_pcr' = last_pcr)
      PROVE  \E j \in Pes : \E t : Clocked(j, t)
  <2>1. PICK j \in Pes, packet \in Packet : \E t :
          /\ jobs # << >> /\ j = Head(jobs) /\ t = Turn(j) /\ t.pad
          /\ packet = IF t.write_pcr THEN PcrOnly(j, get_pcr(t.n, t.first)) ELSE NullPacket
          /\ Turned(j, t, Null, packet)
    BY <1>4, PadIs
  <2>2. PICK t :
          /\ jobs # << >> /\ j = Head(jobs) /\ t = Turn(j) /\ t.pad
          /\ packet = IF t.write_pcr THEN PcrOnly(j, get_pcr(t.n, t.first)) ELSE NullPacket
          /\ Turned(j, t, Null, packet)
    BY <2>1
  <2>3. packet.pcr # << >>
    BY <1>4, <2>2, TurnedClock
  <2>4. t.write_pcr
    <3>1. NullPacket.pcr = << >>
      BY NullPacketType DEF Plain
    <3>. QED  BY <2>2, <2>3, <3>1
  <2>5. CBR /\ j.s = PcrStream
    <3>1. t.pad = TooEarly(j, t.n, t.first)
      BY <2>2, TurnFields
    <3>2. t.write_pcr = (j.s = PcrStream /\ PcrCount(j) >= pcr_packet_period)
      BY <2>2, TurnFields
    <3>3. CBR
      BY <2>2, <3>1, Zenon DEF TooEarly
    <3>. QED  BY <2>4, <3>2, <3>3, Zenon
  <2>6. packet = PcrOnly(j, PcrOf(j, t))
    BY <2>2, <2>4, <2>5, Zenon DEF PcrOf
  <2>7. packet.pcr = <<PcrOf(j, t)>> /\ packet.dts = j.dts
    BY <2>6 DEF PcrOnly, NullPacket
  <2>8. PcrOf(j, t) \in Int
    BY <2>2, PcrOfType
  <2>9. /\ first_pcr' = t.first /\ sent' = t.n + 1
        /\ last_pcr' = [value |-> PcrOf(j, t), coded |-> write_pcr_bits(PcrOf(j, t)),
                        at |-> t.n, dts |-> j.dts]
    BY <2>2, <2>7, <2>8, TurnedClock
  <2>10. Clocked(j, t)
    BY <2>2, <2>5, <2>9, Zenon DEF Clocked
  <2>. QED  BY <2>10
<1>5. ASSUME Emit, ~(last_pcr' = last_pcr)
      PROVE  \E j \in Pes : \E t : Clocked(j, t)
  <2>1. PICK j \in Pes : \E t :
          /\ jobs # << >> /\ j = Head(jobs) /\ t = Turn(j)
          /\ Turned(j, t, j.s, OwnPacket(j, t))
    BY <1>5, EmitIs
  <2>2. PICK t :
          /\ jobs # << >> /\ j = Head(jobs) /\ t = Turn(j)
          /\ Turned(j, t, j.s, OwnPacket(j, t))
    BY <2>1
  <2>3. PICK packet \in Packet : packet = OwnPacket(j, t)
    BY <2>2, OwnPacketType, Zenon
  <2>4. /\ packet.pcr = IF WithPcr(j, t) THEN <<PcrOf(j, t)>> ELSE << >>
        /\ packet.dts = j.dts
    BY <2>3 DEF OwnPacket
  <2>5. Turned(j, t, j.s, packet)
    BY <2>2, <2>3, Zenon
  <2>6. packet.pcr # << >>
    BY <1>5, <2>2, <2>5, TurnedClock
  <2>7. WithPcr(j, t) /\ packet.pcr = <<PcrOf(j, t)>>
    BY <2>4, <2>6, Zenon
  <2>8. j.s = PcrStream /\ (CBR \/ j.start)
    <3>1. t.write_pcr = (j.s = PcrStream /\ PcrCount(j) >= pcr_packet_period)
      BY <2>2, TurnFields
    <3>2. CASE RandomAccess(j) /\ j.s = PcrStream
      BY <3>2, Zenon DEF RandomAccess
    <3>3. CASE ~(RandomAccess(j) /\ j.s = PcrStream)
      <4>1. t.write_pcr
        BY <2>7, <3>3, Zenon DEF WithPcr
      <4>2. j.s = PcrStream
        BY <3>1, <4>1, Zenon
      <4>3. CASE ~CBR /\ ~j.start
        <5>1. j = jobs[1]
          BY <2>2, FrontIs DEF TypeOK
        <5>2. pcr_count < pcr_packet_period
          BY <2>2, <4>2, <4>3, <5>1 DEF JobsInv
        <5>3. PcrCount(j) = pcr_count
          BY <4>3, Zenon DEF PcrCount
        <5>4. PcrCount(j) >= pcr_packet_period
          BY <3>1, <4>1, Zenon
        <5>5. pcr_count \in Nat /\ pcr_packet_period \in Nat
          BY PeriodsAssumption DEF TypeOK
        <5>. QED  BY <5>2, <5>3, <5>4, <5>5
      <4>. QED  BY <4>2, <4>3, Zenon
    <3>. QED  BY <3>2, <3>3
  <2>9. PcrOf(j, t) \in Int
    BY <2>2, PcrOfType
  <2>10. /\ first_pcr' = t.first /\ sent' = t.n + 1
         /\ last_pcr' = [value |-> PcrOf(j, t), coded |-> write_pcr_bits(PcrOf(j, t)),
                         at |-> t.n, dts |-> j.dts]
    BY <2>2, <2>4, <2>5, <2>7, <2>9, TurnedClock
  <2>11. Clocked(j, t)
    BY <2>2, <2>8, <2>10, Zenon DEF Clocked
  <2>. QED  BY <2>11
<1>6. UNCHANGED vars => last_pcr' = last_pcr
  BY DEF vars, receiver
<1>. QED  BY <1>1, <1>2, <1>3, <1>4, <1>5, <1>6 DEF Next

-----------------------------------------------------------------------------
(* A turn of the loop, and what else can happen to the clock.              *)
Passing(j, t) ==
  /\ jobs # << >> /\ j = Head(jobs) /\ t = Turn(j)
  /\ first_pcr' = t.first /\ sent' = t.n + 1
  /\ last_pcr' = last_pcr \/ Clocked(j, t)

(* and steps that leave the clock alone.                                   *)
Quiet ==
  /\ first_pcr' = first_pcr /\ last_pcr' = last_pcr
  /\ sent' >= sent
  /\ jobs' # << >> => jobs'[1].fresh \/ jobs' = jobs

(* There are no other steps.                                               *)
LEMMA ClockMoves ==
  ASSUME TypeOK, JobsInv, [Next]_vars
  PROVE  Quiet \/ \E j \in Pes : \E t : Passing(j, t)
<1>0. TypeOK' /\ JobsInv'
  BY NextType, NextJobs
<1>a. jobs' \in Seq(Pes) /\ jobs \in Seq(Pes) /\ sent \in Nat /\ sent' \in Nat
  BY <1>0 DEF TypeOK
<1>b. last_pcr' = last_pcr \/ \E j \in Pes : \E t : Clocked(j, t)
  BY ClockStep
<1>1. ASSUME NEW s \in Streams, NEW kind \in Kinds[s], NEW gap \in Gaps[s],
             GiveUnit(s, kind, gap)
      PROVE  Quiet
  <2>1. first_pcr' = first_pcr /\ last_pcr' = last_pcr /\ sent' = sent
    BY <1>1 DEF GiveUnit, receiver, clockvars
  <2>2. jobs' # << >> => jobs'[1].fresh
    <3>1. jobs' # << >> => Len(jobs') # 0
      BY <1>a
    <3>2. Len(jobs') \in Nat /\ \A k \in 1 .. Len(jobs') : jobs'[k].fresh
      BY <1>1, GiveUnitFresh
    <3>. QED  BY <3>1, <3>2
  <2>. QED  BY <1>a, <2>1, <2>2 DEF Quiet
<1>2. ASSUME NEW p \in Sections, NEW len \in SectionLens, GiveSection(p, len)
      PROVE  Quiet
  <2>1. first_pcr' = first_pcr /\ jobs' = jobs /\ jobs = << >>
    BY <1>2 DEF GiveSection, clockvars
  <2>2. last_pcr' = last_pcr
    BY <1>b, <2>1 DEF Clocked
  <2>3. sent' >= sent
    <3>1. PICK packets : packets = SectionOf(p, len)
      OBVIOUS
    <3>2. p \in Pids /\ len \in Nat /\ cc \in [Pids -> 0 .. 15]
      BY SectionsAssumption DEF SectionLen, Pids, TypeOK
    <3>3. Len(packets) \in Nat
      BY <3>1, <3>2, SectionOfType, SectionPacketsType
    <3>4. sent' = sent + Len(packets)
      BY <1>2, <3>1 DEF GiveSection, WritePackets
    <3>. QED  BY <1>a, <3>3, <3>4
  <2>. QED  BY <2>1, <2>2, <2>3 DEF Quiet
<1>3. ASSUME Flush
      PROVE  Quiet
  <2>1. first_pcr' = first_pcr /\ last_pcr' = last_pcr /\ sent' = sent
    BY <1>3 DEF Flush, receiver, clockvars
  <2>2. jobs' # << >> => jobs'[1].fresh
    <3>1. jobs' # << >> => Len(jobs') # 0
      BY <1>a
    <3>2. Len(jobs') \in Nat /\ \A k \in 1 .. Len(jobs') : jobs'[k].fresh
      BY <1>3, FlushFresh
    <3>. QED  BY <3>1, <3>2
  <2>. QED  BY <1>a, <2>1, <2>2 DEF Quiet
<1>4. ASSUME Pad
      PROVE  \E j \in Pes : \E t : Passing(j, t)
  <2>1. PICK j \in Pes, packet \in Packet : \E t :
          /\ jobs # << >> /\ j = Head(jobs) /\ t = Turn(j)
          /\ Turned(j, t, Null, packet)
    BY <1>4, PadIs
  <2>2. PICK t :
          /\ jobs # << >> /\ j = Head(jobs) /\ t = Turn(j)
          /\ Turned(j, t, Null, packet)
    BY <2>1
  <2>3. first_pcr' = t.first /\ sent' = t.n + 1
    BY <2>2, TurnedClock
  <2>4. last_pcr' = last_pcr \/ Clocked(j, t)
    BY <1>b, <2>2, Zenon DEF Clocked
  <2>5. Passing(j, t)
    BY <2>2, <2>3, <2>4, Zenon DEF Passing
  <2>. QED  BY <2>5
<1>5. ASSUME Emit
      PROVE  \E j \in Pes : \E t : Passing(j, t)
  <2>1. PICK j \in Pes : \E t :
          /\ jobs # << >> /\ j = Head(jobs) /\ t = Turn(j)
          /\ Turned(j, t, j.s, OwnPacket(j, t))
    BY <1>5, EmitIs
  <2>2. PICK t :
          /\ jobs # << >> /\ j = Head(jobs) /\ t = Turn(j)
          /\ Turned(j, t, j.s, OwnPacket(j, t))
    BY <2>1
  <2>3. first_pcr' = t.first /\ sent' = t.n + 1
    <3>1. PICK packet \in Packet : packet = OwnPacket(j, t)
      BY <2>2, OwnPacketType, Zenon
    <3>2. Turned(j, t, j.s, packet)
      BY <2>2, <3>1, Zenon
    <3>. QED  BY <2>2, <3>2, TurnedClock
  <2>4. last_pcr' = last_pcr \/ Clocked(j, t)
    BY <1>b, <2>2, Zenon DEF Clocked
  <2>5. Passing(j, t)
    BY <2>2, <2>3, <2>4, Zenon DEF Passing
  <2>. QED  BY <2>5
<1>6. ASSUME UNCHANGED vars
      PROVE  Quiet
  <2>1. first_pcr' = first_pcr /\ last_pcr' = last_pcr /\ sent' = sent /\ jobs' = jobs
    BY <1>6 DEF vars, receiver, clockvars
  <2>. QED  BY <1>a, <2>1 DEF Quiet
<1>. QED  BY <1>1, <1>2, <1>3, <1>4, <1>5, <1>6 DEF Next

-----------------------------------------------------------------------------
(* What was coded is the value.                                            *)
CodedInv ==
  last_pcr.at >= 0 => last_pcr.coded = write_pcr_bits(last_pcr.value)

(* Whatever the streams and the rate: a receiver that reads the last clock *)
(* reference as mpegts_write_pes put it into the adaptation field gets the *)
(* clock that was meant, modulo its wrap, but for the error of the sign    *)
(* bits before time 0 (write_pcr_bits).                                    *)
THEOREM PcrReadsBackHolds == Spec => []PcrReadsBack
<1>1. Init => TypeOK /\ JobsInv /\ CodedInv
  BY InitType, InitJobs DEF Init, CodedInv
<1>2. ASSUME TypeOK, JobsInv, CodedInv, [Next]_vars
      PROVE  TypeOK' /\ JobsInv' /\ CodedInv'
  <2>1. TypeOK' /\ JobsInv'
    BY <1>2, NextType, NextJobs
  <2>2. CASE last_pcr' = last_pcr
    BY <1>2, <2>1, <2>2 DEF CodedInv
  <2>3. ASSUME NEW j \in Pes, NEW t, Clocked(j, t)
        PROVE  CodedInv'
    <3>1. last_pcr'.coded = write_pcr_bits(PcrOf(j, t)) /\ last_pcr'.value = PcrOf(j, t)
      BY <2>3 DEF Clocked
    <3>. QED  BY <3>1, Zenon DEF CodedInv
  <2>. QED  BY <1>2, <2>1, <2>2, <2>3, ClockStep
<1>3. ASSUME TypeOK, CodedInv
      PROVE  PcrReadsBack
  <2>1. last_pcr.value \in Int
    BY <1>3 DEF TypeOK
  <2>2. CASE last_pcr.at >= 0
    <3>1. PcrError(last_pcr.value, last_pcr.coded)
            = PcrError(last_pcr.value, write_pcr_bits(last_pcr.value))
      BY <1>3, <2>2, Zenon DEF CodedInv
    <3>. QED  BY <2>1, <3>1, PcrExact DEF PcrReadsBack
  <2>. QED  BY <2>2 DEF PcrReadsBack
<1>. QED  BY <1>1, <1>2, <1>3, PTL DEF Spec

-----------------------------------------------------------------------------
(* first_pcr is 0 while it is not set (mpegtsenc.c:1214), and would be     *)
(* again if a clock set it to just that: at a PES whose dts is max_delay.  *)
FirstClockSet ==
  copyts => \A n \in 1 .. Len(jobs) : jobs[n].dts # max_delay

(* The clock counts the packets from its start, once that is set.          *)
ClockInv ==
  /\ copyts /\ (last_pcr.at >= 0 \/ (jobs # << >> /\ ~jobs[1].fresh)) => first_pcr # 0
  /\ last_pcr.at >= 0 =>
       /\ last_pcr.at < sent
       /\ CBR => last_pcr.value = get_pcr(last_pcr.at, first_pcr)

(* A turn finds the start set, or sets it.                                 *)
LEMMA FirstSet ==
  ASSUME TypeOK, ClockInv, FirstClockSet,
         NEW j \in Pes, NEW t, jobs # << >>, j = Head(jobs), t = Turn(j)
  PROVE  /\ copyts => t.first # 0
         /\ last_pcr.at >= 0 => t.first = first_pcr
<1>1. j = jobs[1] /\ 1 \in 1 .. Len(jobs)
  BY FrontIs DEF TypeOK
<1>2. t.first = FirstPcr(j)
  BY TurnFields
<1>3. first_pcr \in Int /\ j.dts \in Int /\ max_delay \in Int /\ PcrScale \in 1 .. 512
  BY PesFields, TimesAssumption, PcrAssumption DEF TypeOK
<1>4. CASE j.fresh /\ copyts /\ first_pcr = 0
  <2>1. t.first = (j.dts - max_delay) * PcrScale
    BY <1>2, <1>4, Zenon DEF FirstPcr
  <2>2. j.dts # max_delay
    BY <1>1, <1>4 DEF FirstClockSet
  <2>3. PICK d \in Int \ {0} : d = j.dts - max_delay
    BY <1>3, <2>2
  <2>4. d * PcrScale # 0
    BY <1>3, <2>3
  <2>5. ~(last_pcr.at >= 0)
    BY <1>4 DEF ClockInv
  <2>. QED  BY <2>1, <2>3, <2>4, <2>5
<1>5. CASE ~(j.fresh /\ copyts /\ first_pcr = 0)
  <2>1. t.first = first_pcr
    BY <1>2, <1>5, Zenon DEF FirstPcr
  <2>2. copyts => first_pcr # 0
    BY <1>1, <1>5 DEF ClockInv
  <2>. QED  BY <2>1, <2>2
<1>. QED  BY <1>4, <1>5

(* Every step keeps that,                                                  *)
LEMMA ClockInvStep ==
  ASSUME TypeOK, JobsInv, ClockInv, FirstClockSet, [Next]_vars
  PROVE  ClockInv'
<1>0. TypeOK'
  BY NextType
<1>1. sent \in Nat /\ sent' \in Nat /\ first_pcr' \in Int /\ last_pcr.at \in Int
      /\ last_pcr'.at \in Int
  BY <1>0 DEF TypeOK
<1>2. CASE Quiet
  BY <1>1, <1>2 DEF ClockInv, Quiet
<1>3. ASSUME NEW j \in Pes, NEW t, Passing(j, t)
      PROVE  ClockInv'
  <2>1. jobs # << >> /\ j = Head(jobs) /\ t = Turn(j)
    BY <1>3 DEF Passing
  <2>2. /\ copyts => t.first # 0
        /\ last_pcr.at >= 0 => t.first = first_pcr
    BY <2>1, FirstSet
  <2>3. first_pcr' = t.first /\ sent' = t.n + 1 /\ t.n \in Nat /\ t.n >= sent
    BY <1>3, <2>1, TurnType DEF Passing
  <2>4. copyts => first_pcr' # 0
    BY <2>2, <2>3
  <2>5. CASE last_pcr' = last_pcr
    <3>1. last_pcr.at >= 0 => last_pcr.at < sent'
      BY <1>1, <2>3 DEF ClockInv
    <3>2. last_pcr.at >= 0 /\ CBR => last_pcr.value = get_pcr(last_pcr.at, first_pcr')
      BY <2>2, <2>3 DEF ClockInv
    <3>. QED  BY <2>4, <2>5, <3>1, <3>2 DEF ClockInv
  <2>6. CASE Clocked(j, t)
    <3>1. last_pcr'.value = PcrOf(j, t) /\ last_pcr'.at = t.n
      BY <2>6 DEF Clocked
    <3>2. CBR => last_pcr'.value = get_pcr(last_pcr'.at, first_pcr')
      BY <2>3, <3>1 DEF PcrOf
    <3>3. last_pcr'.at < sent'
      BY <2>3, <3>1
    <3>. QED  BY <2>4, <3>2, <3>3 DEF ClockInv
  <2>. QED  BY <1>3, <2>5, <2>6 DEF Passing
<1>. QED  BY <1>2, <1>3, ClockMoves

(* and it holds at first.                                                  *)
LEMMA InitClock ==
  ASSUME Init
  PROVE  ClockInv
<1>1. jobs = << >> /\ last_pcr.at = -1
  BY DEF Init
<1>. QED  BY <1>1 DEF ClockInv

(* At a constant rate the next clock reference is later by what the        *)
(* packets since the last one last.                                        *)
LEMMA ClockGoesOn ==
  ASSUME TypeOK, JobsInv, ClockInv, FirstClockSet, [Next]_vars,
         CBR, last_pcr.at >= 0, last_pcr' # last_pcr
  PROVE  /\ last_pcr'.at \in Int /\ last_pcr.at \in Int /\ last_pcr'.at > last_pcr.at
         /\ last_pcr.value \in Int
         /\ last_pcr'.value - last_pcr.value = (last_pcr'.at - last_pcr.at) * PacketPcr
<1>1. PICK j \in Pes : \E t : Passing(j, t) /\ Clocked(j, t)
  <2>1. ~Quiet
    BY DEF Quiet
  <2>2. PICK j \in Pes : \E t : Passing(j, t)
    BY <2>1, ClockMoves
  <2>. QED  BY <2>2 DEF Passing
<1>2. PICK t : Passing(j, t) /\ Clocked(j, t)
  BY <1>1
<1>3. jobs # << >> /\ j = Head(jobs) /\ t = Turn(j)
  BY <1>2 DEF Passing
<1>4. t.first = first_pcr
  BY <1>3, FirstSet
<1>5. t.n \in Nat /\ t.n >= sent
  BY <1>3, TurnType
<1>6. last_pcr'.value = get_pcr(t.n, first_pcr) /\ last_pcr'.at = t.n
  <2>1. last_pcr'.value = PcrOf(j, t) /\ last_pcr'.at = t.n
    BY <1>2 DEF Clocked
  <2>. QED  BY <1>4, <2>1 DEF PcrOf
<1>7. last_pcr.value = get_pcr(last_pcr.at, first_pcr) /\ last_pcr.at < sent
  BY DEF ClockInv
<1>8. /\ sent \in Nat /\ first_pcr \in Int /\ last_pcr.at \in Int /\ last_pcr.value \in Int
      /\ PacketPcr \in Nat \ {0} /\ PcrOffset \in Nat
  BY TimesAssumption DEF TypeOK
<1>9. get_pcr(t.n, first_pcr) - get_pcr(last_pcr.at, first_pcr) = (t.n - last_pcr.at) * PacketPcr
  <2>1. PICK a \in Int : a = t.n * PacketPcr
    BY <1>5, <1>8
  <2>2. PICK b \in Int : b = last_pcr.at * PacketPcr
    BY <1>8
  <2>3. (t.n - last_pcr.at) * PacketPcr = a - b
    BY <1>5, <1>8, <2>1, <2>2
  <2>4. get_pcr(t.n, first_pcr) = a + PcrOffset + first_pcr
    BY <2>1 DEF get_pcr
  <2>5. get_pcr(last_pcr.at, first_pcr) = b + PcrOffset + first_pcr
    BY <2>2 DEF get_pcr
  <2>. QED  BY <1>8, <2>3, <2>4, <2>5
<1>. QED  BY <1>5, <1>6, <1>7, <1>8, <1>9

(* At a constant rate the clock references are as far apart as the packets *)
(* between them last, whatever call wrote them: tables, sections, null     *)
(* packets and all PES are counted. It needs FirstClockSet, without which a*)
(* PES whose dts is max_delay would start the clock again.                 *)
THEOREM OneClockHolds == Spec /\ []FirstClockSet => OneClock
<1>1. Init => TypeOK /\ JobsInv /\ ClockInv
  BY InitType, InitJobs, InitClock
<1>2. TypeOK /\ JobsInv /\ ClockInv /\ FirstClockSet /\ [Next]_vars
        => TypeOK' /\ JobsInv' /\ ClockInv'
  BY NextType, NextJobs, ClockInvStep
<1>3. TypeOK /\ JobsInv /\ ClockInv /\ FirstClockSet /\ [Next]_vars
        => [last_pcr' # last_pcr /\ last_pcr.at >= 0 /\ CBR =>
              last_pcr'.value - last_pcr.value = (last_pcr'.at - last_pcr.at) * PacketPcr]_vars
  BY ClockGoesOn
<1>. QED  BY <1>1, <1>2, <1>3, PTL DEF Spec, OneClock

-----------------------------------------------------------------------------
(* Only audio is gathered.                                                 *)
AudioOnly == \A s \in Streams \ Audio : held[s].size = 0

(* The fields of payloads.                                                 *)
LEMMA GatheredFields ==
  /\ \A h, u : /\ Gathered(h, u).units = Append(h.units, u)
               /\ Gathered(h, u).size = h.size + u.size
               /\ h.size = 0 => Gathered(h, u).dts = u.dts /\ Gathered(h, u).pts = u.pts
               /\ h.size # 0 => Gathered(h, u).dts = h.dts /\ Gathered(h, u).pts = h.pts
  /\ \A h : /\ Emptied(h).units = << >> /\ Emptied(h).size = 0
            /\ Emptied(h).dts = h.dts
<1>1. ASSUME NEW h, NEW u
      PROVE  /\ Gathered(h, u).units = Append(h.units, u)
             /\ Gathered(h, u).size = h.size + u.size
             /\ h.size = 0 => Gathered(h, u).dts = u.dts /\ Gathered(h, u).pts = u.pts
             /\ h.size # 0 => Gathered(h, u).dts = h.dts /\ Gathered(h, u).pts = h.pts
  BY DEF Gathered
<1>2. ASSUME NEW h
      PROVE  Emptied(h).units = << >> /\ Emptied(h).size = 0 /\ Emptied(h).dts = h.dts
  BY DEF Emptied
<1>. QED  BY <1>1, <1>2

(* What a unit of s does to one stream: its payload may be written, which  *)
(* is then the only one of its stream in q, and held is what is left.      *)
LEMMA StreamView ==
  ASSUME NEW s \in Streams, NEW u \in Unit, NEW q, NEW i \in Streams,
         TypeOK, Flushes(q), JobsBehind(q, s, u),
         held' = [k \in Streams |-> IF k = s /\ ~Direct(s, u) THEN Gathered(Left(q, k), u)
                                    ELSE Left(q, k)]
  PROVE  /\ Len(q) \in Nat
         /\ \A k \in 1 .. Len(jobs') :
              \/ k \in 1 .. Len(q) /\ jobs'[k] = PesOf(q[k]) /\ jobs'[k].s = q[k]
              \/ k = Len(q) + 1 /\ Direct(s, u) /\ jobs'[k] = UnitPes(s, u)
                   /\ jobs'[k].s = s
         /\ \A a, b \in 1 .. Len(q) : q[a] = i /\ q[b] = i => a = b
         /\ (\E k \in 1 .. Len(q) : q[k] = i) <=> Written(q, i)
         /\ Written(q, i) => held[i].size > 0
         /\ i # s \/ Direct(s, u) => held'[i] = Left(q, i)
         /\ i = s /\ ~Direct(s, u) => held'[i] = Gathered(Left(q, i), u)
         /\ Written(q, i) => Left(q, i) = Emptied(held[i])
         /\ ~Written(q, i) => Left(q, i) = held[i]
<1>1. Len(q) \in Nat /\ q \in Seq(Streams)
  BY DEF Flushes
<1>2. ASSUME NEW k \in 1 .. Len(jobs')
      PROVE  \/ k \in 1 .. Len(q) /\ jobs'[k] = PesOf(q[k]) /\ jobs'[k].s = q[k]
             \/ k = Len(q) + 1 /\ Direct(s, u) /\ jobs'[k] = UnitPes(s, u)
                  /\ jobs'[k].s = s
  <2>1. CASE k \in 1 .. Len(q)
    <3>1. jobs'[k] = PesOf(q[k])
      BY <2>1 DEF JobsBehind
    <3>. QED  BY <2>1, <3>1, PesOfFresh
  <2>2. CASE ~(k \in 1 .. Len(q))
    <3>1. k = Len(q) + 1 /\ Direct(s, u)
      BY <1>1, <2>2 DEF JobsBehind
    <3>2. jobs'[k] = UnitPes(s, u)
      BY <3>1 DEF JobsBehind
    <3>. QED  BY <3>1, <3>2, PesOfFresh
  <2>. QED  BY <2>1, <2>2
<1>3. \A a, b \in 1 .. Len(q) : q[a] = i /\ q[b] = i => a = b
  BY DEF Flushes, Distinct
<1>4. (\E k \in 1 .. Len(q) : q[k] = i) <=> Written(q, i)
  BY DEF Written
<1>5. Written(q, i) => held[i].size > 0
  BY DEF Written, Flushes
<1>6. /\ i # s \/ Direct(s, u) => held'[i] = Left(q, i)
      /\ i = s /\ ~Direct(s, u) => held'[i] = Gathered(Left(q, i), u)
  OBVIOUS
<1>7. /\ Written(q, i) => Left(q, i) = Emptied(held[i])
      /\ ~Written(q, i) => Left(q, i) = held[i]
  BY DEF Left
<1>. QED  BY <1>1, <1>2, <1>3, <1>4, <1>5, <1>6, <1>7

(* Every step leaves the others with nothing gathered.                     *)
LEMMA AudioOnlyStep ==
  ASSUME TypeOK, AudioOnly, [Next]_vars
  PROVE  AudioOnly'
<1>1. ASSUME NEW s \in Streams, NEW kind \in Kinds[s], NEW gap \in Gaps[s],
             GiveUnit(s, kind, gap), NEW i \in Streams \ Audio
      PROVE  held'[i].size = 0
  <2>1. PICK u \in Unit : \E q :
          /\ Flushes(q) /\ JobsBehind(q, s, u)
          /\ held' = [k \in Streams |-> IF k = s /\ ~Direct(s, u) THEN Gathered(Left(q, k), u)
                                        ELSE Left(q, k)]
    BY <1>1, GiveUnitJobs
  <2>2. PICK q :
          /\ Flushes(q) /\ JobsBehind(q, s, u)
          /\ held' = [k \in Streams |-> IF k = s /\ ~Direct(s, u) THEN Gathered(Left(q, k), u)
                                        ELSE Left(q, k)]
    BY <2>1
  <2>3. i # s \/ Direct(s, u)
    BY <1>1 DEF Direct
  <2>4. held'[i] = Left(q, i)
    BY <2>2, <2>3
  <2>. QED  BY <1>1, <2>4, GatheredFields DEF Left, AudioOnly
<1>2. ASSUME held' = held
      PROVE  AudioOnly'
  BY <1>2 DEF AudioOnly
<1>3. Flush => AudioOnly'
  BY GatheredFields DEF Flush, AudioOnly
<1>4. Pad => held' = held
  BY DEF Pad, Turned, payloadvars
<1>5. Emit => held' = held
  BY DEF Emit, Turned, payloadvars
<1>6. ASSUME NEW p \in Sections, NEW len \in SectionLens, GiveSection(p, len)
      PROVE  held' = held
  BY <1>6 DEF GiveSection, payloadvars
<1>7. UNCHANGED vars => held' = held
  BY DEF vars, payloadvars
<1>. QED  BY <1>1, <1>2, <1>3, <1>4, <1>5, <1>6, <1>7 DEF Next, AudioOnly

-----------------------------------------------------------------------------
(* The PES of the PCR stream come in the order of their dts, behind the    *)
(* last clock reference, which is that of the PES it was written for.      *)
InPcrOrder(n) ==
  /\ jobs[n].dts <= given_dts[PcrStream] + Shift
  /\ held[PcrStream].size > 0 => jobs[n].dts < held[PcrStream].dts
  /\ \A m \in 1 .. n - 1 : jobs[m].s = PcrStream => jobs[m].dts < jobs[n].dts
  /\ last_pcr.at >= 0 /\ jobs[n].start => last_pcr.dts < jobs[n].dts

(* All PES of the PCR stream, its payload and the last clock reference.    *)
PcrOrder ==
  /\ held[PcrStream].size > 0 => held[PcrStream].dts <= given_dts[PcrStream] + Shift
  /\ \A n \in 1 .. Len(jobs) : jobs[n].s = PcrStream => InPcrOrder(n)
  /\ last_pcr.at >= 0 =>
       /\ last_pcr.dts <= given_dts[PcrStream] + Shift
       /\ held[PcrStream].size > 0 => last_pcr.dts < held[PcrStream].dts
       /\ ~CBR => last_pcr.value = (last_pcr.dts - max_delay) * PcrScale

(* The PCR stream is one of the streams.                                   *)
LEMMA PcrStreamType == PcrStream \in Streams
<1>1. CASE Video = {}
  BY <1>1, StreamsAssumption DEF PcrStream, Streams
<1>2. CASE Video # {}
  <2>1. Video \in SUBSET Nat /\ Video \subseteq Streams
    BY StreamsAssumption DEF Streams
  <2>2. \E s \in Video : \A t \in Video : s <= t
    BY <1>2, <2>1, LeastElement
  <2>. QED  BY <1>2, <2>1, <2>2 DEF PcrStream
<1>. QED  BY <1>1, <1>2

-----------------------------------------------------------------------------

(* The dts of a stream increase: libavformat refuses others for a muxer    *)
(* without AVFMT_TS_NONSTRICT, which mpegtsenc.c:2046 does not set.        *)
PcrGapsPositive == \A gap \in Gaps[PcrStream] : gap > 0

(* All of these are numbers.                                               *)
LEMMA OrderNumbers ==
  ASSUME TypeOK
  PROVE  /\ given_dts[PcrStream] \in Int /\ Shift \in Int
         /\ held[PcrStream].dts \in Int /\ held[PcrStream].size \in Nat
         /\ last_pcr.dts \in Int /\ last_pcr.at \in Int /\ last_pcr.value \in Int
         /\ Len(jobs) \in Nat
         /\ \A n \in 1 .. Len(jobs) : jobs[n] \in Pes /\ jobs[n].dts \in Int
<1>1. held[PcrStream] \in Payload
  BY PcrStreamType DEF TypeOK
<1>2. held[PcrStream].dts \in Int /\ held[PcrStream].size \in Nat
  BY <1>1 DEF Payload
<1>3. given_dts[PcrStream] \in Int
  BY PcrStreamType DEF TypeOK
<1>4. last_pcr.dts \in Int /\ last_pcr.at \in Int /\ last_pcr.value \in Int
  BY DEF TypeOK
<1>5. Len(jobs) \in Nat /\ \A n \in 1 .. Len(jobs) : jobs[n] \in Pes
  BY DEF TypeOK
<1>. QED  BY <1>2, <1>3, <1>4, <1>5, ShiftType, PesFields

(* A unit's PES come behind all that was written before.                   *)
LEMMA GiveUnitOrder ==
  ASSUME TypeOK, AudioOnly, PcrOrder, PcrGapsPositive,
         NEW s \in Streams, NEW kind \in Kinds[s], NEW gap \in Gaps[s],
         GiveUnit(s, kind, gap)
  PROVE  PcrOrder'
<1>. DEFINE P == PcrStream
            before == given_dts[P] + Shift
            now == given_dts'[P] + Shift
<1>1. PICK u \in Unit : \E q :
        /\ u = UnitOf(s, kind, given_dts[s] + gap)
        /\ Flushes(q)
        /\ held[s].size > 0 /\ Full(s, u) => Written(q, s)
        /\ JobsBehind(q, s, u)
        /\ held' = [k \in Streams |-> IF k = s /\ ~Direct(s, u) THEN Gathered(Left(q, k), u)
                                      ELSE Left(q, k)]
  BY GiveUnitJobs
<1>2. PICK q :
        /\ u = UnitOf(s, kind, given_dts[s] + gap)
        /\ Flushes(q)
        /\ held[s].size > 0 /\ Full(s, u) => Written(q, s)
        /\ JobsBehind(q, s, u)
        /\ held' = [k \in Streams |-> IF k = s /\ ~Direct(s, u) THEN Gathered(Left(q, k), u)
                                      ELSE Left(q, k)]
  BY <1>1
<1>3. P \in Streams
  BY PcrStreamType
<1>4. /\ Len(q) \in Nat
      /\ \A k \in 1 .. Len(jobs') :
           \/ k \in 1 .. Len(q) /\ jobs'[k] = PesOf(q[k]) /\ jobs'[k].s = q[k]
           \/ k = Len(q) + 1 /\ Direct(s, u) /\ jobs'[k] = UnitPes(s, u) /\ jobs'[k].s = s
      /\ \A a, b \in 1 .. Len(q) : q[a] = P /\ q[b] = P => a = b
      /\ (\E k \in 1 .. Len(q) : q[k] = P) <=> Written(q, P)
      /\ Written(q, P) => held[P].size > 0
      /\ P # s \/ Direct(s, u) => held'[P] = Left(q, P)
      /\ P = s /\ ~Direct(s, u) => held'[P] = Gathered(Left(q, P), u)
      /\ Written(q, P) => Left(q, P) = Emptied(held[P])
      /\ ~Written(q, P) => Left(q, P) = held[P]
  <2>. HIDE DEF P
  <2>. QED  BY <1>2, <1>3, StreamView
<1>5. PICK dts \in Int :
        /\ dts = given_dts[s] + gap /\ jobs = << >>
        /\ given_dts' = [given_dts EXCEPT ![s] = dts]
        /\ last_pcr' = last_pcr
  <2>1. PICK dts \in Int :
          /\ dts = given_dts[s] + gap /\ jobs = << >>
          /\ given_dts' = [given_dts EXCEPT ![s] = dts]
          /\ UNCHANGED <<prev_key, cc, tables, pcr_count, first_pcr, sent, done,
                         seen, fed, last_pcr>>
    BY GiveUnitIs
  <2>. QED  BY <2>1
<1>6. gap \in Int /\ (s = P => gap > 0)
  BY UnitsAssumption DEF PcrGapsPositive
<1>7. /\ given_dts[P] \in Int /\ Shift \in Int /\ held[P].dts \in Int
      /\ held[P].size \in Nat
      /\ last_pcr.dts \in Int /\ last_pcr.at \in Int
  BY OrderNumbers
<1>8. /\ s # P => given_dts'[P] = given_dts[P]
      /\ s = P => given_dts'[P] = given_dts[P] + gap
  BY <1>3, <1>5 DEF TypeOK
<1>9. now \in Int /\ before \in Int /\ now >= before /\ (s = P => now > before)
  BY <1>6, <1>7, <1>8
<1>10. s = P => u.dts = now
  <2>1. u.dts = (given_dts[s] + gap) + Shift
    BY <1>2 DEF UnitOf
  <2>. QED  BY <1>8, <2>1
<1>11. held[P].size > 0 => held[P].dts <= before
  BY DEF PcrOrder
<1>12. last_pcr.at >= 0 => /\ last_pcr.dts <= before
                           /\ held[P].size > 0 => last_pcr.dts < held[P].dts
                           /\ ~CBR => last_pcr.value = (last_pcr.dts - max_delay) * PcrScale
  BY DEF PcrOrder
<1>13. \A k \in 1 .. Len(jobs') : jobs'[k].s = P =>
         \/ k \in 1 .. Len(q) /\ q[k] = P /\ Written(q, P) /\ jobs'[k].dts = held[P].dts
         \/ k = Len(q) + 1 /\ Direct(s, u) /\ s = P /\ jobs'[k].dts = now
  <2>1. ASSUME NEW k \in 1 .. Len(jobs'), jobs'[k].s = P
        PROVE  \/ k \in 1 .. Len(q) /\ q[k] = P /\ Written(q, P) /\ jobs'[k].dts = held[P].dts
               \/ k = Len(q) + 1 /\ Direct(s, u) /\ s = P /\ jobs'[k].dts = now
    <3>1. CASE k \in 1 .. Len(q) /\ jobs'[k] = PesOf(q[k]) /\ jobs'[k].s = q[k]
      <4>1. q[k] = P
        BY <2>1, <3>1
      <4>2. Written(q, P)
        BY <1>4, <3>1, <4>1
      <4>3. jobs'[k].dts = held[P].dts
        BY <3>1, <4>1, PesOfFresh
      <4>. QED  BY <3>1, <4>1, <4>2, <4>3
    <3>2. CASE k = Len(q) + 1 /\ Direct(s, u) /\ jobs'[k] = UnitPes(s, u) /\ jobs'[k].s = s
      <4>1. s = P
        BY <2>1, <3>2
      <4>2. jobs'[k].dts = u.dts
        BY <3>2, PesOfFresh
      <4>. QED  BY <1>10, <3>2, <4>1, <4>2
    <3>. QED  BY <1>4, <3>1, <3>2
  <2>. QED  BY <2>1
(* What is gathered of the stream now: nothing, what was, or the new unit. *)
<1>14. held'[P].size > 0 =>
         \/ ~Written(q, P) /\ held[P].size > 0 /\ held'[P].dts = held[P].dts
              /\ ~(s = P /\ Direct(s, u))
         \/ s = P /\ ~Direct(s, u) /\ held'[P].dts = now
  <2>1. CASE s = P /\ ~Direct(s, u)
    <3>1. held'[P] = Gathered(Left(q, P), u)
      BY <1>4, <2>1
    <3>2. CASE Left(q, P).size = 0
      BY <1>10, <2>1, <3>1, <3>2, GatheredFields
    <3>3. CASE Left(q, P).size # 0
      <4>1. ~Written(q, P)
        BY <1>4, <3>3, GatheredFields
      <4>2. Left(q, P) = held[P]
        BY <1>4, <4>1
      <4>3. held'[P].dts = held[P].dts
        BY <3>1, <3>3, <4>2, GatheredFields
      <4>. QED  BY <1>7, <2>1, <3>3, <4>1, <4>2, <4>3
    <3>. QED  BY <3>2, <3>3
  <2>2. CASE s # P \/ Direct(s, u)
    <3>1. held'[P] = Left(q, P)
      BY <1>4, <2>2
    <3>2. CASE Written(q, P)
      BY <1>4, <3>1, <3>2, GatheredFields
    <3>3. CASE ~Written(q, P)
      <4>1. held'[P] = held[P]
        BY <1>4, <3>1, <3>3
      <4>2. s = P /\ Direct(s, u) => held[P].size = 0
        <5>1. ASSUME s = P, Direct(s, u), held[P].size # 0
              PROVE  FALSE
          <6>1. s \in Audio
            BY <1>3, <5>1 DEF AudioOnly
          <6>2. u.size > pes_payload_size
            BY <5>1, <6>1 DEF Direct
          <6>3. held[s].size + u.size > pes_payload_size
            BY <1>7, <5>1, <6>2, TimesAssumption DEF Unit
          <6>4. Full(s, u)
            BY <6>3 DEF Full
          <6>5. held[s].size > 0
            BY <1>7, <5>1
          <6>. QED  BY <1>2, <3>3, <5>1, <6>4, <6>5
        <5>. QED  BY <5>1
      <4>. QED  BY <3>3, <4>1, <4>2
    <3>. QED  BY <3>2, <3>3
  <2>. QED  BY <2>1, <2>2
<1>. HIDE DEF now, before
<1>15. held'[P].size > 0 => held'[P].dts <= now
  BY <1>7, <1>9, <1>11, <1>14
<1>16. ASSUME NEW n \in 1 .. Len(jobs'), jobs'[n].s = P
       PROVE  /\ jobs'[n].dts <= now
              /\ held'[P].size > 0 => jobs'[n].dts < held'[P].dts
              /\ \A m \in 1 .. n - 1 : jobs'[m].s = P => jobs'[m].dts < jobs'[n].dts
              /\ last_pcr.at >= 0 => last_pcr.dts < jobs'[n].dts
  <2>0. Len(jobs') \in Nat
    BY GiveUnitFresh
  <2>1. CASE n \in 1 .. Len(q) /\ q[n] = P /\ Written(q, P) /\ jobs'[n].dts = held[P].dts
    <3>1. held[P].size > 0
      BY <1>4, <2>1
    <3>2. \A m \in 1 .. n - 1 : jobs'[m].s # P
      <4>1. ASSUME NEW m \in 1 .. n - 1, jobs'[m].s = P
            PROVE  FALSE
        <5>1. m \in 1 .. Len(jobs') /\ m # n /\ m # Len(q) + 1
          BY <1>4, <2>0, <2>1
        <5>2. m \in 1 .. Len(q) /\ q[m] = P
          BY <1>13, <4>1, <5>1
        <5>. QED  BY <1>4, <2>1, <5>1, <5>2
      <4>. QED  BY <4>1
    <3>3. held'[P].size > 0 => held'[P].dts = now /\ s = P
      BY <1>14, <2>1
    <3>. QED  BY <1>7, <1>9, <1>11, <1>12, <2>1, <3>1, <3>2, <3>3
  <2>2. CASE n = Len(q) + 1 /\ Direct(s, u) /\ s = P /\ jobs'[n].dts = now
    <3>1. ~(held'[P].size > 0)
      BY <1>14, <2>2
    <3>2. ASSUME NEW m \in 1 .. n - 1, jobs'[m].s = P
          PROVE  jobs'[m].dts < now
      <4>1. m \in 1 .. Len(jobs') /\ m # Len(q) + 1
        BY <1>4, <2>0, <2>2
      <4>2. Written(q, P) /\ jobs'[m].dts = held[P].dts
        BY <1>13, <3>2, <4>1
      <4>. QED  BY <1>4, <1>7, <1>9, <1>11, <2>2, <4>2
    <3>3. last_pcr.at >= 0 => last_pcr.dts < now
      BY <1>7, <1>9, <1>12, <2>2
    <3>. QED  BY <1>9, <2>2, <3>1, <3>2, <3>3
  <2>. QED  BY <1>13, <1>16, <2>1, <2>2
<1>17. last_pcr.at >= 0 =>
         /\ last_pcr.dts <= now
         /\ held'[P].size > 0 => last_pcr.dts < held'[P].dts
  BY <1>7, <1>9, <1>12, <1>14
<1>. QED  BY <1>5, <1>12, <1>15, <1>16, <1>17 DEF PcrOrder, InPcrOrder, now

-----------------------------------------------------------------------------
(* A turn of the loop leaves every PES but the first as it is, which has   *)
(* begun or is gone.                                                       *)
Behind(off) ==
  /\ Len(jobs') = Len(jobs) - off
  /\ \A k \in 1 .. Len(jobs') :
       /\ k + off \in 1 .. Len(jobs)
       /\ jobs'[k].s = jobs[k + off].s /\ jobs'[k].dts = jobs[k + off].dts
       /\ jobs'[k].units = jobs[k + off].units
       /\ k + off = 1 \/ jobs'[k] = jobs[k + off]
       /\ k + off = 1 => jobs'[k].fresh = FALSE

(* So it is when the first is replaced,                                    *)
LEMMA FrontBehind ==
  ASSUME jobs \in Seq(Pes), jobs # << >>, NEW x, jobs' = <<x>> \o Tail(jobs),
         x.s = jobs[1].s, x.dts = jobs[1].dts, x.units = jobs[1].units, x.fresh = FALSE
  PROVE  Behind(0) /\ jobs'[1] = x
<1>1. /\ Len(jobs) \in Nat \ {0} /\ Len(jobs') = Len(jobs)
      /\ jobs'[1] = x
      /\ \A n \in 2 .. Len(jobs) : jobs'[n] = jobs[n]
  BY FrontIs
<1>2. ASSUME NEW k \in 1 .. Len(jobs')
      PROVE  /\ k + 0 \in 1 .. Len(jobs)
             /\ jobs'[k].s = jobs[k + 0].s /\ jobs'[k].dts = jobs[k + 0].dts
             /\ jobs'[k].units = jobs[k + 0].units
             /\ k + 0 = 1 \/ jobs'[k] = jobs[k + 0]
             /\ k + 0 = 1 => jobs'[k].fresh = FALSE
  <2>1. k + 0 = k /\ k \in 1 .. Len(jobs)
    BY <1>1
  <2>2. CASE k = 1
    BY <1>1, <2>1, <2>2
  <2>3. CASE k # 1
    <3>1. jobs'[k] = jobs[k]
      BY <1>1, <2>1, <2>3
    <3>. QED  BY <2>1, <2>3, <3>1
  <2>. QED  BY <2>2, <2>3
<1>. QED  BY <1>1, <1>2 DEF Behind

(* and when it is gone.                                                    *)
LEMMA TailBehind ==
  ASSUME jobs \in Seq(Pes), jobs # << >>, jobs' = Tail(jobs)
  PROVE  Behind(1)
<1>1. /\ Len(jobs) \in Nat \ {0} /\ Len(jobs') = Len(jobs) - 1
      /\ \A n \in 1 .. Len(jobs) - 1 : jobs'[n] = jobs[n + 1]
  BY TailIs
<1>2. ASSUME NEW k \in 1 .. Len(jobs')
      PROVE  /\ k + 1 \in 1 .. Len(jobs)
             /\ jobs'[k].s = jobs[k + 1].s /\ jobs'[k].dts = jobs[k + 1].dts
             /\ jobs'[k].units = jobs[k + 1].units
             /\ k + 1 = 1 \/ jobs'[k] = jobs[k + 1]
             /\ k + 1 = 1 => jobs'[k].fresh = FALSE
  <2>1. k + 1 \in 1 .. Len(jobs) /\ k + 1 # 1 /\ jobs'[k] = jobs[k + 1]
    BY <1>1
  <2>. QED  BY <2>1
<1>. QED  BY <1>1, <1>2 DEF Behind

(* What Emit does to the PES in hand: it has more to write, or it is done. *)
LEMMA EmitBehind ==
  ASSUME TypeOK, Emit
  PROVE  \E j \in Pes : \E t :
           /\ jobs # << >> /\ j = Head(jobs) /\ j = jobs[1] /\ t = Turn(j) /\ ~t.pad
           /\ Turned(j, t, j.s, OwnPacket(j, t))
           /\ \/ /\ Behind(0) /\ jobs'[1].start = FALSE /\ jobs'[1].key = j.key
                 /\ UNCHANGED <<prev_key, done>>
              \/ /\ Behind(1)
                 /\ prev_key' = [prev_key EXCEPT ![j.s] = j.key]
                 /\ done' = [done EXCEPT ![j.s] = @ + Len(j.units)]
<1>1. PICK j \in Pes : \E t :
           /\ jobs # << >> /\ j = Head(jobs) /\ t = Turn(j) /\ ~t.pad
           /\ Turned(j, t, j.s, OwnPacket(j, t))
           /\ IF RestOf(j, t).left > 0
              THEN /\ jobs' = <<RestOf(j, t)>> \o Tail(jobs)
                   /\ UNCHANGED <<prev_key, done>>
              ELSE /\ jobs' = Tail(jobs)
                   /\ prev_key' = [prev_key EXCEPT ![j.s] = j.key]
                   /\ done' = [done EXCEPT ![j.s] = @ + Len(j.units)]
  BY EmitIs
<1>2. PICK t :
           /\ jobs # << >> /\ j = Head(jobs) /\ t = Turn(j) /\ ~t.pad
           /\ Turned(j, t, j.s, OwnPacket(j, t))
           /\ IF RestOf(j, t).left > 0
              THEN /\ jobs' = <<RestOf(j, t)>> \o Tail(jobs)
                   /\ UNCHANGED <<prev_key, done>>
              ELSE /\ jobs' = Tail(jobs)
                   /\ prev_key' = [prev_key EXCEPT ![j.s] = j.key]
                   /\ done' = [done EXCEPT ![j.s] = @ + Len(j.units)]
  BY <1>1
<1>3. jobs \in Seq(Pes)
  BY DEF TypeOK
<1>4. j = jobs[1]
  BY <1>2, <1>3, FrontIs
<1>5. CASE RestOf(j, t).left > 0
  <2>1. PICK x : x = RestOf(j, t)
    OBVIOUS
  <2>2. /\ x.fresh = FALSE /\ x.start = FALSE
        /\ x.s = j.s /\ x.units = j.units /\ x.dts = j.dts /\ x.key = j.key
    BY <1>2, <2>1, RestOfType
  <2>3. jobs' = <<x>> \o Tail(jobs) /\ UNCHANGED <<prev_key, done>>
    BY <1>2, <1>5, <2>1
  <2>4. Behind(0) /\ jobs'[1] = x
    BY <1>2, <1>3, <1>4, <2>2, <2>3, FrontBehind
  <2>5. jobs'[1].start = FALSE /\ jobs'[1].key = j.key
    BY <2>2, <2>4
  <2>. QED  BY <1>2, <1>4, <2>3, <2>4, <2>5
<1>6. CASE ~(RestOf(j, t).left > 0)
  <2>1. /\ jobs' = Tail(jobs)
        /\ prev_key' = [prev_key EXCEPT ![j.s] = j.key]
        /\ done' = [done EXCEPT ![j.s] = @ + Len(j.units)]
    BY <1>2, <1>6
  <2>2. Behind(1)
    BY <1>2, <1>3, <2>1, TailBehind
  <2>. QED  BY <1>2, <1>4, <2>1, <2>2
<1>. QED  BY <1>5, <1>6

(* Pad leaves it where it is.                                              *)
LEMMA PadBehind ==
  ASSUME TypeOK, Pad
  PROVE  \E j \in Pes, packet \in Packet : \E t :
           /\ jobs # << >> /\ j = Head(jobs) /\ j = jobs[1] /\ t = Turn(j) /\ t.pad
           /\ packet = IF t.write_pcr THEN PcrOnly(j, get_pcr(t.n, t.first)) ELSE NullPacket
           /\ Turned(j, t, Null, packet)
           /\ Behind(0) /\ jobs'[1].start = j.start /\ jobs'[1].key = j.key
           /\ UNCHANGED <<prev_key, done>>
<1>1. PICK j \in Pes, packet \in Packet : \E t :
           /\ jobs # << >> /\ j = Head(jobs) /\ t = Turn(j) /\ t.pad
           /\ packet = IF t.write_pcr THEN PcrOnly(j, get_pcr(t.n, t.first)) ELSE NullPacket
           /\ Turned(j, t, Null, packet)
           /\ jobs' = <<[j EXCEPT !.fresh = FALSE]>> \o Tail(jobs)
           /\ UNCHANGED <<prev_key, done>>
  BY PadIs
<1>2. PICK t :
           /\ jobs # << >> /\ j = Head(jobs) /\ t = Turn(j) /\ t.pad
           /\ packet = IF t.write_pcr THEN PcrOnly(j, get_pcr(t.n, t.first)) ELSE NullPacket
           /\ Turned(j, t, Null, packet)
           /\ jobs' = <<[j EXCEPT !.fresh = FALSE]>> \o Tail(jobs)
           /\ UNCHANGED <<prev_key, done>>
  BY <1>1
<1>3. jobs \in Seq(Pes)
  BY DEF TypeOK
<1>4. j = jobs[1]
  BY <1>2, <1>3, FrontIs
<1>5. PICK x : x = [j EXCEPT !.fresh = FALSE]
  OBVIOUS
<1>6. /\ x.fresh = FALSE /\ x.start = j.start
      /\ x.s = j.s /\ x.units = j.units /\ x.dts = j.dts /\ x.key = j.key
  BY <1>5 DEF Pes
<1>7. jobs' = <<x>> \o Tail(jobs)
  BY <1>2, <1>5
<1>8. Behind(0) /\ jobs'[1] = x
  BY <1>2, <1>3, <1>4, <1>6, <1>7, FrontBehind
<1>. QED  BY <1>2, <1>4, <1>6, <1>8

(* A turn at a variable rate keeps the order,                              *)
LEMMA EmitOrder ==
  ASSUME TypeOK, JobsInv, PcrOrder, ~CBR, Emit
  PROVE  PcrOrder'
<1>. DEFINE P == PcrStream
            before == given_dts[P] + Shift
<1>0. TypeOK'
  BY NextType DEF Next
<1>1. PICK j \in Pes : \E t :
        /\ jobs # << >> /\ j = jobs[1] /\ j = Head(jobs)
        /\ Turned(j, t, j.s, OwnPacket(j, t))
        /\ (Behind(0) /\ jobs'[1].start = FALSE) \/ Behind(1)
  BY EmitBehind
<1>2. PICK t :
        /\ jobs # << >> /\ j = jobs[1] /\ j = Head(jobs)
        /\ Turned(j, t, j.s, OwnPacket(j, t))
        /\ (Behind(0) /\ jobs'[1].start = FALSE) \/ Behind(1)
  BY <1>1
<1>3. PICK off \in {0, 1} : Behind(off) /\ (off = 0 => jobs'[1].start = FALSE)
  BY <1>2
<1>4. held' = held /\ given_dts' = given_dts
  BY <1>2 DEF Turned, payloadvars, inputvars
<1>5. /\ before \in Int /\ held[P].dts \in Int /\ held[P].size \in Nat
      /\ last_pcr.dts \in Int /\ last_pcr.at \in Int /\ Len(jobs) \in Nat
      /\ \A n \in 1 .. Len(jobs) : jobs[n].dts \in Int
  BY OrderNumbers
<1>6. \A n \in 1 .. Len(jobs) : jobs[n].s = P => InPcrOrder(n)
  BY DEF PcrOrder
<1>7. 1 \in 1 .. Len(jobs)
  BY <1>2, FrontIs DEF TypeOK
<1>8. \/ last_pcr' = last_pcr
      \/ /\ j.s = P /\ j.start
         /\ last_pcr'.dts = j.dts
         /\ last_pcr'.value = (last_pcr'.dts - max_delay) * PcrScale
  <2>1. CASE last_pcr' = last_pcr
    BY <2>1
  <2>2. ASSUME NEW i \in Pes, NEW r, Clocked(i, r)
        PROVE  /\ j.s = P /\ j.start
               /\ last_pcr'.dts = j.dts
               /\ last_pcr'.value = (last_pcr'.dts - max_delay) * PcrScale
    <3>1. i = j
      BY <1>2, <2>2 DEF Clocked
    <3>2. i.s = P /\ i.start
      BY <2>2 DEF Clocked
    <3>3. last_pcr'.dts = i.dts /\ last_pcr'.value = PcrOf(i, r)
      BY <2>2 DEF Clocked
    <3>4. PcrOf(i, r) = (i.dts - max_delay) * PcrScale
      BY DEF PcrOf
    <3>. QED  BY <3>1, <3>2, <3>3, <3>4
  <2>. QED  BY <2>1, <2>2, ClockStep DEF Next
<1>. HIDE DEF before
<1>9. ASSUME NEW n \in 1 .. Len(jobs'), jobs'[n].s = P
      PROVE  /\ jobs'[n].dts <= before
             /\ held[P].size > 0 => jobs'[n].dts < held[P].dts
             /\ \A m \in 1 .. n - 1 : jobs'[m].s = P => jobs'[m].dts < jobs'[n].dts
             /\ last_pcr'.at >= 0 /\ jobs'[n].start => last_pcr'.dts < jobs'[n].dts
  <2>1. PICK k \in 1 .. Len(jobs) : k = n + off
    BY <1>3 DEF Behind
  <2>2. jobs[k].s = P /\ jobs'[n].dts = jobs[k].dts
    BY <1>3, <1>9, <2>1 DEF Behind
  <2>3. InPcrOrder(k)
    BY <1>6, <2>2
  <2>4. jobs'[n].dts <= before /\ (held[P].size > 0 => jobs'[n].dts < held[P].dts)
    BY <2>2, <2>3 DEF InPcrOrder, before
  <2>5. ASSUME NEW m \in 1 .. n - 1, jobs'[m].s = P
        PROVE  jobs'[m].dts < jobs'[n].dts
    <3>1. m \in 1 .. Len(jobs') /\ m + off \in 1 .. k - 1
      <4>1. Len(jobs') \in Nat
        BY <1>0 DEF TypeOK
      <4>2. n \in Nat /\ n <= Len(jobs') /\ m \in Nat /\ m >= 1 /\ m <= n - 1
        BY <1>9, <2>5, <4>1
      <4>3. off = 0 \/ off = 1
        OBVIOUS
      <4>. QED  BY <2>1, <4>1, <4>2, <4>3
    <3>2. jobs[m + off].s = P /\ jobs'[m].dts = jobs[m + off].dts
      BY <1>3, <2>5, <3>1 DEF Behind
    <3>3. jobs[m + off].dts < jobs[k].dts
      BY <2>3, <3>1, <3>2 DEF InPcrOrder
    <3>. QED  BY <2>2, <3>2, <3>3
  <2>6. ASSUME last_pcr'.at >= 0, jobs'[n].start
        PROVE  last_pcr'.dts < jobs'[n].dts
    <3>1. k # 1
      BY <1>3, <2>1, <2>6
    <3>2. jobs'[n] = jobs[k]
      BY <1>3, <2>1, <3>1 DEF Behind
    <3>3. CASE last_pcr' = last_pcr
      BY <2>2, <2>3, <2>6, <3>2, <3>3 DEF InPcrOrder
    <3>4. CASE j.s = P /\ last_pcr'.dts = j.dts
      <4>1. 1 \in 1 .. k - 1
        BY <3>1
      <4>2. jobs[1].dts < jobs[k].dts
        BY <1>2, <2>3, <3>4, <4>1 DEF InPcrOrder
      <4>. QED  BY <1>2, <2>2, <3>4, <4>2
    <3>. QED  BY <1>8, <3>3, <3>4
  <2>. QED  BY <2>4, <2>5, <2>6
<1>10. ASSUME last_pcr'.at >= 0
       PROVE  /\ last_pcr'.dts <= before
              /\ held[P].size > 0 => last_pcr'.dts < held[P].dts
              /\ last_pcr'.value = (last_pcr'.dts - max_delay) * PcrScale
  <2>1. CASE last_pcr' = last_pcr
    BY <1>10, <2>1 DEF PcrOrder, before
  <2>2. CASE /\ j.s = P /\ last_pcr'.dts = j.dts
             /\ last_pcr'.value = (last_pcr'.dts - max_delay) * PcrScale
    <3>1. InPcrOrder(1)
      BY <1>2, <1>6, <1>7, <2>2
    <3>. QED  BY <1>2, <2>2, <3>1 DEF InPcrOrder, before
  <2>. QED  BY <1>8, <2>1, <2>2
<1>11. held[P].size > 0 => held[P].dts <= before
  BY DEF PcrOrder, before
<1>. QED  BY <1>4, <1>9, <1>10, <1>11 DEF PcrOrder, InPcrOrder, before

(* so does a flush,                                                        *)
LEMMA FlushOrder ==
  ASSUME TypeOK, PcrOrder, Flush
  PROVE  PcrOrder'
<1>. DEFINE P == PcrStream
<1>1. PICK q : /\ Flushes(q) /\ jobs' = PesList(q)
               /\ held' = [i \in Streams |-> Emptied(held[i])]
               /\ UNCHANGED <<given_dts, last_pcr>>
  BY FlushIs
<1>2. given_dts' = given_dts /\ last_pcr' = last_pcr
  BY <1>1
<1>3. held'[P].size = 0
  BY <1>1, PcrStreamType, GatheredFields
<1>4. q \in Seq(Streams) /\ Len(q) \in Nat /\ Distinct(q)
      /\ \A k \in 1 .. Len(q) : held[q[k]].size > 0
  BY <1>1 DEF Flushes
<1>5. Len(jobs') = Len(q) /\ \A k \in 1 .. Len(q) : jobs'[k] = PesOf(q[k])
  BY <1>1, <1>4, ListIs
<1>6. \A k \in 1 .. Len(q) :
        jobs'[k].s = P => /\ q[k] = P /\ jobs'[k].dts = held[P].dts /\ held[P].size > 0
  <2>1. ASSUME NEW k \in 1 .. Len(q), jobs'[k].s = P
        PROVE  q[k] = P /\ jobs'[k].dts = held[P].dts /\ held[P].size > 0
    BY <1>4, <1>5, <2>1, PesOfFresh
  <2>. QED  BY <2>1
<1>7. ASSUME NEW n \in 1 .. Len(jobs'), jobs'[n].s = P
      PROVE  InPcrOrder(n)'
  <2>1. n \in 1 .. Len(q) /\ q[n] = P /\ jobs'[n].dts = held[P].dts /\ held[P].size > 0
    BY <1>5, <1>6, <1>7
  <2>2. \A m \in 1 .. n - 1 : jobs'[m].s # P
    <3>1. ASSUME NEW m \in 1 .. n - 1, jobs'[m].s = P
          PROVE  FALSE
      <4>1. m \in 1 .. Len(q) /\ m # n
        BY <1>4, <2>1
      <4>. QED  BY <1>4, <1>6, <2>1, <3>1, <4>1 DEF Distinct
    <3>. QED  BY <3>1
  <2>3. held[P].dts <= given_dts[P] + Shift
    BY <2>1 DEF PcrOrder
  <2>4. last_pcr.at >= 0 => last_pcr.dts < held[P].dts
    BY <2>1 DEF PcrOrder
  <2>. QED  BY <1>2, <1>3, <2>1, <2>2, <2>3, <2>4 DEF InPcrOrder
<1>. QED  BY <1>2, <1>3, <1>7 DEF PcrOrder

(* and so does every step.                                                 *)
LEMMA PcrOrderStep ==
  ASSUME TypeOK, JobsInv, AudioOnly, PcrOrder, PcrGapsPositive, ~CBR, [Next]_vars
  PROVE  PcrOrder'
<1>1. ASSUME UNCHANGED <<held, jobs, given_dts, last_pcr>>
      PROVE  PcrOrder'
  <2>1. held' = held /\ jobs' = jobs /\ given_dts' = given_dts /\ last_pcr' = last_pcr
    BY <1>1
  <2>. QED  BY <2>1 DEF PcrOrder, InPcrOrder
<1>2. ASSUME NEW p \in Sections, NEW len \in SectionLens, GiveSection(p, len)
      PROVE  PcrOrder'
  <2>1. held' = held /\ jobs' = jobs /\ given_dts' = given_dts /\ jobs = << >>
    BY <1>2 DEF GiveSection, payloadvars
  <2>2. last_pcr' = last_pcr
    BY <2>1, ClockStep DEF Clocked
  <2>. QED  BY <1>1, <2>1, <2>2
<1>3. ~Pad
  <2>1. ASSUME Pad
        PROVE  FALSE
    <3>1. PICK j \in Pes : \E t : t = Turn(j) /\ t.pad
      BY <2>1, PadBehind
    <3>. QED  BY <3>1, TurnFields DEF TooEarly
  <2>. QED  BY <2>1
<1>4. UNCHANGED vars => PcrOrder'
  BY <1>1 DEF vars, payloadvars, inputvars, receiver
<1>. QED  BY <1>2, <1>3, <1>4, GiveUnitOrder, FlushOrder, EmitOrder DEF Next

(* It holds at first.                                                      *)
LEMMA InitOrder ==
  ASSUME Init
  PROVE  AudioOnly /\ PcrOrder
<1>1. /\ jobs = << >> /\ last_pcr.at = -1
      /\ \A s \in Streams : held[s].size = 0
  BY DEF Init, Empty
<1>. QED  BY <1>1, PcrStreamType DEF AudioOnly, PcrOrder

(* The PES that a clock reference is for comes later than the last.        *)
LEMMA LaterPcr ==
  ASSUME TypeOK, JobsInv, PcrOrder, ~CBR, [Next]_vars,
         last_pcr.at >= 0, last_pcr' # last_pcr
  PROVE  last_pcr'.value > last_pcr.value
<1>1. PICK j \in Pes : \E t : Clocked(j, t)
  BY ClockStep
<1>2. PICK t : Clocked(j, t)
  BY <1>1
<1>3. j = jobs[1] /\ 1 \in 1 .. Len(jobs)
  BY <1>2, FrontIs DEF TypeOK, Clocked
<1>4. j.s = PcrStream /\ j.start /\ last_pcr'.value = PcrOf(j, t)
  BY <1>2 DEF Clocked
<1>5. last_pcr.dts < j.dts
  BY <1>3, <1>4 DEF PcrOrder, InPcrOrder
<1>6. last_pcr'.value = (j.dts - max_delay) * PcrScale
  BY <1>4 DEF PcrOf
<1>7. last_pcr.value = (last_pcr.dts - max_delay) * PcrScale
  BY DEF PcrOrder
<1>8. /\ last_pcr.dts \in Int /\ j.dts \in Int /\ max_delay \in Int
      /\ PcrScale \in Nat /\ PcrScale > 0
  BY PesFields, TimesAssumption, PcrAssumption DEF TypeOK
<1>9. PICK a \in Int, d \in Nat : a = last_pcr.dts - max_delay /\ d + 1 = j.dts - last_pcr.dts
  <2>1. (j.dts - last_pcr.dts) - 1 \in Nat /\ last_pcr.dts - max_delay \in Int
    BY <1>5, <1>8
  <2>. QED  BY <2>1, <1>8
<1>10. j.dts - max_delay = a + d + 1
  BY <1>8, <1>9
<1>11. PICK x \in Nat, y \in Int : x = d * PcrScale /\ y = a * PcrScale
  BY <1>8
<1>12. (a + d + 1) * PcrScale = y + x + PcrScale
  BY <1>8, <1>11
<1>. QED  BY <1>6, <1>7, <1>8, <1>9, <1>10, <1>11, <1>12

(* At any rate each clock reference is later than the one before: at a     *)
(* constant one because packets were written in between, at a variable one *)
(* because the PES of the PCR stream come in the order of their dts,       *)
(* gathered ones included.                                                 *)
THEOREM PcrIncreasesHolds ==
  ASSUME ~CBR => PcrGapsPositive
  PROVE  Spec /\ []FirstClockSet => PcrIncreases
<1>. DEFINE Inv == /\ TypeOK /\ JobsInv /\ ClockInv
                   /\ ~CBR => AudioOnly /\ PcrOrder
<1>1. Init => Inv
  BY InitType, InitJobs, InitClock, InitOrder
<1>2. Inv /\ FirstClockSet /\ [Next]_vars => Inv'
  <2>1. ASSUME Inv, FirstClockSet, [Next]_vars
        PROVE  TypeOK' /\ JobsInv' /\ ClockInv'
    BY <2>1, NextType, NextJobs, ClockInvStep
  <2>2. ASSUME Inv, [Next]_vars, ~CBR
        PROVE  AudioOnly' /\ PcrOrder'
    BY <2>2, AudioOnlyStep, PcrOrderStep
  <2>. QED  BY <2>1, <2>2
<1>3. Inv /\ FirstClockSet /\ [Next]_vars
        => [last_pcr' # last_pcr /\ last_pcr.at >= 0
              => last_pcr'.value > last_pcr.value]_vars
  <2>1. ASSUME Inv, FirstClockSet, [Next]_vars, last_pcr' # last_pcr, last_pcr.at >= 0
        PROVE  last_pcr'.value > last_pcr.value
    <3>1. CASE ~CBR
      BY <2>1, <3>1, LaterPcr
    <3>2. CASE CBR
      <4>1. /\ last_pcr'.at \in Int /\ last_pcr.at \in Int /\ last_pcr'.at > last_pcr.at
            /\ last_pcr.value \in Int
            /\ last_pcr'.value - last_pcr.value = (last_pcr'.at - last_pcr.at) * PacketPcr
        BY <2>1, <3>2, ClockGoesOn
      <4>2. last_pcr'.value \in Int
        BY <2>1, NextType DEF TypeOK
      <4>3. PICK d \in Nat \ {0} : d = last_pcr'.at - last_pcr.at
        BY <4>1
      <4>4. d * PacketPcr > 0 /\ d * PacketPcr \in Int
        BY TimesAssumption
      <4>. QED  BY <4>1, <4>2, <4>3, <4>4
    <3>. QED  BY <3>1, <3>2
  <2>. QED  BY <2>1
<1>. QED  BY <1>1, <1>2, <1>3, PTL DEF Spec, PcrIncreases

-----------------------------------------------------------------------------
(* The packets of a turn: those of tables, the PMT among them if the PAT   *)
(* is, then its own.                                                       *)
LEMMA TurnedWrote ==
  ASSUME TypeOK, NEW j, NEW t, t = Turn(j), NEW own, NEW packet \in Packet,
         Turned(j, t, own, packet)
  PROVE  \E n \in Nat :
           /\ Len(wrote') = n + 1 /\ wrote'[n + 1] = packet
           /\ \A k \in 1 .. n : Plain(wrote'[k]) /\ wrote'[k].pid \in {SDT, PAT, PMT}
           /\ t.pat => \E k \in 1 .. n : wrote'[k].pid = PMT
           /\ fed' = (IF \E k \in 1 .. n + 1 : wrote'[k].pid = PMT THEN {} ELSE fed)
                        \cup ({packet.pid} \cap {p \in Streams : packet.payload})
<1>1. PICK table : table = TablePackets(t.sdt, t.pat)
  OBVIOUS
<1>2. /\ table \in Seq(Packet)
      /\ \A k \in 1 .. Len(table) : Plain(table[k]) /\ table[k].pid \in {SDT, PAT, PMT}
      /\ t.pat => \E k \in 1 .. Len(table) : table[k].pid = PMT
  <2>1. t.sdt \in BOOLEAN /\ t.pat \in BOOLEAN
    BY TurnBool
  <2>2. cc \in [Pids -> 0 .. 15]
    BY DEF TypeOK
  <2>3. PICK sdt \in BOOLEAN, pat \in BOOLEAN : sdt = t.sdt /\ pat = t.pat
    BY <2>1
  <2>4. table = TablePackets(sdt, pat)
    BY <1>1, <2>3
  <2>. QED  BY <2>2, <2>3, <2>4, TablePacketsType
<1>3. PICK packets : packets = Append(table, packet)
  OBVIOUS
<1>4. PICK n \in Nat : n = Len(table)
  BY <1>2
<1>5. /\ Len(packets) = n + 1 /\ packets[n + 1] = packet
      /\ \A k \in 1 .. n : packets[k] = table[k]
  BY <1>2, <1>3, <1>4
<1>6. WritePackets(packets)
  BY <1>1, <1>3, TurnedPackets
<1>7. /\ wrote' = packets
      /\ fed' = (IF \E k \in 1 .. n + 1 : packets[k].pid = PMT THEN {} ELSE fed)
                   \cup ({packet.pid} \cap {p \in Streams : packet.payload})
  BY <1>5, <1>6 DEF WritePackets
<1>8. \A k \in 1 .. n : Plain(wrote'[k]) /\ wrote'[k].pid \in {SDT, PAT, PMT}
  BY <1>2, <1>4, <1>5, <1>7
<1>9. t.pat => \E k \in 1 .. n : wrote'[k].pid = PMT
  BY <1>2, <1>4, <1>5, <1>7
<1>. QED  BY <1>5, <1>7, <1>8, <1>9

(* A video key frame whose PES is at its start, with the tables before it  *)
(* written and no packet of its stream since.                              *)
KeyInv ==
  jobs # << >> /\ jobs[1].start /\ ~jobs[1].fresh /\ jobs[1].key
    /\ jobs[1].s \in Video /\ ~prev_key[jobs[1].s]
    => jobs[1].s \notin fed

(* A key frame behind one that is not forces the tables (ForcePat).        *)
LEMMA ForcedPat ==
  ASSUME NEW j, NEW t, t = Turn(j),
         j.fresh, j.s \in Video, j.key, ~prev_key[j.s]
  PROVE  t.pat
<1>1. ForcePat(j)
  BY DEF ForcePat
<1>2. t.pat = PatDue(j.dts, ForcePat(j))
  BY TurnFields
<1>. QED  BY <1>1, <1>2, Zenon DEF PatDue

(* A PES that is fresh has no tables behind it yet.                        *)
LEMMA FreshKey ==
  ASSUME jobs' # << >> => jobs'[1].fresh
  PROVE  KeyInv'
  BY DEF KeyInv

(* The packet of Pad is no key frame's, and does not count.                *)
LEMMA PadPacket ==
  ASSUME TypeOK, NEW j \in Pes, NEW t, t = Turn(j), NEW packet,
         packet = IF t.write_pcr THEN PcrOnly(j, get_pcr(t.n, t.first)) ELSE NullPacket
  PROVE  /\ packet.key = FALSE
         /\ packet.pid \in Streams \cup {Null}
         /\ packet.pid \in Streams => packet.payload = FALSE /\ packet.cc = cc[packet.pid]
<1>1. CASE t.write_pcr
  <2>1. packet = PcrOnly(j, get_pcr(t.n, t.first))
    BY <1>1
  <2>2. /\ packet.key = FALSE /\ packet.pid = j.s /\ packet.payload = FALSE
        /\ packet.cc = cc[j.s]
    BY <2>1 DEF PcrOnly, NullPacket
  <2>. QED  BY <2>2, PesFields
<1>2. CASE ~t.write_pcr
  <2>1. packet = NullPacket
    BY <1>2
  <2>2. packet.key = FALSE /\ packet.pid = Null
    BY <2>1 DEF NullPacket
  <2>3. Null \notin Streams
    BY StreamsAssumption DEF Null, Streams
  <2>. QED  BY <2>2, <2>3
<1>. QED  BY <1>1, <1>2

(* Streams, sections, tables and null packets have pids of their own.      *)
LEMMA PidsApart ==
  /\ \A s \in Streams : s \in Pids /\ s \notin {PAT, PMT, SDT, Null}
  /\ \A p \in Sections : p \in Pids /\ p \notin {PAT, PMT, SDT, Null} /\ p \notin Streams
  /\ {PAT, PMT, SDT} \subseteq Pids /\ Null \notin Pids
  /\ PAT # PMT /\ PAT # SDT /\ PMT # SDT
  BY StreamsAssumption DEF Streams, Sections, Pids, PAT, PMT, SDT, Null

(* Every step keeps the tables before the key frame.                       *)
LEMMA NextKey ==
  ASSUME TypeOK, JobsInv, KeyInv, [Next]_vars
  PROVE  KeyInv'
<1>0. TypeOK'
  BY NextType
<1>a. jobs' \in Seq(Pes) /\ (jobs' # << >> => 1 \in 1 .. Len(jobs'))
  BY <1>0 DEF TypeOK
<1>1. ASSUME NEW s \in Streams, NEW kind \in Kinds[s], NEW gap \in Gaps[s],
             GiveUnit(s, kind, gap)
      PROVE  KeyInv'
  BY <1>a, <1>1, GiveUnitFresh, FreshKey
<1>2. ASSUME NEW p \in Sections, NEW len \in SectionLens, GiveSection(p, len)
      PROVE  KeyInv'
  BY <1>2 DEF GiveSection, KeyInv
<1>3. Flush => KeyInv'
  BY <1>a, FlushFresh, FreshKey
<1>4. ASSUME Pad
      PROVE  KeyInv'
  <2>1. PICK j \in Pes, packet \in Packet : \E t :
           /\ jobs # << >> /\ j = jobs[1] /\ t = Turn(j)
           /\ packet = IF t.write_pcr THEN PcrOnly(j, get_pcr(t.n, t.first)) ELSE NullPacket
           /\ Turned(j, t, Null, packet)
           /\ Behind(0) /\ jobs'[1].start = j.start /\ jobs'[1].key = j.key
           /\ prev_key' = prev_key
    BY <1>4, PadBehind
  <2>2. PICK t :
           /\ jobs # << >> /\ j = jobs[1] /\ t = Turn(j)
           /\ packet = IF t.write_pcr THEN PcrOnly(j, get_pcr(t.n, t.first)) ELSE NullPacket
           /\ Turned(j, t, Null, packet)
           /\ Behind(0) /\ jobs'[1].start = j.start /\ jobs'[1].key = j.key
           /\ prev_key' = prev_key
    BY <2>1
  <2>3. packet.pid \in Streams => packet.payload = FALSE
    BY <2>2, PadPacket
  <2>4. Turned(j, t, Null, packet)
    BY <2>2, Zenon
  <2>5. PICK n \in Nat :
          /\ Len(wrote') = n + 1
          /\ t.pat => \E k \in 1 .. n : wrote'[k].pid = PMT
          /\ fed' = (IF \E k \in 1 .. n + 1 : wrote'[k].pid = PMT THEN {} ELSE fed)
                       \cup ({packet.pid} \cap {p \in Streams : packet.payload})
    BY <2>2, <2>4, TurnedWrote
  <2>6. {packet.pid} \cap {p \in Streams : packet.payload} = {}
    BY <2>3
  <2>7. /\ fed' \subseteq fed
        /\ t.pat => fed' = {}
    <3>1. (\E k \in 1 .. n : wrote'[k].pid = PMT) => \E k \in 1 .. n + 1 : wrote'[k].pid = PMT
      OBVIOUS
    <3>. QED  BY <2>5, <2>6, <3>1
  <2>8. jobs' # << >> => jobs'[1].s = j.s
    <3>1. 1 + 0 = 1
      OBVIOUS
    <3>. QED  BY <1>a, <2>2, <3>1 DEF Behind
  <2>9. ASSUME jobs' # << >>, jobs'[1].start, jobs'[1].key,
               jobs'[1].s \in Video, ~prev_key'[jobs'[1].s]
        PROVE  jobs'[1].s \notin fed'
    <3>1. j.start /\ j.key /\ j.s \in Video /\ ~prev_key[j.s]
      BY <2>2, <2>8, <2>9
    <3>2. CASE j.fresh
      <4>1. t.pat
        BY <2>2, <3>1, <3>2, ForcedPat
      <4>. QED  BY <2>7, <4>1
    <3>3. CASE ~j.fresh
      <4>1. j.s \notin fed
        BY <2>2, <3>1, <3>3 DEF KeyInv
      <4>. QED  BY <2>7, <2>8, <2>9, <4>1
    <3>. QED  BY <3>2, <3>3
  <2>. QED  BY <2>9 DEF KeyInv
<1>5. ASSUME Emit
      PROVE  KeyInv'
  <2>1. \/ Behind(0) /\ jobs'[1].start = FALSE
        \/ Behind(1)
    BY <1>5, EmitBehind
  <2>2. CASE jobs'[1].start = FALSE
    BY <2>2 DEF KeyInv
  <2>3. CASE Behind(1)
    <3>1. ASSUME jobs' # << >>
          PROVE  jobs'[1].fresh
      <4>1. 1 + 1 = 2 /\ 1 \in 1 .. Len(jobs')
        BY <1>a, <3>1
      <4>2. jobs'[1] = jobs[2] /\ 2 \in 1 .. Len(jobs)
        BY <2>3, <4>1 DEF Behind
      <4>. QED  BY <4>2 DEF JobsInv
    <3>. QED  BY <3>1, FreshKey
  <2>. QED  BY <2>1, <2>2, <2>3
<1>6. UNCHANGED vars => KeyInv'
  BY DEF vars, receiver, KeyInv
<1>. QED  BY <1>1, <1>2, <1>3, <1>4, <1>5, <1>6 DEF Next

(* Only the own packet of a PES is a key frame's.                          *)
LEMMA KeyPacket ==
  ASSUME TypeOK, JobsInv, KeyInv, [Next]_vars,
         NEW k \in 1 .. Len(wrote'),
         sent' # sent, wrote'[k].key, wrote'[k].pid \in Video, ~prev_key[wrote'[k].pid]
  PROVE  wrote'[k].pid \notin fed \/ \E m \in 1 .. k - 1 : wrote'[m].pid = PMT
<1>1. ASSUME NEW s \in Streams, NEW kind \in Kinds[s], NEW gap \in Gaps[s],
             GiveUnit(s, kind, gap)
      PROVE  FALSE
  BY <1>1 DEF GiveUnit
<1>2. ASSUME NEW p \in Sections, NEW len \in SectionLens, GiveSection(p, len)
      PROVE  FALSE
  <2>1. PICK packets : packets = SectionOf(p, len)
    OBVIOUS
  <2>2. p \in Pids /\ len \in Nat /\ cc \in [Pids -> 0 .. 15]
    BY SectionsAssumption DEF SectionLen, Pids, TypeOK
  <2>3. Len(packets) = SectionPackets(len) /\ wrote' = packets
    BY <1>2, <2>1, <2>2, SectionOfType DEF GiveSection, WritePackets
  <2>4. Plain(wrote'[k])
    BY <2>1, <2>2, <2>3, SectionOfType
  <2>. QED  BY <2>4 DEF Plain
<1>3. ~Flush
  BY DEF Flush
<1>4. ~UNCHANGED vars
  BY DEF vars
<1>5. ASSUME Pad
      PROVE  FALSE
  <2>1. PICK j \in Pes, packet \in Packet : \E t :
           /\ t = Turn(j)
           /\ packet = IF t.write_pcr THEN PcrOnly(j, get_pcr(t.n, t.first)) ELSE NullPacket
           /\ Turned(j, t, Null, packet)
    BY <1>5, PadIs
  <2>2. PICK t :
           /\ t = Turn(j)
           /\ packet = IF t.write_pcr THEN PcrOnly(j, get_pcr(t.n, t.first)) ELSE NullPacket
           /\ Turned(j, t, Null, packet)
    BY <2>1
  <2>3. packet.key = FALSE
    BY <2>2, PadPacket
  <2>4. PICK n \in Nat :
          /\ Len(wrote') = n + 1 /\ wrote'[n + 1] = packet
          /\ \A m \in 1 .. n : Plain(wrote'[m])
    BY <2>2, TurnedWrote
  <2>5. k = n + 1 \/ k \in 1 .. n
    BY <2>4
  <2>. QED  BY <2>3, <2>4, <2>5 DEF Plain
<1>6. CASE Emit
  <2>1. PICK j \in Pes : \E t :
           /\ jobs # << >> /\ j = jobs[1] /\ t = Turn(j)
           /\ Turned(j, t, j.s, OwnPacket(j, t))
    BY <1>6, EmitBehind
  <2>2. PICK t :
           /\ jobs # << >> /\ j = jobs[1] /\ t = Turn(j)
           /\ Turned(j, t, j.s, OwnPacket(j, t))
    BY <2>1
  <2>3. PICK packet \in Packet : packet = OwnPacket(j, t)
    BY <2>2, OwnPacketType, Zenon
  <2>4. packet.pid = j.s /\ packet.key = RandomAccess(j)
    BY <2>3 DEF OwnPacket
  <2>5. Turned(j, t, j.s, packet)
    BY <2>2, <2>3, Zenon
  <2>6. PICK n \in Nat :
          /\ Len(wrote') = n + 1 /\ wrote'[n + 1] = packet
          /\ \A m \in 1 .. n : Plain(wrote'[m])
          /\ t.pat => \E m \in 1 .. n : wrote'[m].pid = PMT
    BY <2>2, <2>5, TurnedWrote
  <2>7. k = n + 1
    <3>1. k \in 1 .. n => FALSE
      BY <2>6 DEF Plain
    <3>. QED  BY <2>6, <3>1
  <2>8. wrote'[k].pid = j.s /\ j.s \in Video /\ ~prev_key[j.s]
    BY <2>4, <2>6, <2>7
  <2>9. RandomAccess(j)
    BY <2>4, <2>6, <2>7, Zenon
  <2>10. j.key /\ j.start
    BY <2>9, Zenon DEF RandomAccess
  <2>11. CASE j.fresh
    <3>1. t.pat
      BY <2>2, <2>8, <2>10, <2>11, ForcedPat
    <3>2. PICK m \in 1 .. n : wrote'[m].pid = PMT
      BY <2>6, <3>1
    <3>3. m \in 1 .. k - 1
      BY <2>7
    <3>. QED  BY <3>2, <3>3
  <2>12. CASE ~j.fresh
    <3>1. j.s \notin fed
      BY <2>2, <2>8, <2>10, <2>12 DEF KeyInv
    <3>. QED  BY <2>8, <3>1
  <2>. QED  BY <2>11, <2>12
<1>. QED  BY <1>1, <1>2, <1>3, <1>4, <1>5, <1>6 DEF Next

(* Whatever comes in between, padding of any length and PES of other       *)
(* streams, a video key frame behind one that is not has a PAT and a PMT   *)
(* written since the last packet of its stream: they are forced in the     *)
(* first turn of mpegts_write_pes for it.                                  *)
THEOREM KeyAfterTablesHolds == Spec => KeyAfterTables
<1>1. Init => TypeOK /\ JobsInv /\ KeyInv
  BY InitType, InitJobs DEF Init, KeyInv
<1>2. TypeOK /\ JobsInv /\ KeyInv /\ [Next]_vars => TypeOK' /\ JobsInv' /\ KeyInv'
  BY NextType, NextJobs, NextKey
<1>3. TypeOK /\ JobsInv /\ KeyInv /\ [Next]_vars
        => [\A k \in 1 .. Len(wrote') :
              LET p == wrote'[k]
              IN  (sent' # sent /\ p.key /\ p.pid \in Video /\ ~prev_key[p.pid])
                    => p.pid \notin fed \/ \E m \in 1 .. k - 1 : wrote'[m].pid = PMT]_vars
  BY KeyPacket
<1>. QED  BY <1>1, <1>2, <1>3, PTL DEF Spec, KeyAfterTables

-----------------------------------------------------------------------------
(* The packets with pid p are L in a row, behind a others, whose counters  *)
(* go on from cc.                                                          *)
Block(packets, p, a, L) ==
  /\ a + L <= Len(packets)
  /\ \A k \in 1 .. Len(packets) : packets[k].pid = p <=> k \in a + 1 .. a + L
  /\ \A k \in a + 1 .. a + L : packets[k].payload /\ packets[k].cc = (cc[p] + (k - a)) % 16

(* What was last seen, before, within and behind a block.                  *)
LEMMA BlockLast ==
  ASSUME NEW packets, Len(packets) \in Nat, NEW p \in Pids, NEW a \in Nat, NEW L \in Nat,
         Block(packets, p, a, L), cc \in [Pids -> 0 .. 15], seen = cc,
         NEW k \in 1 .. Len(packets) + 1
  PROVE  LastSeen(packets, k, p) =
           IF k <= a + 1 THEN cc[p]
           ELSE IF k <= a + L THEN (cc[p] + (k - 1 - a)) % 16 ELSE (cc[p] + L) % 16
<1>. DEFINE mine == {m \in 1 .. k - 1 : packets[m].pid = p}
<1>0. cc[p] \in 0 .. 15
  OBVIOUS
<1>1. LastSeen(packets, k, p) =
        IF mine = {} THEN cc[p] ELSE packets[CHOOSE m \in mine : \A i \in mine : i <= m].cc
  BY DEF LastSeen
<1>2. \A m \in 1 .. k - 1 : m \in mine <=> m \in a + 1 .. a + L
  BY DEF Block
<1>3. mine \subseteq 1 .. k - 1
  OBVIOUS
<1>. HIDE DEF mine
<1>4. CASE k <= a + 1
  <2>1. mine = {}
    BY <1>2, <1>3, <1>4
  <2>. QED  BY <1>1, <1>4, <2>1
<1>5. CASE ~(k <= a + 1) /\ L = 0
  <2>1. mine = {}
    BY <1>2, <1>3, <1>5
  <2>2. cc[p] = (cc[p] + L) % 16
    BY <1>0, <1>5
  <2>. QED  BY <1>1, <1>5, <2>1, <2>2
<1>6. CASE ~(k <= a + 1) /\ L # 0
  <2>1. PICK last \in Nat : last = IF k <= a + L THEN k - 1 ELSE a + L
    BY <1>6
  <2>2. last \in a + 1 .. a + L /\ last \in 1 .. k - 1
    BY <1>6, <2>1
  <2>3. last \in mine /\ \A m \in mine : m <= last
    BY <1>2, <1>3, <2>1, <2>2
  <2>4. (CHOOSE m \in mine : \A i \in mine : i <= m) = last
    <3>1. \A m \in mine : (\A i \in mine : i <= m) => m = last
      <4>1. ASSUME NEW m \in mine, \A i \in mine : i <= m
            PROVE  m = last
        <5>1. last <= m /\ m <= last /\ m \in Int
          BY <1>3, <2>3, <4>1
        <5>. QED  BY <2>1, <5>1
      <4>. QED  BY <4>1
    <3>. QED  BY <2>3, <3>1
  <2>5. LastSeen(packets, k, p) = packets[last].cc
    BY <1>1, <2>3, <2>4
  <2>6. packets[last].cc = (cc[p] + (last - a)) % 16
    BY <2>2 DEF Block
  <2>7. last - a = IF k <= a + L THEN k - 1 - a ELSE L
    BY <2>1
  <2>. QED  BY <1>6, <2>5, <2>6, <2>7
<1>. QED  BY <1>4, <1>5, <1>6

(* Within a block the counters go on by one.                               *)
LEMMA BlockGoesOn ==
  ASSUME NEW packets, Len(packets) \in Nat, NEW p \in Pids, NEW a \in Nat, NEW L \in Nat,
         Block(packets, p, a, L), cc \in [Pids -> 0 .. 15], seen = cc
  PROVE  /\ \A k \in 1 .. Len(packets) : packets[k].pid = p =>
              /\ packets[k].payload
              /\ packets[k].cc = (LastSeen(packets, k, p) + 1) % 16
         /\ LastSeen(packets, Len(packets) + 1, p) = (cc[p] + L) % 16
<1>0. cc[p] \in 0 .. 15
  OBVIOUS
<1>1. ASSUME NEW k \in 1 .. Len(packets), packets[k].pid = p
      PROVE  /\ packets[k].payload
             /\ packets[k].cc = (LastSeen(packets, k, p) + 1) % 16
  <2>1. k \in a + 1 .. a + L
    BY <1>1 DEF Block
  <2>2. packets[k].payload /\ packets[k].cc = (cc[p] + (k - a)) % 16
    BY <2>1 DEF Block
  <2>3. CASE k = a + 1
    <3>1. LastSeen(packets, k, p) = cc[p]
      BY <2>3, BlockLast
    <3>2. k - a = 1
      BY <2>3
    <3>. QED  BY <2>2, <3>1, <3>2
  <2>4. CASE k # a + 1
    <3>1. PICK d \in Nat : d = k - 1 - a
      BY <2>1, <2>4
    <3>2. LastSeen(packets, k, p) = (cc[p] + d) % 16
      BY <2>1, <2>4, <3>1, BlockLast
    <3>3. k - a = d + 1
      BY <2>1, <3>1
    <3>4. PICK x \in Nat : x = cc[p] + d
      BY <1>0
    <3>5. cc[p] + (k - a) = x + 1
      <4>1. PICK c \in Nat : c = cc[p]
        BY <1>0
      <4>2. c + (d + 1) = x + 1
        BY <3>4, <4>1
      <4>. QED  BY <3>3, <4>1, <4>2
    <3>6. ((x % 16) + 1) % 16 = (x + 1) % 16
      OBVIOUS
    <3>. QED  BY <2>2, <3>2, <3>4, <3>5, <3>6
  <2>. QED  BY <2>2, <2>3, <2>4
<1>2. LastSeen(packets, Len(packets) + 1, p) = (cc[p] + L) % 16
  <2>1. PICK k \in 1 .. Len(packets) + 1 : k = Len(packets) + 1
    OBVIOUS
  <2>2. a + L <= Len(packets)
    BY DEF Block
  <2>3. k <= a + 1 <=> L = 0 /\ k = a + 1
    BY <2>1, <2>2
  <2>4. ~(k <= a + L)
    BY <2>1, <2>2
  <2>5. L = 0 => cc[p] = (cc[p] + L) % 16
    BY <1>0
  <2>6. LastSeen(packets, k, p) = IF k <= a + 1 THEN cc[p] ELSE (cc[p] + L) % 16
    BY <2>4, BlockLast
  <2>. QED  BY <2>1, <2>3, <2>5, <2>6
<1>. QED  BY <1>1, <1>2

(* Without packets of its own a pid has an empty block.                    *)
LEMMA NoBlock ==
  ASSUME NEW packets, Len(packets) \in Nat, NEW p,
         \A k \in 1 .. Len(packets) : packets[k].pid # p
  PROVE  Block(packets, p, 0, 0)
  BY DEF Block

(* The packets of a section, if it is due.                                 *)
DueSection(due, p, len) == IF due THEN SectionOf(p, len) ELSE << >>

(* Sequences of packets, joined.                                           *)
LEMMA Concatenation ==
  ASSUME NEW a, NEW b, a \in Seq(Packet), b \in Seq(Packet)
  PROVE  /\ a \o b \in Seq(Packet) /\ Len(a) \in Nat /\ Len(b) \in Nat
         /\ Len(a \o b) = Len(a) + Len(b)
         /\ \A k \in 1 .. Len(a) : (a \o b)[k] = a[k]
         /\ \A k \in 1 .. Len(b) : (a \o b)[Len(a) + k] = b[k]
  OBVIOUS

(* x is L packets with pid p, whose counters go on from cc.                *)
InARow(x, L, p) ==
  /\ x \in Seq(Packet) /\ Len(x) = L
  /\ \A k \in 1 .. L : x[k].pid = p /\ x[k].cc = (cc[p] + k) % 16 /\ x[k].payload

(* The packets of a section are in a row.                                  *)
LEMMA SectionInARow ==
  ASSUME NEW p \in Pids, NEW len \in Nat, cc \in [Pids -> 0 .. 15]
  PROVE  InARow(SectionOf(p, len), SectionPackets(len), p)
<1>1. /\ SectionOf(p, len) \in Seq(Packet)
      /\ Len(SectionOf(p, len)) = SectionPackets(len)
      /\ \A k \in 1 .. SectionPackets(len) :
           /\ Plain(SectionOf(p, len)[k])
           /\ SectionOf(p, len)[k].pid = p
           /\ SectionOf(p, len)[k].cc = (cc[p] + k) % 16
  BY SectionOfType, Zenon
<1>2. \A k \in 1 .. SectionPackets(len) : SectionOf(p, len)[k].payload
  BY <1>1, Zenon DEF Plain
<1>. QED  BY <1>1, <1>2, Zenon DEF InARow

(* They are in a row too, none at all if it is not.                        *)
LEMMA DueSectionIs ==
  ASSUME NEW due \in BOOLEAN, NEW p \in Pids, NEW len \in Nat, cc \in [Pids -> 0 .. 15]
  PROVE  \E L \in Nat :
           /\ L = IF due THEN SectionPackets(len) ELSE 0
           /\ InARow(DueSection(due, p, len), L, p)
<1>1. CASE due
  <2>1. SectionPackets(len) \in Nat
    BY SectionPacketsType
  <2>2. InARow(DueSection(due, p, len), SectionPackets(len), p)
    BY <1>1, SectionInARow DEF DueSection
  <2>. QED  BY <1>1, <2>1, <2>2
<1>2. CASE ~due
  <2>1. DueSection(due, p, len) = << >>
    BY <1>2 DEF DueSection
  <2>2. InARow(<< >>, 0, p)
    BY DEF InARow
  <2>. QED  BY <1>2, <2>1, <2>2
<1>. QED  BY <1>1, <1>2

(* How the packets of the tables lie: SDT, PAT, PMT.                       *)
LayOut(t, A, B, C) ==
  /\ Len(t) = A + B + C
  /\ \A k \in 1 .. A : t[k].pid = SDT /\ t[k].cc = (cc[SDT] + k) % 16 /\ t[k].payload
  /\ \A k \in 1 .. B :
       t[A + k].pid = PAT /\ t[A + k].cc = (cc[PAT] + k) % 16 /\ t[A + k].payload
  /\ \A k \in 1 .. C :
       t[A + B + k].pid = PMT /\ t[A + B + k].cc = (cc[PMT] + k) % 16 /\ t[A + B + k].payload

(* TablePackets lie so.                                                    *)
LEMMA TableLayout ==
  ASSUME NEW sdt \in BOOLEAN, NEW pat \in BOOLEAN, cc \in [Pids -> 0 .. 15]
  PROVE  \E A \in Nat, B \in Nat, C \in Nat :
           /\ A = IF sdt THEN SectionPackets(TableLen.sdt) ELSE 0
           /\ B = IF pat THEN SectionPackets(TableLen.pat) ELSE 0
           /\ C = IF pat THEN SectionPackets(TableLen.pmt) ELSE 0
           /\ LayOut(TablePackets(sdt, pat), A, B, C)
<1>1. TableLen.sdt \in Nat /\ TableLen.pat \in Nat /\ TableLen.pmt \in Nat
  BY SectionsAssumption DEF SectionLen
<1>2. SDT \in Pids /\ PAT \in Pids /\ PMT \in Pids
  BY DEF Pids
<1>3. PICK x, y, z : /\ x = DueSection(sdt, SDT, TableLen.sdt)
                     /\ y = DueSection(pat, PAT, TableLen.pat)
                     /\ z = DueSection(pat, PMT, TableLen.pmt)
  OBVIOUS
<1>4. PICK A \in Nat :
        A = (IF sdt THEN SectionPackets(TableLen.sdt) ELSE 0) /\ InARow(x, A, SDT)
  BY <1>1, <1>2, <1>3, DueSectionIs
<1>5. PICK B \in Nat :
        B = (IF pat THEN SectionPackets(TableLen.pat) ELSE 0) /\ InARow(y, B, PAT)
  BY <1>1, <1>2, <1>3, DueSectionIs
<1>6. PICK C \in Nat :
        C = (IF pat THEN SectionPackets(TableLen.pmt) ELSE 0) /\ InARow(z, C, PMT)
  BY <1>1, <1>2, <1>3, DueSectionIs
<1>a. /\ x \in Seq(Packet) /\ Len(x) = A
      /\ y \in Seq(Packet) /\ Len(y) = B
      /\ z \in Seq(Packet) /\ Len(z) = C
  BY <1>4, <1>5, <1>6 DEF InARow
<1>7. TablePackets(sdt, pat) = x \o (y \o z)
  <2>1. << >> = << >> \o << >>
    OBVIOUS
  <2>. QED  BY <1>3, <2>1 DEF TablePackets, DueSection
<1>8. PICK r \in Seq(Packet) : r = y \o z
  BY <1>a, Concatenation
<1>9. /\ Len(r) = B + C
      /\ \A k \in 1 .. B : r[k] = y[k]
      /\ \A k \in 1 .. C : r[B + k] = z[k]
  <2>1. /\ Len(y \o z) = Len(y) + Len(z)
        /\ \A k \in 1 .. Len(y) : (y \o z)[k] = y[k]
        /\ \A k \in 1 .. Len(z) : (y \o z)[Len(y) + k] = z[k]
    <3>1. y \in Seq(Packet) /\ z \in Seq(Packet)
      BY <1>a
    <3>. QED  BY <3>1, Concatenation
  <2>. QED  BY <1>a, <1>8, <2>1, Zenon
<1>10. PICK t : t = TablePackets(sdt, pat)
  OBVIOUS
<1>11. t = x \o r
  BY <1>7, <1>8, <1>10
<1>12. /\ Len(t) = A + B + C
       /\ \A k \in 1 .. A : t[k] = x[k]
       /\ \A k \in 1 .. B + C : t[A + k] = r[k]
  <2>1. /\ Len(t) = A + Len(r)
        /\ \A k \in 1 .. A : t[k] = x[k]
        /\ \A k \in 1 .. Len(r) : t[A + k] = r[k]
    <3>1. /\ Len(x \o r) = Len(x) + Len(r)
          /\ \A k \in 1 .. Len(x) : (x \o r)[k] = x[k]
          /\ \A k \in 1 .. Len(r) : (x \o r)[Len(x) + k] = r[k]
      <4>1. x \in Seq(Packet) /\ r \in Seq(Packet)
        BY <1>a
      <4>. QED  BY <4>1, Concatenation
    <3>. QED  BY <1>a, <1>11, <3>1, Zenon
  <2>2. A + Len(r) = A + B + C
    BY <1>9
  <2>. QED  BY <1>9, <2>1, <2>2
<1>13. \A k \in 1 .. B : t[A + k] = y[k]
  BY <1>9, <1>12
<1>14. \A k \in 1 .. C : t[A + B + k] = z[k]
  <2>1. ASSUME NEW k \in 1 .. C
        PROVE  t[A + B + k] = z[k]
    <3>1. B + k \in 1 .. B + C /\ A + (B + k) = A + B + k
      OBVIOUS
    <3>. QED  BY <1>9, <1>12, <3>1
  <2>. QED  BY <2>1
<1>15. LayOut(t, A, B, C)
  <2>1. \A k \in 1 .. A : x[k].pid = SDT /\ x[k].cc = (cc[SDT] + k) % 16 /\ x[k].payload
    BY <1>4, Zenon DEF InARow
  <2>2. \A k \in 1 .. B : y[k].pid = PAT /\ y[k].cc = (cc[PAT] + k) % 16 /\ y[k].payload
    BY <1>5, Zenon DEF InARow
  <2>3. \A k \in 1 .. C : z[k].pid = PMT /\ z[k].cc = (cc[PMT] + k) % 16 /\ z[k].payload
    BY <1>6, Zenon DEF InARow
  <2>. QED  BY <1>12, <1>13, <1>14, <2>1, <2>2, <2>3, Zenon DEF LayOut
<1>. QED  BY <1>4, <1>5, <1>6, <1>10, <1>15

-----------------------------------------------------------------------------
(* Where the packets of a turn lie.                                        *)
Lies(w, A, B, C, packet) ==
  /\ Len(w) = A + B + C + 1
  /\ \A k \in 1 .. A : w[k].pid = SDT /\ w[k].payload /\ w[k].cc = (cc[SDT] + (k - 0)) % 16
  /\ \A k \in A + 1 .. A + B :
       w[k].pid = PAT /\ w[k].payload /\ w[k].cc = (cc[PAT] + (k - A)) % 16
  /\ \A k \in (A + B) + 1 .. (A + B) + C :
       w[k].pid = PMT /\ w[k].payload /\ w[k].cc = (cc[PMT] + (k - (A + B))) % 16
  /\ w[A + B + C + 1] = packet

(* How many they are.                                                      *)
TableCounts(sdt, pat, A, B, C) ==
  /\ A = IF sdt THEN SectionPackets(TableLen.sdt) ELSE 0
  /\ B = IF pat THEN SectionPackets(TableLen.pat) ELSE 0
  /\ C = IF pat THEN SectionPackets(TableLen.pmt) ELSE 0

(* The packets of every turn lie so.                                       *)
LEMMA TurnLies ==
  ASSUME TypeOK, NEW sdt \in BOOLEAN, NEW pat \in BOOLEAN, NEW packet,
         NEW w, w = Append(TablePackets(sdt, pat), packet)
  PROVE  \E A \in Nat, B \in Nat, C \in Nat :
           /\ TableCounts(sdt, pat, A, B, C) /\ Lies(w, A, B, C, packet)
<1>1. cc \in [Pids -> 0 .. 15]
  BY DEF TypeOK
<1>3. PICK A \in Nat, B \in Nat, C \in Nat :
           /\ A = IF sdt THEN SectionPackets(TableLen.sdt) ELSE 0
           /\ B = IF pat THEN SectionPackets(TableLen.pat) ELSE 0
           /\ C = IF pat THEN SectionPackets(TableLen.pmt) ELSE 0
           /\ LayOut(TablePackets(sdt, pat), A, B, C)
  BY <1>1, TableLayout
<1>4. PICK table : table = TablePackets(sdt, pat)
  OBVIOUS
<1>5. table \in Seq(Packet) /\ LayOut(table, A, B, C)
  BY <1>1, <1>3, <1>4, TablePacketsType
<1>6. PICK n \in Nat : n = A + B + C
  OBVIOUS
<1>7. Len(table) = n
  BY <1>5, <1>6, Zenon DEF LayOut
<1>8. w = Append(table, packet)
  BY <1>4
<1>9. Len(w) = n + 1 /\ w[n + 1] = packet /\ \A k \in 1 .. n : w[k] = table[k]
  BY <1>5, <1>7, <1>8
<1>10. \A k \in 1 .. A : w[k].pid = SDT /\ w[k].payload /\ w[k].cc = (cc[SDT] + (k - 0)) % 16
  <2>1. ASSUME NEW k \in 1 .. A
        PROVE  w[k].pid = SDT /\ w[k].payload /\ w[k].cc = (cc[SDT] + (k - 0)) % 16
    <3>1. k \in 1 .. n /\ k - 0 = k
      BY <1>6
    <3>2. table[k].pid = SDT /\ table[k].cc = (cc[SDT] + k) % 16 /\ table[k].payload
      BY <1>5, Zenon DEF LayOut
    <3>. QED  BY <1>9, <3>1, <3>2, Zenon
  <2>. QED  BY <2>1
<1>11. \A k \in A + 1 .. A + B :
         w[k].pid = PAT /\ w[k].payload /\ w[k].cc = (cc[PAT] + (k - A)) % 16
  <2>1. ASSUME NEW k \in A + 1 .. A + B
        PROVE  w[k].pid = PAT /\ w[k].payload /\ w[k].cc = (cc[PAT] + (k - A)) % 16
    <3>1. PICK i \in 1 .. B : k = A + i /\ k - A = i /\ A + i \in 1 .. n
      <4>1. k - A \in 1 .. B /\ k = A + (k - A) /\ k \in 1 .. n
        BY <1>6
      <4>. QED  BY <4>1
    <3>2. table[A + i].pid = PAT /\ table[A + i].cc = (cc[PAT] + i) % 16 /\ table[A + i].payload
      BY <1>5, Zenon DEF LayOut
    <3>. QED  BY <1>9, <3>1, <3>2, Zenon
  <2>. QED  BY <2>1
<1>12. \A k \in (A + B) + 1 .. (A + B) + C :
         w[k].pid = PMT /\ w[k].payload /\ w[k].cc = (cc[PMT] + (k - (A + B))) % 16
  <2>1. ASSUME NEW k \in (A + B) + 1 .. (A + B) + C
        PROVE  w[k].pid = PMT /\ w[k].payload /\ w[k].cc = (cc[PMT] + (k - (A + B))) % 16
    <3>1. PICK i \in 1 .. C : k = A + B + i /\ k - (A + B) = i /\ A + B + i \in 1 .. n
      <4>1. k - (A + B) \in 1 .. C /\ k = A + B + (k - (A + B)) /\ k \in 1 .. n
        BY <1>6
      <4>. QED  BY <4>1
    <3>2. /\ table[A + B + i].pid = PMT /\ table[A + B + i].cc = (cc[PMT] + i) % 16
          /\ table[A + B + i].payload
      BY <1>5, Zenon DEF LayOut
    <3>. QED  BY <1>9, <3>1, <3>2, Zenon
  <2>. QED  BY <2>1
<1>13. Lies(w, A, B, C, packet)
  BY <1>6, <1>9, <1>10, <1>11, <1>12, Zenon DEF Lies
<1>14. TableCounts(sdt, pat, A, B, C)
  BY <1>3, Zenon DEF TableCounts
<1>. QED  BY <1>13, <1>14

(* The tables' packets are one block each.                                 *)
LEMMA TableBlocks ==
  ASSUME NEW w, NEW A \in Nat, NEW B \in Nat, NEW C \in Nat, NEW packet,
         Lies(w, A, B, C, packet), packet.pid \in Streams \cup {Null}
  PROVE  /\ Block(w, SDT, 0, A) /\ Block(w, PAT, A, B) /\ Block(w, PMT, A + B, C)
         /\ \A p : p \notin {SDT, PAT, PMT} =>
              \A k \in 1 .. Len(w) : w[k].pid = p => k = A + B + C + 1
<1>1. PICK n \in Nat : n = A + B + C
  OBVIOUS
<1>2. Len(w) = n + 1 /\ w[n + 1] = packet
  BY <1>1, Zenon DEF Lies
<1>3. packet.pid \notin {SDT, PAT, PMT}
  BY PidsApart DEF SDT, PAT, PMT, Null
<1>4. \A k \in 1 .. n + 1 : \/ k \in 1 .. A
                            \/ k \in A + 1 .. A + B
                            \/ k \in (A + B) + 1 .. (A + B) + C
                            \/ k = n + 1
  BY <1>1
<1>5. /\ \A k \in 1 .. A : w[k].pid = SDT /\ w[k].payload /\ w[k].cc = (cc[SDT] + (k - 0)) % 16
      /\ \A k \in A + 1 .. A + B :
           w[k].pid = PAT /\ w[k].payload /\ w[k].cc = (cc[PAT] + (k - A)) % 16
      /\ \A k \in (A + B) + 1 .. (A + B) + C :
           w[k].pid = PMT /\ w[k].payload /\ w[k].cc = (cc[PMT] + (k - (A + B))) % 16
  BY DEF Lies
<1>6. PAT # PMT /\ PAT # SDT /\ PMT # SDT
  BY PidsApart
<1>7. /\ \A k \in 1 .. n + 1 : w[k].pid = SDT => k \in 1 .. A
      /\ \A k \in 1 .. n + 1 : w[k].pid = PAT => k \in A + 1 .. A + B
      /\ \A k \in 1 .. n + 1 : w[k].pid = PMT => k \in (A + B) + 1 .. (A + B) + C
      /\ \A k \in 1 .. n + 1 : \A p : p \notin {SDT, PAT, PMT} => (w[k].pid = p => k = n + 1)
  BY <1>2, <1>3, <1>4, <1>5, <1>6, Zenon
<1>8. Block(w, SDT, 0, A)
  <2>1. 0 + A <= n + 1 /\ 0 + 1 .. 0 + A = 1 .. A
    BY <1>1
  <2>2. \A k \in 1 .. n + 1 : w[k].pid = SDT <=> k \in 1 .. A
    BY <1>5, <1>7, Zenon
  <2>. QED  BY <1>2, <1>5, <2>1, <2>2, Zenon DEF Block
<1>9. Block(w, PAT, A, B)
  <2>1. A + B <= n + 1
    BY <1>1
  <2>2. \A k \in 1 .. n + 1 : w[k].pid = PAT <=> k \in A + 1 .. A + B
    BY <1>5, <1>7, Zenon
  <2>. QED  BY <1>2, <1>5, <2>1, <2>2, Zenon DEF Block
<1>10. Block(w, PMT, A + B, C)
  <2>1. (A + B) + C <= n + 1
    BY <1>1
  <2>2. \A k \in 1 .. n + 1 : w[k].pid = PMT <=> k \in (A + B) + 1 .. (A + B) + C
    BY <1>5, <1>7, Zenon
  <2>. QED  BY <1>2, <1>5, <2>1, <2>2, Zenon DEF Block
<1>11. \A p : p \notin {SDT, PAT, PMT} => \A k \in 1 .. Len(w) : w[k].pid = p => k = n + 1
  BY <1>2, <1>7, Zenon
<1>. QED  BY <1>1, <1>8, <1>9, <1>10, <1>11, Zenon

-----------------------------------------------------------------------------
(* A receiver that has seen the counters finds the packets w continuous,   *)
(* and then has seen what the counters are.                                *)
GoesOn(w) ==
  /\ ContinuousPackets(w)
  /\ \A p \in Pids : LastSeen(w, Len(w) + 1, p) = cc'[p]

(* The own packet of a turn: it counts, or has no payload.                 *)
OwnCounts(packet, own) ==
  \/ /\ packet.pid = own /\ own \in Streams
     /\ packet.payload /\ packet.cc = (cc[own] + 1) % 16
  \/ /\ own = Null /\ packet.pid \in Streams \cup {Null}
     /\ packet.pid \in Streams => packet.payload = FALSE /\ packet.cc = cc[packet.pid]

(* A pid whose packets are a block that its counter went on by goes on.    *)
LEMMA BlockCovers ==
  ASSUME NEW w, Len(w) \in Nat, NEW p \in Pids, NEW a \in Nat, NEW L \in Nat,
         Block(w, p, a, L), cc \in [Pids -> 0 .. 15], seen = cc,
         cc'[p] = (cc[p] + L) % 16
  PROVE  /\ \A k \in 1 .. Len(w) : w[k].pid = p =>
              w[k].payload /\ w[k].cc = (LastSeen(w, k, p) + 1) % 16
         /\ LastSeen(w, Len(w) + 1, p) = cc'[p]
  BY BlockGoesOn

(* A pid that the own packet alone can have: none, a block of one, or one  *)
(* that does not count.                                                    *)
LEMMA StreamBlock ==
  ASSUME NEW w, NEW n \in Nat, Len(w) = n + 1, NEW p \in Pids,
         \A k \in 1 .. Len(w) : w[k].pid = p => k = n + 1,
         cc \in [Pids -> 0 .. 15], seen = cc
  PROVE  /\ w[n + 1].pid # p => Block(w, p, 0, 0)
         /\ w[n + 1].pid = p /\ w[n + 1].payload /\ w[n + 1].cc = (cc[p] + 1) % 16
              => Block(w, p, n, 1)
         /\ w[n + 1].pid = p /\ w[n + 1].cc = cc[p]
              => /\ \A k \in 1 .. Len(w) : w[k].pid = p => w[k].cc = LastSeen(w, k, p)
                 /\ LastSeen(w, Len(w) + 1, p) = cc[p]
<1>1. ASSUME w[n + 1].pid # p
      PROVE  Block(w, p, 0, 0)
  <2>1. \A k \in 1 .. Len(w) : w[k].pid # p
    BY <1>1
  <2>. QED  BY <2>1, NoBlock
<1>2. ASSUME w[n + 1].pid = p, w[n + 1].payload, w[n + 1].cc = (cc[p] + 1) % 16
      PROVE  Block(w, p, n, 1)
  <2>1. n + 1 .. n + 1 = {n + 1} /\ (n + 1) - n = 1 /\ n + 1 \in 1 .. Len(w)
    OBVIOUS
  <2>2. \A k \in 1 .. Len(w) : w[k].pid = p <=> k \in n + 1 .. n + 1
    BY <1>2, <2>1, Zenon
  <2>3. \A k \in n + 1 .. n + 1 : w[k].payload /\ w[k].cc = (cc[p] + (k - n)) % 16
    BY <1>2, <2>1, Zenon
  <2>4. n + 1 <= Len(w)
    OBVIOUS
  <2>. QED  BY <2>2, <2>3, <2>4, Zenon DEF Block
<1>3. ASSUME w[n + 1].pid = p, w[n + 1].cc = cc[p]
      PROVE  /\ \A k \in 1 .. Len(w) : w[k].pid = p => w[k].cc = LastSeen(w, k, p)
             /\ LastSeen(w, Len(w) + 1, p) = cc[p]
  <2>1. LastSeen(w, n + 1, p) = cc[p]
    <3>1. {m \in 1 .. (n + 1) - 1 : w[m].pid = p} = {}
      OBVIOUS
    <3>. QED  BY <3>1 DEF LastSeen
  <2>2. LastSeen(w, Len(w) + 1, p) = cc[p]
    <3>1. {m \in 1 .. (Len(w) + 1) - 1 : w[m].pid = p} = {n + 1}
      BY <1>3
    <3>2. (CHOOSE m \in {n + 1} : \A i \in {n + 1} : i <= m) = n + 1
      OBVIOUS
    <3>3. {n + 1} # {}
      OBVIOUS
    <3>. QED  BY <1>3, <3>1, <3>2, <3>3 DEF LastSeen
  <2>. QED  BY <1>3, <2>1, <2>2
<1>. QED  BY <1>1, <1>2, <1>3

(* The packets of a turn go on, with every pid,                            *)
LEMMA TurnGoesOn ==
  ASSUME TypeOK, seen = cc, NEW sdt \in BOOLEAN, NEW pat \in BOOLEAN,
         NEW own, NEW packet, OwnCounts(packet, own),
         cc' = CountersAfter(sdt, pat, own)
  PROVE  GoesOn(Append(TablePackets(sdt, pat), packet))
<1>0. cc \in [Pids -> 0 .. 15]
  BY DEF TypeOK
<1>1. PICK w : w = Append(TablePackets(sdt, pat), packet)
  OBVIOUS
<1>2. PICK A \in Nat, B \in Nat, C \in Nat :
        TableCounts(sdt, pat, A, B, C) /\ Lies(w, A, B, C, packet)
  BY <1>1, TurnLies
<1>3. packet.pid \in Streams \cup {Null} /\ own \in Streams \cup {Null}
  BY DEF OwnCounts
<1>4. /\ Block(w, SDT, 0, A) /\ Block(w, PAT, A, B) /\ Block(w, PMT, A + B, C)
      /\ \A p : p \notin {SDT, PAT, PMT} =>
           \A k \in 1 .. Len(w) : w[k].pid = p => k = A + B + C + 1
  <2>1. Lies(w, A, B, C, packet)
    BY <1>2, Zenon
  <2>. QED  BY <1>3, <2>1, TableBlocks
<1>5. PICK n \in Nat : n = A + B + C
  OBVIOUS
<1>6. Len(w) = n + 1 /\ w[n + 1] = packet /\ Len(w) \in Nat
  <2>1. Len(w) = n + 1 /\ w[n + 1] = packet
    BY <1>2, <1>5, Zenon DEF Lies
  <2>. QED  BY <2>1
<1>7. /\ cc'[SDT] = (cc[SDT] + A) % 16 /\ cc'[PAT] = (cc[PAT] + B) % 16
      /\ cc'[PMT] = (cc[PMT] + C) % 16
      /\ \A p \in Pids \ {SDT, PAT, PMT} : cc'[p] = (cc[p] + (IF p = own THEN 1 ELSE 0)) % 16
  <2>1. own \notin {SDT, PAT, PMT}
    BY <1>3, PidsApart DEF Null, SDT, PAT, PMT
  <2>2. /\ PAT # PMT /\ PAT # SDT /\ PMT # SDT /\ {PAT, PMT, SDT} \subseteq Pids
    BY PidsApart
  <2>. QED  BY <1>2, <2>1, <2>2 DEF CountersAfter, TableCounts
<1>8. ASSUME NEW p \in {SDT, PAT, PMT}
      PROVE  /\ \A k \in 1 .. Len(w) : w[k].pid = p =>
                  w[k].payload /\ w[k].cc = (LastSeen(w, k, p) + 1) % 16
             /\ LastSeen(w, Len(w) + 1, p) = cc'[p]
  <2>1. SDT \in Pids /\ PAT \in Pids /\ PMT \in Pids
    BY DEF Pids
  <2>2. PICK a \in Nat, L \in Nat : Block(w, p, a, L) /\ cc'[p] = (cc[p] + L) % 16
    <3>1. A + B \in Nat /\ 0 \in Nat
      OBVIOUS
    <3>2. p = SDT \/ p = PAT \/ p = PMT
      OBVIOUS
    <3>. QED  BY <1>4, <1>7, <3>1, <3>2, Zenon
  <2>3. p \in Pids
    BY <2>1
  <2>. QED  BY <1>0, <1>6, <2>2, <2>3, BlockCovers
<1>9. ASSUME NEW p \in Pids \ {SDT, PAT, PMT}
      PROVE  /\ \A k \in 1 .. Len(w) : w[k].pid = p =>
                  w[k].cc = IF w[k].payload THEN (LastSeen(w, k, p) + 1) % 16
                            ELSE LastSeen(w, k, p)
             /\ LastSeen(w, Len(w) + 1, p) = cc'[p]
  <2>1. \A k \in 1 .. Len(w) : w[k].pid = p => k = n + 1
    BY <1>4, <1>5, <1>9, Zenon
  <2>2. cc'[p] = (cc[p] + (IF p = own THEN 1 ELSE 0)) % 16
    BY <1>7
  <2>3. cc[p] \in 0 .. 15
    BY <1>0
  <2>4. CASE packet.pid # p
    <3>1. Block(w, p, 0, 0)
      BY <1>0, <1>6, <2>1, <2>4, StreamBlock
    <3>2. p # own
      BY <2>4, PidsApart DEF OwnCounts
    <3>3. cc'[p] = (cc[p] + 0) % 16
      BY <2>2, <3>2
    <3>4. LastSeen(w, Len(w) + 1, p) = cc'[p]
      BY <1>0, <1>6, <3>1, <3>3, BlockCovers
    <3>5. \A k \in 1 .. Len(w) : w[k].pid # p
      BY <1>6, <2>1, <2>4
    <3>. QED  BY <3>4, <3>5
  <2>5. CASE packet.pid = p /\ own = p /\ packet.payload /\ packet.cc = (cc[p] + 1) % 16
    <3>1. Block(w, p, n, 1)
      BY <1>0, <1>6, <2>1, <2>5, StreamBlock
    <3>2. cc'[p] = (cc[p] + 1) % 16
      BY <2>2, <2>5
    <3>. QED  BY <1>0, <1>6, <3>1, <3>2, BlockCovers
  <2>6. CASE packet.pid = p /\ own = Null /\ packet.payload = FALSE /\ packet.cc = cc[p]
    <3>1. /\ \A k \in 1 .. Len(w) : w[k].pid = p => w[k].cc = LastSeen(w, k, p)
          /\ LastSeen(w, Len(w) + 1, p) = cc[p]
      BY <1>0, <1>6, <2>1, <2>6, StreamBlock
    <3>2. p # own
      BY <2>6, PidsApart
    <3>3. cc'[p] = cc[p]
      BY <2>2, <2>3, <3>2
    <3>4. \A k \in 1 .. Len(w) : w[k].pid = p => w[k].payload = FALSE
      BY <1>6, <2>1, <2>6
    <3>. QED  BY <3>1, <3>3, <3>4
  <2>7. packet.pid = p /\ own = Null => packet.payload = FALSE /\ packet.cc = cc[p]
    <3>1. Null \notin Pids /\ Null \notin Streams
      BY PidsApart
    <3>. QED  BY <3>1 DEF OwnCounts
  <2>8. packet.pid = p /\ own # Null
          => own = p /\ packet.payload /\ packet.cc = (cc[p] + 1) % 16
    BY DEF OwnCounts
  <2>. QED  BY <2>4, <2>5, <2>6, <2>7, <2>8
<1>10. ContinuousPackets(w)
  <2>1. ASSUME NEW k \in 1 .. Len(w), w[k].pid \in Pids
        PROVE  w[k].cc = IF w[k].payload THEN (LastSeen(w, k, w[k].pid) + 1) % 16
                         ELSE LastSeen(w, k, w[k].pid)
    <3>1. CASE w[k].pid \in {SDT, PAT, PMT}
      <4>1. w[k].payload /\ w[k].cc = (LastSeen(w, k, w[k].pid) + 1) % 16
        BY <1>8, <3>1, Zenon
      <4>. QED  BY <4>1, Zenon
    <3>2. CASE ~(w[k].pid \in {SDT, PAT, PMT})
      BY <1>9, <2>1, <3>2, Zenon
    <3>. QED  BY <3>1, <3>2
  <2>. QED  BY <2>1, Zenon DEF ContinuousPackets
<1>11. \A p \in Pids : LastSeen(w, Len(w) + 1, p) = cc'[p]
  BY <1>8, <1>9
<1>. QED  BY <1>1, <1>10, <1>11 DEF GoesOn

(* what goes on and is written has been seen,                              *)
LEMMA WrittenGoesOn ==
  ASSUME NEW w, WritePackets(w), GoesOn(w), cc' \in [Pids -> 0 .. 15]
  PROVE  ContinuousPackets(wrote') /\ seen' = cc'
<1>1. wrote' = w /\ seen' = [p \in Pids |-> LastSeen(w, Len(w) + 1, p)]
  BY DEF WritePackets
<1>. QED  BY <1>1 DEF GoesOn

-----------------------------------------------------------------------------

(* and so a turn keeps what was seen at what the counters are.             *)
LEMMA TurnedGoesOn ==
  ASSUME TypeOK, TypeOK', seen = cc, NEW j, NEW t, t = Turn(j), NEW own, NEW packet,
         OwnCounts(packet, own), Turned(j, t, own, packet)
  PROVE  ContinuousPackets(wrote') /\ seen' = cc'
<1>1. PICK sdt \in BOOLEAN, pat \in BOOLEAN : sdt = t.sdt /\ pat = t.pat
  BY TurnBool
<1>2. cc' = CountersAfter(sdt, pat, own)
  BY <1>1 DEF Turned
<1>3. PICK w : w = Append(TablePackets(sdt, pat), packet)
  OBVIOUS
<1>4. WritePackets(w)
  BY <1>1, <1>3, TurnedPackets
<1>5. GoesOn(w)
  BY <1>2, <1>3, TurnGoesOn
<1>6. cc' \in [Pids -> 0 .. 15]
  BY DEF TypeOK
<1>. QED  BY <1>4, <1>5, <1>6, WrittenGoesOn

(* A section's packets are a block, and no other pid has any.              *)
LEMMA SectionGoesOn ==
  ASSUME TypeOK, seen = cc, NEW p \in Pids, NEW len \in Nat,
         cc' = [cc EXCEPT ![p] = (@ + SectionPackets(len)) % 16]
  PROVE  GoesOn(SectionOf(p, len))
<1>0. cc \in [Pids -> 0 .. 15]
  BY DEF TypeOK
<1>1. PICK L \in Nat : L = SectionPackets(len)
  BY SectionPacketsType
<1>b. PICK w : w = SectionOf(p, len)
  OBVIOUS
<1>2. InARow(w, L, p)
  BY <1>0, <1>1, <1>b, SectionInARow
<1>3. /\ Len(w) = L
      /\ \A k \in 1 .. L : w[k].pid = p /\ w[k].cc = (cc[p] + k) % 16 /\ w[k].payload
  BY <1>2, Zenon DEF InARow
<1>4. Block(w, p, 0, L)
  <2>1. 0 + L <= L /\ 0 + 1 .. 0 + L = 1 .. L /\ \A k \in 1 .. L : k - 0 = k
    OBVIOUS
  <2>2. \A k \in 1 .. L : w[k].pid = p <=> k \in 1 .. L
    BY <1>3, Zenon
  <2>3. \A k \in 1 .. L : w[k].payload /\ w[k].cc = (cc[p] + (k - 0)) % 16
    BY <1>3, <2>1, Zenon
  <2>. QED  BY <1>3, <2>1, <2>2, <2>3, Zenon DEF Block
<1>5. cc'[p] = (cc[p] + L) % 16
  BY <1>0, <1>1
<1>6. /\ \A k \in 1 .. Len(w) : w[k].pid = p =>
            w[k].payload /\ w[k].cc = (LastSeen(w, k, p) + 1) % 16
      /\ LastSeen(w, Len(w) + 1, p) = cc'[p]
  BY <1>0, <1>3, <1>4, <1>5, BlockCovers
<1>7. ContinuousPackets(w)
  <2>1. \A k \in 1 .. Len(w) : /\ w[k].pid = p /\ w[k].payload
                               /\ w[k].cc = (LastSeen(w, k, p) + 1) % 16
    BY <1>3, <1>6, Zenon
  <2>. QED  BY <2>1, Zenon DEF ContinuousPackets
<1>8. ASSUME NEW r \in Pids
      PROVE  LastSeen(w, Len(w) + 1, r) = cc'[r]
  <2>1. CASE r = p
    BY <1>6, <2>1
  <2>2. CASE r # p
    <3>1. Block(w, r, 0, 0)
      <4>1. \A k \in 1 .. Len(w) : w[k].pid # r
        BY <1>3, <2>2, Zenon
      <4>2. Len(w) \in Nat
        BY <1>3
      <4>. QED  BY <4>1, <4>2, NoBlock
    <3>2. cc'[r] = cc[r] /\ cc[r] \in 0 .. 15
      BY <1>0, <2>2
    <3>3. cc'[r] = (cc[r] + 0) % 16
      BY <3>2
    <3>. QED  BY <1>0, <1>3, <3>1, <3>3, BlockCovers
  <2>. QED  BY <2>1, <2>2
<1>. QED  BY <1>b, <1>7, <1>8 DEF GoesOn

(* Every step does.                                                        *)
LEMMA NextGoesOn ==
  ASSUME TypeOK, seen = cc, [Next]_vars
  PROVE  seen' = cc' /\ (sent' # sent => ContinuousPackets(wrote'))
<1>0. TypeOK'
  BY NextType
<1>1. ASSUME NEW s \in Streams, NEW kind \in Kinds[s], NEW gap \in Gaps[s],
             GiveUnit(s, kind, gap)
      PROVE  seen' = seen /\ cc' = cc /\ sent' = sent
  BY <1>1 DEF GiveUnit, receiver
<1>2. ASSUME NEW p \in Sections, NEW len \in SectionLens, GiveSection(p, len)
      PROVE  seen' = cc' /\ ContinuousPackets(wrote')
  <2>1. p \in Pids /\ len \in Nat
    BY SectionsAssumption DEF SectionLen, Pids
  <2>2. /\ WritePackets(SectionOf(p, len))
        /\ cc' = [cc EXCEPT ![p] = (@ + SectionPackets(len)) % 16]
    BY <1>2 DEF GiveSection
  <2>3. GoesOn(SectionOf(p, len))
    BY <2>1, <2>2, SectionGoesOn
  <2>4. cc' \in [Pids -> 0 .. 15]
    BY <1>0 DEF TypeOK
  <2>. QED  BY <2>2, <2>3, <2>4, WrittenGoesOn
<1>3. Flush => seen' = seen /\ cc' = cc /\ sent' = sent
  BY DEF Flush, receiver
<1>4. ASSUME Pad
      PROVE  seen' = cc' /\ ContinuousPackets(wrote')
  <2>1. PICK j \in Pes, packet \in Packet : \E t :
           /\ t = Turn(j)
           /\ packet = IF t.write_pcr THEN PcrOnly(j, get_pcr(t.n, t.first)) ELSE NullPacket
           /\ Turned(j, t, Null, packet)
    BY <1>4, PadIs
  <2>2. PICK t :
           /\ t = Turn(j)
           /\ packet = IF t.write_pcr THEN PcrOnly(j, get_pcr(t.n, t.first)) ELSE NullPacket
           /\ Turned(j, t, Null, packet)
    BY <2>1
  <2>3. /\ packet.pid \in Streams \cup {Null}
        /\ packet.pid \in Streams => packet.payload = FALSE /\ packet.cc = cc[packet.pid]
    BY <2>2, PadPacket
  <2>4. OwnCounts(packet, Null)
    BY <2>3, Zenon DEF OwnCounts
  <2>. QED  BY <1>0, <2>2, <2>4, TurnedGoesOn
<1>5. ASSUME Emit
      PROVE  seen' = cc' /\ ContinuousPackets(wrote')
  <2>1. PICK j \in Pes : \E t : t = Turn(j) /\ Turned(j, t, j.s, OwnPacket(j, t))
    BY <1>5, EmitIs
  <2>2. PICK t : t = Turn(j) /\ Turned(j, t, j.s, OwnPacket(j, t))
    BY <2>1
  <2>3. PICK packet : packet = OwnPacket(j, t)
    OBVIOUS
  <2>4. packet.pid = j.s /\ packet.payload /\ packet.cc = (cc[j.s] + 1) % 16
    BY <2>3 DEF OwnPacket
  <2>5. OwnCounts(packet, j.s)
    BY <2>4, PesFields, Zenon DEF OwnCounts
  <2>6. Turned(j, t, j.s, packet)
    BY <2>2, <2>3, Zenon
  <2>. QED  BY <1>0, <2>2, <2>5, <2>6, TurnedGoesOn
<1>6. UNCHANGED vars => seen' = seen /\ cc' = cc /\ sent' = sent
  BY DEF vars, receiver
<1>. QED  BY <1>1, <1>2, <1>3, <1>4, <1>5, <1>6 DEF Next

(* With each pid continuity counters go on by one for a packet with payload*)
(* and stay for one without, over tables, sections, PES and lone clock     *)
(* references in any order: what a receiver saw last is always what the    *)
(* muxer has in cc.                                                        *)
THEOREM ContinuousHolds == Spec => Continuous
<1>1. Init => TypeOK /\ seen = cc
  BY InitType DEF Init
<1>2. TypeOK /\ seen = cc /\ [Next]_vars => TypeOK' /\ (seen = cc)'
  BY NextType, NextGoesOn
<1>3. TypeOK /\ seen = cc /\ [Next]_vars
        => [sent' # sent => ContinuousPackets(wrote')]_vars
  BY NextGoesOn
<1>. QED  BY <1>1, <1>2, <1>3, PTL DEF Spec, Continuous

-----------------------------------------------------------------------------
(* Sums over the units of a PES.                                           *)
LEMMA TotalNone ==
  ASSUME NEW f
  PROVE  Total(f, 0) = 0
<1>1. \A k \in 1 .. 0 : f[k] \in Nat
  OBVIOUS
<1>2. PICK sum \in [0 .. 0 -> Nat] : IsTotal(sum, f, 0) /\ Total(f, 0) = sum[0]
  BY <1>1, TotalIs
<1>3. sum[0] = 0
  <2>1. 0 \in 0 .. 0
    OBVIOUS
  <2>. QED  BY <1>2, <2>1 DEF IsTotal
<1>. QED  BY <1>2, <1>3

(* No units have no bytes and no samples,                                  *)
LEMMA SumsNone == Bytes(<< >>) = 0 /\ Samples(<< >>) = 0
<1>1. Len(<< >>) = 0
  OBVIOUS
<1>. QED  BY <1>1, TotalNone DEF Bytes, Samples

(* and one more has its own besides.                                       *)
LEMMA SumsAppend ==
  ASSUME NEW units \in Seq(Unit), NEW u \in Unit
  PROVE  /\ Bytes(units) \in Nat /\ Samples(units) \in Nat
         /\ Bytes(Append(units, u)) = Bytes(units) + u.size
         /\ Samples(Append(units, u)) = Samples(units) + u.samples
<1>1. PICK n \in Nat : n = Len(units)
  OBVIOUS
<1>0. Append(units, u) \in Seq(Unit)
  OBVIOUS
<1>2. PICK more \in Seq(Unit) : more = Append(units, u)
  BY <1>0, Zenon
<1>3. Len(more) = n + 1 /\ more[n + 1] = u /\ \A k \in 1 .. n : more[k] = units[k]
  BY <1>1, <1>2
<1>4. \A k \in 1 .. n : units[k] \in Unit
  BY <1>1
<1>5. \A k \in 1 .. n + 1 : more[k] \in Unit
  BY <1>2, <1>3
<1>6. /\ Bytes(units) \in Nat
      /\ Bytes(more) = Bytes(units) + u.size
  <2>. DEFINE f == [k \in 1 .. n |-> units[k].size]
              g == [k \in 1 .. n + 1 |-> more[k].size]
  <2>1. \A k \in 1 .. n : f[k] \in Nat
    BY <1>4 DEF Unit
  <2>2. \A k \in 1 .. n + 1 : g[k] \in Nat
    BY <1>5 DEF Unit
  <2>3. \A k \in 1 .. n : f[k] = g[k]
    BY <1>3
  <2>4. g[n + 1] = u.size
    BY <1>3
  <2>5. Bytes(units) = Total(f, n) /\ Bytes(more) = Total(g, n + 1)
    BY <1>1, <1>3 DEF Bytes
  <2>. HIDE DEF f, g
  <2>6. Total(f, n) \in Nat /\ Total(g, n + 1) = Total(f, n) + g[n + 1]
    BY <2>1, <2>2, <2>3, TotalStep
  <2>. QED  BY <2>4, <2>5, <2>6
<1>7. /\ Samples(units) \in Nat
      /\ Samples(more) = Samples(units) + u.samples
  <2>. DEFINE f == [k \in 1 .. n |-> units[k].samples]
              g == [k \in 1 .. n + 1 |-> more[k].samples]
  <2>1. \A k \in 1 .. n : f[k] \in Nat
    BY <1>4 DEF Unit
  <2>2. \A k \in 1 .. n + 1 : g[k] \in Nat
    BY <1>5 DEF Unit
  <2>3. \A k \in 1 .. n : f[k] = g[k]
    BY <1>3
  <2>4. g[n + 1] = u.samples
    BY <1>3
  <2>5. Samples(units) = Total(f, n) /\ Samples(more) = Total(g, n + 1)
    BY <1>1, <1>3 DEF Samples
  <2>. HIDE DEF f, g
  <2>6. Total(f, n) \in Nat /\ Total(g, n + 1) = Total(f, n) + g[n + 1]
    BY <2>1, <2>2, <2>3, TotalStep
  <2>. QED  BY <2>4, <2>5, <2>6
<1>. QED  BY <1>2, <1>6, <1>7

(* A unit alone makes a PES that fits, and one that joins others another   *)
(* if it keeps to the limits.                                              *)
LEMMA FitsAlone ==
  ASSUME NEW u \in Unit
  PROVE  /\ Fits(Append(<< >>, u), u.size, u.pts, u.dts)
         /\ Fits(<<u>>, u.size, u.pts, u.dts)
<1>1. << >> \in Seq(Unit) /\ Append(<< >>, u) = <<u>> /\ Len(<<u>>) = 1 /\ <<u>>[1] = u
  OBVIOUS
<1>2. Bytes(Append(<< >>, u)) = 0 + u.size
  BY <1>1, SumsNone, SumsAppend
<1>3. Bytes(<<u>>) = u.size
  BY <1>1, <1>2 DEF Unit
<1>. QED  BY <1>1, <1>3 DEF Fits

(* A unit that is not too much joins a PES that fits.                      *)
LEMMA FitsMore ==
  ASSUME NEW h \in Payload, NEW u \in Unit, h.units # << >>,
         Fits(h.units, h.size, h.pts, h.dts),
         h.size + u.size <= pes_payload_size,
         u.dts - h.dts < max_delay,
         Samples(h.units) + u.samples < MaxQueued,
         h.dts <= u.dts
  PROVE  Fits(Append(h.units, u), h.size + u.size, h.pts, h.dts)
<1>1. PICK units \in Seq(Unit) : units = h.units
  BY DEF Payload
<1>2. PICK n \in Nat : n = Len(units)
  OBVIOUS
<1>3. n # 0
  BY <1>1, <1>2
<1>4. PICK more : more = Append(units, u)
  OBVIOUS
<1>5. Len(more) = n + 1 /\ more[n + 1] = u /\ \A k \in 1 .. n : more[k] = units[k]
  BY <1>2, <1>4
<1>6. more[1] = units[1]
  BY <1>3, <1>5
<1>7. Bytes(more) = h.size + u.size /\ Samples(more) < MaxQueued
  BY <1>1, <1>4, SumsAppend DEF Fits
<1>8. \A k \in 1 .. n + 1 : more[k].dts - h.dts < max_delay
  <2>1. h.dts \in Int /\ u.dts \in Int /\ max_delay \in Int
    BY TimesAssumption DEF Payload, Unit
  <2>2. ASSUME NEW k \in 1 .. n
        PROVE  units[k].dts - h.dts < max_delay
    <3>1. CASE n > 1
      BY <1>1, <1>2, <3>1 DEF Fits
    <3>2. CASE n = 1
      <4>1. units[k].dts = h.dts
        BY <1>1, <3>2 DEF Fits
      <4>. QED  BY <2>1, <4>1
    <3>. QED  BY <1>3, <3>1, <3>2
  <2>3. \A k \in 1 .. n + 1 : k = n + 1 \/ k \in 1 .. n
    OBVIOUS
  <2>. QED  BY <1>5, <2>2, <2>3
<1>. QED  BY <1>1, <1>4, <1>5, <1>6, <1>7, <1>8 DEF Fits

-----------------------------------------------------------------------------
(* What is gathered fits, and its samples are counted, at least.           *)
Gathers(h, count) ==
  /\ h.size = 0 <=> h.units = << >>
  /\ h.units # << >> => Fits(h.units, h.size, h.pts, h.dts)
  /\ Samples(h.units) <= count

(* All that is gathered or was, and is not begun yet, fits.                *)
FitsInv ==
  /\ AudioOnly
  /\ \A s \in Streams : /\ Gathers(held[s], queued[s])
                        /\ held[s].size > 0 => held[s].dts <= last_dts + Shift
  /\ \A n \in 1 .. Len(jobs) :
       jobs[n].fresh => Fits(jobs[n].units, jobs[n].left, jobs[n].pts, jobs[n].dts)

(* Nothing fits.                                                           *)
LEMMA EmptyGathers ==
  ASSUME NEW h, h.units = << >>, h.size = 0, NEW count \in Nat
  PROVE  Gathers(h, count)
  BY SumsNone DEF Gathers

(* queued behind a unit: started over with a PES of the stream's own only. *)
LEMMA WriteUnitQueued ==
  ASSUME NEW s \in Streams, NEW u \in Unit, TypeOK, WriteUnit(s, u)
  PROVE  \E anew \in BOOLEAN :
           /\ anew => held[s].size > 0 /\ Full(s, u)
           /\ queued' = [queued EXCEPT ![s] = IF Direct(s, u) THEN 0
                                              ELSE (IF anew THEN 0 ELSE queued[s]) + u.samples]
<1>. DEFINE kept == [i \in Streams |-> IF Stale(i, u.dts) THEN Emptied(held[i]) ELSE held[i]]
            full == kept[s].size > 0 /\ Full(s, u)
<1>1. full => held[s].size > 0 /\ Full(s, u)
  BY GatheredFields
<1>2. queued' = [queued EXCEPT ![s] = IF Direct(s, u) THEN 0
                                      ELSE (IF full THEN 0 ELSE @) + u.samples]
  BY DEF WriteUnit, Direct
<1>3. full \in BOOLEAN
  OBVIOUS
<1>4. DOMAIN queued = Streams
  BY DEF TypeOK
<1>. HIDE DEF full
<1>. QED  BY <1>1, <1>2, <1>3, <1>4

(* What is left of a payload gathers, and so does the unit that joins it.  *)
LEMMA LeftGathers ==
  ASSUME TypeOK, FitsInv, NEW q, NEW i \in Streams
  PROVE  /\ Left(q, i) \in Payload
         /\ Gathers(Left(q, i), queued[i])
         /\ Written(q, i) => Gathers(Left(q, i), 0) /\ Left(q, i).size = 0
         /\ Left(q, i).size > 0 => Left(q, i) = held[i] /\ ~Written(q, i)
<1>1. held[i] \in Payload /\ queued[i] \in Nat
  BY DEF TypeOK
<1>2. CASE Written(q, i)
  <2>1. Left(q, i) = Emptied(held[i])
    BY <1>2 DEF Left
  <2>2. Left(q, i).units = << >> /\ Left(q, i).size = 0
    BY <2>1, GatheredFields
  <2>3. Left(q, i) \in Payload
    BY <1>1, <2>1, EmptiedType
  <2>. QED  BY <1>1, <2>2, <2>3, EmptyGathers
<1>3. CASE ~Written(q, i)
  <2>1. Left(q, i) = held[i]
    BY <1>3 DEF Left
  <2>. QED  BY <1>1, <1>3, <2>1 DEF FitsInv
<1>. QED  BY <1>2, <1>3

(* A unit that the stream is not full for joins what is left.              *)
LEMMA JoinGathers ==
  ASSUME TypeOK, FitsInv, NEW s \in Streams, NEW u \in Unit, NEW q, NEW count \in Nat,
         ~Direct(s, u),
         held[s].size > 0 /\ Full(s, u) => Written(q, s),
         last_dts + Shift <= u.dts,
         Gathers(Left(q, s), count),
         count = queued[s] \/ Written(q, s)
  PROVE  Gathers(Gathered(Left(q, s), u), count + u.samples)
<1>. DEFINE h == Left(q, s)
            g == Gathered(h, u)
<1>1. h \in Payload /\ (h.size > 0 => h = held[s] /\ ~Written(q, s))
  BY LeftGathers
<1>2. g.units = Append(h.units, u) /\ g.size = h.size + u.size
  BY GatheredFields
<1>3. h.size \in Nat /\ h.units \in Seq(Unit) /\ u.size \in Nat \ {0} /\ u.samples \in Nat
  BY <1>1 DEF Payload, Unit
<1>4. Samples(g.units) <= count + u.samples
  <2>1. Samples(g.units) = Samples(h.units) + u.samples /\ Samples(h.units) \in Nat
    BY <1>2, <1>3, SumsAppend
  <2>2. Samples(h.units) <= count
    BY DEF Gathers
  <2>. QED  BY <1>3, <2>1, <2>2
<1>5. g.size # 0 /\ g.units # << >>
  <2>1. PICK a \in Nat, b \in Nat \ {0} : a = h.size /\ b = u.size
    BY <1>3
  <2>2. g.size # 0
    BY <1>2, <2>1
  <2>3. PICK units \in Seq(Unit) : units = h.units
    BY <1>3
  <2>4. Append(units, u) # << >>
    OBVIOUS
  <2>. QED  BY <1>2, <2>2, <2>3, <2>4
<1>6. Fits(g.units, g.size, g.pts, g.dts)
  <2>1. CASE h.size = 0
    <3>1. h.units = << >>
      BY <2>1 DEF Gathers
    <3>2. g.size = u.size /\ g.pts = u.pts /\ g.dts = u.dts
      BY <1>2, <1>3, <2>1, GatheredFields
    <3>3. g.units = Append(<< >>, u)
      BY <1>2, <3>1
    <3>. QED  BY <3>2, <3>3, FitsAlone
  <2>2. CASE h.size # 0
    <3>1. h = held[s] /\ ~Written(q, s) /\ held[s].size > 0
      BY <1>1, <1>3, <2>2
    <3>2. ~Full(s, u)
      BY <3>1
    <3>3. /\ ~(h.size + u.size > pes_payload_size)
          /\ ~(u.dts - h.dts >= max_delay)
          /\ ~(queued[s] + u.samples >= MaxQueued)
      BY <3>1, <3>2, Zenon DEF Full
    <3>4. /\ h.dts \in Int /\ u.dts \in Int /\ max_delay \in Int /\ pes_payload_size \in Int
          /\ queued[s] \in Nat /\ MaxQueued \in Int /\ last_dts \in Int /\ Shift \in Int
      BY <1>1, TimesAssumption, PeriodsAssumption, ShiftType DEF Payload, Unit, TypeOK
    <3>5. h.units # << >> /\ Fits(h.units, h.size, h.pts, h.dts)
      BY <2>2 DEF Gathers
    <3>6. h.dts <= u.dts
      <4>1. h.dts <= last_dts + Shift
        BY <3>1 DEF FitsInv
      <4>. QED  BY <3>4, <4>1
    <3>7. Samples(h.units) + u.samples < MaxQueued
      <4>1. Samples(h.units) <= queued[s] /\ Samples(h.units) \in Nat
        BY <1>3, <3>1, SumsAppend DEF Gathers
      <4>2. \A a, b, c \in Nat, limit \in Int :
              a <= b /\ ~(b + c >= limit) => a + c < limit
        OBVIOUS
      <4>3. ~(queued[s] + u.samples >= MaxQueued)
        BY <3>3
      <4>4. u.samples \in Nat
        BY <1>3
      <4>. QED  BY <3>4, <4>1, <4>2, <4>3, <4>4
    <3>8. h.size + u.size <= pes_payload_size /\ u.dts - h.dts < max_delay
      <4>1. \A x, limit \in Int : (~(x > limit) => x <= limit) /\ (~(x >= limit) => x < limit)
        OBVIOUS
      <4>2. h.size + u.size \in Int
        BY <1>3
      <4>3. u.dts - h.dts \in Int
        BY <3>4
      <4>4. ~(h.size + u.size > pes_payload_size)
        BY <3>3
      <4>5. ~(u.dts - h.dts >= max_delay)
        BY <3>3
      <4>6. pes_payload_size \in Int /\ max_delay \in Int
        BY <3>4
      <4>7. h.size + u.size <= pes_payload_size
        BY <4>1, <4>2, <4>4, <4>6
      <4>. QED  BY <4>1, <4>3, <4>5, <4>6, <4>7
    <3>9. Fits(Append(h.units, u), h.size + u.size, h.pts, h.dts)
      BY <1>1, <3>5, <3>6, <3>7, <3>8, FitsMore
    <3>10. g.pts = h.pts /\ g.dts = h.dts
      BY <2>2, GatheredFields
    <3>. QED  BY <1>2, <3>9, <3>10
  <2>. QED  BY <2>1, <2>2
<1>. QED  BY <1>4, <1>5, <1>6 DEF Gathers

-----------------------------------------------------------------------------
(* A PES of what is gathered fits, if that does, and so does one of a unit *)
(* alone.                                                                  *)
LEMMA FreshFits ==
  ASSUME TypeOK, FitsInv
  PROVE  /\ \A i \in Streams : held[i].size > 0 =>
              Fits(PesOf(i).units, PesOf(i).left, PesOf(i).pts, PesOf(i).dts)
         /\ \A i \in Streams, u \in Unit :
              Fits(UnitPes(i, u).units, UnitPes(i, u).left, UnitPes(i, u).pts,
                   UnitPes(i, u).dts)
<1>1. ASSUME NEW i \in Streams, held[i].size > 0
      PROVE  Fits(PesOf(i).units, PesOf(i).left, PesOf(i).pts, PesOf(i).dts)
  <2>1. Gathers(held[i], queued[i])
    BY DEF FitsInv
  <2>2. held[i].size # 0
    <3>1. held[i] \in Payload
      BY DEF TypeOK
    <3>2. held[i].size \in Nat
      BY <3>1 DEF Payload
    <3>. QED  BY <1>1, <3>2
  <2>3. Fits(held[i].units, held[i].size, held[i].pts, held[i].dts)
    BY <2>1, <2>2 DEF Gathers
  <2>. QED  BY <2>3, PesOfFresh
<1>2. ASSUME NEW i \in Streams, NEW u \in Unit
      PROVE  Fits(UnitPes(i, u).units, UnitPes(i, u).left, UnitPes(i, u).pts,
                  UnitPes(i, u).dts)
  <2>1. /\ UnitPes(i, u).units = <<u>> /\ UnitPes(i, u).left = u.size
        /\ UnitPes(i, u).pts = u.pts /\ UnitPes(i, u).dts = u.dts
    BY PesOfFresh
  <2>2. Fits(<<u>>, u.size, u.pts, u.dts)
    BY FitsAlone
  <2>. QED  BY <2>1, <2>2
<1>. QED  BY <1>1, <1>2

(* Nothing stays gathered of a stream whose unit makes a PES of its own.   *)
LEMMA DirectLeft ==
  ASSUME TypeOK, AudioOnly, NEW s \in Streams, NEW u \in Unit, NEW q,
         held[s].size > 0 /\ Full(s, u) => Written(q, s),
         Direct(s, u)
  PROVE  Left(q, s).size = 0
<1>1. CASE s \notin Audio
  <2>1. held[s].size = 0
    BY <1>1 DEF AudioOnly
  <2>. QED  BY <2>1, GatheredFields DEF Left
<1>2. CASE u.size > pes_payload_size
  <2>1. CASE Written(q, s)
    BY <2>1, GatheredFields DEF Left
  <2>2. CASE ~Written(q, s)
    <3>1. ~(held[s].size > 0) \/ ~Full(s, u)
      BY <2>2
    <3>2. held[s].size + u.size > pes_payload_size
      <4>1. held[s].size \in Nat /\ u.size \in Nat /\ pes_payload_size \in Int
        BY TimesAssumption DEF TypeOK, Payload, Unit
      <4>. QED  BY <1>2, <4>1
    <3>3. Full(s, u)
      BY <3>2, Zenon DEF Full
    <3>4. held[s].size \in Nat
      BY DEF TypeOK, Payload
    <3>5. ~(held[s].size > 0)
      BY <3>1, <3>3
    <3>6. held[s].size = 0
      BY <3>4, <3>5
    <3>. QED  BY <2>2, <3>6 DEF Left
  <2>. QED  BY <2>1, <2>2
<1>. QED  BY <1>1, <1>2 DEF Direct

(* A unit leaves PES that fit,                                             *)
LEMMA GiveUnitFits ==
  ASSUME TypeOK, FitsInv, NEW s \in Streams, NEW kind \in Kinds[s], NEW gap \in Gaps[s],
         GiveUnit(s, kind, gap)
  PROVE  FitsInv'
<1>1. PICK u \in Unit : \E q :
           /\ u = UnitOf(s, kind, given_dts[s] + gap)
           /\ Flushes(q)
           /\ held[s].size > 0 /\ Full(s, u) => Written(q, s)
           /\ JobsBehind(q, s, u)
           /\ held' = [i \in Streams |-> IF i = s /\ ~Direct(s, u) THEN Gathered(Left(q, i), u)
                                         ELSE Left(q, i)]
  BY GiveUnitJobs
<1>2. PICK q :
           /\ u = UnitOf(s, kind, given_dts[s] + gap)
           /\ Flushes(q)
           /\ held[s].size > 0 /\ Full(s, u) => Written(q, s)
           /\ JobsBehind(q, s, u)
           /\ held' = [i \in Streams |-> IF i = s /\ ~Direct(s, u) THEN Gathered(Left(q, i), u)
                                         ELSE Left(q, i)]
  BY <1>1
<1>3. PICK dts \in Int :
           /\ dts = given_dts[s] + gap /\ dts >= last_dts
           /\ WriteUnit(s, UnitOf(s, kind, dts))
           /\ last_dts' = dts
  BY GiveUnitIs
<1>4. WriteUnit(s, u) /\ u.dts = dts + Shift
  BY <1>2, <1>3 DEF UnitOf
<1>5. PICK before \in Int, now \in Int :
        /\ before = last_dts + Shift /\ now = last_dts' + Shift
        /\ before <= now /\ u.dts = now
  <2>1. last_dts \in Int /\ Shift \in Int
    BY ShiftType DEF TypeOK
  <2>. QED  BY <1>3, <1>4, <2>1
<1>6. PICK anew \in BOOLEAN :
           /\ anew => held[s].size > 0 /\ Full(s, u)
           /\ queued' = [queued EXCEPT ![s] = IF Direct(s, u) THEN 0
                                              ELSE (IF anew THEN 0 ELSE queued[s]) + u.samples]
  BY <1>4, WriteUnitQueued
<1>7. queued \in [Streams -> Nat] /\ held \in [Streams -> Payload]
  BY DEF TypeOK
<1>8. ASSUME NEW i \in Streams, i # s
      PROVE  /\ Gathers(held[i], queued[i])'
             /\ held'[i].size > 0 => held'[i].dts <= now
  <2>1. held'[i] = Left(q, i) /\ queued'[i] = queued[i]
    BY <1>2, <1>6, <1>7, <1>8
  <2>2. Gathers(Left(q, i), queued[i])
    BY LeftGathers
  <2>3. ASSUME Left(q, i).size > 0
        PROVE  Left(q, i).dts <= now
    <3>1. Left(q, i) = held[i]
      BY <2>3, LeftGathers
    <3>2. held[i].dts <= before
      BY <1>5, <2>3, <3>1 DEF FitsInv
    <3>3. held[i].dts \in Int
      BY <1>7 DEF Payload
    <3>. QED  BY <1>5, <3>1, <3>2, <3>3
  <2>4. Gathers(held'[i], queued'[i])
    BY <2>1, <2>2
  <2>. QED  BY <2>1, <2>3, <2>4 DEF Gathers
<1>9. ASSUME Direct(s, u)
      PROVE  /\ Gathers(held'[s], queued'[s])
             /\ held'[s].size > 0 => held'[s].dts <= now
  <2>1. Left(q, s).size = 0
    BY <1>2, <1>9, DirectLeft DEF FitsInv
  <2>2. held'[s] = Left(q, s) /\ queued'[s] = 0
    BY <1>2, <1>6, <1>7, <1>9
  <2>3. Left(q, s).units = << >>
    BY <2>1, LeftGathers DEF Gathers
  <2>4. Gathers(held'[s], queued'[s])
    BY <2>1, <2>2, <2>3, EmptyGathers
  <2>5. \A k : k.size = 0 => ~(k.size > 0)
    OBVIOUS
  <2>. QED  BY <2>1, <2>2, <2>4, <2>5
<1>10. ASSUME ~Direct(s, u)
       PROVE  /\ Gathers(held'[s], queued'[s])
              /\ held'[s].size > 0 => held'[s].dts <= now
  <2>1. held'[s] = Gathered(Left(q, s), u)
    BY <1>2, <1>10
  <2>2. PICK count \in Nat : count = IF anew THEN 0 ELSE queued[s]
    BY <1>7
  <2>3. queued'[s] = count + u.samples
    BY <1>6, <1>7, <1>10, <2>2
  <2>4. Gathers(Left(q, s), count) /\ (count = queued[s] \/ Written(q, s))
    BY <1>2, <1>6, <2>2, LeftGathers
  <2>5. Gathers(Gathered(Left(q, s), u), count + u.samples)
    BY <1>2, <1>5, <1>10, <2>4, JoinGathers
  <2>6. Gathered(Left(q, s), u).dts <= now
    <3>1. CASE Left(q, s).size = 0
      <4>1. Gathered(Left(q, s), u).dts = u.dts
        BY <3>1, GatheredFields
      <4>. QED  BY <1>5, <4>1
    <3>2. CASE Left(q, s).size # 0
      <4>1. Left(q, s).size > 0
        BY <3>2, LeftGathers DEF Payload
      <4>2. Left(q, s) = held[s]
        BY <4>1, LeftGathers
      <4>3. held[s].dts <= before /\ held[s].dts \in Int
        BY <1>5, <1>7, <4>1, <4>2 DEF FitsInv, Payload
      <4>4. Gathered(Left(q, s), u).dts = held[s].dts
        BY <3>2, <4>2, GatheredFields
      <4>. QED  BY <1>5, <4>3, <4>4
    <3>. QED  BY <3>1, <3>2
  <2>7. Gathers(held'[s], queued'[s])
    BY <2>1, <2>3, <2>5
  <2>. QED  BY <2>1, <2>6, <2>7
<1>11. \A i \in Streams : /\ Gathers(held'[i], queued'[i])
                          /\ held'[i].size > 0 => held'[i].dts <= now
  <2>1. Gathers(held'[s], queued'[s])
        /\ (held'[s].size > 0 => held'[s].dts <= now)
    <3>1. CASE Direct(s, u)
      BY <1>9, <3>1
    <3>2. CASE ~Direct(s, u)
      BY <1>10, <3>2
    <3>. QED  BY <3>1, <3>2
  <2>2. ASSUME NEW i \in Streams, i # s
        PROVE  Gathers(held'[i], queued'[i])
    BY <1>8, <2>2 DEF Gathers
  <2>. QED  BY <1>8, <2>1, <2>2
<1>12. ASSUME NEW n \in 1 .. Len(jobs')
       PROVE  Fits(jobs'[n].units, jobs'[n].left, jobs'[n].pts, jobs'[n].dts)
  <2>1. \/ n \in 1 .. Len(q) /\ jobs'[n] = PesOf(q[n])
        \/ jobs'[n] = UnitPes(s, u)
    BY <1>2, <1>12, StreamView
  <2>2. CASE n \in 1 .. Len(q) /\ jobs'[n] = PesOf(q[n])
    <3>1. q[n] \in Streams /\ held[q[n]].size > 0
      BY <1>2, <2>2 DEF Flushes
    <3>. QED  BY <2>2, <3>1, FreshFits
  <2>3. CASE jobs'[n] = UnitPes(s, u)
    BY <2>3, FreshFits
  <2>. QED  BY <2>1, <2>2, <2>3
<1>13. AudioOnly'
  BY AudioOnlyStep DEF Next, FitsInv
<1>. QED  BY <1>5, <1>11, <1>12, <1>13 DEF FitsInv, Gathers

(* so does a flush,                                                        *)
LEMMA FlushFits ==
  ASSUME TypeOK, FitsInv, Flush
  PROVE  FitsInv'
<1>1. PICK q : /\ Flushes(q) /\ jobs' = PesList(q)
               /\ held' = [i \in Streams |-> Emptied(held[i])]
               /\ queued' = [i \in Streams |-> IF held[i].size > 0 THEN 0 ELSE queued[i]]
  BY FlushIs
<1>2. \A i \in Streams : queued[i] \in Nat
  BY DEF TypeOK
<1>3. ASSUME NEW i \in Streams
      PROVE  Gathers(held'[i], queued'[i]) /\ held'[i].size = 0
  <2>1. held'[i].units = << >> /\ held'[i].size = 0
    BY <1>1, GatheredFields
  <2>2. queued'[i] \in Nat
    BY <1>1, <1>2
  <2>. QED  BY <2>1, <2>2, EmptyGathers
<1>4. q \in Seq(Streams) /\ \A k \in 1 .. Len(q) : q[k] \in Streams /\ held[q[k]].size > 0
  BY <1>1 DEF Flushes
<1>5. Len(jobs') = Len(q) /\ \A k \in 1 .. Len(q) : jobs'[k] = PesOf(q[k])
  BY <1>1, <1>4, ListIs
<1>6. ASSUME NEW n \in 1 .. Len(jobs')
      PROVE  Fits(jobs'[n].units, jobs'[n].left, jobs'[n].pts, jobs'[n].dts)
  <2>1. jobs'[n] = PesOf(q[n]) /\ q[n] \in Streams /\ held[q[n]].size > 0
    BY <1>4, <1>5
  <2>. QED  BY <2>1, FreshFits
<1>7. AudioOnly'
  BY AudioOnlyStep DEF Next, FitsInv
<1>. QED  BY <1>3, <1>6, <1>7 DEF FitsInv, Gathers

(* The PES in hand is not fresh any more, and the others stay.             *)
LEMMA TurnFits ==
  ASSUME TypeOK, FitsInv, NEW off \in {0, 1}, Behind(off),
         UNCHANGED <<held, queued, last_dts>>
  PROVE  FitsInv'
<1>1. held' = held /\ queued' = queued /\ last_dts' = last_dts
  OBVIOUS
<1>2. ASSUME NEW n \in 1 .. Len(jobs'), jobs'[n].fresh
      PROVE  Fits(jobs'[n].units, jobs'[n].left, jobs'[n].pts, jobs'[n].dts)
  <2>1. PICK k \in 1 .. Len(jobs) : k = n + off
    BY DEF Behind
  <2>2. jobs'[n] = jobs[k]
    BY <1>2, <2>1 DEF Behind
  <2>. QED  BY <1>2, <2>2 DEF FitsInv
<1>. QED  BY <1>1, <1>2 DEF FitsInv, AudioOnly, Gathers

(* and every step.                                                         *)
LEMMA NextFits ==
  ASSUME TypeOK, FitsInv, [Next]_vars
  PROVE  FitsInv'
<1>1. ASSUME UNCHANGED <<held, queued, jobs, last_dts>>
      PROVE  FitsInv'
  <2>1. held' = held /\ queued' = queued /\ jobs' = jobs /\ last_dts' = last_dts
    BY <1>1
  <2>. QED  BY <2>1 DEF FitsInv, AudioOnly, Gathers
<1>2. ASSUME NEW p \in Sections, NEW len \in SectionLens, GiveSection(p, len)
      PROVE  FitsInv'
  BY <1>1, <1>2 DEF GiveSection, payloadvars
<1>3. ASSUME Pad
      PROVE  FitsInv'
  <2>1. Behind(0)
    BY <1>3, PadBehind
  <2>2. UNCHANGED <<held, queued, last_dts>>
    BY <1>3 DEF Pad, Turned, payloadvars, inputvars
  <2>. QED  BY <2>1, <2>2, TurnFits
<1>4. ASSUME Emit
      PROVE  FitsInv'
  <2>1. Behind(0) \/ Behind(1)
    BY <1>4, EmitBehind
  <2>2. UNCHANGED <<held, queued, last_dts>>
    BY <1>4 DEF Emit, Turned, payloadvars, inputvars
  <2>. QED  BY <2>1, <2>2, TurnFits
<1>5. UNCHANGED vars => FitsInv'
  BY <1>1 DEF vars, payloadvars, inputvars
<1>. QED  BY <1>2, <1>3, <1>4, <1>5, GiveUnitFits, FlushFits DEF Next

(* There are none at first.                                                *)
LEMMA InitFits ==
  ASSUME Init
  PROVE  FitsInv
<1>1. \A s \in Streams : held[s].units = << >> /\ held[s].size = 0 /\ queued[s] = 0
  BY DEF Init, Empty
<1>2. \A s \in Streams : Gathers(held[s], queued[s])
  BY <1>1, EmptyGathers
<1>3. \A s \in Streams : ~(held[s].size > 0)
  BY <1>1
<1>4. Len(jobs) = 0
  BY DEF Init
<1>. QED  BY <1>2, <1>3, <1>4, InitOrder DEF FitsInv

(* A PES has the bytes of its units, the timestamps of the first, and more *)
(* units than one only within pes_payload_size, max_delay and MaxQueued    *)
(* samples, whichever of the limits, the other streams or a flush ended it:*)
(* queued counts at least the samples that are gathered.                   *)
THEOREM PesFitsHolds == Spec => []PesFits
<1>1. Init => TypeOK /\ FitsInv
  BY InitType, InitFits
<1>2. TypeOK /\ FitsInv /\ [Next]_vars => (TypeOK /\ FitsInv)'
  BY NextType, NextFits
<1>3. FitsInv => PesFits
  BY DEF FitsInv, PesFits, Gathers
<1>. QED  BY <1>1, <1>2, <1>3, PTL DEF Spec

-----------------------------------------------------------------------------
(* The units of stream s to be written are numbered one by one behind      *)
(* those that are: b[n] is the last of those in the first n jobs.          *)
Numbered(units, before) == \A k \in 1 .. Len(units) : units[k].id = before + k

(* The part about the jobs.                                                *)
Counts(s, b) ==
  /\ b \in [0 .. Len(jobs) -> Nat]
  /\ b[0] = done[s]
  /\ \A n \in 1 .. Len(jobs) :
       IF jobs[n].s = s
       THEN Numbered(jobs[n].units, b[n - 1]) /\ b[n] = b[n - 1] + Len(jobs[n].units)
       ELSE b[n] = b[n - 1]

(* Behind those in the jobs come the gathered ones, up to the last given.  *)
InOrder(s, b) ==
  /\ Counts(s, b)
  /\ Numbered(held[s].units, b[Len(jobs)])
  /\ given[s] = b[Len(jobs)] + Len(held[s].units)

(* That is so for every stream.                                            *)
OrderInv == \A s \in Streams : \E b : InOrder(s, b)

(* With nothing to be written, those gathered come next.                   *)
LEMMA NothingToWrite ==
  ASSUME TypeOK, OrderInv, jobs = << >>, NEW s \in Streams
  PROVE  /\ Numbered(held[s].units, done[s])
         /\ given[s] = done[s] + Len(held[s].units)
         /\ Len(held[s].units) \in Nat /\ done[s] \in Nat
<1>1. PICK b : InOrder(s, b)
  BY DEF OrderInv
<1>2. Len(jobs) = 0
  OBVIOUS
<1>3. held[s].units \in Seq(Unit) /\ done[s] \in Nat
  BY DEF TypeOK, Payload
<1>4. Len(held[s].units) \in Nat
  BY <1>3
<1>. QED  BY <1>1, <1>2, <1>3, <1>4 DEF InOrder, Counts

(* Streams are listed once each: what is gathered of s is written at most  *)
(* once, and behind it may come a unit alone.                              *)
LEMMA NewInOrder ==
  ASSUME TypeOK, OrderInv, jobs = << >>, jobs' \in Seq(Pes),
         NEW s \in Streams, NEW q, Flushes(q),
         Len(jobs') \in {Len(q), Len(q) + 1},
         \A n \in 1 .. Len(q) : jobs'[n] = PesOf(q[n]),
         NEW one \in {0, 1},
         one = 1 <=> Len(jobs') = Len(q) + 1 /\ jobs'[Len(q) + 1].s = s,
         one = 1 => /\ jobs'[Len(q) + 1].units \in Seq(Unit)
                    /\ Len(jobs'[Len(q) + 1].units) = 1
                    /\ jobs'[Len(q) + 1].units[1].id = given[s] + 1
                    /\ Written(q, s) \/ held[s].units = << >>,
         done' = done
  PROVE  \E b : /\ Counts(s, b)'
                /\ b[Len(jobs')] = done[s] + (IF Written(q, s) THEN Len(held[s].units) ELSE 0)
                                           + one
<1>1. PICK d \in Nat, L \in Nat : d = done[s] /\ L = Len(held[s].units)
  BY NothingToWrite
<1>2. given[s] = d + L /\ Numbered(held[s].units, d)
  BY <1>1, NothingToWrite
<1>3. PICK Q \in Nat : Q = Len(q)
  BY DEF Flushes
<1>4. PICK N \in Nat : N = Len(jobs')
  OBVIOUS
<1>5. N = Q \/ N = Q + 1
  BY <1>3, <1>4
<1>6. \A n \in 1 .. Q : jobs'[n].s = q[n] /\ jobs'[n].units = held[q[n]].units
  BY <1>3, PesOfFresh
<1>7. \A n, m \in 1 .. Q : q[n] = s /\ q[m] = s => n = m
  BY <1>3 DEF Flushes, Distinct
<1>. DEFINE Past(n) == \E m \in 1 .. Q : m <= n /\ q[m] = s
            b == [n \in 0 .. N |-> d + (IF Past(n) THEN L ELSE 0)
                                     + (IF n = Q + 1 THEN one ELSE 0)]
<1>8. b \in [0 .. N -> Nat]
  OBVIOUS
<1>9. \A n \in 0 .. N : b[n] = d + (IF Past(n) THEN L ELSE 0)
                                 + (IF n = Q + 1 THEN one ELSE 0)
  OBVIOUS
<1>10. Past(Q) <=> Written(q, s)
  BY <1>3 DEF Written
<1>11. Past(Q + 1) <=> Past(Q)
  OBVIOUS
<1>12. ~Past(0)
  OBVIOUS
<1>. HIDE DEF b, Past
<1>16. one = 1 => N = Q + 1 /\ jobs'[Q + 1].s = s
  BY <1>3, <1>4
<1>13. b[0] = d
  <2>1. 0 \in 0 .. N /\ 0 # Q + 1
    OBVIOUS
  <2>. QED  BY <1>9, <1>12, <2>1
<1>14. ASSUME NEW n \in 1 .. N
       PROVE  IF jobs'[n].s = s
              THEN /\ Numbered(jobs'[n].units, b[n - 1])
                   /\ b[n] = b[n - 1] + Len(jobs'[n].units)
              ELSE b[n] = b[n - 1]
  <2>0. n - 1 \in 0 .. N /\ n \in 0 .. N
    OBVIOUS
  <2>4. b[n - 1] = d + (IF Past(n - 1) THEN L ELSE 0)
    <3>1. n - 1 # Q + 1
      BY <1>5
    <3>2. b[n - 1] = d + (IF Past(n - 1) THEN L ELSE 0)
                       + (IF n - 1 = Q + 1 THEN one ELSE 0)
      BY <1>9, <2>0, Zenon
    <3>3. PICK c \in Nat : c = d + (IF Past(n - 1) THEN L ELSE 0)
      OBVIOUS
    <3>. QED  BY <3>1, <3>2, <3>3
  <2>5. ASSUME n # Q + 1
        PROVE  b[n] = d + (IF Past(n) THEN L ELSE 0)
    <3>1. b[n] = d + (IF Past(n) THEN L ELSE 0) + (IF n = Q + 1 THEN one ELSE 0)
      BY <1>9, <2>0, Zenon
    <3>2. PICK c \in Nat : c = d + (IF Past(n) THEN L ELSE 0)
      OBVIOUS
    <3>. QED  BY <2>5, <3>1, <3>2
  <2>1. CASE n \in 1 .. Q /\ q[n] = s
    <3>1. Past(n) /\ n # Q + 1 /\ n - 1 # Q + 1
      BY <2>1 DEF Past
    <3>2. ~Past(n - 1)
      BY <1>7, <2>1 DEF Past
    <3>3. b[n] = d + L /\ b[n - 1] = d
      BY <2>4, <2>5, <3>1, <3>2
    <3>4. jobs'[n].s = s /\ jobs'[n].units = held[s].units
      BY <1>6, <2>1
    <3>. QED  BY <1>1, <1>2, <3>3, <3>4
  <2>2. CASE n \in 1 .. Q /\ q[n] # s
    <3>1. n # Q + 1 /\ n - 1 # Q + 1
      BY <2>2
    <3>2. Past(n) <=> Past(n - 1)
      BY <2>2 DEF Past
    <3>3. b[n] = b[n - 1]
      BY <2>4, <2>5, <3>1, <3>2
    <3>4. jobs'[n].s # s
      BY <1>6, <2>2
    <3>. QED  BY <3>3, <3>4
  <2>3. CASE n \notin 1 .. Q
    <3>1. n = Q + 1 /\ N = Q + 1 /\ n - 1 = Q /\ Q # Q + 1
      BY <1>5, <2>3
    <3>2. one = 1 <=> jobs'[n].s = s
      BY <1>3, <1>4, <3>1
    <3>3. b[n] = d + (IF Past(Q) THEN L ELSE 0) + one
      BY <1>9, <1>11, <2>0, <3>1
    <3>4. b[n - 1] = d + (IF Past(Q) THEN L ELSE 0)
      BY <2>4, <3>1
    <3>5. CASE one = 1
      <4>1. Past(Q) \/ L = 0
        BY <1>1, <1>10, <3>5
      <4>2. b[n - 1] = d + L /\ b[n] = d + L + 1
        BY <3>3, <3>4, <3>5, <4>1
      <4>3. Len(jobs'[n].units) = 1 /\ jobs'[n].units[1].id = d + L + 1
        BY <1>2, <1>3, <3>1, <3>5
      <4>4. Numbered(jobs'[n].units, b[n - 1])
        BY <4>2, <4>3 DEF Numbered
      <4>. QED  BY <3>2, <3>5, <4>2, <4>3, <4>4
    <3>6. CASE one # 1
      <4>1. PICK c \in Nat : c = d + (IF Past(Q) THEN L ELSE 0)
        OBVIOUS
      <4>2. b[n] = b[n - 1]
        BY <3>3, <3>4, <3>6, <4>1
      <4>. QED  BY <3>2, <3>6, <4>2
    <3>. QED  BY <3>5, <3>6
  <2>. QED  BY <2>1, <2>2, <2>3
<1>15. b[N] = d + (IF Written(q, s) THEN L ELSE 0) + one
  <2>1. N \in 0 .. N
    OBVIOUS
  <2>2. CASE N = Q
    <3>1. one # 1 /\ N # Q + 1
      BY <1>16, <2>2
    <3>. QED  BY <1>9, <1>10, <2>1, <2>2, <3>1
  <2>3. CASE N = Q + 1
    BY <1>9, <1>10, <1>11, <2>1, <2>3
  <2>. QED  BY <1>5, <2>2, <2>3
<1>17. Counts(s, b)'
  BY <1>1, <1>4, <1>8, <1>13, <1>14 DEF Counts, Numbered
<1>. QED  BY <1>1, <1>4, <1>15, <1>17

(* A unit comes behind all others of its stream,                           *)
LEMMA GiveUnitInOrder ==
  ASSUME TypeOK, TypeOK', FitsInv, OrderInv,
         NEW s \in Streams, NEW kind \in Kinds[s], NEW gap \in Gaps[s],
         GiveUnit(s, kind, gap)
  PROVE  OrderInv'
<1>1. PICK u \in Unit : \E q :
           /\ u = UnitOf(s, kind, given_dts[s] + gap)
           /\ Flushes(q)
           /\ held[s].size > 0 /\ Full(s, u) => Written(q, s)
           /\ JobsBehind(q, s, u)
           /\ held' = [i \in Streams |-> IF i = s /\ ~Direct(s, u) THEN Gathered(Left(q, i), u)
                                         ELSE Left(q, i)]
  BY GiveUnitJobs
<1>2. PICK q :
           /\ u = UnitOf(s, kind, given_dts[s] + gap)
           /\ Flushes(q)
           /\ held[s].size > 0 /\ Full(s, u) => Written(q, s)
           /\ JobsBehind(q, s, u)
           /\ held' = [i \in Streams |-> IF i = s /\ ~Direct(s, u) THEN Gathered(Left(q, i), u)
                                         ELSE Left(q, i)]
  BY <1>1
<1>3. jobs = << >> /\ done' = done /\ given' = [given EXCEPT ![s] = @ + 1]
  BY GiveUnitIs
<1>4. u.id = given[s] + 1
  BY <1>2 DEF UnitOf
<1>5. jobs' \in Seq(Pes) /\ given \in [Streams -> Nat]
  BY DEF TypeOK
<1>6. Len(q) \in Nat
  BY <1>2 DEF Flushes
<1>7. \A n \in 1 .. Len(q) : jobs'[n] = PesOf(q[n])
  BY <1>2 DEF JobsBehind
<1>8. Direct(s, u) => /\ Len(jobs') = Len(q) + 1
                      /\ jobs'[Len(q) + 1].s = s
                      /\ jobs'[Len(q) + 1].units = <<u>>
  BY <1>2, PesOfFresh DEF JobsBehind
<1>9. ~Direct(s, u) => Len(jobs') = Len(q)
  BY <1>2 DEF JobsBehind
<1>10. <<u>> \in Seq(Unit) /\ Len(<<u>>) = 1 /\ <<u>>[1] = u
  OBVIOUS
<1>11. Direct(s, u) => Left(q, s).units = << >>
  <2>1. ASSUME Direct(s, u)
        PROVE  Left(q, s).units = << >>
    <3>1. Left(q, s).size = 0
      BY <1>2, <2>1, DirectLeft DEF FitsInv
    <3>2. Gathers(Left(q, s), queued[s])
      BY LeftGathers
    <3>. QED  BY <3>1, <3>2 DEF Gathers
  <2>. QED  BY <2>1
<1>12. \A i \in Streams : /\ Written(q, i) => Left(q, i).units = << >>
                          /\ ~Written(q, i) => Left(q, i).units = held[i].units
  BY GatheredFields DEF Left
<1>13. Direct(s, u) => Written(q, s) \/ held[s].units = << >>
  BY <1>11, <1>12
<1>15. Flushes(q)
  BY <1>2
<1>14. ASSUME NEW i \in Streams
       PROVE  \E b : InOrder(i, b)'
  <2>1. PICK one \in {0, 1} : one = 1 <=> i = s /\ Direct(s, u)
    OBVIOUS
  <2>2. one = 1 <=> Len(jobs') = Len(q) + 1 /\ jobs'[Len(q) + 1].s = i
    BY <1>6, <1>8, <1>9, <2>1
  <2>3. one = 1 => /\ jobs'[Len(q) + 1].units \in Seq(Unit)
                   /\ Len(jobs'[Len(q) + 1].units) = 1
                   /\ jobs'[Len(q) + 1].units[1].id = given[i] + 1
                   /\ Written(q, i) \/ held[i].units = << >>
    BY <1>4, <1>8, <1>10, <1>13, <2>1
  <2>4. Len(jobs') \in {Len(q), Len(q) + 1}
    BY <1>8, <1>9
  <2>5. PICK b :
           /\ Counts(i, b)'
           /\ b[Len(jobs')] = done[i] + (IF Written(q, i) THEN Len(held[i].units) ELSE 0) + one
    BY <1>3, <1>5, <1>7, <1>15, <2>2, <2>3, <2>4, NewInOrder
  <2>6. PICK d \in Nat, L \in Nat :
          /\ d = done[i] /\ L = Len(held[i].units)
          /\ given[i] = d + L /\ Numbered(held[i].units, d)
    BY <1>3, NothingToWrite
  <2>7. PICK last \in Nat :
          /\ last = b[Len(jobs')]
          /\ last = d + (IF Written(q, i) THEN L ELSE 0) + one
    BY <2>5, <2>6
  <2>8. Numbered(held'[i].units, last) /\ given'[i] = last + Len(held'[i].units)
    <3>1. CASE one = 1
      <4>1. held'[i] = Left(q, i) /\ Len(Left(q, i).units) = 0
        BY <1>2, <1>11, <2>1, <3>1
      <4>2. Written(q, i) \/ L = 0
        BY <1>13, <2>1, <2>6, <3>1
      <4>3. last = d + L + 1
        BY <2>7, <3>1, <4>2
      <4>4. given'[i] = d + L + 1
        BY <1>3, <1>5, <2>1, <2>6, <3>1
      <4>. QED  BY <4>1, <4>3, <4>4 DEF Numbered
    <3>2. CASE i # s
      <4>1. held'[i] = Left(q, i)
        BY <1>2, <3>2
      <4>2. given'[i] = d + L
        BY <1>3, <1>5, <2>6, <3>2
      <4>3. CASE Written(q, i)
        <5>1. last = d + L /\ Len(held'[i].units) = 0
          BY <1>12, <2>1, <2>7, <3>2, <4>1, <4>3
        <5>. QED  BY <4>2, <5>1 DEF Numbered
      <4>4. CASE ~Written(q, i)
        <5>1. last = d /\ held'[i].units = held[i].units
          BY <1>12, <2>1, <2>7, <3>2, <4>1, <4>4
        <5>. QED  BY <2>6, <4>2, <5>1
      <4>. QED  BY <4>3, <4>4
    <3>3. CASE i = s /\ one = 0
      <4>1. PICK old \in Seq(Unit) : old = Left(q, s).units
        BY LeftGathers DEF Payload
      <4>2. held'[i].units = Append(old, u)
        BY <1>2, <2>1, <3>3, <4>1, GatheredFields
      <4>3. given'[i] = d + L + 1 /\ u.id = d + L + 1
        BY <1>3, <1>4, <1>5, <2>6, <3>3
      <4>4. Len(old) \in Nat /\ last + Len(old) = d + L /\ Numbered(old, last)
        <5>1. CASE Written(q, i)
          <6>1. Len(old) = 0 /\ last = d + L
            BY <1>12, <2>7, <3>3, <4>1, <5>1
          <6>. QED  BY <6>1 DEF Numbered
        <5>2. CASE ~Written(q, i)
          <6>1. old = held[i].units /\ last = d
            BY <1>12, <2>7, <3>3, <4>1, <5>2
          <6>. QED  BY <2>6, <6>1
        <5>. QED  BY <5>1, <5>2
      <4>5. PICK l \in Nat : l = Len(old)
        BY <4>4
      <4>6. /\ Len(Append(old, u)) = l + 1 /\ Append(old, u)[l + 1] = u
            /\ \A k \in 1 .. l : Append(old, u)[k] = old[k]
        BY <4>1, <4>5
      <4>7. Numbered(Append(old, u), last)
        <5>1. ASSUME NEW k \in 1 .. l + 1
              PROVE  Append(old, u)[k].id = last + k
          <6>1. CASE k = l + 1
            BY <4>3, <4>4, <4>5, <4>6, <6>1
          <6>2. CASE k \in 1 .. l
            BY <4>4, <4>5, <4>6, <6>2 DEF Numbered
          <6>3. k = l + 1 \/ k \in 1 .. l
            OBVIOUS
          <6>. QED  BY <6>1, <6>2, <6>3, Zenon
        <5>. QED  BY <4>6, <5>1 DEF Numbered
      <4>. QED  BY <4>2, <4>3, <4>4, <4>5, <4>6, <4>7
    <3>. QED  BY <2>1, <3>1, <3>2, <3>3
  <2>. QED  BY <2>5, <2>7, <2>8 DEF InOrder, Numbered
<1>. QED  BY <1>14 DEF OrderInv

(* a flush keeps their order,                                              *)
LEMMA FlushInOrder ==
  ASSUME TypeOK, TypeOK', OrderInv, Flush, FitsInv
  PROVE  OrderInv'
<1>1. PICK q : /\ Flushes(q) /\ jobs' = PesList(q) /\ jobs = << >>
               /\ held' = [i \in Streams |-> Emptied(held[i])]
               /\ \A i \in Streams : held[i].size > 0 => Written(q, i)
               /\ UNCHANGED <<given, done>>
  BY FlushIs
<1>2. q \in Seq(Streams) /\ given' = given /\ done' = done
  BY <1>1 DEF Flushes
<1>3. Len(q) \in Nat /\ Len(jobs') = Len(q) /\ \A k \in 1 .. Len(q) : jobs'[k] = PesOf(q[k])
  BY <1>1, <1>2, ListIs
<1>4. jobs' \in Seq(Pes)
  BY DEF TypeOK
<1>5. ASSUME NEW i \in Streams
      PROVE  \E b : InOrder(i, b)'
  <2>1. PICK one \in {0, 1} : one = 0
    OBVIOUS
  <2>2. one = 1 <=> Len(jobs') = Len(q) + 1 /\ jobs'[Len(q) + 1].s = i
    BY <1>3, <2>1
  <2>3. PICK b :
           /\ Counts(i, b)'
           /\ b[Len(jobs')] = done[i] + (IF Written(q, i) THEN Len(held[i].units) ELSE 0) + one
    BY <1>1, <1>2, <1>3, <1>4, <2>1, <2>2, NewInOrder
  <2>4. PICK d \in Nat, L \in Nat :
          d = done[i] /\ L = Len(held[i].units) /\ given[i] = d + L
    BY <1>1, NothingToWrite
  <2>5. Written(q, i) \/ L = 0
    <3>1. ASSUME ~Written(q, i)
          PROVE  L = 0
      <4>1. held[i].size \in Nat
        BY DEF TypeOK, Payload
      <4>2. held[i].size = 0
        BY <1>1, <3>1, <4>1
      <4>3. held[i].units = << >>
        BY <4>2 DEF FitsInv, Gathers
      <4>. QED  BY <2>4, <4>3
    <3>. QED  BY <3>1
  <2>6. b[Len(jobs')] = d + L
    BY <2>1, <2>3, <2>4, <2>5
  <2>7. Len(held'[i].units) = 0
    BY <1>1, GatheredFields
  <2>9. given'[i] = d + L
    BY <1>2, <2>4
    <2>10. Numbered(held'[i].units, d + L)
    BY <2>7 DEF Numbered
  <2>11. given'[i] = (d + L) + Len(held'[i].units)
    BY <2>7, <2>9
  <2>. QED  BY <2>3, <2>6, <2>10, <2>11 DEF InOrder, Numbered
<1>. QED  BY <1>5 DEF OrderInv

(* A turn of the loop: what was first may be written now.                  *)
LEMMA TurnInOrder ==
  ASSUME TypeOK, TypeOK', OrderInv, jobs # << >>,
         \/ Behind(0) /\ done' = done
         \/ Behind(1) /\ done' = [done EXCEPT ![jobs[1].s] = @ + Len(jobs[1].units)],
         held' = held, given' = given
  PROVE  OrderInv'
<1>0. jobs \in Seq(Pes) /\ jobs' \in Seq(Pes)
  BY DEF TypeOK
<1>1. Len(jobs) \in Nat \ {0} /\ Len(jobs') \in Nat
  BY <1>0, FrontIs
<1>2. PICK N \in Nat \ {0} : N = Len(jobs)
  BY <1>1
<1>3. \A i \in Streams : done[i] \in Nat
  BY DEF TypeOK
<1>4. ASSUME NEW i \in Streams, NEW b, InOrder(i, b), Behind(0), done' = done
      PROVE  InOrder(i, b)'
  <2>1. Len(jobs') = Len(jobs)
    BY <1>1, <1>4 DEF Behind
  <2>2. ASSUME NEW n \in 1 .. Len(jobs')
        PROVE  jobs'[n].s = jobs[n].s /\ jobs'[n].units = jobs[n].units
    <3>1. n + 0 = n
      OBVIOUS
    <3>. QED  BY <1>4, <3>1 DEF Behind
  <2>. QED  BY <1>4, <2>1, <2>2 DEF InOrder, Counts, Numbered
<1>5. ASSUME NEW i \in Streams, NEW b, InOrder(i, b), Behind(1),
             done' = [done EXCEPT ![jobs[1].s] = @ + Len(jobs[1].units)]
      PROVE  \E c : InOrder(i, c)'
  <2>1. /\ b \in [0 .. N -> Nat] /\ b[0] = done[i]
        /\ \A n \in 1 .. N : IF jobs[n].s = i
                             THEN /\ Numbered(jobs[n].units, b[n - 1])
                                  /\ b[n] = b[n - 1] + Len(jobs[n].units)
                             ELSE b[n] = b[n - 1]
        /\ Numbered(held[i].units, b[N])
        /\ given[i] = b[N] + Len(held[i].units)
    BY <1>2, <1>5 DEF InOrder, Counts
  <2>2. Len(jobs') = N - 1
    BY <1>2, <1>5 DEF Behind
  <2>3. \A n \in 1 .. N - 1 : /\ jobs'[n].s = jobs[n + 1].s
                              /\ jobs'[n].units = jobs[n + 1].units
    BY <1>5, <2>2 DEF Behind
  <2>. DEFINE c == [n \in 0 .. N - 1 |-> b[n + 1]]
  <2>4. \A n \in 0 .. N - 1 : n + 1 \in 0 .. N
    OBVIOUS
  <2>5. c \in [0 .. N - 1 -> Nat] /\ \A n \in 0 .. N - 1 : c[n] = b[n + 1]
    BY <2>1, <2>4
  <2>. HIDE DEF c
  <2>6. c[0] = done'[i]
    <3>1. 1 \in 1 .. N /\ 1 - 1 = 0 /\ 0 \in 0 .. N - 1 /\ 0 + 1 = 1
      OBVIOUS
    <3>2. c[0] = b[1]
      BY <2>5, <3>1
    <3>3. done'[i] = IF jobs[1].s = i THEN done[i] + Len(jobs[1].units) ELSE done[i]
      BY <1>5 DEF TypeOK
    <3>. QED  BY <2>1, <3>1, <3>2, <3>3
  <2>7. ASSUME NEW n \in 1 .. N - 1
        PROVE  IF jobs'[n].s = i
               THEN /\ Numbered(jobs'[n].units, c[n - 1])
                    /\ c[n] = c[n - 1] + Len(jobs'[n].units)
               ELSE c[n] = c[n - 1]
    <3>1. /\ n + 1 \in 1 .. N /\ (n + 1) - 1 = n /\ n - 1 \in 0 .. N - 1
          /\ (n - 1) + 1 = n /\ n \in 0 .. N - 1
      OBVIOUS
    <3>2. c[n] = b[n + 1] /\ c[n - 1] = b[n]
      BY <2>5, <3>1
    <3>3. PICK m \in 1 .. N : m = n + 1
      BY <3>1
    <3>4. IF jobs[m].s = i
          THEN Numbered(jobs[m].units, b[n]) /\ b[m] = b[n] + Len(jobs[m].units)
          ELSE b[m] = b[n]
      BY <2>1, <3>1, <3>3
    <3>5. jobs'[n].s = jobs[m].s /\ jobs'[n].units = jobs[m].units
      BY <2>3, <3>3
    <3>. QED  BY <3>2, <3>3, <3>4, <3>5
  <2>8. c[N - 1] = b[N]
    BY <2>5
  <2>9. Counts(i, c)'
    BY <2>2, <2>5, <2>6, <2>7 DEF Counts, Numbered
  <2>10. Len(jobs') = N - 1 /\ Numbered(held[i].units, c[N - 1])
         /\ given[i] = c[N - 1] + Len(held[i].units)
    BY <2>1, <2>2, <2>8
  <2>. QED  BY <2>9, <2>10 DEF InOrder, Numbered
<1>. QED  BY <1>4, <1>5 DEF OrderInv

(* and every step does.                                                    *)
LEMMA NextInOrder ==
  ASSUME TypeOK, FitsInv, OrderInv, [Next]_vars
  PROVE  OrderInv'
<1>1. ASSUME UNCHANGED <<held, jobs, given, done>>
      PROVE  OrderInv'
  <2>1. held' = held /\ jobs' = jobs /\ given' = given /\ done' = done
    BY <1>1
  <2>. QED  BY <2>1 DEF OrderInv, InOrder, Counts, Numbered
<1>2. ASSUME NEW p \in Sections, NEW len \in SectionLens, GiveSection(p, len)
      PROVE  OrderInv'
  BY <1>1, <1>2 DEF GiveSection, payloadvars
<1>3. TypeOK'
  BY NextType
<1>4. ASSUME Pad
      PROVE  OrderInv'
  <2>1. Behind(0) /\ done' = done /\ jobs # << >>
    BY <1>4, PadBehind
  <2>2. held' = held /\ given' = given
    BY <1>4 DEF Pad, Turned, payloadvars, inputvars
  <2>. QED  BY <1>3, <2>1, <2>2, TurnInOrder
<1>5. ASSUME Emit
      PROVE  OrderInv'
  <2>1. /\ jobs # << >>
        /\ \/ Behind(0) /\ done' = done
           \/ Behind(1) /\ done' = [done EXCEPT ![jobs[1].s] = @ + Len(jobs[1].units)]
    BY <1>5, EmitBehind
  <2>2. held' = held /\ given' = given
    BY <1>5 DEF Emit, Turned, payloadvars, inputvars
  <2>. QED  BY <1>3, <2>1, <2>2, TurnInOrder
<1>6. UNCHANGED vars => OrderInv'
  BY <1>1 DEF vars, payloadvars, inputvars
<1>. QED  BY <1>2, <1>3, <1>4, <1>5, <1>6, GiveUnitInOrder, FlushInOrder DEF Next

(* There are none at first.                                                *)
LEMMA InitOrdered ==
  ASSUME Init
  PROVE  OrderInv
<1>1. jobs = << >> /\ Len(jobs) = 0
  BY DEF Init
<1>2. ASSUME NEW s \in Streams
      PROVE  \E b : InOrder(s, b)
  <2>. DEFINE b == [n \in 0 .. 0 |-> 0]
  <2>1. b \in [0 .. 0 -> Nat] /\ b[0] = 0
    OBVIOUS
  <2>. HIDE DEF b
  <2>2. done[s] = 0 /\ given[s] = 0 /\ Len(held[s].units) = 0
    BY DEF Init, Empty
  <2>. QED  BY <1>1, <2>1, <2>2 DEF InOrder, Counts, Numbered
<1>. QED  BY <1>2 DEF OrderInv

-----------------------------------------------------------------------------
(* Sequences of successive numbers.                                        *)
Numbers(d, n) == [k \in 1 .. n |-> d + k]

(* Two of them that follow each other are one.                             *)
LEMMA NumbersJoin ==
  ASSUME NEW d \in Nat, NEW m \in Nat, NEW n \in Nat
  PROVE  Numbers(d, m) \o Numbers(d + m, n) = Numbers(d, m + n)
<1>. DEFINE a == Numbers(d, m)
            b == Numbers(d + m, n)
            c == Numbers(d, m + n)
<1>1. a \in Seq(Nat) /\ Len(a) = m /\ \A k \in 1 .. m : a[k] = d + k
  BY DEF Numbers
<1>2. b \in Seq(Nat) /\ Len(b) = n /\ \A k \in 1 .. n : b[k] = d + m + k
  BY DEF Numbers
<1>3. c \in Seq(Nat) /\ Len(c) = m + n /\ \A k \in 1 .. m + n : c[k] = d + k
  BY DEF Numbers
<1>. HIDE DEF a, b, c
<1>4. a \o b \in Seq(Nat) /\ Len(a \o b) = m + n
  BY <1>1, <1>2
<1>5. ASSUME NEW k \in 1 .. m + n
      PROVE  (a \o b)[k] = c[k]
  <2>1. CASE k <= m
    <3>1. (a \o b)[k] = a[k]
      BY <1>1, <1>2, <2>1
    <3>2. k \in 1 .. m /\ k \in 1 .. m + n
      BY <2>1
    <3>3. a[k] = d + k /\ c[k] = d + k
      BY <1>1, <1>3, <3>2
    <3>. QED  BY <3>1, <3>3
  <2>2. CASE k > m
    <3>1. (a \o b)[k] = b[k - m]
      BY <1>1, <1>2, <2>2
    <3>2. k - m \in 1 .. n
      BY <2>2
    <3>3. b[k - m] = d + m + (k - m)
      BY <1>2, <3>2
    <3>. QED  BY <1>3, <3>1, <3>3
  <2>3. k <= m \/ k > m
    OBVIOUS
  <2>. QED  BY <2>1, <2>2, <2>3, Zenon
<1>6. a \o b = c
  <2>. DEFINE e == a \o b
  <2>0. \A x \in Seq(Nat) : x \in [1 .. Len(x) -> Nat]
    OBVIOUS
  <2>1. e \in [1 .. m + n -> Nat] /\ c \in [1 .. m + n -> Nat]
    BY <1>3, <1>4, <2>0
  <2>2. \A k \in 1 .. m + n : e[k] = c[k]
    BY <1>5
  <2>. HIDE DEF e
  <2>3. e = c
    BY <2>1, <2>2
  <2>. QED  BY <2>3 DEF e
<1>. QED  BY <1>6 DEF a, b, c

(* The numbers of units.                                                   *)
Ids(units) == [k \in 1 .. Len(units) |-> units[k].id]

(* Those of the units of stream s in the first n jobs, as Pending has them,*)
IsPending(pending, s, n) ==
  pending = [k \in 0 .. n |->
               IF k = 0 THEN << >>
               ELSE IF jobs[k].s = s THEN pending[k - 1] \o Ids(jobs[k].units)
               ELSE pending[k - 1]]

(* exist,                                                                  *)
LEMMA PendingExists ==
  ASSUME NEW n \in Nat, NEW s
  PROVE  \E pending : IsPending(pending, s, n)
<1>. DEFINE T == {i \in 0 .. n : \E pending : IsPending(pending, s, i)}
<1>1. 0 \in T
  <2>. DEFINE none == [k \in 0 .. 0 |-> << >>]
  <2>1. IsPending(none, s, 0)
    BY DEF IsPending
  <2>. QED  BY <2>1
<1>2. ASSUME NEW i \in 0 .. n - 1, i \in T
      PROVE  i + 1 \in T
  <2>1. PICK g : IsPending(g, s, i)
    BY <1>2
  <2>. DEFINE h == [k \in 0 .. i + 1 |->
                      IF k = i + 1
                      THEN IF jobs[k].s = s THEN g[i] \o Ids(jobs[k].units) ELSE g[i]
                      ELSE g[k]]
  <2>2. ASSUME NEW k \in 0 .. i + 1
        PROVE  h[k] = IF k = 0 THEN << >>
                      ELSE IF jobs[k].s = s THEN h[k - 1] \o Ids(jobs[k].units) ELSE h[k - 1]
    <3>1. CASE k = i + 1
      <4>1. k # 0 /\ k - 1 = i /\ i # i + 1 /\ i \in 0 .. i + 1
        BY <3>1
      <4>2. h[k] = IF jobs[k].s = s THEN g[i] \o Ids(jobs[k].units) ELSE g[i]
        BY <3>1
      <4>3. h[k - 1] = g[i]
        BY <4>1
      <4>. HIDE DEF h
      <4>. QED  BY <4>1, <4>2, <4>3
    <3>2. CASE k # i + 1
      <4>1. k \in 0 .. i /\ h[k] = g[k]
        BY <3>2
      <4>2. k # 0 => h[k - 1] = g[k - 1]
        BY <4>1
      <4>3. g[k] = IF k = 0 THEN << >>
                   ELSE IF jobs[k].s = s THEN g[k - 1] \o Ids(jobs[k].units) ELSE g[k - 1]
        BY <2>1, <4>1, Zenon DEF IsPending
      <4>. HIDE DEF h
      <4>. QED  BY <4>1, <4>2, <4>3
    <3>. QED  BY <3>1, <3>2
  <2>3. IsPending(h, s, i + 1)
    BY <2>2 DEF IsPending
  <2>. HIDE DEF h
  <2>. QED  BY <2>3
<1>3. \A i \in 0 .. n : i \in T
  <2>. HIDE DEF T
  <2>. QED  BY <1>1, <1>2, InductionTo
<1>. QED  BY <1>3

(* Numbered units have successive numbers,                                 *)
LEMMA IdsNumbered ==
  ASSUME NEW units \in Seq(Unit), NEW d \in Nat, Numbered(units, d)
  PROVE  Ids(units) = Numbers(d, Len(units))
  BY DEF Ids, Numbered, Numbers

(* and are successive: as many as the jobs count.                          *)
LEMMA PendingNumbers ==
  ASSUME TypeOK, NEW s \in Streams, NEW b, Counts(s, b),
         NEW pending, IsPending(pending, s, Len(jobs))
  PROVE  \A n \in 0 .. Len(jobs) : /\ b[n] - b[0] \in Nat
                                   /\ pending[n] = Numbers(b[0], b[n] - b[0])
<1>1. PICK N \in Nat : N = Len(jobs)
  BY DEF TypeOK
<1>2. \A n \in 1 .. N : jobs[n] \in Pes
  BY <1>1 DEF TypeOK
<1>3. /\ b \in [0 .. N -> Nat]
      /\ \A n \in 1 .. N :
           IF jobs[n].s = s
           THEN Numbered(jobs[n].units, b[n - 1]) /\ b[n] = b[n - 1] + Len(jobs[n].units)
           ELSE b[n] = b[n - 1]
  BY <1>1 DEF Counts
<1>4. PICK d \in Nat : d = b[0]
  BY <1>3
<1>. DEFINE T == {n \in 0 .. N : b[n] - d \in Nat /\ pending[n] = Numbers(d, b[n] - d)}
<1>5. 0 \in T
  <2>1. pending[0] = << >>
    BY <1>1 DEF IsPending
  <2>2. Numbers(d, 0) = << >>
    BY DEF Numbers
  <2>3. b[0] - d = 0
    BY <1>4
  <2>. QED  BY <2>1, <2>2, <2>3
<1>6. ASSUME NEW n \in 0 .. N - 1, n \in T
      PROVE  n + 1 \in T
  <2>1. n + 1 \in 1 .. N /\ n + 1 \in 0 .. N /\ n + 1 # 0 /\ (n + 1) - 1 = n
    OBVIOUS
  <2>2. PICK m \in 1 .. N : m = n + 1 /\ m - 1 = n /\ m \in 0 .. N /\ m # 0
    BY <2>1
  <2>3. pending[m] = IF jobs[m].s = s THEN pending[n] \o Ids(jobs[m].units) ELSE pending[n]
    <3>1. pending[m] = IF m = 0 THEN << >>
                       ELSE IF jobs[m].s = s THEN pending[m - 1] \o Ids(jobs[m].units)
                       ELSE pending[m - 1]
      BY <1>1, <2>2, Zenon DEF IsPending
    <3>. QED  BY <2>2, <3>1, Zenon
  <2>4. PICK x \in Nat : x = b[n] - d /\ b[n] = d + x /\ pending[n] = Numbers(d, x)
    BY <1>3, <1>6
  <2>5. CASE jobs[m].s = s
    <3>1. PICK units \in Seq(Unit) : units = jobs[m].units
      BY <1>2, PesFields
    <3>2. PICK l \in Nat : l = Len(units)
      BY <3>1
    <3>3. Numbered(units, d + x) /\ b[m] = d + x + l
      BY <1>3, <2>2, <2>4, <2>5, <3>1, <3>2
    <3>4. Ids(units) = Numbers(d + x, l)
      BY <3>2, <3>3, IdsNumbered
    <3>5. pending[m] = Numbers(d, x) \o Numbers(d + x, l)
      BY <2>3, <2>4, <2>5, <3>1, <3>4
    <3>6. pending[m] = Numbers(d, x + l)
      BY <3>5, NumbersJoin
    <3>7. b[m] - d = x + l
      BY <3>3
    <3>. QED  BY <2>2, <3>6, <3>7
  <2>6. CASE jobs[m].s # s
    <3>1. pending[m] = Numbers(d, x)
      BY <2>3, <2>4, <2>6
    <3>2. b[m] = b[n]
      BY <1>3, <2>2, <2>6
    <3>. QED  BY <2>2, <2>4, <3>1, <3>2
  <2>. QED  BY <2>5, <2>6
<1>7. \A n \in 0 .. N : n \in T
  <2>. HIDE DEF T
  <2>. QED  BY <1>5, <1>6, InductionTo
<1>. QED  BY <1>1, <1>4, <1>7

(* What is pending of a stream is what its numbers say.                    *)
LEMMA PendingInOrder ==
  ASSUME TypeOK, OrderInv, NEW s \in Streams
  PROVE  Pending(s) = Numbers(done[s], given[s] - done[s])
<1>. DEFINE pending == CHOOSE g : g = [n \in 0 .. Len(jobs) |->
                         IF n = 0 THEN << >>
                         ELSE IF jobs[n].s = s
                              THEN g[n - 1] \o [k \in 1 .. Len(jobs[n].units) |-> jobs[n].units[k].id]
                              ELSE g[n - 1]]
<1>1. PICK N \in Nat : N = Len(jobs)
  BY DEF TypeOK
<1>2. IsPending(pending, s, Len(jobs))
  <2>1. Len(jobs) \in Nat
    BY <1>1
  <2>2. \E g : IsPending(g, s, Len(jobs))
    BY <2>1, PendingExists
  <2>. QED  BY <2>2, Zenon DEF IsPending, Ids
<1>3. Pending(s) = pending[Len(jobs)] \o Ids(held[s].units)
  BY DEF Pending, Ids
<1>. HIDE DEF pending
<1>4. PICK b : InOrder(s, b)
  BY DEF OrderInv
<1>5. Counts(s, b) /\ b[0] = done[s]
  BY <1>4 DEF InOrder, Counts
<1>6. N \in 0 .. N
  OBVIOUS
<1>7. b[N] - b[0] \in Nat /\ pending[N] = Numbers(b[0], b[N] - b[0])
  BY <1>1, <1>2, <1>5, <1>6, PendingNumbers
<1>8. PICK d \in Nat, x \in Nat : d = done[s] /\ x = b[N] - d /\ b[N] = d + x
  <2>1. b[N] \in Nat /\ done[s] \in Nat
    BY <1>1, <1>5, <1>6 DEF Counts, TypeOK
  <2>. QED  BY <1>5, <1>7, <2>1
<1>9. PICK units \in Seq(Unit) : units = held[s].units
  BY DEF TypeOK, Payload
<1>10. PICK l \in Nat : l = Len(units)
  BY <1>9
<1>11. Numbered(units, d + x) /\ given[s] = d + x + l
  BY <1>1, <1>4, <1>8, <1>9, <1>10 DEF InOrder
<1>12. Ids(units) = Numbers(d + x, l)
  BY <1>10, <1>11, IdsNumbered
<1>13. Pending(s) = Numbers(d, x) \o Numbers(d + x, l)
  BY <1>1, <1>3, <1>5, <1>7, <1>8, <1>9, <1>12
<1>14. Pending(s) = Numbers(d, x + l)
  BY <1>13, NumbersJoin
<1>15. given[s] - done[s] = x + l
  BY <1>8, <1>11
<1>. QED  BY <1>8, <1>14, <1>15

(* No unit of a stream is lost, repeated or overtaken between              *)
(* mpegts_write_packet and the end of its PES, for any streams, sizes,     *)
(* limits and flushes: those in the jobs and those gathered are exactly the*)
(* ones given and not written, in their order.                             *)
THEOREM InOrderOnceHolds == Spec => []InOrderOnce
<1>1. Init => TypeOK /\ FitsInv /\ OrderInv
  BY InitType, InitFits, InitOrdered
<1>2. TypeOK /\ FitsInv /\ OrderInv /\ [Next]_vars => (TypeOK /\ FitsInv /\ OrderInv)'
  BY NextType, NextFits, NextInOrder
<1>3. TypeOK /\ OrderInv => InOrderOnce
  <2>1. ASSUME TypeOK, OrderInv, NEW s \in Streams
        PROVE  Pending(s) = [k \in 1 .. given[s] - done[s] |-> done[s] + k]
    BY <2>1, PendingInOrder DEF Numbers
  <2>. QED  BY <2>1 DEF InOrderOnce
<1>. QED  BY <1>1, <1>2, <1>3, PTL DEF Spec

-----------------------------------------------------------------------------
(***************************************************************************)
(* Each call comes to its end.                                             *)
(***************************************************************************)

(* How much too early the PES in hand is by the clock, in PCR units.       *)
Slack   == (Head(jobs).dts - max_delay) * PcrScale - get_pcr(sent, first_pcr)
EarlyBy == Larger(0, Slack)

(* What is left of the call is less: fewer PES, or fewer bytes of the one  *)
(* in hand, or it is no fresh one any more, or it is less early.  These    *)
(* are four natural numbers, so a call has an end.                         *)
Less ==
  \/ Len(jobs') < Len(jobs)
  \/ /\ Len(jobs') = Len(jobs)
     /\ \/ Head(jobs').left < Head(jobs).left
        \/ /\ Head(jobs').left = Head(jobs).left
           /\ \/ Head(jobs).fresh /\ ~Head(jobs').fresh
              \/ /\ ~Head(jobs).fresh /\ ~Head(jobs').fresh
                 /\ EarlyBy \in Nat /\ EarlyBy' \in Nat /\ EarlyBy' < EarlyBy
RunsDown == [][jobs # << >> => Less]_vars

(* A product grows with its first factor.                                  *)
LEMMA ProductGrows ==
  ASSUME NEW a \in Int, NEW b \in Int, NEW u \in Nat, a <= b
  PROVE  a * u <= b * u
<1>1. PICK k \in Nat : b = a + k
  <2>1. b - a \in Nat /\ b = a + (b - a)
    OBVIOUS
  <2>. QED  BY <2>1
<1>2. b * u = a * u + k * u /\ k * u \in Nat /\ a * u \in Int
  BY <1>1
<1>. QED  BY <1>2

(* A clock whose ticks are before a time is itself before it.              *)
LEMMA BeforeTick ==
  ASSUME NEW x \in Int, NEW e \in Int, Ticks(x) < e
  PROVE  x < e * PcrScale
<1>1. PcrScale \in 1 .. 512 /\ PcrScale \in Nat
  BY PcrAssumption
<1>2. PICK t \in Int : t = Ticks(x)
  BY DivTowardsZero
<1>3. t + 1 <= e
  BY <1>2
<1>4. (t + 1) * PcrScale <= e * PcrScale
  BY <1>1, <1>2, <1>3, ProductGrows
<1>5. (t + 1) * PcrScale = t * PcrScale + PcrScale /\ t * PcrScale \in Int
  BY <1>1, <1>2
<1>6. x - t * PcrScale < PcrScale
  <2>1. /\ x >= 0 => x - t * PcrScale \in 0 .. PcrScale - 1
        /\ x < 0  => x - t * PcrScale \in -(PcrScale - 1) .. 0
    BY <1>2, DivTowardsZero
  <2>. QED  BY <1>1, <1>5, <2>1
<1>7. e * PcrScale \in Int
  BY <1>1
<1>. QED  BY <1>1, <1>4, <1>5, <1>6, <1>7

(* The clock grows by a packet's time with each packet.                    *)
LEMMA ClockGrows ==
  ASSUME NEW m \in Nat, NEW n \in Nat, NEW first \in Int
  PROVE  /\ m <= n => get_pcr(m, first) <= get_pcr(n, first)
         /\ m < n => get_pcr(m, first) < get_pcr(n, first)
<1>1. PacketPcr \in Nat /\ PacketPcr > 0 /\ PcrOffset \in Nat
  BY TimesAssumption
<1>2. /\ get_pcr(m, first) = m * PacketPcr + PcrOffset + first
      /\ get_pcr(n, first) = n * PacketPcr + PcrOffset + first
      /\ m * PacketPcr \in Int /\ n * PacketPcr \in Int
  BY <1>1 DEF get_pcr
<1>3. m <= n => m * PacketPcr <= n * PacketPcr
  BY <1>1, ProductGrows
<1>4. ASSUME m < n
      PROVE  m * PacketPcr < n * PacketPcr
  <2>1. (m + 1) * PacketPcr <= n * PacketPcr
    BY <1>1, <1>4, ProductGrows
  <2>2. (m + 1) * PacketPcr = m * PacketPcr + PacketPcr
    BY <1>1
  <2>. QED  BY <1>1, <1>2, <2>1, <2>2
<1>. QED  BY <1>1, <1>2, <1>3, <1>4

(* Padding makes the PES less early.                                       *)
LEMMA PadLess == ASSUME TypeOK, Pad PROVE Less
<1>1. PICK j \in Pes, packet \in Packet : \E t :
        /\ jobs # << >> /\ j = Head(jobs) /\ t = Turn(j) /\ t.pad
        /\ Turned(j, t, Null, packet)
        /\ jobs' = <<[j EXCEPT !.fresh = FALSE]>> \o Tail(jobs)
  BY PadIs
<1>2. PICK t :
        /\ jobs # << >> /\ j = Head(jobs) /\ t = Turn(j) /\ t.pad
        /\ Turned(j, t, Null, packet)
        /\ jobs' = <<[j EXCEPT !.fresh = FALSE]>> \o Tail(jobs)
  BY <1>1
<1>. DEFINE k == [j EXCEPT !.fresh = FALSE]
<1>3. k \in Pes /\ k.left = j.left /\ k.dts = j.dts /\ ~k.fresh
  BY DEF Pes
<1>4. jobs' = <<k>> \o Tail(jobs)
  BY <1>2
<1>. HIDE DEF k
<1>5. Head(jobs') = k /\ Len(jobs') = Len(jobs)
  <2>1. jobs \in Seq(Pes)
    BY DEF TypeOK
  <2>. QED  BY <1>2, <1>3, <1>4, <2>1
<1>6. CASE j.fresh
  <2>1. Head(jobs').left = Head(jobs).left /\ Head(jobs).fresh /\ ~Head(jobs').fresh
    BY <1>2, <1>3, <1>5, <1>6
  <2>. QED  BY <1>5, <2>1 DEF Less
<1>7. CASE ~j.fresh
  <2>1. /\ t.first = FirstPcr(j) /\ t.pad = TooEarly(j, t.n, t.first)
        /\ t.n \in Nat /\ t.n >= sent /\ t.first \in Int
    BY <1>2, TurnFields, TurnType
  <2>2. sent \in Nat /\ first_pcr \in Int
    BY DEF TypeOK
  <2>3. t.first = first_pcr
    BY <1>7, <2>1 DEF FirstPcr
  <2>4. first_pcr' = first_pcr
    BY <1>2, <2>3 DEF Turned
  <2>5. sent' \in Nat /\ sent' > sent
    BY <1>2, TurnedType
  <2>6. PICK D \in Int, delay \in Int : D = j.dts /\ delay = max_delay
    BY PesFields, TimesAssumption
  <2>7. PICK at \in Int : at = get_pcr(t.n, first_pcr)
    <3>1. t.n \in Int /\ first_pcr \in Int
      BY <2>1, <2>2
    <3>2. get_pcr(t.n, first_pcr) \in Int
      BY <3>1, ClockType
    <3>. QED  BY <3>2
  <2>8. PICK now \in Int : now = get_pcr(sent, first_pcr)
    <3>1. sent \in Int /\ first_pcr \in Int
      BY <2>2
    <3>2. get_pcr(sent, first_pcr) \in Int
      BY <3>1, ClockType
    <3>. QED  BY <3>2
  <2>9. PICK then \in Int : then = get_pcr(sent', first_pcr)
    BY <2>2, <2>5, ClockType
  <2>10. now <= at
    BY <2>1, <2>2, <2>7, <2>8, ClockGrows
  <2>11. now < then
    BY <2>2, <2>5, <2>8, <2>9, ClockGrows
  <2>12. D - Ticks(at) > delay
    <3>1. TooEarly(j, t.n, t.first)
      BY <1>2, <2>1
    <3>. QED  BY <2>3, <2>6, <2>7, <3>1 DEF TooEarly
  <2>13. Ticks(at) < D - delay
    <3>1. Ticks(at) \in Int
      BY DivTowardsZero
    <3>. QED  BY <2>12, <3>1
  <2>14. at < (D - delay) * PcrScale
    <3>1. D - delay \in Int
      OBVIOUS
    <3>. QED  BY <2>13, <3>1, BeforeTick
  <2>15. PICK until \in Int : until = (D - delay) * PcrScale
    <3>1. PcrScale \in Int
      BY PcrAssumption
    <3>. QED  BY <3>1
  <2>16. Slack = until - now
    BY <1>2, <2>6, <2>8, <2>15 DEF Slack
  <2>17. Slack' = until - then
    <3>1. Slack' = (Head(jobs').dts - max_delay) * PcrScale - get_pcr(sent', first_pcr')
      BY DEF Slack, get_pcr
    <3>. QED  BY <1>3, <1>5, <2>4, <2>6, <2>9, <2>15, <3>1
  <2>18. EarlyBy = until - now
    BY <2>10, <2>14, <2>15, <2>16 DEF EarlyBy, Larger
  <2>19. EarlyBy' = IF 0 >= until - then THEN 0 ELSE until - then
    BY <2>17 DEF EarlyBy, Larger
  <2>20. EarlyBy \in Nat /\ EarlyBy' \in Nat /\ EarlyBy' < EarlyBy
    BY <2>10, <2>11, <2>14, <2>15, <2>18, <2>19
  <2>21. Head(jobs').left = Head(jobs).left /\ ~Head(jobs).fresh /\ ~Head(jobs').fresh
    BY <1>2, <1>3, <1>5, <1>7
  <2>. QED  BY <1>5, <2>20, <2>21 DEF Less
<1>. QED  BY <1>6, <1>7

(* A packet takes some bytes of the PES, or is its last.                   *)
LEMMA EmitLess == ASSUME TypeOK, Emit PROVE Less
<1>1. PICK j \in Pes : \E t :
        /\ jobs # << >> /\ j = Head(jobs) /\ t = Turn(j)
        /\ IF RestOf(j, t).left > 0
           THEN jobs' = <<RestOf(j, t)>> \o Tail(jobs)
           ELSE jobs' = Tail(jobs)
  BY EmitIs
<1>2. PICK t :
        /\ jobs # << >> /\ j = Head(jobs) /\ t = Turn(j)
        /\ IF RestOf(j, t).left > 0
           THEN jobs' = <<RestOf(j, t)>> \o Tail(jobs)
           ELSE jobs' = Tail(jobs)
  BY <1>1
<1>3. jobs \in Seq(Pes)
  BY DEF TypeOK
<1>. DEFINE rest == RestOf(j, t)
<1>4. rest.left \in Nat /\ rest.left < j.left /\ (rest.left > 0 => rest \in Pes)
  BY <1>2, RestOfType
<1>5. IF rest.left > 0 THEN jobs' = <<rest>> \o Tail(jobs) ELSE jobs' = Tail(jobs)
  BY <1>2
<1>. HIDE DEF rest
<1>6. CASE rest.left > 0
  <2>1. jobs' = <<rest>> \o Tail(jobs)
    BY <1>5, <1>6
  <2>2. Head(jobs') = rest /\ Len(jobs') = Len(jobs)
    BY <1>2, <1>3, <1>4, <1>6, <2>1
  <2>3. Head(jobs').left < Head(jobs).left
    BY <1>2, <1>4, <2>2
  <2>. QED  BY <2>2, <2>3 DEF Less
<1>7. CASE ~ (rest.left > 0)
  <2>1. jobs' = Tail(jobs)
    BY <1>5, <1>7
  <2>2. Len(jobs') < Len(jobs)
    BY <1>2, <1>3, <2>1
  <2>. QED  BY <2>2 DEF Less
<1>. QED  BY <1>6, <1>7

(* Nothing else happens while a call has PES to write.                     *)
LEMMA NextLess ==
  ASSUME TypeOK, jobs # << >>, Next
  PROVE  Less
<1>1. ASSUME NEW s \in Streams, NEW kind \in Kinds[s], NEW gap \in Gaps[s], GiveUnit(s, kind, gap)
      PROVE  FALSE
  BY <1>1 DEF GiveUnit
<1>2. ASSUME NEW p \in Sections, NEW len \in SectionLens, GiveSection(p, len)
      PROVE  FALSE
  BY <1>2 DEF GiveSection
<1>3. ~Flush
  BY DEF Flush
<1>. QED  BY <1>1, <1>2, <1>3, PadLess, EmitLess, Zenon DEF Next

(* Every turn of mpegts_write_pes's loop brings the call nearer to its     *)
(* end, for all sizes, times, rates and delays: in particular the clock    *)
(* cannot stand still while the loop pads, and padding waits for no time   *)
(* that moves on.                                                          *)
THEOREM RunsDownHolds == Spec => RunsDown
<1>1. TypeOK /\ [Next]_vars => [jobs # << >> => Less]_vars
  BY NextLess
<1>. QED  BY <1>1, TypeOKHolds, PTL DEF Spec, RunsDown

-----------------------------------------------------------------------------
(***************************************************************************)
(* Clock references before the dts of their PES.                           *)
(***************************************************************************)

(* How long, by the clock, the packets of the SDT last, and those of the   *)
(* PAT and PMT.                                                            *)
SdtPcr == SectionPackets(TableLen.sdt) * PacketPcr
PatPcr == (SectionPackets(TableLen.pat) + SectionPackets(TableLen.pmt)) * PacketPcr

(* What a packet has room for at least: its header, an adaptation field    *)
(* with a clock reference, and a PES header with both times take 31 bytes. *)
LeastPayload == TS_PACKET_SIZE - 31

(* n packets of a PES, the SDT r times and the PAT and PMT q times.        *)
Lasting(n, r, q) == n * PacketPcr + r * SdtPcr + q * PatPcr

(* The clock when padding for the PES is over.                             *)
PaddedTo(j) == (j.dts - max_delay) * PcrScale + PacketPcr

(* A PES that the loop comes to at the clock `from` is written by `to`:    *)
(* after what padding it needs, with as many packets as it can have, and   *)
(* with the tables as often as their periods and once more.  If it is of   *)
(* the PCR stream that is before its dts.                                  *)
Takes(j, from, to) ==
  /\ j.dts > NOPTS
  /\ \E n, r, q \in Nat :
       /\ j.left <= n * LeastPayload
       /\ n <= r * sdt_packet_period /\ n <= q * pat_packet_period
       /\ to >= Larger(from, PaddedTo(j)) + Lasting(n, r + 1, q + 1)
  /\ j.s = PcrStream => to <= j.dts * PcrScale

(* The clock as the loop finds it.                                         *)
Now == get_pcr(sent, FirstPcr(Head(jobs)))

(* The call can write its PES in time, one after the other.                *)
OnTime ==
  \E end \in [1 .. Len(jobs) -> Int] :
    /\ Takes(Head(jobs), Now, end[1])
    /\ \A k \in 2 .. Len(jobs) : Takes(jobs[k], end[k - 1], end[k])

(* Each call can, when it begins.                                          *)
CallsOnTime == [][CBR /\ jobs = << >> /\ jobs' # << >> => OnTime']_vars

(* In n turns a countdown of `period` that is at c ends r times at most.   *)
EndsWithin(c, n, r, period) == c + n < (r + 1) * period

(* A PES that is begun, with the countdowns of the tables where they are.  *)
Goes(j, tab, from, to) ==
  /\ j.dts > NOPTS
  /\ j.dts - Ticks(from) <= max_delay
  /\ \E n, r, q \in Nat :
       /\ j.left <= n * LeastPayload
       /\ EndsWithin(tab.sdt_count, n, r, sdt_packet_period)
       /\ EndsWithin(tab.pat_count, n, q, pat_packet_period)
       /\ to >= from + Lasting(n, r, q)
  /\ j.s = PcrStream => to <= j.dts * PcrScale

(* Tables that were written when they were due for this dts.               *)
NoneDue(dts, tab) ==
  /\ tab.last_sdt_ts # NOPTS /\ dts - tab.last_sdt_ts < sdt_period
  /\ tab.last_pat_ts # NOPTS /\ dts - tab.last_pat_ts < pat_period

(* The PES in hand is written by `to`.                                     *)
HandOver(j, tab, from, to) ==
  /\ IF j.start THEN Takes(j, from, to) ELSE Goes(j, tab, from, to)
  /\ ~j.fresh => NoneDue(j.dts, tab)

(* One after the other the PES are written in time.                        *)
InTime(list, tab, now) ==
  \E end \in [1 .. Len(list) -> Int] :
    /\ HandOver(list[1], tab, now, end[1])
    /\ \A k \in 2 .. Len(list) : Takes(list[k], end[k - 1], end[k])

(* The countdowns are within their periods, and the call is on time still. *)
CountsInv ==
  /\ tables.sdt_count < sdt_packet_period
  /\ tables.pat_count < pat_packet_period

InTimeInv == CBR /\ jobs # << >> => InTime(jobs, tables, Now)

(* The times are natural numbers.                                          *)
LEMMA TablePcrType ==
  /\ SdtPcr \in Nat /\ PatPcr \in Nat /\ PacketPcr \in Nat \ {0}
  /\ LeastPayload \in Nat \ {0}
  /\ sdt_packet_period \in Nat \ {0} /\ pat_packet_period \in Nat \ {0}
  /\ sdt_period \in Nat \ {0} /\ pat_period \in Nat \ {0}
<1>1. /\ SectionPackets(TableLen.sdt) \in Nat /\ SectionPackets(TableLen.pat) \in Nat
      /\ SectionPackets(TableLen.pmt) \in Nat
  BY SectionsAssumption, SectionPacketsType DEF SectionLen
<1>2. PacketPcr \in Nat \ {0}
  BY TimesAssumption
<1>3. \A a, b \in Nat : a * b \in Nat
  OBVIOUS
<1>4. SdtPcr \in Nat /\ PatPcr \in Nat
  BY <1>1, <1>2, <1>3 DEF SdtPcr, PatPcr
<1>5. LeastPayload \in Nat \ {0}
  BY PacketSizeAssumption DEF LeastPayload
<1>. QED  BY <1>2, <1>4, <1>5, PeriodsAssumption

(* Turn by turn: a packet, and tables or none.                             *)
LEMMA LastingStep ==
  ASSUME NEW n \in Nat \ {0}, NEW r \in Nat, NEW q \in Nat, NEW a \in BOOLEAN, NEW b \in BOOLEAN
  PROVE  /\ Lasting(n - 1, r, q) \in Nat
         /\ Lasting(n, IF a THEN r + 1 ELSE r, IF b THEN q + 1 ELSE q)
              = Lasting(n - 1, r, q) + PacketPcr + (IF a THEN SdtPcr ELSE 0)
                                                 + (IF b THEN PatPcr ELSE 0)
<1>1. PICK S \in Nat, P \in Nat, K \in Nat : S = SdtPcr /\ P = PatPcr /\ K = PacketPcr
  BY TablePcrType
<1>2. PICK m \in Nat : m = n - 1 /\ n = m + 1
  <2>1. n - 1 \in Nat /\ n = (n - 1) + 1
    OBVIOUS
  <2>. QED  BY <2>1
<1>3. PICK x \in Nat : x = m * K
  OBVIOUS
<1>4. PICK y \in Nat : y = r * S
  OBVIOUS
<1>5. PICK z \in Nat : z = q * P
  OBVIOUS
<1>6. n * K = x + K
  BY <1>2, <1>3
<1>7. (r + 1) * S = y + S /\ (q + 1) * P = z + P
  BY <1>4, <1>5
<1>8. Lasting(n - 1, r, q) = x + y + z
  BY <1>1, <1>2, <1>3, <1>4, <1>5 DEF Lasting
<1>9. PICK rr \in Nat : rr = IF a THEN r + 1 ELSE r
  OBVIOUS
<1>10. PICK qq \in Nat : qq = IF b THEN q + 1 ELSE q
  OBVIOUS
<1>11. rr * S = IF a THEN y + S ELSE y
  BY <1>4, <1>7, <1>9
<1>12. qq * P = IF b THEN z + P ELSE z
  BY <1>5, <1>7, <1>10
<1>13. Lasting(n, rr, qq) = (x + K) + rr * S + qq * P
  BY <1>1, <1>6 DEF Lasting
<1>. QED  BY <1>1, <1>8, <1>9, <1>10, <1>11, <1>12, <1>13

(* A countdown that its period ends, or that starts over for another       *)
(* reason.                                                                 *)
LEMMA CountStep ==
  ASSUME NEW P \in Nat \ {0}, NEW c \in Nat, c < P, NEW due \in BOOLEAN, c + 1 = P => due,
         NEW c2, c2 = IF due THEN 0 ELSE c + 1
  PROVE  c2 \in Nat /\ c2 < P
  OBVIOUS

(* From the first packet on the tables come with their periods,            *)
LEMMA RoundsBegin ==
  ASSUME NEW P \in Nat \ {0}, NEW c \in Nat, c < P,
         NEW m \in Nat, NEW r \in Nat, m + 1 <= r * P
  PROVE  EndsWithin(c, m, r, P)
<1>1. PICK x \in Nat : x = r * P
  OBVIOUS
<1>2. (r + 1) * P = x + P
  BY <1>1
<1>. QED  BY <1>1, <1>2 DEF EndsWithin

(* which alone end a countdown,                                            *)
CountsOn(c, c2, due, period) ==
  c2 = (IF due THEN 0 ELSE c + 1) /\ (due <=> c + 1 = period)

(* each time with one round less to come.                                  *)
LEMMA RoundsGoOn ==
  ASSUME NEW P \in Nat \ {0}, NEW c \in Nat, NEW due \in BOOLEAN, NEW c2 \in Nat,
         CountsOn(c, c2, due, P),
         NEW n \in Nat, n # 0, NEW r \in Nat, EndsWithin(c, n, r, P)
  PROVE  \E r2 \in Nat : EndsWithin(c2, n - 1, r2, P) /\ r = IF due THEN r2 + 1 ELSE r2
<1>0. PICK m \in Nat : n = m + 1 /\ n - 1 = m
  <2>1. n - 1 \in Nat /\ n = (n - 1) + 1
    OBVIOUS
  <2>. QED  BY <2>1
<1>1. CASE due
  <2>1. r # 0
    BY <1>1 DEF EndsWithin, CountsOn
  <2>2. PICK s \in Nat : r = s + 1
    <3>1. r - 1 \in Nat /\ r = (r - 1) + 1
      BY <2>1
    <3>. QED  BY <3>1
  <2>3. PICK x \in Nat : x = s * P
    OBVIOUS
  <2>4. (s + 1) * P = x + P
    BY <2>3
  <2>5. (r + 1) * P = x + P + P
    BY <2>2, <2>3
  <2>6. EndsWithin(c2, m, s, P)
    BY <1>0, <1>1, <2>4, <2>5 DEF EndsWithin, CountsOn
  <2>. QED  BY <1>0, <1>1, <2>2, <2>6
<1>2. CASE ~due
  <2>1. EndsWithin(c2, m, r, P)
    BY <1>0, <1>2 DEF EndsWithin, CountsOn
  <2>. QED  BY <1>0, <1>2, <2>1
<1>. QED  BY <1>1, <1>2

(* Packets that are enough for a PES are, but for one, for what is left    *)
(* when one was written.                                                   *)
LEMMA EnoughStep ==
  ASSUME NEW left \in Nat \ {0}, NEW n \in Nat, left <= n * LeastPayload
  PROVE  /\ n # 0
         /\ \A rest \in Nat : rest + LeastPayload <= left => rest <= (n - 1) * LeastPayload
<1>1. PICK L \in Nat \ {0} : L = LeastPayload
  BY TablePcrType
<1>2. n # 0
  <2>1. 0 * L = 0
    OBVIOUS
  <2>. QED  BY <1>1, <2>1
<1>3. PICK m \in Nat : m = n - 1 /\ n = m + 1
  <2>1. n - 1 \in Nat /\ n = (n - 1) + 1
    BY <1>2
  <2>. QED  BY <2>1
<1>4. PICK x \in Nat : x = m * L
  OBVIOUS
<1>5. n * L = x + L
  BY <1>3, <1>4
<1>. QED  BY <1>1, <1>2, <1>3, <1>4, <1>5

(* The last tick of a later time is no earlier.                            *)
LEMMA TicksGrow ==
  ASSUME NEW x \in Int, NEW y \in Int, x <= y
  PROVE  Ticks(x) \in Int /\ Ticks(y) \in Int /\ Ticks(x) <= Ticks(y)
<1>1. PcrScale \in 1 .. 512 /\ PcrScale \in Nat \ {0}
  BY PcrAssumption
<1>2. PICK a \in Int : a = Ticks(x)
  BY DivTowardsZero
<1>3. PICK b \in Int : b = Ticks(y)
  BY DivTowardsZero
<1>4. PICK S \in Nat \ {0} : S = PcrScale
  BY <1>1
<1>5. PICK as \in Int : as = a * S
  OBVIOUS
<1>6. PICK bs \in Int : bs = b * S
  OBVIOUS
<1>7. /\ x >= 0 => as <= x /\ x < as + S
      /\ x < 0  => x <= as /\ as < x + S
  <2>1. /\ x >= 0 => x - Ticks(x) * PcrScale \in 0 .. PcrScale - 1
        /\ x < 0  => x - Ticks(x) * PcrScale \in -(PcrScale - 1) .. 0
    BY DivTowardsZero
  <2>. QED  BY <1>2, <1>4, <1>5, <2>1
<1>8. /\ y >= 0 => bs <= y /\ y < bs + S
      /\ y < 0  => y <= bs /\ bs < y + S
  <2>1. /\ y >= 0 => y - Ticks(y) * PcrScale \in 0 .. PcrScale - 1
        /\ y < 0  => y - Ticks(y) * PcrScale \in -(PcrScale - 1) .. 0
    BY DivTowardsZero
  <2>. QED  BY <1>3, <1>4, <1>6, <2>1
<1>9. ASSUME b < a PROVE FALSE
  <2>1. bs + S <= as
    <3>1. b + 1 <= a
      BY <1>9
    <3>2. (b + 1) * S <= a * S
      BY <3>1, ProductGrows
    <3>3. (b + 1) * S = bs + S
      BY <1>6
    <3>. QED  BY <1>5, <3>2, <3>3
  <2>2. CASE x >= 0
    BY <1>4, <1>5, <1>6, <1>7, <1>8, <2>1, <2>2
  <2>3. CASE x < 0 /\ y < 0
    BY <1>4, <1>5, <1>6, <1>7, <1>8, <2>1, <2>3
  <2>4. CASE x < 0 /\ y >= 0
    <3>1. as < S /\ 0 < bs + S
      BY <1>4, <1>5, <1>6, <1>7, <1>8, <2>4
    <3>2. a <= 0
      <4>1. ASSUME a >= 1 PROVE FALSE
        <5>1. 1 * S <= a * S
          BY <4>1, ProductGrows
        <5>. QED  BY <1>5, <3>1, <5>1
      <4>. QED  BY <4>1
    <3>3. b >= 0
      <4>1. ASSUME b + 1 <= 0 PROVE FALSE
        <5>1. (b + 1) * S <= 0 * S
          BY <4>1, ProductGrows
        <5>2. (b + 1) * S = bs + S /\ 0 * S = 0
          BY <1>6
        <5>. QED  BY <3>1, <5>1, <5>2
      <4>. QED  BY <4>1
    <3>. QED  BY <1>9, <3>2, <3>3
  <2>. QED  BY <2>2, <2>3, <2>4
<1>. QED  BY <1>2, <1>3, <1>9

(* A time not behind a tick has a last tick not behind it.                 *)
LEMMA TickOf ==
  ASSUME NEW x \in Int, NEW e \in Int, x <= e * PcrScale
  PROVE  Ticks(x) <= e
<1>1. PcrScale \in 1 .. 512 /\ PcrScale \in Nat \ {0}
  BY PcrAssumption
<1>2. PICK y \in Int : y = e * PcrScale
  BY <1>1
<1>3. Ticks(x) \in Int /\ Ticks(x) <= Ticks(y)
  BY <1>2, TicksGrow
<1>4. Ticks(y) <= e
  <2>1. PICK b \in Int : b = Ticks(y)
    BY DivTowardsZero
  <2>2. y - b * PcrScale \in -(PcrScale - 1) .. PcrScale - 1
    <3>1. /\ y >= 0 => y - Ticks(y) * PcrScale \in 0 .. PcrScale - 1
          /\ y < 0  => y - Ticks(y) * PcrScale \in -(PcrScale - 1) .. 0
      BY DivTowardsZero
    <3>. QED  BY <1>1, <2>1, <3>1
  <2>3. ASSUME e + 1 <= b PROVE FALSE
    <3>1. (e + 1) * PcrScale <= b * PcrScale
      BY <1>1, <2>3, ProductGrows
    <3>2. (e + 1) * PcrScale = y + PcrScale /\ b * PcrScale \in Int
      BY <1>1, <1>2
    <3>. QED  BY <1>1, <2>2, <3>1, <3>2
  <2>. QED  BY <2>1, <2>3
<1>5. Ticks(y) \in Int
  BY DivTowardsZero
<1>. QED  BY <1>3, <1>4, <1>5

(* The tables of a turn are as many packets as their sections take.        *)
LEMMA TableSize ==
  ASSUME NEW sdt \in BOOLEAN, NEW pat \in BOOLEAN, cc \in [Pids -> 0 .. 15]
  PROVE  Len(TablePackets(sdt, pat))
           = (IF sdt THEN SectionPackets(TableLen.sdt) ELSE 0)
               + (IF pat THEN SectionPackets(TableLen.pat) + SectionPackets(TableLen.pmt) ELSE 0)
<1>1. TableLen.sdt \in Nat /\ TableLen.pat \in Nat /\ TableLen.pmt \in Nat
  BY SectionsAssumption DEF SectionLen
<1>2. SDT \in Pids /\ PAT \in Pids /\ PMT \in Pids
  BY DEF Pids
<1>3. PICK a \in Seq(Packet) : a = SectionOf(SDT, TableLen.sdt) /\ Len(a) = SectionPackets(TableLen.sdt)
  BY <1>1, <1>2, SectionOfType
<1>4. PICK b \in Seq(Packet) : b = SectionOf(PAT, TableLen.pat) /\ Len(b) = SectionPackets(TableLen.pat)
  BY <1>1, <1>2, SectionOfType
<1>5. PICK c \in Seq(Packet) : c = SectionOf(PMT, TableLen.pmt) /\ Len(c) = SectionPackets(TableLen.pmt)
  BY <1>1, <1>2, SectionOfType
<1>6. TablePackets(sdt, pat) = (IF sdt THEN a ELSE << >>) \o (IF pat THEN b \o c ELSE << >>)
  BY <1>3, <1>4, <1>5 DEF TablePackets
<1>. DEFINE front == IF sdt THEN a ELSE << >>
            back  == IF pat THEN b \o c ELSE << >>
<1>7. PICK x \in Seq(Packet) : x = front
  <2>1. CASE sdt
    BY <1>3, <2>1
  <2>2. CASE ~sdt
    <3>1. front = << >> /\ << >> \in Seq(Packet)
      BY <2>2
    <3>. QED  BY <3>1
  <2>. QED  BY <2>1, <2>2
<1>8. PICK y \in Seq(Packet) : y = back
  <2>1. CASE pat
    <3>1. back = b \o c /\ b \o c \in Seq(Packet)
      BY <1>4, <1>5, <2>1
    <3>. QED  BY <3>1
  <2>2. CASE ~pat
    <3>1. back = << >> /\ << >> \in Seq(Packet)
      BY <2>2
    <3>. QED  BY <3>1
  <2>. QED  BY <2>1, <2>2
<1>9. Len(x) = IF sdt THEN Len(a) ELSE 0
  BY <1>7
<1>10. Len(y) = IF pat THEN Len(b) + Len(c) ELSE 0
  BY <1>4, <1>5, <1>8
<1>11. Len(x \o y) = Len(x) + Len(y)
  BY <1>7, <1>8
<1>12. TablePackets(sdt, pat) = x \o y
  BY <1>6, <1>7, <1>8
<1>. QED  BY <1>3, <1>4, <1>5, <1>9, <1>10, <1>11, <1>12

(* So the clock of the turn's own packet is later by what they last.       *)
LEMMA TurnClock ==
  ASSUME TypeOK, NEW j \in Pes, NEW t, t = Turn(j)
  PROVE  /\ get_pcr(sent, t.first) \in Int /\ get_pcr(t.n, t.first) \in Int
         /\ get_pcr(t.n, t.first) = get_pcr(sent, t.first) + (IF t.sdt THEN SdtPcr ELSE 0)
                                                           + (IF t.pat THEN PatPcr ELSE 0)
         /\ get_pcr(t.n + 1, t.first) = get_pcr(t.n, t.first) + PacketPcr
<1>1. PICK sdt \in BOOLEAN, pat \in BOOLEAN : sdt = t.sdt /\ pat = t.pat
  BY TurnBool
<1>2. PICK A \in Nat, B \in Nat, C \in Nat :
        /\ A = SectionPackets(TableLen.sdt) /\ B = SectionPackets(TableLen.pat)
        /\ C = SectionPackets(TableLen.pmt)
  BY SectionsAssumption, SectionPacketsType DEF SectionLen
<1>3. PICK s0 \in Nat : s0 = sent
  BY DEF TypeOK
<1>4. PICK n \in Nat : n = t.n
  BY TurnType
<1>5. n = s0 + ((IF sdt THEN A ELSE 0) + (IF pat THEN B + C ELSE 0))
  <2>1. t.n = sent + Len(TablePackets(t.sdt, t.pat))
    BY TurnFields
  <2>2. cc \in [Pids -> 0 .. 15]
    BY DEF TypeOK
  <2>3. Len(TablePackets(sdt, pat)) = (IF sdt THEN A ELSE 0) + (IF pat THEN B + C ELSE 0)
    BY <1>2, <2>2, TableSize
  <2>. QED  BY <1>1, <1>3, <1>4, <2>1, <2>3
<1>6. PICK K \in Nat, O \in Nat, F \in Int : K = PacketPcr /\ O = PcrOffset /\ F = t.first
  BY TimesAssumption, TurnType
<1>7. get_pcr(sent, t.first) = s0 * K + O + F /\ get_pcr(t.n, t.first) = n * K + O + F
      /\ get_pcr(t.n + 1, t.first) = (n + 1) * K + O + F
  BY <1>3, <1>4, <1>6 DEF get_pcr
<1>8. PICK x \in Nat, y \in Nat : x = (IF sdt THEN A ELSE 0) /\ y = (IF pat THEN B + C ELSE 0)
  BY <1>2
<1>9. PICK sk \in Nat, xk \in Nat, yk \in Nat : sk = s0 * K /\ xk = x * K /\ yk = y * K
  OBVIOUS
<1>10. n * K = sk + xk + yk
  <2>1. n = s0 + (x + y)
    BY <1>5, <1>8
  <2>2. (s0 + (x + y)) * K = s0 * K + (x * K + y * K)
    BY <1>3, <1>8
  <2>. QED  BY <1>9, <2>1, <2>2
<1>11. xk = (IF sdt THEN SdtPcr ELSE 0)
  <2>1. 0 * K = 0
    OBVIOUS
  <2>. QED  BY <1>2, <1>6, <1>8, <1>9, <2>1 DEF SdtPcr
<1>12. yk = (IF pat THEN PatPcr ELSE 0)
  <2>1. 0 * K = 0
    OBVIOUS
  <2>. QED  BY <1>2, <1>6, <1>8, <1>9, <2>1 DEF PatPcr
<1>13. (n + 1) * K = n * K + K /\ n * K \in Nat
  OBVIOUS
<1>14. PICK now \in Int, then \in Int : now = get_pcr(sent, t.first) /\ then = get_pcr(t.n, t.first)
  BY <1>6, <1>7, <1>9, <1>10
<1>15. now = sk + O + F /\ then = (sk + xk + yk) + O + F
  BY <1>7, <1>9, <1>10, <1>14
<1>16. get_pcr(t.n + 1, t.first) = then + K
  BY <1>6, <1>7, <1>9, <1>13, <1>14
<1>17. then = now + xk + yk
  BY <1>6, <1>9, <1>15
<1>. QED  BY <1>1, <1>6, <1>11, <1>12, <1>14, <1>16, <1>17

(* What a turn does with the countdowns: they end with their periods, and  *)
(* once begun, a PES has no other reason for tables.                       *)
LEMMA TableTurn ==
  ASSUME TypeOK, NEW j \in Pes, NEW t, t = Turn(j),
         NEW tab, tab = TablesAfter(t.sdt, t.pat, j.dts)
  PROVE  /\ tab.sdt_count = IF t.sdt THEN 0 ELSE tables.sdt_count + 1
         /\ tab.pat_count = IF t.pat THEN 0 ELSE tables.pat_count + 1
         /\ tables.sdt_count + 1 = sdt_packet_period => t.sdt
         /\ tables.pat_count + 1 = pat_packet_period => t.pat
         /\ j.dts > NOPTS => NoneDue(j.dts, tab)
         /\ ~j.fresh /\ NoneDue(j.dts, tables) =>
              /\ t.sdt <=> tables.sdt_count + 1 = sdt_packet_period
              /\ t.pat <=> tables.pat_count + 1 = pat_packet_period
<1>1. /\ t.sdt = SdtDue(j.dts) /\ t.pat = PatDue(j.dts, ForcePat(j))
      /\ t.sdt \in BOOLEAN /\ t.pat \in BOOLEAN
  BY TurnFields, TurnBool
<1>2. /\ tab.sdt_count = IF t.sdt THEN 0 ELSE tables.sdt_count + 1
      /\ tab.pat_count = IF t.pat THEN 0 ELSE tables.pat_count + 1
      /\ tab.last_sdt_ts = IF t.sdt THEN Larger(j.dts, tables.last_sdt_ts) ELSE tables.last_sdt_ts
      /\ tab.last_pat_ts = IF t.pat THEN Larger(j.dts, tables.last_pat_ts) ELSE tables.last_pat_ts
  BY DEF TablesAfter
<1>3. PICK d \in Int : d = j.dts
  BY PesFields
<1>4. PICK ls \in Int, lp \in Int : ls = tables.last_sdt_ts /\ lp = tables.last_pat_ts
  BY DEF TypeOK
<1>5. sdt_period \in Nat \ {0} /\ pat_period \in Nat \ {0} /\ NOPTS \in Int
  BY TablePcrType, TimesAssumption
<1>6. ASSUME j.dts > NOPTS
      PROVE  NoneDue(j.dts, tab)
  <2>1. tab.last_sdt_ts # NOPTS /\ d - tab.last_sdt_ts < sdt_period
    <3>1. CASE t.sdt
      <4>1. tab.last_sdt_ts = IF d >= ls THEN d ELSE ls
        BY <1>2, <1>3, <1>4, <3>1 DEF Larger
      <4>. QED  BY <1>3, <1>4, <1>5, <1>6, <4>1
    <3>2. CASE ~t.sdt
      <4>1. tab.last_sdt_ts = ls /\ ls # NOPTS /\ ~(d - ls >= sdt_period)
        BY <1>1, <1>2, <1>3, <1>4, <3>2 DEF SdtDue
      <4>. QED  BY <1>3, <1>4, <1>5, <4>1
    <3>. QED  BY <1>1, <3>1, <3>2
  <2>2. tab.last_pat_ts # NOPTS /\ d - tab.last_pat_ts < pat_period
    <3>1. CASE t.pat
      <4>1. tab.last_pat_ts = IF d >= lp THEN d ELSE lp
        BY <1>2, <1>3, <1>4, <3>1 DEF Larger
      <4>. QED  BY <1>3, <1>4, <1>5, <1>6, <4>1
    <3>2. CASE ~t.pat
      <4>1. tab.last_pat_ts = lp /\ lp # NOPTS /\ ~(d - lp >= pat_period)
        BY <1>1, <1>2, <1>3, <1>4, <3>2 DEF PatDue
      <4>. QED  BY <1>3, <1>4, <1>5, <4>1
    <3>. QED  BY <1>1, <3>1, <3>2
  <2>. QED  BY <1>3, <2>1, <2>2 DEF NoneDue
<1>7. ASSUME ~j.fresh, NoneDue(j.dts, tables)
      PROVE  /\ t.sdt <=> tables.sdt_count + 1 = sdt_packet_period
             /\ t.pat <=> tables.pat_count + 1 = pat_packet_period
  <2>1. ls # NOPTS /\ ~(d - ls >= sdt_period) /\ lp # NOPTS /\ ~(d - lp >= pat_period)
    BY <1>3, <1>4, <1>5, <1>7 DEF NoneDue
  <2>2. ~ForcePat(j)
    BY <1>7 DEF ForcePat
  <2>3. SdtDue(j.dts) <=> tables.sdt_count + 1 = sdt_packet_period
    BY <1>3, <1>4, <2>1 DEF SdtDue
  <2>4. PatDue(j.dts, ForcePat(j)) <=> tables.pat_count + 1 = pat_packet_period
    BY <1>3, <1>4, <2>1, <2>2 DEF PatDue
  <2>. QED  BY <1>1, <2>3, <2>4
<1>8. /\ tables.sdt_count + 1 = sdt_packet_period => t.sdt
      /\ tables.pat_count + 1 = pat_packet_period => t.pat
  BY <1>1 DEF SdtDue, PatDue
<1>. QED  BY <1>2, <1>6, <1>7, <1>8

(* A packet that is not the PES's last has its room full.                  *)
LEMMA RestRoom ==
  ASSUME NEW j \in Pes, NEW t, t = Turn(j), RestOf(j, t).left > 0
  PROVE  RestOf(j, t).left + LeastPayload <= j.left
<1>1. PICK a \in Int : a = AfBytes(RandomAccess(j), WithPcr(j, t)) /\ a \in 0 .. 8
  BY DEF AfBytes
<1>2. PICK p \in Int : p = PesHeader(j.start, j.dts # j.pts, FALSE) /\ p \in 0 .. 19
  BY DEF PesHeader
<1>3. PICK left \in Nat : left = j.left
  BY PesFields
<1>4. PICK h \in Int : h = TsHeader + a + p /\ h <= 31
  <2>1. a \in 0 .. 8 /\ p \in 0 .. 19 /\ TsHeader = 4
    BY <1>1, <1>2 DEF TsHeader
  <2>2. TsHeader + a + p \in Int /\ TsHeader + a + p <= 31
    BY <2>1
  <2>. QED  BY <2>2
<1>5. TS_PACKET_SIZE \in Nat
  BY PacketSizeAssumption
<1>6. Layout(j, WithPcr(j, t)).len = PayloadLen(h, left)
  BY <1>1, <1>2, <1>3, <1>4 DEF Layout, PesPacket
<1>7. PICK len \in Int : len = Layout(j, WithPcr(j, t)).len
                         /\ len = IF TS_PACKET_SIZE - h > left THEN left ELSE TS_PACKET_SIZE - h
  BY <1>3, <1>4, <1>5, <1>6 DEF PayloadLen
<1>8. RestOf(j, t).left = left - len
  BY <1>3, <1>7 DEF RestOf, Pes
<1>. QED  BY <1>3, <1>4, <1>5, <1>7, <1>8 DEF LeastPayload

(* Such a time is a natural number.                                        *)
LEMMA LastingType ==
  ASSUME NEW n \in Nat, NEW r \in Nat, NEW q \in Nat
  PROVE  Lasting(n, r, q) \in Nat
<1>1. PICK S \in Nat, P \in Nat, K \in Nat : S = SdtPcr /\ P = PatPcr /\ K = PacketPcr
  BY TablePcrType
<1>2. n * K \in Nat /\ r * S \in Nat /\ q * P \in Nat
  OBVIOUS
<1>. QED  BY <1>1, <1>2 DEF Lasting

(* The end of the padding is a number.                                     *)
LEMMA PaddedToType ==
  ASSUME NEW j \in Pes
  PROVE  PaddedTo(j) \in Int
<1>1. PICK d \in Int, m \in Int, s \in Int, k \in Int :
        d = j.dts /\ m = max_delay /\ s = PcrScale /\ k = PacketPcr
  BY PesFields, TimesAssumption, PcrAssumption
<1>2. (d - m) * s + k \in Int
  OBVIOUS
<1>. QED  BY <1>1, <1>2 DEF PaddedTo

(* A PES that is written in time from some clock is from an earlier one.   *)
LEMMA TakesEarlier ==
  ASSUME NEW j \in Pes, NEW from \in Int, NEW earlier \in Int, NEW to \in Int,
         Takes(j, from, to), earlier <= Larger(from, PaddedTo(j))
  PROVE  Takes(j, earlier, to)
<1>1. PICK D \in Int : D = PaddedTo(j)
  BY PaddedToType
<1>2. PICK n \in Nat, r \in Nat, q \in Nat :
        /\ j.left <= n * LeastPayload
        /\ n <= r * sdt_packet_period /\ n <= q * pat_packet_period
        /\ to >= Larger(from, PaddedTo(j)) + Lasting(n, r + 1, q + 1)
  BY Zenon DEF Takes
<1>3. PICK x \in Nat : x = Lasting(n, r + 1, q + 1)
  BY LastingType
<1>4. Larger(earlier, D) <= Larger(from, D)
  BY <1>1 DEF Larger
<1>5. Larger(earlier, D) \in Int /\ Larger(from, D) \in Int
  BY DEF Larger
<1>6. to >= Larger(earlier, PaddedTo(j)) + Lasting(n, r + 1, q + 1)
  BY <1>1, <1>2, <1>3, <1>4, <1>5
<1>. QED  BY <1>2, <1>6, Zenon DEF Takes

(* A countdown with n turns to come in which it ends r times at most.      *)
Counting(c, c2, due, n, r, period) ==
  /\ c \in Nat /\ c2 \in Nat /\ due \in BOOLEAN /\ n \in Nat /\ n # 0 /\ r \in Nat
  /\ period \in Nat \ {0}
  /\ CountsOn(c, c2, due, period) /\ EndsWithin(c, n, r, period)

(* The next turn leaves it one turn, and one end if it ends.               *)
LEMMA CountingOn ==
  ASSUME NEW c, NEW c2, NEW due, NEW n, NEW r, NEW period, Counting(c, c2, due, n, r, period)
  PROVE  \E r2 \in Nat : EndsWithin(c2, n - 1, r2, period) /\ r = IF due THEN r2 + 1 ELSE r2
<1>1. /\ c \in Nat /\ c2 \in Nat /\ due \in BOOLEAN /\ n \in Nat /\ n # 0 /\ r \in Nat
      /\ period \in Nat \ {0}
      /\ CountsOn(c, c2, due, period) /\ EndsWithin(c, n, r, period)
  BY DEF Counting
<1>. QED  BY <1>1, RoundsGoOn

(* What is left of a PES that is begun takes as long, but for the packet   *)
(* and the tables that a turn writes.                                      *)
LEMMA BegunOn ==
  ASSUME NEW sdt, NEW pat, NEW c, NEW d, NEW c2, NEW d2, NEW n, NEW r, NEW q,
         Counting(c, c2, sdt, n, r, sdt_packet_period),
         Counting(d, d2, pat, n, q, pat_packet_period)
  PROVE  \E m, r2, q2 \in Nat :
           /\ n = m + 1
           /\ EndsWithin(c2, m, r2, sdt_packet_period)
           /\ EndsWithin(d2, m, q2, pat_packet_period)
           /\ Lasting(n, r, q) = Lasting(m, r2, q2) + PacketPcr + (IF sdt THEN SdtPcr ELSE 0)
                                                               + (IF pat THEN PatPcr ELSE 0)
<1>1. n \in Nat \ {0} /\ sdt \in BOOLEAN /\ pat \in BOOLEAN
  BY DEF Counting
<1>2. PICK m \in Nat : n = m + 1 /\ m = n - 1
  <2>1. n - 1 \in Nat /\ n = (n - 1) + 1
    BY <1>1
  <2>. QED  BY <2>1
<1>3. PICK r2 \in Nat : EndsWithin(c2, n - 1, r2, sdt_packet_period)
                         /\ r = IF sdt THEN r2 + 1 ELSE r2
  BY CountingOn
<1>4. PICK q2 \in Nat : EndsWithin(d2, n - 1, q2, pat_packet_period)
                         /\ q = IF pat THEN q2 + 1 ELSE q2
  BY CountingOn
<1>5. Lasting(n, r, q) = Lasting(m, r2, q2) + PacketPcr + (IF sdt THEN SdtPcr ELSE 0)
                                                        + (IF pat THEN PatPcr ELSE 0)
  <2>1. Lasting(n, IF sdt THEN r2 + 1 ELSE r2, IF pat THEN q2 + 1 ELSE q2)
          = Lasting(n - 1, r2, q2) + PacketPcr + (IF sdt THEN SdtPcr ELSE 0)
                                               + (IF pat THEN PatPcr ELSE 0)
    BY <1>1, LastingStep
  <2>. QED  BY <1>2, <1>3, <1>4, <2>1
<1>6. EndsWithin(c2, m, r2, sdt_packet_period) /\ EndsWithin(d2, m, q2, pat_packet_period)
  BY <1>2, <1>3, <1>4
<1>. QED  BY <1>2, <1>5, <1>6

(* What a packet of the PES leaves is written by the same time.            *)
LEMMA HandOn ==
  ASSUME TypeOK, CBR, NEW j \in Pes, NEW t, t = Turn(j), ~t.pad, j.fresh => j.start,
         tables.sdt_count < sdt_packet_period, tables.pat_count < pat_packet_period,
         NEW tab, tab = TablesAfter(t.sdt, t.pat, j.dts),
         NEW to \in Int, HandOver(j, tables, get_pcr(sent, t.first), to)
  PROVE  /\ get_pcr(t.n + 1, t.first) <= to
         /\ RestOf(j, t).left > 0 => HandOver(RestOf(j, t), tab, get_pcr(t.n + 1, t.first), to)
         /\ j.s = PcrStream => get_pcr(t.n, t.first) <= j.dts * PcrScale
<1>1. PICK sdt \in BOOLEAN, pat \in BOOLEAN : sdt = t.sdt /\ pat = t.pat
  BY TurnBool
<1>2. PICK S \in Nat, Q \in Nat, K \in Nat \ {0} : S = SdtPcr /\ Q = PatPcr /\ K = PacketPcr
  BY TablePcrType
<1>3. PICK now \in Int, at \in Int, then \in Int :
        /\ now = get_pcr(sent, t.first) /\ at = get_pcr(t.n, t.first)
        /\ then = get_pcr(t.n + 1, t.first)
        /\ at = now + (IF sdt THEN S ELSE 0) + (IF pat THEN Q ELSE 0)
        /\ then = at + K
  <2>1. PICK now \in Int, at \in Int : now = get_pcr(sent, t.first) /\ at = get_pcr(t.n, t.first)
    BY TurnClock
  <2>2. at = now + (IF sdt THEN S ELSE 0) + (IF pat THEN Q ELSE 0)
    BY <1>1, <1>2, <2>1, TurnClock
  <2>3. get_pcr(t.n + 1, t.first) = at + K /\ at + K \in Int
    BY <1>2, <2>1, TurnClock
  <2>. QED  BY <2>1, <2>2, <2>3
<1>4. PICK c \in Nat, d \in Nat : c = tables.sdt_count /\ d = tables.pat_count
  BY DEF TypeOK
<1>5. PICK P \in Nat \ {0}, R \in Nat \ {0} : P = sdt_packet_period /\ R = pat_packet_period
  BY TablePcrType
<1>6. /\ tab.sdt_count = (IF sdt THEN 0 ELSE c + 1) /\ tab.pat_count = (IF pat THEN 0 ELSE d + 1)
      /\ c + 1 = P => sdt
      /\ d + 1 = R => pat
      /\ j.dts > NOPTS => NoneDue(j.dts, tab)
      /\ ~j.fresh /\ NoneDue(j.dts, tables) => (sdt <=> c + 1 = P) /\ (pat <=> d + 1 = R)
  BY <1>1, <1>4, <1>5, TableTurn
<1>7. PICK c2 \in Nat, d2 \in Nat : /\ c2 = tab.sdt_count /\ c2 < P
                                    /\ d2 = tab.pat_count /\ d2 < R
  BY <1>4, <1>5, <1>6
<1>8. PICK left \in Nat \ {0} : left = j.left
  BY PesFields
<1>. DEFINE Enough(n, r, q) ==
       /\ left <= (n + 1) * LeastPayload
       /\ EndsWithin(c2, n, r, P) /\ EndsWithin(d2, n, q, R)
       /\ to >= then + Lasting(n, r, q)
<1>9. j.dts > NOPTS /\ (j.s = PcrStream => to <= j.dts * PcrScale)
      /\ \E n, r, q \in Nat : Enough(n, r, q)
  <2>1. CASE j.start
    <3>1. Takes(j, now, to)
      BY <1>3, <2>1 DEF HandOver
    <3>2. PICK n \in Nat, r \in Nat, q \in Nat :
            /\ left <= n * LeastPayload /\ n <= r * P /\ n <= q * R
            /\ to >= Larger(now, PaddedTo(j)) + Lasting(n, r + 1, q + 1)
      BY <1>5, <1>8, <3>1, Zenon DEF Takes
    <3>3. PICK m \in Nat : n = m + 1 /\ m = n - 1 /\ n # 0
      <4>1. n # 0
        BY <1>8, <3>2, EnoughStep
      <4>2. n - 1 \in Nat /\ n = (n - 1) + 1
        BY <4>1
      <4>. QED  BY <4>1, <4>2
    <3>4. PICK x \in Nat : x = Lasting(m, r, q)
      BY LastingType
    <3>5. Lasting(n, r + 1, q + 1) = x + K + S + Q
      <4>1. PICK yes \in BOOLEAN : yes
        OBVIOUS
      <4>2. Lasting(n, IF yes THEN r + 1 ELSE r, IF yes THEN q + 1 ELSE q)
              = Lasting(n - 1, r, q) + PacketPcr + (IF yes THEN SdtPcr ELSE 0)
                                                 + (IF yes THEN PatPcr ELSE 0)
        BY <3>3, LastingStep
      <4>. QED  BY <1>2, <3>3, <3>4, <4>1, <4>2
    <3>6. PICK D \in Int : D = PaddedTo(j)
      BY PaddedToType
    <3>7. Larger(now, D) >= now /\ Larger(now, D) \in Int
      BY DEF Larger
    <3>8. to >= then + x
      BY <1>2, <1>3, <3>2, <3>4, <3>5, <3>6, <3>7
    <3>9. EndsWithin(c2, m, r, P) /\ EndsWithin(d2, m, q, R)
      BY <1>5, <1>7, <3>2, <3>3, RoundsBegin
    <3>10. Enough(m, r, q)
      BY <3>2, <3>3, <3>4, <3>8, <3>9
    <3>11. j.dts > NOPTS /\ (j.s = PcrStream => to <= j.dts * PcrScale)
      BY <3>1, Zenon DEF Takes
    <3>. HIDE DEF Enough
    <3>. QED  BY <3>10, <3>11
  <2>2. CASE ~j.start
    <3>1. Goes(j, tables, now, to) /\ ~j.fresh /\ NoneDue(j.dts, tables)
      BY <1>3, <2>2 DEF HandOver
    <3>2. (sdt <=> c + 1 = P) /\ (pat <=> d + 1 = R)
      BY <1>6, <3>1
    <3>3. PICK n \in Nat, r \in Nat, q \in Nat :
            /\ left <= n * LeastPayload
            /\ EndsWithin(c, n, r, P) /\ EndsWithin(d, n, q, R)
            /\ to >= now + Lasting(n, r, q)
      BY <1>4, <1>5, <1>8, <3>1, Zenon DEF Goes
    <3>4. CountsOn(c, c2, sdt, P) /\ CountsOn(d, d2, pat, R)
      BY <1>6, <1>7, <3>2 DEF CountsOn
    <3>5. PICK m \in Nat, r2 \in Nat, q2 \in Nat :
            /\ n = m + 1
            /\ EndsWithin(c2, m, r2, P) /\ EndsWithin(d2, m, q2, R)
            /\ Lasting(n, r, q) = Lasting(m, r2, q2) + PacketPcr + (IF sdt THEN SdtPcr ELSE 0)
                                                                + (IF pat THEN PatPcr ELSE 0)
      <4>1. n # 0
        BY <1>8, <3>3, EnoughStep
      <4>2. Counting(c, c2, sdt, n, r, P)
        BY <3>3, <3>4, <4>1 DEF Counting
      <4>3. Counting(d, d2, pat, n, q, R)
        BY <3>3, <3>4, <4>1 DEF Counting
      <4>4. /\ Counting(c, c2, sdt, n, r, sdt_packet_period)
            /\ Counting(d, d2, pat, n, q, pat_packet_period)
        BY <1>5, <4>2, <4>3
      <4>5. \E m, r2, q2 \in Nat :
              /\ n = m + 1
              /\ EndsWithin(c2, m, r2, sdt_packet_period)
              /\ EndsWithin(d2, m, q2, pat_packet_period)
              /\ Lasting(n, r, q) = Lasting(m, r2, q2) + PacketPcr
                                      + (IF sdt THEN SdtPcr ELSE 0) + (IF pat THEN PatPcr ELSE 0)
        BY <4>4, BegunOn
      <4>. QED  BY <1>5, <4>5
    <3>7. PICK x \in Nat : x = Lasting(m, r2, q2)
      BY LastingType
    <3>8. Lasting(n, r, q) = x + K + (IF sdt THEN S ELSE 0) + (IF pat THEN Q ELSE 0)
      BY <1>2, <3>5, <3>7
    <3>9. to >= then + x
      BY <1>2, <1>3, <3>3, <3>8
    <3>10. Enough(m, r2, q2)
      BY <3>3, <3>5, <3>7, <3>9
    <3>11. j.dts > NOPTS /\ (j.s = PcrStream => to <= j.dts * PcrScale)
      BY <3>1, Zenon DEF Goes
    <3>. HIDE DEF Enough
    <3>. QED  BY <3>10, <3>11
  <2>. QED  BY <2>1, <2>2
<1>10. PICK n \in Nat, r \in Nat, q \in Nat : Enough(n, r, q)
  <2>. HIDE DEF Enough
  <2>. QED  BY <1>9
<1>11. then <= to
  <2>1. PICK x \in Nat : x = Lasting(n, r, q)
    BY LastingType
  <2>. QED  BY <1>10, <2>1
<1>12. ASSUME RestOf(j, t).left > 0
       PROVE  HandOver(RestOf(j, t), tab, then, to)
  <2>1. PICK k \in Pes : k = RestOf(j, t)
    BY <1>12, RestOfType
  <2>2. ~k.fresh /\ ~k.start /\ k.s = j.s /\ k.dts = j.dts
    BY <2>1, RestOfType
  <2>3. k.left <= n * LeastPayload
    <3>1. PICK rest \in Nat : rest = k.left
      BY PesFields
    <3>2. rest + LeastPayload <= left
      BY <1>8, <1>12, <2>1, <3>1, RestRoom
    <3>3. n + 1 \in Nat /\ (n + 1) - 1 = n
      OBVIOUS
    <3>. QED  BY <1>10, <3>1, <3>2, <3>3, EnoughStep
  <2>4. k.dts - Ticks(then) <= max_delay
    <3>1. ~TooEarly(j, t.n, t.first)
      BY TurnFields
    <3>2. j.dts - Ticks(at) <= max_delay
      <4>1. j.dts \in Int /\ Ticks(at) \in Int /\ max_delay \in Int
        BY PesFields, TimesAssumption, DivTowardsZero
      <4>. QED  BY <1>3, <3>1, <4>1 DEF TooEarly
    <3>3. Ticks(at) \in Int /\ Ticks(then) \in Int /\ Ticks(at) <= Ticks(then)
      BY <1>2, <1>3, TicksGrow
    <3>4. j.dts \in Int /\ max_delay \in Int
      BY PesFields, TimesAssumption
    <3>. QED  BY <2>2, <3>2, <3>3, <3>4
  <2>5. Goes(k, tab, then, to)
    BY <1>5, <1>7, <1>9, <1>10, <2>2, <2>3, <2>4 DEF Goes
  <2>6. NoneDue(k.dts, tab)
    BY <1>6, <1>9, <2>2
  <2>. QED  BY <2>1, <2>2, <2>5, <2>6 DEF HandOver
<1>13. j.s = PcrStream => at <= j.dts * PcrScale
  <2>1. j.dts * PcrScale \in Int
    BY PesFields, PcrAssumption
  <2>. QED  BY <1>2, <1>3, <1>9, <1>11, <2>1
<1>. QED  BY <1>3, <1>11, <1>12, <1>13

(* Padding is for a PES that is not begun, and it ends in time for that.   *)
LEMMA PadOn ==
  ASSUME TypeOK, CBR, NEW j \in Pes, NEW t, t = Turn(j), t.pad,
         NEW tab, tab = TablesAfter(t.sdt, t.pat, j.dts),
         NEW k \in Pes, k = [j EXCEPT !.fresh = FALSE],
         NEW to \in Int, HandOver(j, tables, get_pcr(sent, t.first), to)
  PROVE  HandOver(k, tab, get_pcr(t.n + 1, t.first), to)
<1>1. PICK now \in Int, at \in Int : /\ now = get_pcr(sent, t.first) /\ at = get_pcr(t.n, t.first)
                                     /\ now <= at
  <2>1. sent \in Nat /\ t.n \in Nat /\ t.n >= sent /\ t.first \in Int
    BY TurnType DEF TypeOK
  <2>2. get_pcr(sent, t.first) \in Int /\ get_pcr(t.n, t.first) \in Int
    BY TurnClock
  <2>3. get_pcr(sent, t.first) <= get_pcr(t.n, t.first)
    BY <2>1, ClockGrows
  <2>. QED  BY <2>2, <2>3
<1>2. PICK K \in Nat \ {0} : K = PacketPcr
  BY TablePcrType
<1>3. PICK then \in Int : then = get_pcr(t.n + 1, t.first) /\ then = at + K
  <2>1. get_pcr(t.n + 1, t.first) = at + K /\ at + K \in Int
    BY <1>1, <1>2, TurnClock
  <2>. QED  BY <2>1
<1>4. PICK dts \in Int, delay \in Int : dts = j.dts /\ delay = max_delay
  BY PesFields, TimesAssumption
<1>5. Ticks(now) \in Int /\ Ticks(at) \in Int /\ Ticks(now) <= Ticks(at)
  BY <1>1, TicksGrow
<1>6. dts - Ticks(at) > delay
  <2>1. TooEarly(j, t.n, t.first)
    BY TurnFields
  <2>. QED  BY <1>1, <1>4, <2>1 DEF TooEarly
<1>7. j.start
  <2>1. ASSUME ~j.start PROVE FALSE
    <3>1. dts - Ticks(now) <= delay
      BY <1>1, <1>4, <2>1 DEF HandOver, Goes
    <3>. QED  BY <1>5, <1>6, <3>1
  <2>2. j.start \in BOOLEAN
    BY PesFields
  <2>. QED  BY <2>1, <2>2
<1>8. Takes(j, now, to)
  BY <1>1, <1>7 DEF HandOver
<1>9. then <= Larger(now, PaddedTo(j))
  <2>1. PICK e \in Int : e = dts - delay
    OBVIOUS
  <2>2. Ticks(at) < e
    BY <1>5, <1>6, <2>1
  <2>3. at < e * PcrScale
    BY <2>2, BeforeTick
  <2>4. PICK y \in Int : y = e * PcrScale
    BY PcrAssumption
  <2>5. PaddedTo(j) = y + K
    BY <1>2, <1>4, <2>1, <2>4 DEF PaddedTo
  <2>6. then <= y + K
    BY <1>3, <2>3, <2>4
  <2>. QED  BY <1>1, <2>5, <2>6 DEF Larger
<1>10. Takes(j, then, to)
  BY <1>8, <1>9, TakesEarlier
<1>11. k.start = j.start /\ k.s = j.s /\ k.dts = j.dts /\ k.left = j.left /\ ~k.fresh
  BY DEF Pes
<1>12. Takes(k, then, to)
  <2>1. PaddedTo(k) = PaddedTo(j)
    BY <1>11 DEF PaddedTo
  <2>. QED  BY <1>10, <1>11, <2>1 DEF Takes
<1>13. NoneDue(k.dts, tab)
  <2>1. j.dts > NOPTS
    BY <1>8 DEF Takes
  <2>. QED  BY <1>11, <2>1, TableTurn
<1>. QED  BY <1>3, <1>7, <1>11, <1>12, <1>13 DEF HandOver

(* The countdowns start within their periods,                              *)
LEMMA InitCounts ==
  ASSUME Init
  PROVE  CountsInv
<1>1. /\ tables.sdt_count = sdt_packet_period - 1
      /\ tables.pat_count = pat_packet_period - 1
  BY DEF Init
<1>. QED  BY <1>1, TablePcrType DEF CountsInv

(* and a turn keeps them there,                                            *)
LEMMA TurnCounts ==
  ASSUME TypeOK, CountsInv, NEW j \in Pes, NEW t, t = Turn(j),
         tables' = TablesAfter(t.sdt, t.pat, j.dts)
  PROVE  CountsInv'
<1>1. PICK tab : tab = TablesAfter(t.sdt, t.pat, j.dts)
  OBVIOUS
<1>2. PICK sdt \in BOOLEAN, pat \in BOOLEAN : sdt = t.sdt /\ pat = t.pat
  BY TurnBool
<1>3. PICK c \in Nat, d \in Nat : c = tables.sdt_count /\ d = tables.pat_count
  BY DEF TypeOK
<1>4. PICK P \in Nat \ {0}, R \in Nat \ {0} : P = sdt_packet_period /\ R = pat_packet_period
  BY TablePcrType
<1>5. /\ tab.sdt_count = (IF sdt THEN 0 ELSE c + 1) /\ tab.pat_count = (IF pat THEN 0 ELSE d + 1)
      /\ c + 1 = P => sdt
      /\ d + 1 = R => pat
  BY <1>1, <1>2, <1>3, <1>4, TableTurn
<1>6. c < P /\ d < R
  BY <1>3, <1>4 DEF CountsInv
<1>7. tab.sdt_count < P /\ tab.pat_count < R
  BY <1>5, <1>6
<1>. QED  BY <1>1, <1>4, <1>7 DEF CountsInv

(* as every step does.                                                     *)
LEMMA NextCounts ==
  ASSUME TypeOK, CountsInv, [Next]_vars
  PROVE  CountsInv'
<1>1. tables' = tables => CountsInv'
  BY DEF CountsInv
<1>2. ASSUME NEW s \in Streams, NEW kind \in Kinds[s], NEW gap \in Gaps[s],
             GiveUnit(s, kind, gap)
      PROVE  tables' = tables
  BY <1>2 DEF GiveUnit, clockvars
<1>3. ASSUME NEW p \in Sections, NEW len \in SectionLens, GiveSection(p, len)
      PROVE  tables' = tables
  BY <1>3 DEF GiveSection, clockvars
<1>4. Flush => tables' = tables
  BY DEF Flush, clockvars
<1>5. ASSUME Pad
      PROVE  CountsInv'
  <2>1. PICK j \in Pes, packet \in Packet : \E t : t = Turn(j) /\ Turned(j, t, Null, packet)
    BY <1>5, PadIs
  <2>2. PICK t : t = Turn(j) /\ Turned(j, t, Null, packet)
    BY <2>1
  <2>3. tables' = TablesAfter(t.sdt, t.pat, j.dts)
    BY <2>2 DEF Turned
  <2>. QED  BY <2>2, <2>3, TurnCounts
<1>6. ASSUME Emit
      PROVE  CountsInv'
  <2>1. PICK j \in Pes : \E t : t = Turn(j) /\ Turned(j, t, j.s, OwnPacket(j, t))
    BY <1>6, EmitIs
  <2>2. PICK t : t = Turn(j) /\ Turned(j, t, j.s, OwnPacket(j, t))
    BY <2>1
  <2>3. tables' = TablesAfter(t.sdt, t.pat, j.dts)
    BY <2>2 DEF Turned
  <2>. QED  BY <2>2, <2>3, TurnCounts
<1>7. UNCHANGED vars => tables' = tables
  BY DEF vars, clockvars
<1>. QED  BY <1>1, <1>2, <1>3, <1>4, <1>5, <1>6, <1>7 DEF Next

(* The clock at a turn is the one that the loop finds.                     *)
LEMMA HeadInTime ==
  ASSUME TypeOK, CBR, InTimeInv, NEW j \in Pes, NEW t, jobs # << >>, j = Head(jobs), t = Turn(j)
  PROVE  \E end \in [1 .. Len(jobs) -> Int] :
           /\ HandOver(j, tables, get_pcr(sent, t.first), end[1])
           /\ \A k \in 2 .. Len(jobs) : Takes(jobs[k], end[k - 1], end[k])
<1>1. t.first = FirstPcr(j)
  BY TurnFields
<1>2. Now = get_pcr(sent, t.first)
  BY <1>1 DEF Now
<1>3. jobs[1] = j
  BY FrontIs DEF TypeOK
<1>. QED  BY <1>2, <1>3 DEF InTimeInv, InTime

(* A PES that is not fresh any more goes on with the clock of its turn.    *)
LEMMA SameInTime ==
  ASSUME TypeOK, jobs # << >>, NEW k \in Pes, ~k.fresh, jobs' = <<k>> \o Tail(jobs),
         NEW tab, tables' = tab, NEW first, first_pcr' = first, NEW n, sent' = n,
         NEW end \in [1 .. Len(jobs) -> Int],
         HandOver(k, tab, get_pcr(n, first), end[1]),
         \A i \in 2 .. Len(jobs) : Takes(jobs[i], end[i - 1], end[i])
  PROVE  InTime(jobs', tables', Now')
<1>1. PICK list : list = jobs'
  OBVIOUS
<1>2. /\ Len(list) = Len(jobs) /\ list[1] = k
      /\ \A i \in 2 .. Len(jobs) : list[i] = jobs[i]
  BY <1>1, FrontIs DEF TypeOK
<1>3. Head(jobs') = k
  OBVIOUS
<1>4. FirstPcr(k)' = first
  BY DEF FirstPcr
<1>5. Now' = get_pcr(n, first)
  BY <1>3, <1>4 DEF Now, FirstPcr, get_pcr
<1>6. InTime(list, tab, get_pcr(n, first))
  BY <1>2 DEF InTime
<1>. QED  BY <1>1, <1>5, <1>6

(* Padding keeps the call on time,                                         *)
LEMMA PadInTime ==
  ASSUME TypeOK, CBR, InTimeInv, Pad
  PROVE  InTime(jobs', tables', Now')
<1>1. PICK j \in Pes, packet \in Packet : \E t :
        /\ jobs # << >> /\ j = Head(jobs) /\ t = Turn(j) /\ t.pad
        /\ Turned(j, t, Null, packet)
        /\ jobs' = <<[j EXCEPT !.fresh = FALSE]>> \o Tail(jobs)
  BY PadIs
<1>2. PICK t :
        /\ jobs # << >> /\ j = Head(jobs) /\ t = Turn(j) /\ t.pad
        /\ Turned(j, t, Null, packet)
        /\ jobs' = <<[j EXCEPT !.fresh = FALSE]>> \o Tail(jobs)
  BY <1>1
<1>3. PICK k \in Pes : k = [j EXCEPT !.fresh = FALSE] /\ ~k.fresh
  <2>1. [j EXCEPT !.fresh = FALSE] \in Pes
    BY DEF Pes
  <2>2. [j EXCEPT !.fresh = FALSE].fresh = FALSE
    BY DEF Pes
  <2>. QED  BY <2>1, <2>2
<1>4. PICK tab : tab = TablesAfter(t.sdt, t.pat, j.dts)
  OBVIOUS
<1>5. tables' = tab
  BY <1>2, <1>4 DEF Turned
<1>6. first_pcr' = t.first /\ sent' = t.n + 1
  BY <1>2, TurnedClock
<1>7. PICK end \in [1 .. Len(jobs) -> Int] :
        /\ HandOver(j, tables, get_pcr(sent, t.first), end[1])
        /\ \A i \in 2 .. Len(jobs) : Takes(jobs[i], end[i - 1], end[i])
  BY <1>2, HeadInTime
<1>8. PICK to \in Int : to = end[1]
  <2>1. jobs \in Seq(Pes) /\ jobs # << >>
    BY <1>2 DEF TypeOK
  <2>2. 1 \in 1 .. Len(jobs)
    BY <2>1
  <2>3. end[1] \in Int
    BY <2>2
  <2>. QED  BY <2>3
<1>9. HandOver(k, tab, get_pcr(t.n + 1, t.first), to)
  BY <1>2, <1>3, <1>4, <1>7, <1>8, PadOn
<1>. QED  BY <1>2, <1>3, <1>5, <1>6, <1>7, <1>8, <1>9, SameInTime

(* and a packet of the PES does, by which the next PES comes in time.      *)
LEMMA EmitInTime ==
  ASSUME TypeOK, JobsInv, ClockInv, FirstClockSet, CountsInv, CBR, InTimeInv, Emit,
         jobs' # << >>
  PROVE  InTime(jobs', tables', Now')
<1>1. PICK j \in Pes : \E t :
        /\ jobs # << >> /\ j = Head(jobs) /\ t = Turn(j) /\ ~t.pad
        /\ Turned(j, t, j.s, OwnPacket(j, t))
        /\ jobs' = IF RestOf(j, t).left > 0 THEN <<RestOf(j, t)>> \o Tail(jobs) ELSE Tail(jobs)
  BY EmitIs
<1>2. PICK t :
        /\ jobs # << >> /\ j = Head(jobs) /\ t = Turn(j) /\ ~t.pad
        /\ Turned(j, t, j.s, OwnPacket(j, t))
        /\ jobs' = IF RestOf(j, t).left > 0 THEN <<RestOf(j, t)>> \o Tail(jobs) ELSE Tail(jobs)
  BY <1>1
<1>3. PICK tab : tab = TablesAfter(t.sdt, t.pat, j.dts)
  OBVIOUS
<1>4. tables' = tab
  BY <1>2, <1>3 DEF Turned
<1>5. first_pcr' = t.first /\ sent' = t.n + 1
  <2>1. PICK packet \in Packet : packet = OwnPacket(j, t)
    BY <1>2, OwnPacketType, Zenon
  <2>2. Turned(j, t, j.s, packet)
    BY <1>2, <2>1, Zenon
  <2>. QED  BY <1>2, <2>2, TurnedClock
<1>6. PICK end \in [1 .. Len(jobs) -> Int] :
        /\ HandOver(j, tables, get_pcr(sent, t.first), end[1])
        /\ \A i \in 2 .. Len(jobs) : Takes(jobs[i], end[i - 1], end[i])
  BY <1>2, HeadInTime
<1>7. PICK to \in Int : to = end[1]
  <2>1. jobs \in Seq(Pes) /\ jobs # << >>
    BY <1>2 DEF TypeOK
  <2>2. 1 \in 1 .. Len(jobs)
    BY <2>1
  <2>3. end[1] \in Int
    BY <2>2
  <2>. QED  BY <2>3
<1>8. /\ jobs \in Seq(Pes) /\ Len(jobs) \in Nat \ {0} /\ jobs[1] = j
  BY <1>2, FrontIs DEF TypeOK
<1>9. j.fresh => j.start
  BY <1>2, <1>8 DEF JobsInv
<1>10. HandOver(j, tables, get_pcr(sent, t.first), to)
  BY <1>6, <1>7
<1>11. /\ get_pcr(t.n + 1, t.first) <= to
       /\ RestOf(j, t).left > 0 => HandOver(RestOf(j, t), tab, get_pcr(t.n + 1, t.first), to)
  BY <1>2, <1>3, <1>9, <1>10, HandOn DEF CountsInv
<1>12. CASE RestOf(j, t).left > 0
  <2>1. PICK k \in Pes : k = RestOf(j, t) /\ ~k.fresh
    BY <1>2, <1>12, RestOfType
  <2>2. HandOver(k, tab, get_pcr(t.n + 1, t.first), end[1])
    BY <1>7, <1>11, <1>12, <2>1
  <2>3. jobs' = <<k>> \o Tail(jobs)
    BY <1>2, <1>12, <2>1
  <2>. QED  BY <1>2, <1>4, <1>5, <1>6, <2>1, <2>2, <2>3, SameInTime
<1>13. CASE ~(RestOf(j, t).left > 0)
  <2>1. PICK list : list = jobs' /\ list = Tail(jobs)
    BY <1>2, <1>13
  <2>2. PICK n \in Nat \ {0} : n = Len(list) /\ Len(jobs) = n + 1
    BY <1>2, <1>8, <2>1
  <2>3. \A i \in 1 .. n : list[i] = jobs[i + 1]
    BY <1>8, <2>1, <2>2
  <2>4. PICK k \in Pes : k = jobs[2] /\ k = list[1] /\ k.fresh /\ k.start
    BY <1>8, <2>2, <2>3 DEF JobsInv
  <2>5. Head(jobs') = k
    BY <2>1, <2>2, <2>4
  <2>6. FirstPcr(k)' = t.first
    <3>1. copyts => t.first # 0
      BY <1>2, FirstSet
    <3>. QED  BY <1>5, <3>1 DEF FirstPcr
  <2>7. Now' = get_pcr(t.n + 1, t.first)
    BY <1>5, <2>5, <2>6 DEF Now, FirstPcr, get_pcr
  <2>8. PICK then \in Int : then = get_pcr(t.n + 1, t.first)
    <3>1. get_pcr(t.n, t.first) \in Int /\ PacketPcr \in Int
      BY <1>2, TurnClock, TablePcrType
    <3>2. get_pcr(t.n + 1, t.first) = get_pcr(t.n, t.first) + PacketPcr
      BY <1>2, TurnClock
    <3>. QED  BY <3>1, <3>2
  <2>9. PICK upto \in Int : upto = end[2] /\ Takes(k, to, upto)
    <3>1. 2 \in 2 .. Len(jobs) /\ 2 - 1 = 1 /\ 2 \in 1 .. Len(jobs)
      BY <2>2
    <3>2. Takes(jobs[2], end[2 - 1], end[2]) /\ end[2] \in Int
      BY <1>6, <3>1
    <3>. QED  BY <1>7, <2>4, <3>1, <3>2
  <2>10. then <= Larger(to, PaddedTo(k))
    BY <1>11, <2>8, PaddedToType DEF Larger
  <2>11. Takes(k, then, upto)
    BY <2>9, <2>10, TakesEarlier
  <2>12. HandOver(k, tab, then, upto)
    BY <2>4, <2>11 DEF HandOver
  <2>13. PICK e \in [1 .. n -> Int] : \A i \in 1 .. n : e[i] = end[i + 1]
    <3>1. [i \in 1 .. n |-> end[i + 1]] \in [1 .. n -> Int]
      BY <2>2
    <3>. QED  BY <3>1
  <2>14. HandOver(list[1], tab, then, e[1])
    BY <2>2, <2>4, <2>9, <2>12, <2>13
  <2>15. \A i \in 2 .. n : Takes(list[i], e[i - 1], e[i])
    <3>1. TAKE i \in 2 .. n
    <3>2. /\ list[i] = jobs[i + 1] /\ e[i - 1] = end[i] /\ e[i] = end[i + 1]
          /\ i + 1 \in 2 .. Len(jobs) /\ (i + 1) - 1 = i
      BY <2>2, <2>3, <2>13
    <3>. QED  BY <1>6, <3>2
  <2>16. InTime(list, tab, then)
    BY <2>2, <2>14, <2>15 DEF InTime
  <2>. QED  BY <1>4, <2>1, <2>7, <2>8, <2>16
<1>. QED  BY <1>12, <1>13

(* A call that begins on time,                                             *)
LEMMA BeginInTime ==
  ASSUME OnTime', jobs' # << >>, jobs' \in Seq(Pes), jobs'[1].start, jobs'[1].fresh
  PROVE  InTime(jobs', tables', Now')
<1>1. PICK list, now, tab : list = jobs' /\ now = Now' /\ tab = tables'
  OBVIOUS
<1>2. Head(list) = list[1] /\ list[1].start /\ list[1].fresh
  BY <1>1
<1>3. PICK end \in [1 .. Len(list) -> Int] :
        /\ Takes(Head(list), now, end[1])
        /\ \A k \in 2 .. Len(list) : Takes(list[k], end[k - 1], end[k])
  BY <1>1 DEF OnTime
<1>4. HandOver(list[1], tab, now, end[1])
  BY <1>2, <1>3 DEF HandOver
<1>5. InTime(list, tab, now)
  BY <1>3, <1>4 DEF InTime
<1>. QED  BY <1>1, <1>5

(* stays on time.                                                          *)
LEMMA NextInTime ==
  ASSUME TypeOK, JobsInv, ClockInv, FirstClockSet, CountsInv, InTimeInv, [Next]_vars,
         [CBR /\ jobs = << >> /\ jobs' # << >> => OnTime']_vars
  PROVE  InTimeInv'
<1>0. TypeOK' /\ jobs' \in Seq(Pes)
  BY NextType DEF TypeOK
<1>1. SUFFICES ASSUME CBR, jobs' # << >>
               PROVE  InTime(jobs', tables', Now')
  BY DEF InTimeInv
<1>2. ASSUME jobs = << >>, Len(jobs') \in Nat,
             \A k \in 1 .. Len(jobs') : jobs'[k].fresh /\ jobs'[k].start
      PROVE  InTime(jobs', tables', Now')
  <2>1. OnTime'
    BY <1>1, <1>2 DEF vars
  <2>2. 1 \in 1 .. Len(jobs')
    BY <1>0, <1>1
  <2>. QED  BY <1>0, <1>1, <1>2, <2>1, <2>2, BeginInTime
<1>3. ASSUME NEW s \in Streams, NEW kind \in Kinds[s], NEW gap \in Gaps[s],
             GiveUnit(s, kind, gap)
      PROVE  InTime(jobs', tables', Now')
  <2>1. jobs = << >>
    BY <1>3 DEF GiveUnit
  <2>. QED  BY <1>2, <1>3, <2>1, GiveUnitFresh
<1>4. ASSUME NEW p \in Sections, NEW len \in SectionLens, GiveSection(p, len)
      PROVE  FALSE
  BY <1>1, <1>4 DEF GiveSection
<1>5. ASSUME Flush
      PROVE  InTime(jobs', tables', Now')
  <2>1. jobs = << >>
    BY <1>5 DEF Flush
  <2>. QED  BY <1>2, <1>5, <2>1, FlushFresh
<1>6. Pad => InTime(jobs', tables', Now')
  BY <1>1, PadInTime
<1>7. Emit => InTime(jobs', tables', Now')
  BY <1>1, EmitInTime
<1>8. UNCHANGED vars => InTimeInv'
  BY DEF vars, clockvars, InTimeInv, Now, FirstPcr, get_pcr
<1>9. UNCHANGED vars => InTime(jobs', tables', Now')
  BY <1>1, <1>8 DEF InTimeInv
<1>. QED  BY <1>3, <1>4, <1>5, <1>6, <1>7, <1>9 DEF Next

(* The clock reference of a turn is not after the dts of its PES.          *)
LEMMA NextPcrBeforeDts ==
  ASSUME TypeOK, JobsInv, CountsInv, InTimeInv, PcrBeforeDts, [Next]_vars
  PROVE  PcrBeforeDts'
<1>1. last_pcr' = last_pcr => PcrBeforeDts'
  BY DEF PcrBeforeDts
<1>2. ASSUME NEW j \in Pes, NEW t, Clocked(j, t)
      PROVE  PcrBeforeDts'
  <2>1. /\ jobs # << >> /\ j = Head(jobs) /\ t = Turn(j) /\ j.s = PcrStream
        /\ last_pcr'.value = PcrOf(j, t) /\ last_pcr'.dts = j.dts
    BY <1>2 DEF Clocked
  <2>2. PICK dts \in Int, delay \in Nat : dts = j.dts /\ delay = max_delay
    BY PesFields, TimesAssumption
  <2>3. CASE ~CBR
    <3>1. PICK e \in Int : e = dts - delay /\ e <= dts
      BY <2>2
    <3>2. PICK x \in Int : x = e * PcrScale
      BY PcrAssumption
    <3>3. PcrOf(j, t) = x
      BY <2>2, <2>3, <3>1, <3>2 DEF PcrOf
    <3>4. Ticks(x) \in Int /\ Ticks(x) <= e
      BY <3>2, TickOf, DivTowardsZero
    <3>5. Ticks(x) <= dts
      BY <3>1, <3>4
    <3>. QED  BY <2>1, <2>2, <3>3, <3>5 DEF PcrBeforeDts
  <2>4. CASE CBR
    <3>1. PICK at \in Int : at = get_pcr(t.n, t.first)
      BY <2>1, TurnClock
    <3>2. PcrOf(j, t) = at
      BY <2>4, <3>1 DEF PcrOf
    <3>3. Ticks(at) \in Int
      BY DivTowardsZero
    <3>4. Ticks(at) <= dts
      <4>1. CASE t.pad
        <5>1. TooEarly(j, t.n, t.first)
          BY <2>1, <4>1, TurnFields
        <5>2. dts - Ticks(at) > delay
          BY <2>2, <3>1, <5>1 DEF TooEarly
        <5>. QED  BY <3>3, <5>2
      <4>2. CASE ~t.pad
        <5>1. PICK end \in [1 .. Len(jobs) -> Int] :
                HandOver(j, tables, get_pcr(sent, t.first), end[1])
          BY <2>1, <2>4, HeadInTime
        <5>2. Len(jobs) \in Nat \ {0} /\ jobs[1] = j
          BY <2>1, FrontIs DEF TypeOK
        <5>3. j.fresh => j.start
          BY <2>1, <5>2 DEF JobsInv
        <5>4. PICK to \in Int : to = end[1] /\ HandOver(j, tables, get_pcr(sent, t.first), to)
          BY <5>1, <5>2
        <5>5. PICK tab : tab = TablesAfter(t.sdt, t.pat, j.dts)
          OBVIOUS
        <5>6. j.s = PcrStream => get_pcr(t.n, t.first) <= j.dts * PcrScale
          BY <2>1, <2>4, <4>2, <5>3, <5>4, <5>5, HandOn DEF CountsInv
        <5>7. at <= dts * PcrScale
          BY <2>1, <2>2, <3>1, <5>6
        <5>. QED  BY <5>7, TickOf
      <4>3. t.pad \in BOOLEAN
        BY <2>1, TurnBool
      <4>. QED  BY <4>1, <4>2, <4>3
    <3>. QED  BY <2>1, <2>2, <3>2, <3>4 DEF PcrBeforeDts
  <2>. QED  BY <2>3, <2>4
<1>. QED  BY <1>1, <1>2, ClockStep

(* No clock reference is after the dts of the PES it comes with, if each   *)
(* call can write its PES in time when it begins: its own and those that   *)
(* it has to write before it, with padding, and with tables as often as    *)
(* their periods let them come. What the loop pads for one PES leaves time *)
(* for those of the PCR stream behind it.                                  *)
THEOREM PcrBeforeDtsHolds ==
  Spec /\ []FirstClockSet /\ CallsOnTime => []PcrBeforeDts
<1>1. Init => TypeOK /\ JobsInv /\ ClockInv /\ CountsInv
  BY InitType, InitJobs, InitClock, InitCounts
<1>2. Init => InTimeInv /\ PcrBeforeDts
  BY DEF Init, InTimeInv, PcrBeforeDts
<1>3. TypeOK /\ JobsInv /\ ClockInv /\ CountsInv /\ FirstClockSet /\ [Next]_vars
        => TypeOK' /\ JobsInv' /\ ClockInv' /\ CountsInv'
  BY NextType, NextJobs, ClockInvStep, NextCounts
<1>4. TypeOK /\ JobsInv /\ ClockInv /\ CountsInv /\ InTimeInv /\ FirstClockSet
        /\ [Next]_vars /\ [CBR /\ jobs = << >> /\ jobs' # << >> => OnTime']_vars
        => InTimeInv'
  BY NextInTime
<1>5. TypeOK /\ JobsInv /\ CountsInv /\ InTimeInv /\ PcrBeforeDts /\ [Next]_vars => PcrBeforeDts'
  BY NextPcrBeforeDts
<1>. QED  BY <1>1, <1>2, <1>3, <1>4, <1>5, PTL DEF Spec, CallsOnTime

-----------------------------------------------------------------------------
(* Nothing that waits is later than the last unit given, and no PES is     *)
(* later by more than max_delay than those behind it.                      *)
WaitInv ==
  /\ \A s \in Streams : held[s].size > 0 => held[s].dts <= last_dts + Shift
  /\ \A m \in 1 .. Len(jobs) :
       /\ jobs[m].dts <= last_dts + Shift
       /\ \A n \in m .. Len(jobs) : jobs[m].dts - jobs[n].dts <= max_delay

(* Nothing waits at first.                                                 *)
LEMMA InitWait ==
  ASSUME Init
  PROVE  WaitInv
<1>1. \A s \in Streams : held[s].size = 0
  BY DEF Init, Empty
<1>2. jobs = << >>
  BY DEF Init
<1>. QED  BY <1>1, <1>2 DEF WaitInv

(* Times at most max_delay before a time, and then one that may be later.  *)
Close(d, n, before, now) ==
  /\ before <= now
  /\ \A k \in 1 .. n : \/ /\ d[k] \in Int
                          /\ d[k] <= before /\ before - d[k] <= max_delay
                       \/ k = n /\ d[k] = now

(* None of them is later than those behind it by more than max_delay.      *)
LEMMA TimesApart ==
  ASSUME NEW n \in Nat, NEW d, NEW before \in Int, NEW now \in Int,
         Close(d, n, before, now)
  PROVE  \A a \in 1 .. n : d[a] <= now /\ \A b \in a .. n : d[a] - d[b] <= max_delay
<1>0. max_delay \in Nat
  BY TimesAssumption
<1>1. ASSUME NEW a \in 1 .. n
      PROVE  d[a] \in Int /\ d[a] <= now
  BY <1>1 DEF Close
<1>2. ASSUME NEW a \in 1 .. n, NEW b \in a .. n
      PROVE  d[a] - d[b] <= max_delay
  <2>1. b \in 1 .. n /\ d[a] \in Int /\ d[b] \in Int /\ d[a] <= now
    BY <1>1
  <2>2. CASE d[b] = now
    BY <1>0, <2>1, <2>2
  <2>3. CASE d[b] # now
    <3>1. d[b] <= before /\ before - d[b] <= max_delay
      BY <2>1, <2>3 DEF Close
    <3>2. d[a] <= before
      <4>1. CASE a = n
        <5>1. a = b
          BY <4>1
        <5>. QED  BY <3>1, <5>1
      <4>2. CASE a # n
        BY <4>2 DEF Close
      <4>. QED  BY <4>1, <4>2
    <3>. QED  BY <1>0, <2>1, <3>1, <3>2
  <2>. QED  BY <2>2, <2>3
<1>. QED  BY <1>1, <1>2

(* What is gathered has a time, at most max_delay before the last unit's.  *)
LEMMA HeldRecently ==
  ASSUME HeldInv, WaitInv, NEW now \in Int, now = last_dts + Shift,
         NEW s \in Streams, held[s].size > 0
  PROVE  held[s].dts \in Int /\ held[s].dts <= now /\ now - held[s].dts <= max_delay
<1>1. Sound(held[s], now)
  BY DEF HeldInv
<1>2. held[s].dts \in Int /\ now - held[s].dts <= max_delay
  BY <1>1, TimesAssumption DEF Sound
<1>. QED  BY <1>2 DEF WaitInv

(* A unit leaves what waits that close together,                           *)
LEMMA GiveUnitWait ==
  ASSUME TypeOK, HeldInv, WaitInv,
         NEW s \in Streams, NEW kind \in Kinds[s], NEW gap \in Gaps[s],
         GiveUnit(s, kind, gap)
  PROVE  WaitInv'
<1>1. PICK u \in Unit : \E q :
        /\ u = UnitOf(s, kind, given_dts[s] + gap)
        /\ Flushes(q) /\ JobsBehind(q, s, u)
        /\ held' = [i \in Streams |-> IF i = s /\ ~Direct(s, u) THEN Gathered(Left(q, i), u)
                                      ELSE Left(q, i)]
  BY GiveUnitJobs
<1>2. PICK q :
        /\ u = UnitOf(s, kind, given_dts[s] + gap)
        /\ Flushes(q) /\ JobsBehind(q, s, u)
        /\ held' = [i \in Streams |-> IF i = s /\ ~Direct(s, u) THEN Gathered(Left(q, i), u)
                                      ELSE Left(q, i)]
  BY <1>1, Zenon
<1>3. PICK dts \in Int : dts = given_dts[s] + gap /\ dts >= last_dts /\ last_dts' = dts
  BY GiveUnitIs
<1>4. PICK before \in Int : before = last_dts + Shift
  BY ShiftType DEF HeldInv
<1>5. PICK now \in Int : now = dts + Shift
  BY ShiftType
<1>6. before <= now /\ u.dts = now
  <2>1. u.dts = dts + Shift
    BY <1>2, <1>3 DEF UnitOf
  <2>2. last_dts \in Int
    BY DEF HeldInv
  <2>. QED  BY <1>3, <1>4, <1>5, <2>1, <2>2, ShiftType
<1>7. (last_dts + Shift)' = now
  BY <1>3, <1>5 DEF Shift
<1>8. \A i \in Streams : held[i].size > 0 =>
        held[i].dts \in Int /\ held[i].dts <= before /\ before - held[i].dts <= max_delay
  <2>1. ASSUME NEW i \in Streams, held[i].size > 0
        PROVE  /\ held[i].dts \in Int
               /\ held[i].dts <= before /\ before - held[i].dts <= max_delay
    BY <1>4, <2>1, HeldRecently
  <2>. QED  BY <2>1
<1>9. ASSUME NEW i \in Streams, held'[i].size > 0
      PROVE  held'[i].dts <= now
  <2>1. Left(q, i).size > 0 => Left(q, i) = held[i]
    BY DEF Left, Emptied
  <2>2. CASE i = s /\ ~Direct(s, u)
    <3>1. held'[i] = Gathered(Left(q, i), u)
      BY <1>2, <2>2
    <3>2. Left(q, i).size \in Nat
      <4>1. held[i].size \in Nat
        BY DEF HeldInv, Sound
      <4>. QED  BY <4>1 DEF Left, Emptied
    <3>3. CASE Left(q, i).size = 0
      <4>1. held'[i].dts = u.dts
        BY <3>1, <3>3 DEF Gathered
      <4>. QED  BY <1>6, <4>1
    <3>4. CASE Left(q, i).size # 0
      <4>1. Left(q, i) = held[i] /\ held[i].size > 0
        BY <2>1, <3>2, <3>4
      <4>2. held'[i].dts = held[i].dts
        BY <3>1, <3>4, <4>1 DEF Gathered
      <4>. QED  BY <1>6, <1>8, <4>1, <4>2
    <3>. QED  BY <3>3, <3>4
  <2>3. CASE ~(i = s /\ ~Direct(s, u))
    <3>1. held'[i] = Left(q, i)
      BY <1>2, <2>3
    <3>. QED  BY <1>6, <1>8, <1>9, <2>1, <3>1
  <2>. QED  BY <2>2, <2>3
<1>10. q \in Seq(Streams) /\ Len(q) \in Nat /\ \A k \in 1 .. Len(q) : held[q[k]].size > 0
  BY <1>2 DEF Flushes
<1>11. PICK n \in Nat : n = IF Direct(s, u) THEN Len(q) + 1 ELSE Len(q)
  BY <1>10
<1>12. Len(jobs') = n
  BY <1>2, <1>11 DEF JobsBehind
<1>13. PICK d : d = [k \in 1 .. n |-> jobs'[k].dts]
  OBVIOUS
<1>14. ASSUME NEW k \in 1 .. n
       PROVE  \/ /\ d[k] \in Int
                 /\ d[k] <= before /\ before - d[k] <= max_delay
              \/ k = n /\ d[k] = now
  <2>1. CASE k \in 1 .. Len(q)
    <3>1. q[k] \in Streams
      BY <1>10, <2>1
    <3>2. jobs'[k].dts = held[q[k]].dts
      BY <1>2, <2>1, PesOfFresh DEF JobsBehind
    <3>. QED  BY <1>8, <1>10, <1>13, <2>1, <3>1, <3>2
  <2>2. CASE ~(k \in 1 .. Len(q))
    <3>1. k = Len(q) + 1 /\ k = n /\ Direct(s, u)
      BY <1>10, <1>11, <2>2
    <3>2. jobs'[k].dts = u.dts
      BY <1>2, <3>1, PesOfFresh DEF JobsBehind
    <3>. QED  BY <1>6, <1>13, <3>1, <3>2
  <2>. QED  BY <2>1, <2>2
<1>15. \A a \in 1 .. n : d[a] <= now /\ \A b \in a .. n : d[a] - d[b] <= max_delay
  <2>1. Close(d, n, before, now)
    BY <1>6, <1>14, Zenon DEF Close
  <2>. QED  BY <2>1, TimesApart
<1>16. \A a \in 1 .. n : /\ jobs'[a].dts <= now
                         /\ \A b \in a .. n : jobs'[a].dts - jobs'[b].dts <= max_delay
  <2>1. \A a \in 1 .. n : \A b \in a .. n : b \in 1 .. n
    OBVIOUS
  <2>. QED  BY <1>13, <1>15, <2>1
<1>17. max_delay' = max_delay /\ Streams' = Streams
  OBVIOUS
<1>. QED  BY <1>7, <1>9, <1>12, <1>16, <1>17 DEF WaitInv

(* a flush too,                                                            *)
LEMMA FlushWait ==
  ASSUME TypeOK, HeldInv, WaitInv, Flush
  PROVE  WaitInv'
<1>1. PICK q : /\ Flushes(q) /\ jobs' = PesList(q)
               /\ held' = [i \in Streams |-> Emptied(held[i])]
               /\ last_dts' = last_dts
  BY FlushIs
<1>2. PICK before \in Int : before = last_dts + Shift
  BY ShiftType DEF HeldInv
<1>3. (last_dts + Shift)' = before
  BY <1>1, <1>2 DEF Shift
<1>4. q \in Seq(Streams) /\ \A k \in 1 .. Len(q) : held[q[k]].size > 0
  BY <1>1 DEF Flushes
<1>5. PICK n \in Nat : n = Len(q)
  BY <1>4
<1>6. Len(jobs') = n /\ \A k \in 1 .. n : jobs'[k].dts = held[q[k]].dts
  BY <1>1, <1>4, <1>5, ListIs, PesOfFresh
<1>7. PICK d : d = [k \in 1 .. n |-> jobs'[k].dts]
  OBVIOUS
<1>8. ASSUME NEW k \in 1 .. n
      PROVE  d[k] \in Int /\ d[k] <= before /\ before - d[k] <= max_delay
  <2>1. q[k] \in Streams /\ held[q[k]].size > 0 /\ d[k] = held[q[k]].dts
    BY <1>4, <1>5, <1>6, <1>7
  <2>2. PICK i \in Streams : i = q[k]
    BY <2>1
  <2>3. held[i].dts \in Int /\ held[i].dts <= before /\ before - held[i].dts <= max_delay
    BY <1>2, <2>1, <2>2, HeldRecently
  <2>. QED  BY <2>1, <2>2, <2>3
<1>9. \A a \in 1 .. n : d[a] <= before /\ \A b \in a .. n : d[a] - d[b] <= max_delay
  <2>1. Close(d, n, before, before)
    <3>1. before <= before
      BY <1>2
    <3>. QED  BY <1>8, <3>1, Zenon DEF Close
  <2>. QED  BY <2>1, TimesApart
<1>10. \A a \in 1 .. n : /\ jobs'[a].dts <= before
                         /\ \A b \in a .. n : jobs'[a].dts - jobs'[b].dts <= max_delay
  <2>1. \A a \in 1 .. n : \A b \in a .. n : b \in 1 .. n
    OBVIOUS
  <2>. QED  BY <1>7, <1>9, <2>1
<1>11. \A i \in Streams : ~(held'[i].size > 0)
  BY <1>1 DEF Emptied
<1>. QED  BY <1>3, <1>6, <1>10, <1>11 DEF WaitInv

(* and a turn of the loop.                                                 *)
LEMMA BehindWait ==
  ASSUME TypeOK, WaitInv, NEW off \in {0, 1}, Behind(off),
         UNCHANGED <<held, last_dts>>
  PROVE  WaitInv'
<1>1. Len(jobs) \in Nat /\ Len(jobs') = Len(jobs) - off
  BY DEF TypeOK, Behind
<1>2. ASSUME NEW m \in 1 .. Len(jobs')
      PROVE  /\ jobs'[m].dts <= last_dts + Shift
             /\ \A n \in m .. Len(jobs') : jobs'[m].dts - jobs'[n].dts <= max_delay
  <2>1. m + off \in 1 .. Len(jobs) /\ jobs'[m].dts = jobs[m + off].dts
    BY DEF Behind
  <2>2. ASSUME NEW n \in m .. Len(jobs')
        PROVE  jobs'[m].dts - jobs'[n].dts <= max_delay
    <3>1. n \in 1 .. Len(jobs')
      BY <1>1
    <3>2. n + off \in 1 .. Len(jobs) /\ jobs'[n].dts = jobs[n + off].dts
      BY <3>1 DEF Behind
    <3>3. n + off \in m + off .. Len(jobs)
      BY <1>1, <3>2
    <3>. QED  BY <2>1, <3>2, <3>3 DEF WaitInv
  <2>. QED  BY <2>1, <2>2 DEF WaitInv
<1>3. \A s \in Streams : held'[s].size > 0 => held'[s].dts <= last_dts + Shift
  BY DEF WaitInv
<1>4. (last_dts + Shift)' = last_dts + Shift
  BY DEF Shift
<1>. QED  BY <1>2, <1>3, <1>4 DEF WaitInv

(* So what waits stays close together.                                     *)
LEMMA NextWait ==
  ASSUME TypeOK, HeldInv, WaitInv, [Next]_vars
  PROVE  WaitInv'
<1>1. ASSUME NEW s \in Streams, NEW kind \in Kinds[s], NEW gap \in Gaps[s],
             GiveUnit(s, kind, gap)
      PROVE  WaitInv'
  BY <1>1, GiveUnitWait
<1>2. ASSUME UNCHANGED <<jobs, held, last_dts>>
      PROVE  WaitInv'
  BY <1>2 DEF WaitInv, Shift
<1>3. ASSUME NEW p \in Sections, NEW len \in SectionLens, GiveSection(p, len)
      PROVE  WaitInv'
  BY <1>2, <1>3 DEF GiveSection, payloadvars
<1>4. ASSUME NEW j, NEW t, NEW own, NEW packet, Turned(j, t, own, packet)
      PROVE  UNCHANGED <<held, last_dts>>
  BY <1>4 DEF Turned, payloadvars, inputvars
<1>5. ASSUME Pad
      PROVE  WaitInv'
  <2>1. PICK j \in Pes, packet \in Packet : \E t : Turned(j, t, Null, packet) /\ Behind(0)
    BY <1>5, PadBehind
  <2>2. UNCHANGED <<held, last_dts>> /\ Behind(0)
    BY <1>4, <2>1
  <2>. QED  BY <2>2, BehindWait
<1>6. ASSUME Emit
      PROVE  WaitInv'
  <2>1. PICK j \in Pes : \E t : /\ Turned(j, t, j.s, OwnPacket(j, t))
                                /\ Behind(0) \/ Behind(1)
    BY <1>6, EmitBehind
  <2>2. UNCHANGED <<held, last_dts>> /\ (Behind(0) \/ Behind(1))
    BY <1>4, <2>1
  <2>. QED  BY <2>2, BehindWait
<1>7. UNCHANGED vars => WaitInv'
  BY <1>2 DEF vars, payloadvars, inputvars
<1>. QED  BY <1>1, <1>3, <1>5, <1>6, <1>7, FlushWait DEF Next

(* The PES in hand is at most max_delay later than anything that waits.    *)
LEMMA HeadWaits ==
  ASSUME TypeOK, HeldInv, WaitInv, jobs # << >>, NEW dts \in Waiting
  PROVE  dts \in Int /\ jobs[1].dts \in Int /\ jobs[1].dts - dts <= max_delay
<1>1. Len(jobs) \in Nat \ {0} /\ \A n \in 1 .. Len(jobs) : jobs[n] \in Pes
  BY DEF TypeOK
<1>2. 1 \in 1 .. Len(jobs) /\ jobs[1].dts \in Int
  BY <1>1, PesFields
<1>3. ASSUME NEW n \in 1 .. Len(jobs), dts = jobs[n].dts
      PROVE  dts \in Int /\ jobs[1].dts - dts <= max_delay
  BY <1>1, <1>2, <1>3, PesFields DEF WaitInv
<1>4. ASSUME NEW s \in Streams, held[s].size > 0, dts = held[s].dts
      PROVE  dts \in Int /\ jobs[1].dts - dts <= max_delay
  <2>1. PICK now \in Int : now = last_dts + Shift
    BY ShiftType DEF HeldInv
  <2>2. dts \in Int /\ now - dts <= max_delay
    <3>1. held[s].dts \in Int /\ now - held[s].dts <= max_delay
      BY <1>4, <2>1, HeldRecently
    <3>. QED  BY <1>4, <3>1
  <2>3. jobs[1].dts <= now
    BY <1>2, <2>1 DEF WaitInv
  <2>. QED  BY <1>2, <2>2, <2>3, TimesAssumption
<1>. QED  BY <1>2, <1>3, <1>4 DEF Waiting

(* The packet of a turn that pads begins before all that waits.            *)
LEMMA PadWaits ==
  ASSUME TypeOK, HeldInv, WaitInv, Pad, NEW dts \in Waiting
  PROVE  Ticks(get_pcr(sent' - 1, first_pcr')) < dts
<1>1. PICK j \in Pes, packet \in Packet : \E t :
        /\ jobs # << >> /\ j = jobs[1] /\ t = Turn(j) /\ t.pad
        /\ Turned(j, t, Null, packet)
  BY PadBehind
<1>2. PICK t :
        /\ jobs # << >> /\ j = jobs[1] /\ t = Turn(j) /\ t.pad
        /\ Turned(j, t, Null, packet)
  BY <1>1
<1>3. t.n \in Int /\ t.first \in Int
  BY <1>2, TurnType
<1>4. first_pcr' = t.first /\ sent' - 1 = t.n
  <2>1. first_pcr' = t.first /\ sent' = t.n + 1
    BY <1>2, TurnedClock
  <2>. QED  BY <1>3, <2>1
<1>5. PICK tick \in Int : tick = Ticks(get_pcr(t.n, t.first))
  <2>1. get_pcr(t.n, t.first) \in Int
    BY <1>3, ClockType
  <2>. QED  BY <2>1, DivTowardsZero
<1>6. jobs[1].dts - tick > max_delay
  <2>1. TooEarly(j, t.n, t.first)
    <3>1. t.pad = TooEarly(j, t.n, t.first)
      BY <1>2, TurnFields
    <3>. QED  BY <1>2, <3>1, Zenon
  <2>. QED  BY <1>2, <1>5, <2>1, Zenon DEF TooEarly
<1>7. dts \in Int /\ jobs[1].dts \in Int /\ jobs[1].dts - dts <= max_delay
  BY <1>2, HeadWaits
<1>8. tick < dts
  BY <1>6, <1>7, TimesAssumption
<1>. QED  BY <1>4, <1>5, <1>8

(* Only padding ends with a packet without payload or a null one.          *)
LEMMA OnlyPads ==
  ASSUME TypeOK, [Next]_vars, sent' # sent,
         NEW p \in {wrote'[k] : k \in {Len(wrote')} \ {0}},
         (p.pid = Null) \/ ~p.payload
  PROVE  Pad
<1>0. p = wrote'[Len(wrote')]
  OBVIOUS
<1>1. ASSUME NEW s \in Streams, NEW kind \in Kinds[s], NEW gap \in Gaps[s],
             GiveUnit(s, kind, gap)
      PROVE  FALSE
  BY <1>1 DEF GiveUnit
<1>2. ASSUME NEW i \in Sections, NEW len \in SectionLens, GiveSection(i, len)
      PROVE  FALSE
  <2>1. PICK packets : packets = SectionOf(i, len)
    OBVIOUS
  <2>2. i \in Pids /\ len \in Nat /\ cc \in [Pids -> 0 .. 15]
    BY SectionsAssumption DEF SectionLen, Pids, TypeOK
  <2>3. Len(packets) = SectionPackets(len) /\ wrote' = packets
    BY <1>2, <2>1, <2>2, SectionOfType DEF GiveSection, WritePackets
  <2>4. PICK n \in Nat \ {0} : n = SectionPackets(len)
    BY <2>2, SectionPacketsType
  <2>5. Plain(p) /\ p.pid = i
    <3>1. \A k \in 1 .. n : Plain(packets[k]) /\ packets[k].pid = i
      BY <2>1, <2>2, <2>4, SectionOfType
    <3>2. n \in 1 .. n /\ p = packets[n]
      BY <1>0, <2>3, <2>4
    <3>. QED  BY <3>1, <3>2
  <2>. QED  BY <2>5, PidsApart DEF Plain
<1>3. ~Flush
  BY DEF Flush
<1>4. ~UNCHANGED vars
  BY DEF vars
<1>5. ASSUME Emit
      PROVE  FALSE
  <2>1. PICK j \in Pes : \E t : t = Turn(j) /\ Turned(j, t, j.s, OwnPacket(j, t))
    BY <1>5, EmitBehind
  <2>2. PICK t : t = Turn(j) /\ Turned(j, t, j.s, OwnPacket(j, t))
    BY <2>1
  <2>3. PICK packet \in Packet : packet = OwnPacket(j, t)
    BY <2>2, OwnPacketType, Zenon
  <2>4. packet.pid = j.s /\ packet.payload = TRUE
    BY <2>3 DEF OwnPacket
  <2>5. Turned(j, t, j.s, packet)
    BY <2>2, <2>3, Zenon
  <2>6. PICK n \in Nat : Len(wrote') = n + 1 /\ wrote'[n + 1] = packet
    BY <2>2, <2>5, TurnedWrote
  <2>7. p.pid \in Streams /\ p.payload = TRUE
    BY <1>0, <2>4, <2>6, PesFields
  <2>. QED  BY <2>7, PidsApart
<1>. QED  BY <1>1, <1>2, <1>3, <1>4, <1>5 DEF Next

(* Whatever the rate, the streams and their units: padding begins only     *)
(* while the clock is before the dts of every unit that waits, so no unit, *)
(* gathered ones of other streams included, is late because of it.  The    *)
(* PES in hand is at most max_delay later than anything that waits behind  *)
(* it, as what was gathered longer ago was flushed before it.              *)
THEOREM PaddingLeavesTimeHolds == Spec => PaddingLeavesTime
<1>1. Init => TypeOK /\ HeldInv /\ WaitInv
  BY InitType, InitHeld, InitWait
<1>2. TypeOK /\ HeldInv /\ WaitInv /\ [Next]_vars => TypeOK' /\ HeldInv' /\ WaitInv'
  BY NextType, NextHeld, NextWait
<1>3. TypeOK /\ HeldInv /\ WaitInv /\ [Next]_vars
        => [\A p \in {wrote'[k] : k \in {Len(wrote')} \ {0}} :
              (sent' # sent /\ (p.pid = Null \/ ~p.payload))
                => \A dts \in Waiting : Ticks(get_pcr(sent' - 1, first_pcr')) < dts]_vars
  BY OnlyPads, PadWaits
<1>. QED  BY <1>1, <1>2, <1>3, PTL DEF Spec, PaddingLeavesTime
=============================================================================
