----------------------------- MODULE AvToEsProofs -----------------------------
(***************************************************************************)
(* Theorems about AvToEs, for every command line, input and order of       *)
(* opening: the types; a write that a signal cuts short is the last one;   *)
(* when the streams come in the order of the options every packet is in    *)
(* its file, and the packets' distances in time survive the cut to 33 bits *)
(* and the multiplexer's unrolling.                                        *)
(***************************************************************************)
EXTENDS AvToEs, WellFoundedInduction, TLAPS

-----------------------------------------------------------------------------
(***************************************************************************)
(* Cut records.                                                            *)
(***************************************************************************)

Typed ==
  /\ job \in Jobs
  /\ pos \in Nat
  /\ \A n \in DOMAIN files : files[n] \in Seq(Record)

AllWhole ==
  \A n \in DOMAIN files : \A k \in 1 .. Len(files[n]) : files[n][k].whole

(* The inductive invariant: a record is cut only by the signal that ends   *)
(* the loop, when no file can be emptied by opening it any more.           *)
CutOnce ==
  \/ AllWhole
  \/ exit_flag /\ epc \notin {"opening", "waiting"} /\ OnlyLastCut

Inv == Typed /\ CutOnce

(* Files of whole records have no cut one.                                 *)
LEMMA WholeIsUncut == ASSUME AllWhole PROVE OnlyLastCut
BY DEF AllWhole, OnlyLastCut

(* A packet that is read has the times that av_read_frame gives.           *)
LEMMA PacketRead ==
  ASSUME Typed, Goes
  PROVE  ThisPacket \in Packet
<1>1. job.packets \in Seq(Packet)
  BY JobsAssumption, Zenon DEF Typed, Job
<1>2. pos + 1 \in 1 .. Len(job.packets)
  BY <1>1 DEF Typed, Goes
<1>. QED  BY <1>1, <1>2 DEF ThisPacket

(* What is written for a packet is a record, cut or whole as said.         *)
LEMMA RecordMade ==
  ASSUME NEW p \in Packet, NEW w \in BOOLEAN
  PROVE  RecordOf(p, w) \in Record /\ RecordOf(p, w).whole = w
<1>1. p.stream \in Slots /\ p.pts \in Int /\ p.dts \in Int
  BY DEF Packet
<1>2. \A t \in Int : (t % Wrap) \in Nat
  BY WrapAssumption
<1>3. Cut33(p.pts) \in Nat
  BY <1>1, <1>2 DEF Cut33
<1>. DEFINE d == IF Cut33(p.dts) = AV_NOPTS_VALUE THEN Unset ELSE Cut33(p.pts)
<1>4. d \in Nat \cup {Unset}
  BY <1>3
<1>5. RecordOf(p, w) = [stream |-> p.stream, pts |-> Cut33(p.pts), dts |-> d, whole |-> w]
  BY DEF RecordOf
<1>. HIDE DEF d
<1>6. [stream |-> p.stream, pts |-> Cut33(p.pts), dts |-> d, whole |-> w] \in Record
  BY <1>1, <1>3, <1>4 DEF Record
<1>7. [stream |-> p.stream, pts |-> Cut33(p.pts), dts |-> d, whole |-> w].whole = w
  OBVIOUS
<1>. QED  BY <1>5, <1>6, <1>7, Zenon

(* A write adds one record to one file, or none.                           *)
LEMMA WriteAdds ==
  ASSUME Typed, Goes, NEW w \in BOOLEAN, Written(w)
  PROVE  /\ pos' \in Nat
         /\ DOMAIN files' = DOMAIN files
         /\ \A n \in DOMAIN files :
              \/ files'[n] = files[n]
              \/ /\ n = Target(ThisPacket.stream)
                 /\ files'[n] = Append(files[n], RecordOf(ThisPacket, w))
<1>1. pos' \in Nat
  BY DEF Typed, Written
<1>. DEFINE t == Target(ThisPacket.stream)
<1>2. \/ files' = files
      \/ files' = [files EXCEPT ![t] = Append(@, RecordOf(ThisPacket, w))]
  BY Zenon DEF Written
<1>. HIDE DEF t
<1>3. /\ DOMAIN files' = DOMAIN files
      /\ \A n \in DOMAIN files :
           \/ files'[n] = files[n]
           \/ n = t /\ files'[n] = Append(files[n], RecordOf(ThisPacket, w))
  BY <1>2
<1>. QED  BY <1>1, <1>3 DEF t

(* The files stay sequences of records.                                    *)
LEMMA WriteTyped ==
  ASSUME Typed, Goes, NEW w \in BOOLEAN, Written(w), job' = job
  PROVE  Typed'
<1>1. RecordOf(ThisPacket, w) \in Record
  BY PacketRead, RecordMade
<1>2. ASSUME NEW n \in DOMAIN files'
      PROVE  files'[n] \in Seq(Record)
  <2>1. n \in DOMAIN files /\ files[n] \in Seq(Record)
    BY <1>2, WriteAdds DEF Typed
  <2>2. files'[n] = files[n] \/ files'[n] = Append(files[n], RecordOf(ThisPacket, w))
    BY <2>1, WriteAdds
  <2>. QED  BY <1>1, <2>1, <2>2
<1>. QED  BY <1>2, WriteAdds DEF Typed

(* No file has a cut record while the loop goes on.                        *)
LEMMA GoesWhole == ASSUME CutOnce, Goes PROVE AllWhole
BY DEF CutOnce, Goes

(* A whole write leaves every record whole.                                *)
LEMMA WholeWrite ==
  ASSUME Typed, AllWhole, Goes, Written(TRUE)
  PROVE  AllWhole'
<1>1. SUFFICES ASSUME NEW n \in DOMAIN files', NEW k \in 1 .. Len(files'[n])
               PROVE  files'[n][k].whole
  BY DEF AllWhole
<1>2. RecordOf(ThisPacket, TRUE).whole /\ RecordOf(ThisPacket, TRUE) \in Record
  BY PacketRead, RecordMade
<1>3. n \in DOMAIN files /\ files[n] \in Seq(Record)
  BY <1>1, WriteAdds DEF Typed
<1>4. CASE files'[n] = files[n]
  BY <1>1, <1>3, <1>4 DEF AllWhole
<1>. DEFINE r == RecordOf(ThisPacket, TRUE)
<1>. HIDE DEF r
<1>5. CASE files'[n] = Append(files[n], r)
  <2>0. r \in Record /\ r.whole
    BY <1>2 DEF r
  <2>1. k \in 1 .. Len(files[n]) \/ k = Len(files[n]) + 1
    BY <1>1, <1>3, <1>5, <2>0
  <2>2. CASE k \in 1 .. Len(files[n])
    <3>1. files'[n][k] = files[n][k]
      BY <1>3, <1>5, <2>0, <2>2
    <3>. QED  BY <1>3, <2>2, <3>1, Zenon DEF AllWhole
  <2>3. CASE k = Len(files[n]) + 1
    <3>1. files'[n][k] = r
      BY <1>3, <1>5, <2>0, <2>3
    <3>. QED  BY <2>0, <3>1, Zenon
  <2>. QED  BY <2>1, <2>2, <2>3
<1>. QED  BY <1>3, <1>4, <1>5, WriteAdds DEF r

(* A write that is cut is the last of its file, and the only one.          *)
LEMMA CutWrite ==
  ASSUME Typed, AllWhole, Goes, Written(FALSE)
  PROVE  OnlyLastCut'
<1>. DEFINE t == Target(ThisPacket.stream)
            r == RecordOf(ThisPacket, FALSE)
<1>1. r \in Record
  BY PacketRead, RecordMade
<1>2. DOMAIN files' = DOMAIN files
  BY WriteAdds
<1>3. \A n \in DOMAIN files :
        files'[n] = files[n] \/ (n = t /\ files'[n] = Append(files[n], r))
  <2>1. FALSE \in BOOLEAN
    OBVIOUS
  <2>2. ASSUME NEW n \in DOMAIN files
        PROVE  \/ files'[n] = files[n]
               \/ /\ n = Target(ThisPacket.stream)
                  /\ files'[n] = Append(files[n], RecordOf(ThisPacket, FALSE))
    BY <2>1, <2>2, WriteAdds
  <2>. QED  BY <2>2, Zenon DEF t, r
<1>4. \A n \in DOMAIN files : files[n] \in Seq(Record)
  BY DEF Typed
<1>. HIDE DEF t, r
<1>5. ASSUME NEW n \in DOMAIN files, NEW k \in 1 .. Len(files'[n]),
             ~(n = t /\ k = Len(files'[n]))
      PROVE  files'[n][k].whole
  <2>1. k \in 1 .. Len(files[n]) /\ files'[n][k] = files[n][k]
    <3>1. CASE files'[n] = files[n]
      BY <1>5, <3>1
    <3>2. CASE n = t /\ files'[n] = Append(files[n], r)
      <4>1. files[n] \in Seq(Record)
        BY <1>4, <1>5
      <4>2. k \in 1 .. Len(files[n]) + 1 /\ Len(files'[n]) = Len(files[n]) + 1
        BY <1>1, <1>5, <3>2, <4>1
      <4>3. k # Len(files[n]) + 1
        BY <1>5, <3>2, <4>2
      <4>. QED  BY <1>1, <3>2, <4>1, <4>2, <4>3
    <3>. QED  BY <1>3, <3>1, <3>2
  <2>. QED  BY <2>1, Zenon DEF AllWhole
<1>6. SUFFICES ASSUME NEW n \in DOMAIN files, NEW k \in 1 .. Len(files'[n]),
                      ~files'[n][k].whole
               PROVE  /\ k = Len(files'[n])
                      /\ \A m \in DOMAIN files : \A j \in 1 .. Len(files'[m]) :
                           files'[m][j].whole \/ <<m, j>> = <<n, k>>
  BY <1>2, Zenon DEF OnlyLastCut
<1>7. n = t /\ k = Len(files'[n])
  BY <1>5, <1>6, Zenon
<1>. QED  BY <1>5, <1>7, Zenon

(* Opening a file empties it, if it was there.                             *)
LEMMA OpenedKept ==
  ASSUME Typed, AllWhole, NEW i, HasOpened(i), job' = job, pos' = pos
  PROVE  Typed' /\ AllWhole'
<1>1. \A n \in DOMAIN files' : files'[n] = << >> \/ (n \in DOMAIN files /\ files'[n] = files[n])
  <2>. DEFINE g == FileOf(i)
  <2>1. files' = [n \in DOMAIN files \cup {g} |-> IF n = g THEN << >> ELSE files[n]]
    BY Zenon DEF HasOpened
  <2>. HIDE DEF g
  <2>2. DOMAIN files' = DOMAIN files \cup {g}
    BY <2>1
  <2>3. \A n \in DOMAIN files \cup {g} : files'[n] = IF n = g THEN << >> ELSE files[n]
    BY <2>1
  <2>4. ASSUME NEW n \in DOMAIN files'
        PROVE  files'[n] = << >> \/ (n \in DOMAIN files /\ files'[n] = files[n])
    <3>1. CASE n = g
      <4>1. files'[n] = IF n = g THEN << >> ELSE files[n]
        BY <2>2, <2>3, <2>4, Zenon
      <4>. QED  BY <3>1, <4>1, Zenon
    <3>2. CASE n # g
      BY <2>2, <2>3, <2>4, <3>2
    <3>. QED  BY <3>1, <3>2
  <2>. QED  BY <2>4
<1>2. Typed'
  <2>1. << >> \in Seq(Record)
    OBVIOUS
  <2>. QED  BY <1>1, <2>1 DEF Typed
<1>3. ASSUME NEW n \in DOMAIN files', NEW k \in 1 .. Len(files'[n])
      PROVE  files'[n][k].whole
  <2>1. CASE files'[n] = << >>
    BY <1>3, <2>1
  <2>2. CASE n \in DOMAIN files /\ files'[n] = files[n]
    BY <1>3, <2>2, Zenon DEF AllWhole
  <2>. QED  BY <1>1, <1>3, <2>1, <2>2
<1>. QED  BY <1>2, <1>3, Zenon DEF AllWhole

(* What the rest of the steps do to it: nothing.                           *)
LEMMA OthersKept ==
  ASSUME Inv, job' = job, files' = files, pos' \in Nat,
         exit_flag => exit_flag',
         epc' = epc \/ epc \in {"opening", "waiting"} \/ epc' \notin {"opening", "waiting"}
  PROVE  Inv'
<1>1. Typed'
  BY DEF Inv, Typed
<1>2. CASE AllWhole
  <2>1. AllWhole'
    BY <1>2 DEF AllWhole
  <2>. QED  BY <1>1, <2>1 DEF Inv, CutOnce
<1>3. CASE exit_flag /\ epc \notin {"opening", "waiting"} /\ OnlyLastCut
  <2>1. OnlyLastCut'
    BY <1>3 DEF OnlyLastCut
  <2>. QED  BY <1>1, <1>3, <2>1, Zenon DEF Inv, CutOnce
<1>. QED  BY <1>2, <1>3 DEF Inv, CutOnce

(* While files are opened no record is cut.                                *)
LEMMA OpeningWhole ==
  ASSUME CutOnce, epc \in {"opening", "waiting"}
  PROVE  AllWhole
BY DEF CutOnce

(* Every step keeps the invariant.                                         *)
LEMMA Step == ASSUME Inv, [Next]_vars PROVE Inv'
<1>0. pos \in Nat
  BY DEF Inv, Typed
<1>1. CASE SkipStream \/ MakePipe \/ OpenFails \/ StartMain \/ WriteKills \/ Close
  <2>1. /\ job' = job /\ files' = files /\ pos' = pos /\ exit_flag' = exit_flag
        /\ epc' = epc \/ epc \in {"opening", "waiting"} \/ epc' \notin {"opening", "waiting"}
    BY <1>1 DEF SkipStream, MakePipe, OpenFails, StartMain, WriteKills, Close
  <2>. QED  BY <1>0, <2>1, OthersKept
<1>2. CASE OpenFile \/ \E p \in DOMAIN reads : Meet(p)
  <2>1. HasOpened(at) /\ job' = job /\ pos' = pos /\ epc \in {"opening", "waiting"}
    BY <1>2 DEF OpenFile, Meet
  <2>2. AllWhole
    BY <2>1, OpeningWhole DEF Inv
  <2>. QED  BY <2>1, <2>2, OpenedKept DEF Inv, CutOnce
<1>3. CASE SkipPacket
  <2>1. /\ job' = job /\ files' = files /\ pos' = pos + 1 /\ exit_flag' = exit_flag
        /\ epc' = epc
    BY <1>3 DEF SkipPacket
  <2>2. pos' \in Nat
    BY <1>0, <2>1
  <2>. QED  BY <2>1, <2>2, OthersKept
<1>4. CASE WritePacket
  <2>1. Goes /\ Written(TRUE) /\ job' = job
    BY <1>4 DEF WritePacket
  <2>. QED  BY <2>1, GoesWhole, WholeWrite, WriteTyped DEF Inv, CutOnce
<1>5. CASE WriteCut
  <2>1. Goes /\ Written(FALSE) /\ job' = job /\ exit_flag' /\ epc' = epc /\ epc = "main"
    BY <1>5 DEF WriteCut, Goes
  <2>. QED  BY <2>1, GoesWhole, CutWrite, WriteTyped DEF Inv, CutOnce
<1>6. CASE Environment \/ UNCHANGED vars
  <2>1. /\ job' = job /\ files' = files /\ pos' = pos /\ epc' = epc
        /\ exit_flag => exit_flag'
    BY <1>6 DEF Environment, Signal, ReaderMisses, ReaderLeaves, evars, vars
  <2>. QED  BY <1>0, <2>1, OthersKept
<1>. QED  BY <1>1, <1>2, <1>3, <1>4, <1>5, <1>6, Zenon DEF Next, Extract

(* Whatever the signals, the options and the order of opening, a record    *)
(* that is cut short is the last in its file and no other one is.          *)
THEOREM OnlyLastCutAlways == Spec => []OnlyLastCut
<1>1. Init => Inv
  BY DEF Init, Inv, Typed, CutOnce, AllWhole
<1>2. Inv /\ [Next]_vars => Inv'
  BY Step
<1>3. Inv => OnlyLastCut
  BY WholeIsUncut DEF Inv, CutOnce
<1>. QED  BY <1>1, <1>2, <1>3, PTL DEF Spec

-----------------------------------------------------------------------------
(***************************************************************************)
(* Natural numbers.                                                        *)
(***************************************************************************)

(* A set of naturals that is not empty has a least element.                *)
LEMMA LeastElement ==
  ASSUME NEW T \in SUBSET Nat, T # {}
  PROVE  \E x \in T : \A y \in T : x <= y
<1>. DEFINE R == OpToRel(<, Nat)
<1>1. \A x, y \in Nat : y < x => <<y, x>> \in R
  BY DEF OpToRel
<1>2. IsWellFoundedOn(R, Nat)
  BY NatLessThanWellFounded
<1>. HIDE DEF R
<1>3. PICK x \in T : \A y \in T : ~ (<<y, x>> \in R)
  BY <1>2, WFMin
<1>4. ASSUME NEW y \in T
      PROVE  x <= y
  <2>1. x \in Nat /\ y \in Nat
    OBVIOUS
  <2>2. ~ (y < x)
    BY <1>1, <1>3, <2>1
  <2>. QED  BY <2>1, <2>2
<1>. QED  BY <1>4

(* Induction up to m, for a set in place of a predicate.                   *)
LEMMA InductionTo ==
  ASSUME NEW m \in Nat, NEW T,
         0 \in T,
         \A i \in 0 .. m - 1 : i \in T => i + 1 \in T
  PROVE  \A i \in 0 .. m : i \in T
<1>. DEFINE U == {i \in 0 .. m : i \notin T}
<1>1. SUFFICES ASSUME U # {}
               PROVE  FALSE
  OBVIOUS
<1>2. PICK x \in U : \A y \in U : x <= y
  <2>1. U \in SUBSET Nat
    OBVIOUS
  <2>. HIDE DEF U
  <2>. QED  BY <1>1, <2>1, LeastElement
<1>3. x # 0
  OBVIOUS
<1>4. x - 1 \in 0 .. m - 1 /\ x - 1 \in T
  BY <1>2, <1>3
<1>. QED  BY <1>4

-----------------------------------------------------------------------------
(***************************************************************************)
(* The chosen elements of a sequence.                                      *)
(***************************************************************************)
IsChosen(f, s, S, m) ==
  f = [k \in 0 .. m |->
         IF k = 0 THEN << >>
         ELSE IF s[k] \in S THEN Append(f[k - 1], s[k]) ELSE f[k - 1]]

Choosing(s, S) == CHOOSE f : IsChosen(f, s, S, Len(s))

(* There is such a function.                                               *)
LEMMA ChosenExists ==
  ASSUME NEW U, NEW s \in Seq(U), NEW S
  PROVE  \E f \in [0 .. Len(s) -> Seq(U \cap S)] : IsChosen(f, s, S, Len(s))
<1>. DEFINE T == {m \in 0 .. Len(s) : \E f \in [0 .. m -> Seq(U \cap S)] : IsChosen(f, s, S, m)}
<1>1. 0 \in T
  <2>. DEFINE none == [k \in 0 .. 0 |-> << >>]
  <2>1. none \in [0 .. 0 -> Seq(U \cap S)]
    <3>1. << >> \in Seq(U \cap S)
      OBVIOUS
    <3>. QED  BY <3>1
  <2>2. none = [k \in 0 .. 0 |->
                  IF k = 0 THEN << >>
                  ELSE IF s[k] \in S THEN Append(none[k - 1], s[k]) ELSE none[k - 1]]
    <3>1. \A k \in 0 .. 0 : k = 0
      OBVIOUS
    <3>. QED  BY <3>1
  <2>3. IsChosen(none, s, S, 0)
    BY <2>2 DEF IsChosen
  <2>4. 0 \in 0 .. Len(s)
    OBVIOUS
  <2>. HIDE DEF none
  <2>. QED  BY <2>1, <2>3, <2>4
<1>2. ASSUME NEW i \in 0 .. Len(s) - 1, i \in T
      PROVE  i + 1 \in T
  <2>1. PICK g \in [0 .. i -> Seq(U \cap S)] : IsChosen(g, s, S, i)
    BY <1>2
  <2>2. s[i + 1] \in U /\ i + 1 \in 0 .. Len(s) /\ i \in Nat
    OBVIOUS
  <2>. DEFINE new == IF s[i + 1] \in S THEN Append(g[i], s[i + 1]) ELSE g[i]
  <2>3. new \in Seq(U \cap S)
    <3>1. g[i] \in Seq(U \cap S)
      BY <2>1, <2>2
    <3>2. CASE s[i + 1] \in S
      <4>1. s[i + 1] \in U \cap S
        BY <2>2, <3>2
      <4>2. Append(g[i], s[i + 1]) \in Seq(U \cap S)
        BY <3>1, <4>1
      <4>. QED  BY <3>2, <4>2
    <3>. QED  BY <3>1, <3>2
  <2>. DEFINE h == [k \in 0 .. i + 1 |-> IF k = i + 1 THEN new ELSE g[k]]
  <2>. HIDE DEF new
  <2>4. h \in [0 .. i + 1 -> Seq(U \cap S)]
    BY <2>1, <2>3
  <2>5. ASSUME NEW k \in 0 .. i + 1
        PROVE  h[k] = IF k = 0 THEN << >>
                      ELSE IF s[k] \in S THEN Append(h[k - 1], s[k]) ELSE h[k - 1]
    <3>0. \A j \in 0 .. i : g[j] = IF j = 0 THEN << >>
                      ELSE IF s[j] \in S THEN Append(g[j - 1], s[j]) ELSE g[j - 1]
      BY <2>1 DEF IsChosen
    <3>1. CASE k = i + 1
      <4>1. h[k] = new /\ h[k - 1] = g[i] /\ k # 0
        BY <2>2, <3>1
      <4>2. new = IF s[k] \in S THEN Append(g[i], s[k]) ELSE g[i]
        BY <3>1 DEF new
      <4>. QED  BY <4>1, <4>2
    <3>2. CASE k # i + 1
      <4>1. k \in 0 .. i /\ h[k] = g[k]
        BY <2>5, <3>2
      <4>2. k # 0 => h[k - 1] = g[k - 1]
        BY <4>1
      <4>. QED  BY <3>0, <4>1, <4>2
    <3>. QED  BY <3>1, <3>2
  <2>6. IsChosen(h, s, S, i + 1)
    <3>1. h = [k \in 0 .. i + 1 |-> h[k]]
      OBVIOUS
    <3>. HIDE DEF h
    <3>. QED  BY <2>5, <3>1 DEF IsChosen
  <2>. HIDE DEF h
  <2>. QED  BY <2>2, <2>4, <2>6
<1>3. Len(s) \in Nat
  OBVIOUS
<1>. HIDE DEF T
<1>4. \A i \in 0 .. Len(s) : i \in T
  BY <1>1, <1>2, <1>3, InductionTo
<1>5. Len(s) \in T
  BY <1>3, <1>4
<1>. QED  BY <1>5 DEF T

(* What Chosen computes.                                                   *)
LEMMA ChosenIs ==
  ASSUME NEW U, NEW s \in Seq(U), NEW S
  PROVE  /\ IsChosen(Choosing(s, S), s, S, Len(s))
         /\ Chosen(s, S) = Choosing(s, S)[Len(s)]
<1>1. \E f : IsChosen(f, s, S, Len(s))
  BY ChosenExists
<1>. QED  BY <1>1, Zenon DEF Choosing, Chosen, IsChosen

(* It looks at no more of the sequence than it has come to.                *)
LEMMA ChosenPrefix ==
  ASSUME NEW s, NEW t, NEW S, NEW m \in Nat, NEW n \in Nat, m <= n,
         NEW f, NEW g, IsChosen(f, s, S, m), IsChosen(g, t, S, n),
         \A k \in 1 .. m : s[k] = t[k]
  PROVE  f[m] = g[m]
<1>. DEFINE T == {k \in 0 .. m : f[k] = g[k]}
<1>1. \A k \in 0 .. m : f[k] = IF k = 0 THEN << >>
                ELSE IF s[k] \in S THEN Append(f[k - 1], s[k]) ELSE f[k - 1]
  BY DEF IsChosen
<1>2. \A k \in 0 .. n : g[k] = IF k = 0 THEN << >>
                ELSE IF t[k] \in S THEN Append(g[k - 1], t[k]) ELSE g[k - 1]
  BY DEF IsChosen
<1>3. 0 \in T
  BY <1>1, <1>2
<1>4. ASSUME NEW i \in 0 .. m - 1, i \in T
      PROVE  i + 1 \in T
  <2>1. i + 1 \in 0 .. m /\ i + 1 \in 0 .. n /\ (i + 1) - 1 = i /\ i + 1 # 0
        /\ s[i + 1] = t[i + 1]
    OBVIOUS
  <2>2. f[i + 1] = IF s[i + 1] \in S THEN Append(f[i], s[i + 1]) ELSE f[i]
    BY <1>1, <2>1
  <2>3. g[i + 1] = IF t[i + 1] \in S THEN Append(g[i], t[i + 1]) ELSE g[i]
    BY <1>2, <2>1
  <2>. QED  BY <1>4, <2>1, <2>2, <2>3
<1>. HIDE DEF T
<1>5. \A k \in 0 .. m : k \in T
  BY <1>3, <1>4, InductionTo
<1>6. m \in T
  BY <1>5
<1>. QED  BY <1>6 DEF T

(* The chosen ones are of both kinds.                                      *)
LEMMA ChosenType ==
  ASSUME NEW U, NEW s \in Seq(U), NEW S
  PROVE  Chosen(s, S) \in Seq(U \cap S)
<1>1. PICK f \in [0 .. Len(s) -> Seq(U \cap S)] : IsChosen(f, s, S, Len(s))
  BY ChosenExists
<1>2. Len(s) \in Nat /\ f[Len(s)] \in Seq(U \cap S)
  BY <1>1
<1>3. IsChosen(Choosing(s, S), s, S, Len(s)) /\ Chosen(s, S) = Choosing(s, S)[Len(s)]
  BY ChosenIs
<1>4. f[Len(s)] = Choosing(s, S)[Len(s)]
  BY <1>1, <1>2, <1>3, ChosenPrefix
<1>. QED  BY <1>2, <1>3, <1>4

(* Of nothing it chooses nothing.                                          *)
LEMMA ChosenNone ==
  ASSUME NEW s, NEW S, s = << >>
  PROVE  Chosen(s, S) = << >>
<1>1. s \in Seq({}) /\ Len(s) = 0
  OBVIOUS
<1>2. IsChosen(Choosing(s, S), s, S, Len(s)) /\ Chosen(s, S) = Choosing(s, S)[Len(s)]
  BY <1>1, ChosenIs
<1>3. Choosing(s, S)[0] = << >>
  BY <1>1, <1>2 DEF IsChosen
<1>. QED  BY <1>1, <1>2, <1>3

(* One more element is chosen, or is not.                                  *)
LEMMA ChosenAppend ==
  ASSUME NEW U, NEW s \in Seq(U), NEW S, NEW e \in U
  PROVE  /\ e \in S => Chosen(Append(s, e), S) = Append(Chosen(s, S), e)
         /\ e \notin S => Chosen(Append(s, e), S) = Chosen(s, S)
<1>. DEFINE t == Append(s, e)
            f == Choosing(s, S)
            g == Choosing(t, S)
            n == Len(s)
<1>1. t \in Seq(U) /\ Len(t) = n + 1 /\ n \in Nat /\ t[n + 1] = e
      /\ \A k \in 1 .. n : s[k] = t[k]
  OBVIOUS
<1>. HIDE DEF t
<1>2. IsChosen(f, s, S, n) /\ Chosen(s, S) = f[n]
  BY ChosenIs
<1>3. IsChosen(g, t, S, n + 1) /\ Chosen(t, S) = g[n + 1]
  <2>1. IsChosen(g, t, S, Len(t)) /\ Chosen(t, S) = g[Len(t)]
    BY <1>1, ChosenIs
  <2>. QED  BY <1>1, <2>1
<1>. HIDE DEF f, g, n
<1>4. f[n] = g[n]
  <2>1. n + 1 \in Nat /\ n <= n + 1
    BY <1>1
  <2>. QED  BY <1>1, <1>2, <1>3, <2>1, ChosenPrefix
<1>5. g[n + 1] = IF t[n + 1] \in S THEN Append(g[n], t[n + 1]) ELSE g[n]
  <2>1. \A k \in 0 .. n + 1 : g[k] = IF k = 0 THEN << >>
                ELSE IF t[k] \in S THEN Append(g[k - 1], t[k]) ELSE g[k - 1]
    BY <1>3 DEF IsChosen
  <2>2. n + 1 \in 0 .. n + 1 /\ n + 1 # 0 /\ (n + 1) - 1 = n
    BY <1>1
  <2>. QED  BY <2>1, <2>2
<1>. QED  BY <1>1, <1>2, <1>3, <1>4, <1>5 DEF t

-----------------------------------------------------------------------------
(***************************************************************************)
(* Types.                                                                  *)
(***************************************************************************)

(* The first slot with a pid is one of those in use.                       *)
LEMMA RequiredType ==
  ASSUME num_out_streams \in 0 .. MaxStreams, NEW pid,
         check_id_stream_is_required(pid) # 0
  PROVE  /\ check_id_stream_is_required(pid) \in 1 .. num_out_streams
         /\ check_id_stream_is_required(pid) \in Slots
<1>. DEFINE hits == {i \in 1 .. num_out_streams : PidOf(i) = pid}
<1>1. check_id_stream_is_required(pid) =
        IF hits = {} THEN 0 ELSE CHOOSE i \in hits : \A j \in hits : i <= j
  BY DEF check_id_stream_is_required
<1>2. hits \in SUBSET Nat /\ hits \subseteq 1 .. num_out_streams
  OBVIOUS
<1>. HIDE DEF hits
<1>3. hits # {}
  BY <1>1
<1>4. \E i \in hits : \A j \in hits : i <= j
  BY <1>2, <1>3, LeastElement
<1>5. (CHOOSE i \in hits : \A j \in hits : i <= j) \in hits
  BY <1>4
<1>6. check_id_stream_is_required(pid) \in 1 .. num_out_streams
  BY <1>1, <1>2, <1>3, <1>5
<1>. QED  BY <1>6, StreamsAssumption DEF Slots

(* The job's parts.                                                        *)
LEMMA JobParts ==
  ASSUME job \in Jobs
  PROVE  /\ job.options \in Seq(Nat)
         /\ job.input \in Seq([id : Nat, type : Types])
         /\ job.packets \in Seq(Packet)
         /\ Len(job.options) <= MaxStreams /\ Len(job.input) <= MaxStreams
         /\ \A n \in 1 .. Len(job.packets) : job.packets[n].stream \in 1 .. Len(job.input)
<1>1. /\ job \in Job
      /\ Len(job.options) <= MaxStreams /\ Len(job.input) <= MaxStreams
      /\ \A n \in 1 .. Len(job.packets) : job.packets[n].stream <= Len(job.input)
  BY JobsAssumption, Zenon
<1>2. /\ job.options \in Seq(Nat)
      /\ job.input \in Seq([id : Nat, type : Types])
      /\ job.packets \in Seq(Packet)
  BY <1>1, Zenon DEF Job
<1>3. ASSUME NEW n \in 1 .. Len(job.packets)
      PROVE  job.packets[n].stream \in 1 .. Len(job.input)
  <2>1. job.packets[n] \in Packet
    BY <1>2
  <2>2. job.packets[n].stream \in Slots
    BY <2>1 DEF Packet
  <2>3. job.packets[n].stream <= Len(job.input) /\ Len(job.input) \in Nat
    BY <1>1, <1>2
  <2>. QED  BY <2>2, <2>3, StreamsAssumption DEF Slots
<1>. QED  BY <1>1, <1>2, <1>3

(* A wanted stream has a file of its own type.                             *)
LEMMA FileType ==
  ASSUME job \in Jobs, num_out_streams \in 0 .. MaxStreams,
         NEW i \in 1 .. Len(job.input), Wanted(i)
  PROVE  SlotOf(i) \in Slots /\ FileOf(i) \in Name
<1>1. SlotOf(i) \in Slots
  BY RequiredType DEF Wanted, SlotOf
<1>. DEFINE R == [id : Nat, type : Types]
<1>2. job.input[i] \in R
  <2>1. job.input \in Seq(R)
    BY JobParts
  <2>. HIDE DEF R
  <2>. QED  BY <2>1
<1>3. job.input[i].type \in Types
  BY <1>2
<1>. QED  BY <1>1, <1>3, Zenon DEF FileOf, Name

(* What is opened are names.                                               *)
LEMMA OrderType ==
  ASSUME job \in Jobs, num_out_streams \in 0 .. MaxStreams
  PROVE  OpenOrder \in Seq(Name)
<1>. DEFINE streams == [i \in 1 .. Len(job.input) |-> i]
            W == {i \in 1 .. Len(job.input) : Wanted(i)}
            wanted == Chosen(streams, W)
<1>1. Len(job.input) \in Nat
  BY JobParts
<1>2. streams \in Seq(Nat)
  BY <1>1
<1>. HIDE DEF streams
<1>3. wanted \in Seq(Nat \cap W)
  BY <1>2, ChosenType
<1>4. OpenOrder = [k \in 1 .. Len(wanted) |-> FileOf(wanted[k])]
  BY DEF OpenOrder, streams
<1>. HIDE DEF wanted
<1>5. ASSUME NEW k \in 1 .. Len(wanted)
      PROVE  FileOf(wanted[k]) \in Name
  <2>1. wanted[k] \in W
    BY <1>3
  <2>. QED  BY <2>1, FileType
<1>6. Len(wanted) \in Nat
  BY <1>3
<1>. HIDE DEF W
<1>. QED  BY <1>4, <1>5, <1>6

(* Names of one type are names.                                            *)
LEMMA OfTypeType ==
  ASSUME NEW names, NEW type \in Types
  PROVE  OfType(names, type) \in Seq(Name)
<1>. DEFINE all == [i \in Slots |-> <<type, i>>]
<1>1. all \in Seq(Name)
  <2>1. \A i \in Slots : <<type, i>> \in Name
    BY DEF Name
  <2>. QED  BY <2>1, StreamsAssumption DEF Slots
<1>. HIDE DEF all
<1>2. Chosen(all, ToSet(names)) \in Seq(Name \cap ToSet(names))
  BY <1>1, ChosenType
<1>3. Seq(Name \cap ToSet(names)) \subseteq Seq(Name)
  OBVIOUS
<1>4. OfType(names, type) = Chosen(all, ToSet(names))
  BY DEF OfType, all
<1>. QED  BY <1>2, <1>3, <1>4

(* Every reader opens names.                                               *)
LEMMA ReadersType ==
  ASSUME NEW names \in Seq(Name)
  PROVE  \A p \in DOMAIN Readers(names) : Readers(names)[p] \in Seq(Name)
<1>. DEFINE v == OfType(names, "video")
            a == OfType(names, "audio")
            d == OfType(names, "data")
<1>1. v \in Seq(Name) /\ a \in Seq(Name) /\ d \in Seq(Name)
  BY OfTypeType DEF Types
<1>2. Readers(names) = CASE ~job.pipes -> << >>
        [] job.pipes /\ job.reader = "ts_muxer" -> << v \o a \o d >>
        [] job.pipes /\ job.reader = "python" -> << a \o v >>
        [] OTHER -> [k \in 1 .. Len(names) |-> << names[k] >>]
  BY Zenon DEF Readers
<1>. HIDE DEF v, a, d
<1>3. v \o a \o d \in Seq(Name) /\ a \o v \in Seq(Name)
  BY <1>1
<1>4. \/ Readers(names) = << >>
      \/ Readers(names) = << v \o a \o d >>
      \/ Readers(names) = << a \o v >>
      \/ Readers(names) = [k \in 1 .. Len(names) |-> << names[k] >>]
  BY <1>2
<1>. DEFINE x == v \o a \o d
            y == a \o v
<1>. HIDE DEF x, y
<1>5. CASE Readers(names) = << >>
  BY <1>5
<1>6. CASE Readers(names) = << x >>
  <2>1. x \in Seq(Name)
    BY <1>3 DEF x
  <2>. QED  BY <1>6, <2>1
<1>7. CASE Readers(names) = << y >>
  <2>1. y \in Seq(Name)
    BY <1>3 DEF y
  <2>. QED  BY <1>7, <2>1
<1>8. CASE Readers(names) = [k \in 1 .. Len(names) |-> << names[k] >>]
  <2>1. \A k \in 1 .. Len(names) : << names[k] >> \in Seq(Name)
    OBVIOUS
  <2>. QED  BY <1>8, <2>1
<1>. QED  BY <1>4, <1>5, <1>6, <1>7, <1>8 DEF x, y

(* The readers are in step with what they have opened, and the extractor   *)
(* waits for a stream that is wanted.                                      *)
ReadersFit ==
  /\ DOMAIN opened = DOMAIN reads /\ DOMAIN rpc = DOMAIN reads
  /\ \A p \in DOMAIN reads : reads[p] \in Seq(Name)
  /\ \A p \in DOMAIN reads : Opens(p) => opened[p] < Len(reads[p])
  /\ epc = "waiting" => (at <= Len(job.input) /\ Wanted(at))

TypesFit == TypeOK /\ ReadersFit

(* They hold at the start.                                                 *)
LEMMA TypesInit == ASSUME Init PROVE TypesFit
<1>1. job \in Jobs /\ epc = "opening" /\ at = 1 /\ pos = 0 /\ exit_flag = FALSE
      /\ fd = [i \in Slots |-> NoFd] /\ files = << >> /\ stray = 0
  BY DEF Init
<1>2. num_out_streams \in 0 .. MaxStreams
  <2>1. CASE num_out_streams \in Garbage
    BY <2>1, GarbageAssumption
  <2>2. CASE num_out_streams = Len(job.options)
    <3>1. Len(job.options) \in Nat /\ Len(job.options) <= MaxStreams
      BY <1>1, JobParts
    <3>. QED  BY <2>2, <3>1, StreamsAssumption
  <2>3. num_out_streams \in {Len(job.options)} \cup Garbage
    BY DEF Init
  <2>. QED  BY <2>1, <2>2, <2>3
<1>3. OpenOrder \in Seq(Name)
  BY <1>1, <1>2, OrderType
<1>4. made \subseteq Name
  <2>1. made = {} \/ made = ToSet(OpenOrder)
    BY DEF Init
  <2>2. ToSet(OpenOrder) \subseteq Name
    BY <1>3 DEF ToSet
  <2>. QED  BY <2>1, <2>2
<1>5. reads = Readers(OpenOrder) /\ \A p \in DOMAIN reads : reads[p] \in Seq(Name)
  <2>1. reads = Readers(OpenOrder)
    BY DEF Init
  <2>. QED  BY <1>3, <2>1, ReadersType
<1>6. /\ opened = [p \in DOMAIN reads |-> 0]
      /\ rpc = [p \in DOMAIN reads |-> IF reads[p] = << >> THEN "reading" ELSE "opening"]
  BY DEF Init
<1>7. /\ DOMAIN opened = DOMAIN reads /\ DOMAIN rpc = DOMAIN reads
      /\ \A p \in DOMAIN reads : opened[p] = 0
      /\ \A p \in DOMAIN reads : rpc[p] = IF reads[p] = << >> THEN "reading" ELSE "opening"
  BY <1>6
<1>8. \A p \in DOMAIN reads : Opens(p) => opened[p] < Len(reads[p])
  <2>1. ASSUME NEW p \in DOMAIN reads, Opens(p)
        PROVE  opened[p] < Len(reads[p])
    <3>1. reads[p] # << >>
      BY <1>7, <2>1 DEF Opens
    <3>2. Len(reads[p]) > 0
      BY <1>5, <2>1, <3>1
    <3>. QED  BY <1>7, <2>1, <3>2
  <2>. QED  BY <2>1
<1>9. \A p \in DOMAIN reads : opened[p] \in 0 .. Len(reads[p])
  BY <1>5, <1>7
<1>10. \A p \in DOMAIN rpc : rpc[p] \in {"opening", "missing", "reading", "failed", "gone"}
  BY <1>7
<1>11. fd \in [Slots -> Name \cup {NoFd}]
  BY <1>1
<1>12. at \in 1 .. Len(job.input) + 1 /\ pos \in 0 .. Len(job.packets)
  <2>1. Len(job.input) \in Nat /\ Len(job.packets) \in Nat
    BY <1>1, JobParts
  <2>. QED  BY <1>1, <2>1
<1>13. DOMAIN files \subseteq Name /\ \A n \in DOMAIN files : files[n] \in Seq(Record)
  BY <1>1
<1>14. TypeOK
  BY <1>1, <1>2, <1>4, <1>9, <1>10, <1>11, <1>12, <1>13 DEF TypeOK
<1>15. ReadersFit
  BY <1>1, <1>5, <1>7, <1>8 DEF ReadersFit
<1>. QED  BY <1>14, <1>15 DEF TypesFit

(* A stream that is opened gets a file under its own name.                 *)
LEMMA OpenedType ==
  ASSUME TypesFit, HasOpened(at), job' = job, num_out_streams' = num_out_streams,
         at <= Len(job.input), Wanted(at)
  PROVE  /\ fd' \in [Slots -> Name \cup {NoFd}]
         /\ DOMAIN files' \subseteq Name
         /\ \A n \in DOMAIN files' : files'[n] \in Seq(Record)
         /\ at' \in 1 .. Len(job.input) + 1
         /\ epc' = "opening"
<1>1. at \in 1 .. Len(job.input)
  <2>1. at \in 1 .. Len(job.input) + 1 /\ Len(job.input) \in Nat
    BY JobParts DEF TypesFit, TypeOK
  <2>. QED  BY <2>1
<1>2. SlotOf(at) \in Slots /\ FileOf(at) \in Name
  BY <1>1, FileType DEF TypesFit, TypeOK
<1>3. /\ fd' = [fd EXCEPT ![SlotOf(at)] = FileOf(at)]
      /\ files' = [n \in DOMAIN files \cup {FileOf(at)} |->
                 IF n = FileOf(at) THEN << >> ELSE files[n]]
      /\ at' = at + 1 /\ epc' = "opening"
  BY DEF HasOpened
<1>. DEFINE g == FileOf(at)
            e == SlotOf(at)
<1>4. fd \in [Slots -> Name \cup {NoFd}] /\ DOMAIN files \subseteq Name
      /\ \A n \in DOMAIN files : files[n] \in Seq(Record)
  BY DEF TypesFit, TypeOK
<1>. HIDE DEF g, e
<1>5. fd' \in [Slots -> Name \cup {NoFd}]
  <2>1. fd' = [fd EXCEPT ![e] = g] /\ e \in Slots /\ g \in Name
    BY <1>2, <1>3 DEF g, e
  <2>. QED  BY <1>4, <2>1
<1>6. files' = [n \in DOMAIN files \cup {g} |-> IF n = g THEN << >> ELSE files[n]]
  BY <1>3 DEF g
<1>7. DOMAIN files' = DOMAIN files \cup {g}
  BY <1>6
<1>8. ASSUME NEW n \in DOMAIN files'
      PROVE  files'[n] \in Seq(Record)
  <2>1. files'[n] = IF n = g THEN << >> ELSE files[n]
    BY <1>6, <1>7
  <2>2. << >> \in Seq(Record)
    OBVIOUS
  <2>3. CASE n = g
    BY <2>1, <2>2, <2>3
  <2>4. CASE n # g
    BY <1>4, <1>7, <2>1, <2>4
  <2>. QED  BY <2>3, <2>4
<1>9. DOMAIN files' \subseteq Name
  BY <1>2, <1>4, <1>7 DEF g
<1>10. at' \in 1 .. Len(job.input) + 1
  <2>1. Len(job.input) \in Nat
    BY JobParts DEF TypesFit, TypeOK
  <2>. QED  BY <1>1, <1>3, <2>1
<1>. QED  BY <1>3, <1>5, <1>8, <1>9, <1>10

(* A reader that goes past a pipe stays within its list.                   *)
LEMMA PassedType ==
  ASSUME TypesFit, NEW p \in DOMAIN reads, Opens(p), reads' = reads,
         opened' = [opened EXCEPT ![p] = @ + 1],
         NEW state, rpc' = [rpc EXCEPT ![p] = state],
         state \in {"opening", "missing", "reading", "failed", "gone"},
         state \in {"opening", "missing"} => opened[p] + 1 < Len(reads[p])
  PROVE  /\ DOMAIN opened' = DOMAIN reads' /\ DOMAIN rpc' = DOMAIN reads'
         /\ \A q \in DOMAIN reads' : opened'[q] \in 0 .. Len(reads'[q])
         /\ \A q \in DOMAIN rpc' : rpc'[q] \in {"opening", "missing", "reading", "failed", "gone"}
         /\ \A q \in DOMAIN reads' : Opens(q)' => opened'[q] < Len(reads'[q])
<1>1. /\ DOMAIN opened = DOMAIN reads /\ DOMAIN rpc = DOMAIN reads
      /\ \A q \in DOMAIN reads : reads[q] \in Seq(Name)
      /\ \A q \in DOMAIN reads : Opens(q) => opened[q] < Len(reads[q])
      /\ \A q \in DOMAIN reads : opened[q] \in 0 .. Len(reads[q])
      /\ \A q \in DOMAIN rpc : rpc[q] \in {"opening", "missing", "reading", "failed", "gone"}
  BY DEF TypesFit, TypeOK, ReadersFit
<1>2. /\ DOMAIN opened' = DOMAIN reads /\ DOMAIN rpc' = DOMAIN reads
      /\ opened'[p] = opened[p] + 1 /\ rpc'[p] = state
      /\ \A q \in DOMAIN reads : q # p => (opened'[q] = opened[q] /\ rpc'[q] = rpc[q])
  BY <1>1
<1>3. opened[p] \in Nat /\ Len(reads[p]) \in Nat /\ opened[p] < Len(reads[p])
  <2>1. reads[p] \in Seq(Name) /\ opened[p] \in 0 .. Len(reads[p]) /\ opened[p] < Len(reads[p])
    BY <1>1
  <2>2. Len(reads[p]) \in Nat
    BY <2>1
  <2>. QED  BY <2>1, <2>2
<1>4. opened'[p] \in 0 .. Len(reads[p])
  BY <1>2, <1>3
<1>5. ASSUME NEW q \in DOMAIN reads, Opens(q)'
      PROVE  opened'[q] < Len(reads[q])
  <2>1. rpc'[q] \in {"opening", "missing"}
    BY <1>5 DEF Opens
  <2>2. CASE q = p
    BY <1>2, <2>1, <2>2
  <2>3. CASE q # p
    <3>1. Opens(q)
      BY <1>2, <2>1, <2>3 DEF Opens
    <3>. QED  BY <1>1, <1>2, <2>3, <3>1
  <2>. QED  BY <2>2, <2>3
<1>6. \A q \in DOMAIN reads : opened'[q] \in 0 .. Len(reads[q])
  BY <1>1, <1>2, <1>4
<1>7. \A q \in DOMAIN reads : rpc'[q] \in {"opening", "missing", "reading", "failed", "gone"}
  BY <1>1, <1>2
<1>. QED  BY <1>2, <1>5, <1>6, <1>7

(* What a step may do to the variables with simple types.                  *)
LEMMA PlainStep ==
  ASSUME TypesFit, UNCHANGED <<job, reads, num_out_streams>>,
         UNCHANGED <<opened, rpc>>,
         fd' \in [Slots -> Name \cup {NoFd}],
         at' \in 1 .. Len(job.input) + 1,
         pos' \in 0 .. Len(job.packets),
         exit_flag' \in BOOLEAN,
         made' \subseteq Name,
         DOMAIN files' \subseteq Name,
         \A n \in DOMAIN files' : files'[n] \in Seq(Record),
         stray' \in Nat,
         epc' \in {"opening", "waiting", "main", "closed", "failed", "killed"},
         epc' = "waiting" => (at' <= Len(job.input) /\ Wanted(at)' )
  PROVE  TypesFit'
<1>1. TypeOK'
  BY DEF TypesFit, TypeOK
<1>2. \A p \in DOMAIN reads' : Opens(p)' => opened'[p] < Len(reads'[p])
  BY DEF TypesFit, ReadersFit, Opens
<1>3. ReadersFit'
  BY <1>2 DEF TypesFit, ReadersFit
<1>. QED  BY <1>1, <1>3 DEF TypesFit

(* Every step keeps them.                                                  *)
LEMMA TypesStep == ASSUME TypesFit, [Next]_vars PROVE TypesFit'
<1>0. /\ job \in Jobs /\ num_out_streams \in 0 .. MaxStreams
      /\ fd \in [Slots -> Name \cup {NoFd}]
      /\ at \in 1 .. Len(job.input) + 1
      /\ pos \in 0 .. Len(job.packets)
      /\ exit_flag \in BOOLEAN /\ made \subseteq Name /\ DOMAIN files \subseteq Name
      /\ \A n \in DOMAIN files : files[n] \in Seq(Record)
      /\ stray \in Nat
      /\ epc \in {"opening", "waiting", "main", "closed", "failed", "killed"}
  BY DEF TypesFit, TypeOK
<1>00. epc = "waiting" => (at <= Len(job.input) /\ Wanted(at))
  BY DEF TypesFit, ReadersFit
<1>000. Len(job.input) \in Nat /\ Len(job.packets) \in Nat
  BY <1>0, JobParts
<1>w. ASSUME job' = job, num_out_streams' = num_out_streams, at' = at
      PROVE  Wanted(at)' = Wanted(at)
  BY <1>w DEF Wanted, SlotOf, check_id_stream_is_required, PidOf
<1>1. CASE SkipStream
  <2>1. /\ UNCHANGED <<job, reads, num_out_streams>> /\ UNCHANGED <<opened, rpc>>
        /\ fd' = fd /\ pos' = pos /\ exit_flag' = exit_flag /\ made' = made
        /\ files' = files /\ stray' = stray /\ epc' = "opening"
        /\ at' = at + 1 /\ at <= Len(job.input)
    BY <1>1 DEF SkipStream
  <2>2. at' \in 1 .. Len(job.input) + 1
    BY <1>0, <1>000, <2>1
  <2>. QED  BY <1>0, <2>1, <2>2, PlainStep
<1>2. CASE OpenFile
  <2>1. /\ UNCHANGED <<job, reads, num_out_streams>> /\ UNCHANGED <<opened, rpc>>
        /\ pos' = pos /\ exit_flag' = exit_flag /\ made' = made
        /\ stray' = stray /\ HasOpened(at) /\ at <= Len(job.input) /\ Wanted(at)
    BY <1>2 DEF OpenFile
  <2>2. /\ fd' \in [Slots -> Name \cup {NoFd}]
        /\ DOMAIN files' \subseteq Name
        /\ \A n \in DOMAIN files' : files'[n] \in Seq(Record)
        /\ at' \in 1 .. Len(job.input) + 1
        /\ epc' = "opening"
    BY <2>1, OpenedType
  <2>. QED  BY <1>0, <2>1, <2>2, PlainStep
<1>3. CASE MakePipe
  <2>1. /\ UNCHANGED <<job, reads, num_out_streams>> /\ UNCHANGED <<opened, rpc>>
        /\ fd' = fd /\ pos' = pos /\ exit_flag' = exit_flag /\ at' = at
        /\ files' = files /\ stray' = stray /\ epc' = "waiting"
        /\ made' = made \cup {FileOf(at)} /\ at <= Len(job.input) /\ Wanted(at)
    BY <1>3 DEF MakePipe
  <2>2. made' \subseteq Name
    <3>1. at \in 1 .. Len(job.input)
      BY <1>0, <1>000, <2>1
    <3>. QED  BY <1>0, <2>1, <3>1, FileType
  <2>3. Wanted(at)'
    BY <1>w, <2>1
  <2>. QED  BY <1>0, <2>1, <2>2, <2>3, PlainStep
<1>4. CASE OpenFails \/ StartMain \/ WriteKills
  <2>1. /\ UNCHANGED <<job, reads, num_out_streams>> /\ UNCHANGED <<opened, rpc>>
        /\ fd' = fd /\ pos' = pos /\ exit_flag' = exit_flag /\ made' = made
        /\ files' = files /\ stray' = stray /\ at' = at
        /\ epc' \in {"failed", "main", "killed"}
    BY <1>4 DEF OpenFails, StartMain, WriteKills
  <2>. QED  BY <1>0, <2>1, PlainStep
<1>5. CASE Close
  <2>1. /\ UNCHANGED <<job, reads, num_out_streams>> /\ UNCHANGED <<opened, rpc>>
        /\ fd' = [i \in Slots |-> NoFd] /\ pos' = pos /\ exit_flag' = exit_flag
        /\ made' = made /\ files' = files /\ stray' = stray /\ at' = at
        /\ epc' = "closed"
    BY <1>5 DEF Close
  <2>2. fd' \in [Slots -> Name \cup {NoFd}]
    BY <2>1
  <2>. QED  BY <1>0, <2>1, <2>2, PlainStep
<1>6. CASE SkipPacket
  <2>1. /\ UNCHANGED <<job, reads, num_out_streams>> /\ UNCHANGED <<opened, rpc>>
        /\ fd' = fd /\ exit_flag' = exit_flag /\ made' = made /\ at' = at
        /\ files' = files /\ stray' = stray /\ epc' = epc
        /\ pos' = pos + 1 /\ pos < Len(job.packets) /\ epc = "main"
    BY <1>6 DEF SkipPacket, Goes
  <2>2. pos' \in 0 .. Len(job.packets)
    BY <1>0, <1>000, <2>1
  <2>. QED  BY <1>0, <2>1, <2>2, PlainStep
<1>7. CASE WritePacket \/ WriteCut
  <2>1. /\ UNCHANGED <<job, reads, num_out_streams>> /\ UNCHANGED <<opened, rpc>>
        /\ fd' = fd /\ made' = made /\ at' = at /\ epc' = epc
        /\ exit_flag' = exit_flag \/ exit_flag' = TRUE
        /\ Goes
    BY <1>7, Zenon DEF WritePacket, WriteCut
  <2>2. PICK w \in BOOLEAN : Written(w)
    BY <1>7 DEF WritePacket, WriteCut
  <2>3. Typed
    BY <1>0 DEF Typed
  <2>4. Typed' /\ DOMAIN files' = DOMAIN files
    BY <2>1, <2>2, <2>3, WriteTyped, WriteAdds
  <2>5. pos' \in 0 .. Len(job.packets)
    BY <1>0, <1>000, <2>1, <2>2 DEF Goes, Written
  <2>6. stray' \in Nat
    <3>1. stray' = stray + 1 \/ stray' = stray
      BY <2>2, Zenon DEF Written
    <3>. QED  BY <1>0, <3>1
  <2>7. epc' = "main"
    BY <2>1 DEF Goes
  <2>8. \A n \in DOMAIN files' : files'[n] \in Seq(Record)
    BY <2>4 DEF Typed
  <2>9. exit_flag' \in BOOLEAN
    BY <1>0, <2>1
  <2>. QED  BY <1>0, <2>1, <2>4, <2>5, <2>6, <2>7, <2>8, <2>9, PlainStep
<1>8. CASE Signal
  <2>1. /\ UNCHANGED <<job, reads, num_out_streams>> /\ UNCHANGED <<opened, rpc>>
        /\ fd' = fd /\ pos' = pos /\ exit_flag' = TRUE /\ made' = made
        /\ files' = files /\ stray' = stray /\ at' = at /\ epc' = epc
    BY <1>8 DEF Signal, evars
  <2>. QED  BY <1>0, <1>00, <1>w, <2>1, PlainStep
<1>9. CASE UNCHANGED vars
  <2>1. /\ UNCHANGED <<job, reads, num_out_streams>> /\ UNCHANGED <<opened, rpc>>
        /\ fd' = fd /\ pos' = pos /\ exit_flag' = exit_flag /\ made' = made
        /\ files' = files /\ stray' = stray /\ at' = at /\ epc' = epc
    BY <1>9 DEF vars, evars
  <2>. QED  BY <1>0, <1>00, <1>w, <2>1, PlainStep
<1>10. ASSUME NEW p \in DOMAIN reads, Meet(p)
       PROVE  TypesFit'
  <2>1. /\ UNCHANGED <<job, reads, num_out_streams>>
        /\ pos' = pos /\ exit_flag' = exit_flag /\ made' = made
        /\ stray' = stray /\ HasOpened(at) /\ epc = "waiting" /\ Opens(p)
        /\ opened' = [opened EXCEPT ![p] = @ + 1]
        /\ rpc' = [rpc EXCEPT ![p] = AfterPipe(p, @)]
    BY <1>10 DEF Meet
  <2>2. /\ fd' \in [Slots -> Name \cup {NoFd}]
        /\ DOMAIN files' \subseteq Name
        /\ \A n \in DOMAIN files' : files'[n] \in Seq(Record)
        /\ at' \in 1 .. Len(job.input) + 1
        /\ epc' = "opening"
    BY <1>00, <2>1, OpenedType
  <2>3. AfterPipe(p, rpc[p]) \in {"opening", "missing", "reading", "failed", "gone"}
        /\ (AfterPipe(p, rpc[p]) \in {"opening", "missing"} => opened[p] + 1 < Len(reads[p]))
    BY <2>1 DEF AfterPipe, Opens
  <2>. DEFINE state == AfterPipe(p, rpc[p])
  <2>4. rpc' = [rpc EXCEPT ![p] = state]
    BY <2>1
  <2>5. state \in {"opening", "missing", "reading", "failed", "gone"}
        /\ (state \in {"opening", "missing"} => opened[p] + 1 < Len(reads[p]))
    BY <2>3
  <2>. HIDE DEF state
  <2>6. /\ DOMAIN opened' = DOMAIN reads' /\ DOMAIN rpc' = DOMAIN reads'
        /\ \A q \in DOMAIN reads' : opened'[q] \in 0 .. Len(reads'[q])
        /\ \A q \in DOMAIN rpc' : rpc'[q] \in {"opening", "missing", "reading", "failed", "gone"}
        /\ \A q \in DOMAIN reads' : Opens(q)' => opened'[q] < Len(reads'[q])
    BY <2>1, <2>4, <2>5, PassedType
  <2>7. TypeOK'
    BY <1>0, <2>1, <2>2, <2>6 DEF TypeOK
  <2>8. ReadersFit'
    BY <2>1, <2>2, <2>6 DEF ReadersFit, TypesFit
  <2>. QED  BY <2>7, <2>8 DEF TypesFit
<1>11. ASSUME NEW p \in DOMAIN reads, ReaderMisses(p)
       PROVE  TypesFit'
  <2>1. /\ UNCHANGED <<job, reads, num_out_streams>>
        /\ fd' = fd /\ pos' = pos /\ exit_flag' = exit_flag /\ made' = made
        /\ files' = files /\ stray' = stray /\ at' = at /\ epc' = epc
        /\ Opens(p) /\ opened' = [opened EXCEPT ![p] = @ + 1]
        /\ rpc' = [rpc EXCEPT ![p] = IF job.reader = "ts_muxer" THEN AfterPipe(p, "missing")
                                                              ELSE "failed"]
    BY <1>11 DEF ReaderMisses, evars
  <2>. DEFINE state == IF job.reader = "ts_muxer" THEN AfterPipe(p, "missing") ELSE "failed"
  <2>4. rpc' = [rpc EXCEPT ![p] = state]
    BY <2>1
  <2>5. state \in {"opening", "missing", "reading", "failed", "gone"}
        /\ (state \in {"opening", "missing"} => opened[p] + 1 < Len(reads[p]))
    BY DEF AfterPipe
  <2>. HIDE DEF state
  <2>6. /\ DOMAIN opened' = DOMAIN reads' /\ DOMAIN rpc' = DOMAIN reads'
        /\ \A q \in DOMAIN reads' : opened'[q] \in 0 .. Len(reads'[q])
        /\ \A q \in DOMAIN rpc' : rpc'[q] \in {"opening", "missing", "reading", "failed", "gone"}
        /\ \A q \in DOMAIN reads' : Opens(q)' => opened'[q] < Len(reads'[q])
    BY <2>1, <2>4, <2>5, PassedType
  <2>7. TypeOK'
    BY <1>0, <2>1, <2>6 DEF TypeOK
  <2>8. ReadersFit'
    BY <1>00, <1>w, <2>1, <2>6 DEF ReadersFit, TypesFit
  <2>. QED  BY <2>7, <2>8 DEF TypesFit
<1>12. ASSUME NEW p \in DOMAIN reads, ReaderLeaves(p)
       PROVE  TypesFit'
  <2>1. /\ UNCHANGED <<job, reads, num_out_streams>>
        /\ fd' = fd /\ pos' = pos /\ exit_flag' = exit_flag /\ made' = made
        /\ files' = files /\ stray' = stray /\ at' = at /\ epc' = epc
        /\ opened' = opened /\ rpc' = [rpc EXCEPT ![p] = "gone"]
    BY <1>12 DEF ReaderLeaves, evars
  <2>2. DOMAIN rpc' = DOMAIN rpc /\ \A q \in DOMAIN rpc : rpc'[q] = rpc[q] \/ rpc'[q] = "gone"
    BY <2>1
  <2>3. /\ DOMAIN opened = DOMAIN reads /\ DOMAIN rpc = DOMAIN reads
        /\ \A q \in DOMAIN reads : Opens(q) => opened[q] < Len(reads[q])
        /\ \A q \in DOMAIN reads : opened[q] \in 0 .. Len(reads[q])
        /\ \A q \in DOMAIN rpc : rpc[q] \in {"opening", "missing", "reading", "failed", "gone"}
    BY DEF TypesFit, TypeOK, ReadersFit
  <2>4. \A q \in DOMAIN rpc' : rpc'[q] \in {"opening", "missing", "reading", "failed", "gone"}
    BY <2>2, <2>3
  <2>5. ASSUME NEW q \in DOMAIN reads, Opens(q)'
        PROVE  opened[q] < Len(reads[q])
    <3>1. Opens(q)
      BY <2>2, <2>3, <2>5 DEF Opens
    <3>. QED  BY <2>3, <3>1
  <2>7. TypeOK'
    BY <1>0, <2>1, <2>3, <2>4 DEF TypeOK
  <2>8. ReadersFit'
    BY <1>00, <1>w, <2>1, <2>2, <2>5 DEF ReadersFit, TypesFit
  <2>. QED  BY <2>7, <2>8 DEF TypesFit
<1>. QED
  BY <1>1, <1>2, <1>3, <1>4, <1>5, <1>6, <1>7, <1>8, <1>9, <1>10, <1>11, <1>12, Zenon
  DEF Next, Extract, Environment

(* The types, with the readers in step.                                    *)
LEMMA TypesAlways == Spec => []TypesFit
<1>1. Init => TypesFit
  BY TypesInit
<1>2. TypesFit /\ [Next]_vars => TypesFit'
  BY TypesStep
<1>. QED  BY <1>1, <1>2, PTL DEF Spec

(* The variables have their types: every descriptor, file and pipe has the *)
(* name of a stream, and no reader opens more than its list.               *)
THEOREM TypeOKHolds == Spec => []TypeOK
<1>1. TypesFit => TypeOK
  BY DEF TypesFit
<1>. QED  BY <1>1, TypesAlways, PTL

-----------------------------------------------------------------------------
(***************************************************************************)
(* Every packet in its file, when the input's order is the options'.       *)
(***************************************************************************)

(* The records of a file are what is written for those packets.            *)
Kept(recs, ps) ==
  /\ Len(recs) = Len(ps)
  /\ \A k \in 1 .. Len(ps) : \E whole \in BOOLEAN : recs[k] = RecordOf(ps[k], whole)

(* The stream's file is there, and open.                                   *)
Placed(i) ==
  /\ FileOf(i) \in DOMAIN files
  /\ Kept(files[FileOf(i)], PacketsOf(i))
  /\ epc \in {"opening", "waiting", "main"} => fd[i] = FileOf(i)

(* The inductive invariant: of the streams that were come to, those that   *)
(* are wanted are placed, and no packet is read before all are.            *)
Exact ==
  Aligned =>
    /\ stray = 0
    /\ \A i \in 1 .. Len(job.input) : (Wanted(i) /\ i < at) => Placed(i)
    /\ epc \in {"opening", "waiting"} => pos = 0
    /\ Connected => at = Len(job.input) + 1

(* Nothing was read at the start.                                          *)
LEMMA NothingRead ==
  ASSUME job \in Jobs, pos = 0, NEW i
  PROVE  PacketsOf(i) = << >>
<1>1. job.packets \in Seq(Packet)
  BY JobParts
<1>2. SubSeq(job.packets, 1, pos) = << >>
  BY <1>1
<1>. QED  BY <1>2, ChosenNone DEF PacketsOf

(* One more packet was read.                                               *)
LEMMA OneMoreRead ==
  ASSUME TypesFit, pos < Len(job.packets), job' = job, pos' = pos + 1, NEW i
  PROVE  /\ PacketsOf(i) \in Seq(Packet)
         /\ ThisPacket \in Packet
         /\ ThisPacket.stream \in 1 .. Len(job.input)
         /\ PacketsOf(i)' = IF ThisPacket.stream = i THEN Append(PacketsOf(i), ThisPacket)
                                                     ELSE PacketsOf(i)
<1>1. /\ job \in Jobs /\ pos \in 0 .. Len(job.packets) /\ job.packets \in Seq(Packet)
      /\ \A n \in 1 .. Len(job.packets) : job.packets[n].stream \in 1 .. Len(job.input)
  BY JobParts DEF TypesFit, TypeOK
<1>. DEFINE ps == job.packets
            s == SubSeq(ps, 1, pos)
            S == {p \in ToSet(ps) : p.stream = i}
<1>2. ps \in Seq(Packet) /\ pos \in Nat /\ pos + 1 \in 1 .. Len(ps)
  BY <1>1
<1>3. ThisPacket = ps[pos + 1]
  BY DEF ThisPacket
<1>4. PacketsOf(i) = Chosen(s, S) /\ PacketsOf(i)' = Chosen(SubSeq(ps, 1, pos + 1), S)
  BY DEF PacketsOf
<1>5. ThisPacket.stream \in 1 .. Len(job.input)
  BY <1>1, <1>2, <1>3
<1>. HIDE DEF ps
<1>6. s \in Seq(Packet) /\ ps[pos + 1] \in Packet
  BY <1>2
<1>7. SubSeq(ps, 1, pos + 1) = Append(s, ps[pos + 1])
  BY <1>2
<1>8. ps[pos + 1] \in S <=> ThisPacket.stream = i
  BY <1>2, <1>3 DEF ToSet
<1>. HIDE DEF s, S
<1>9. Chosen(s, S) \in Seq(Packet)
  <2>1. Chosen(s, S) \in Seq(Packet \cap S)
    BY <1>6, ChosenType
  <2>2. Seq(Packet \cap S) \subseteq Seq(Packet)
    OBVIOUS
  <2>. QED  BY <2>1, <2>2
<1>10. Chosen(Append(s, ps[pos + 1]), S) =
         IF ps[pos + 1] \in S THEN Append(Chosen(s, S), ps[pos + 1]) ELSE Chosen(s, S)
  <2>. DEFINE e == ps[pos + 1]
  <2>1. e \in Packet
    BY <1>6
  <2>. HIDE DEF e
  <2>2. /\ e \in S => Chosen(Append(s, e), S) = Append(Chosen(s, S), e)
        /\ e \notin S => Chosen(Append(s, e), S) = Chosen(s, S)
    <3>1. s \in Seq(Packet)
      BY <1>6
    <3>. QED  BY <2>1, <3>1, ChosenAppend
  <2>. QED  BY <2>2 DEF e
<1>. QED  BY <1>3, <1>4, <1>5, <1>6, <1>7, <1>8, <1>9, <1>10

(* The packets read are packets.                                           *)
LEMMA PacketsType ==
  ASSUME TypesFit, NEW i
  PROVE  PacketsOf(i) \in Seq(Packet)
<1>1. job \in Jobs /\ pos \in 0 .. Len(job.packets) /\ job.packets \in Seq(Packet)
  BY JobParts DEF TypesFit, TypeOK
<1>. DEFINE S == {p \in ToSet(job.packets) : p.stream = i}
<1>2. SubSeq(job.packets, 1, pos) \in Seq(Packet)
  BY <1>1
<1>3. PacketsOf(i) = Chosen(SubSeq(job.packets, 1, pos), S)
  BY DEF PacketsOf
<1>. HIDE DEF S
<1>4. Chosen(SubSeq(job.packets, 1, pos), S) \in Seq(Packet \cap S)
  BY <1>2, ChosenType
<1>5. Seq(Packet \cap S) \subseteq Seq(Packet)
  OBVIOUS
<1>. QED  BY <1>3, <1>4, <1>5

(* One record more for one packet more.                                    *)
LEMMA KeptOneMore ==
  ASSUME NEW recs \in Seq(Record), NEW ps \in Seq(Packet), Kept(recs, ps),
         NEW p \in Packet, NEW w \in BOOLEAN
  PROVE  Kept(Append(recs, RecordOf(p, w)), Append(ps, p))
<1>. DEFINE r == RecordOf(p, w)
            recs1 == Append(recs, r)
            ps1 == Append(ps, p)
<1>1. r \in Record
  BY RecordMade
<1>2. Len(recs) = Len(ps)
      /\ \A k \in 1 .. Len(ps) : \E whole \in BOOLEAN : recs[k] = RecordOf(ps[k], whole)
  BY DEF Kept
<1>3. r = RecordOf(p, w)
  OBVIOUS
<1>. HIDE DEF r
<1>4. /\ Len(recs1) = Len(recs) + 1 /\ Len(ps1) = Len(ps) + 1 /\ Len(ps) \in Nat
      /\ recs1[Len(recs) + 1] = r /\ ps1[Len(ps) + 1] = p
      /\ \A k \in 1 .. Len(recs) : recs1[k] = recs[k]
      /\ \A k \in 1 .. Len(ps) : ps1[k] = ps[k]
  BY <1>1
<1>. HIDE DEF recs1, ps1
<1>5. ASSUME NEW k \in 1 .. Len(ps1)
      PROVE  \E whole \in BOOLEAN : recs1[k] = RecordOf(ps1[k], whole)
  <2>1. CASE k \in 1 .. Len(ps)
    <3>1. recs1[k] = recs[k] /\ ps1[k] = ps[k]
      BY <1>2, <1>4, <2>1
    <3>. QED  BY <1>2, <2>1, <3>1
  <2>2. CASE k = Len(ps) + 1
    <3>1. recs1[k] = RecordOf(ps1[k], w)
      BY <1>2, <1>3, <1>4, <2>2
    <3>. QED  BY <3>1
  <2>3. k \in 1 .. Len(ps) \/ k = Len(ps) + 1
    BY <1>4, <1>5
  <2>. QED  BY <2>1, <2>2, <2>3
<1>6. Len(recs1) = Len(ps1)
  BY <1>2, <1>4
<1>7. Kept(recs1, ps1)
  BY <1>5, <1>6 DEF Kept
<1>. QED  BY <1>3, <1>7 DEF recs1, ps1

(* No two streams share a file, and no file is standard input.             *)
LEMMA FilesApart ==
  ASSUME TypesFit, Aligned
  PROVE  /\ \A i \in 1 .. Len(job.input) : Wanted(i) =>
              (SlotOf(i) = i /\ i \in Slots /\ FileOf(i) # NoFd)
         /\ \A i, j \in 1 .. Len(job.input) :
              (Wanted(i) /\ Wanted(j) /\ FileOf(i) = FileOf(j)) => i = j
<1>1. ASSUME NEW i \in 1 .. Len(job.input), Wanted(i)
      PROVE  SlotOf(i) = i /\ i \in Slots /\ FileOf(i)[2] = i /\ FileOf(i) # NoFd
  <2>1. SlotOf(i) = i /\ FileOf(i) = <<job.input[i].type, SlotOf(i)>>
    BY <1>1 DEF Aligned, FileOf
  <2>2. i \in Slots
    BY <1>1, <2>1, FileType DEF TypesFit, TypeOK
  <2>3. i # 0
    BY <1>1
  <2>. QED  BY <2>1, <2>2, <2>3 DEF NoFd
<1>2. ASSUME NEW i \in 1 .. Len(job.input), NEW j \in 1 .. Len(job.input),
             Wanted(i), Wanted(j), FileOf(i) = FileOf(j)
      PROVE  i = j
  BY <1>1, <1>2
<1>. QED  BY <1>1, <1>2

(* What does not depend on a step.                                         *)
LEMMA SameJob ==
  ASSUME job' = job, num_out_streams' = num_out_streams
  PROVE  /\ Aligned' = Aligned
         /\ \A i : Wanted(i)' = Wanted(i) /\ SlotOf(i)' = SlotOf(i) /\ FileOf(i)' = FileOf(i)
BY DEF Aligned, Wanted, SlotOf, FileOf, check_id_stream_is_required, PidOf

(* No stream was come to at the start.                                     *)
LEMMA ExactInit == ASSUME Init PROVE Exact
<1>1. job \in Jobs /\ at = 1 /\ pos = 0 /\ stray = 0 /\ epc = "opening"
  BY DEF Init
<1>2. ASSUME NEW i \in 1 .. Len(job.input), i < at
      PROVE  FALSE
  BY <1>1, <1>2
<1>. QED  BY <1>1, <1>2, Zenon DEF Exact, Connected

(* Steps that neither open a file nor read a packet.                       *)
LEMMA ExactSame ==
  ASSUME TypesFit, Exact, job' = job, num_out_streams' = num_out_streams,
         files' = files, stray' = stray, pos' = pos,
         at' = at \/ (at' = at + 1 /\ ~Wanted(at)),
         fd' = fd \/ epc' = "closed",
         epc' \in {"opening", "waiting"} => epc \in {"opening", "waiting"},
         epc' = "main" => epc \in {"opening", "waiting", "main"},
         Connected' => at' = Len(job.input) + 1
  PROVE  Exact'
<1>1. SUFFICES ASSUME Aligned
               PROVE  /\ stray' = 0
                      /\ \A i \in 1 .. Len(job.input) : (Wanted(i) /\ i < at') => Placed(i)'
                      /\ epc' \in {"opening", "waiting"} => pos' = 0
                      /\ Connected' => at' = Len(job.input) + 1
  BY SameJob DEF Exact
<1>2. /\ stray = 0
      /\ \A i \in 1 .. Len(job.input) : (Wanted(i) /\ i < at) => Placed(i)
      /\ epc \in {"opening", "waiting"} => pos = 0
  BY <1>1 DEF Exact
<1>3. ASSUME NEW i \in 1 .. Len(job.input), Wanted(i), i < at'
      PROVE  Placed(i)'
  <2>1. at \in Nat
    BY DEF TypesFit, TypeOK
  <2>2. i < at
    BY <1>3, <2>1
  <2>3. Placed(i)
    BY <1>2, <1>3, <2>2
  <2>4. FileOf(i)' = FileOf(i) /\ PacketsOf(i)' = PacketsOf(i)
    BY SameJob DEF PacketsOf
  <2>5. epc' \in {"opening", "waiting", "main"} =>
          (fd' = fd /\ epc \in {"opening", "waiting", "main"})
    OBVIOUS
  <2>6. FileOf(i)' \in DOMAIN files' /\ Kept(files'[FileOf(i)'], PacketsOf(i)')
    BY <2>3, <2>4 DEF Placed
  <2>7. epc' \in {"opening", "waiting", "main"} => fd'[i] = FileOf(i)'
    BY <2>3, <2>4, <2>5 DEF Placed
  <2>. QED  BY <2>6, <2>7, Zenon DEF Placed
<1>. QED  BY <1>2, <1>3

(* A file is opened before any packet is read.                             *)
LEMMA ExactOpen ==
  ASSUME TypesFit, Exact, job' = job, num_out_streams' = num_out_streams,
         epc \in {"opening", "waiting"}, at <= Len(job.input), Wanted(at),
         HasOpened(at), stray' = stray, pos' = pos
  PROVE  Exact'
<1>1. SUFFICES ASSUME Aligned
               PROVE  /\ stray' = 0
                      /\ \A i \in 1 .. Len(job.input) : (Wanted(i) /\ i < at') => Placed(i)'
                      /\ epc' \in {"opening", "waiting"} => pos' = 0
                      /\ Connected' => at' = Len(job.input) + 1
  BY SameJob DEF Exact
<1>2. /\ stray = 0 /\ pos = 0
      /\ \A i \in 1 .. Len(job.input) : (Wanted(i) /\ i < at) => Placed(i)
  BY <1>1 DEF Exact
<1>3. /\ fd' = [fd EXCEPT ![SlotOf(at)] = FileOf(at)]
      /\ files' = [n \in DOMAIN files \cup {FileOf(at)} |->
                 IF n = FileOf(at) THEN << >> ELSE files[n]]
      /\ at' = at + 1 /\ epc' = "opening"
  BY DEF HasOpened
<1>4. at \in 1 .. Len(job.input)
  <2>1. at \in 1 .. Len(job.input) + 1 /\ Len(job.input) \in Nat
    BY JobParts DEF TypesFit, TypeOK
  <2>. QED  BY <2>1
<1>5. SlotOf(at) = at /\ at \in Slots
  BY <1>1, <1>4, FilesApart
<1>6. ASSUME NEW i \in 1 .. Len(job.input), Wanted(i), i < at'
      PROVE  Placed(i)'
  <2>1. i = at \/ (i < at /\ i # at)
    BY <1>3, <1>4, <1>6
  <2>2. FileOf(i)' = FileOf(i) /\ PacketsOf(i)' = PacketsOf(i) /\ PacketsOf(i) = << >>
    <3>1. job \in Jobs
      BY DEF TypesFit, TypeOK
    <3>. QED  BY <1>2, <3>1, SameJob, NothingRead DEF PacketsOf
  <2>3. fd \in [Slots -> Name \cup {NoFd}]
    BY DEF TypesFit, TypeOK
  <2>4. CASE i = at
    <3>1. FileOf(i) \in DOMAIN files' /\ files'[FileOf(i)] = << >>
      <4>. DEFINE g == FileOf(at)
      <4>1. files' = [n \in DOMAIN files \cup {g} |-> IF n = g THEN << >> ELSE files[n]]
        BY <1>3
      <4>. HIDE DEF g
      <4>2. g \in DOMAIN files' /\ files'[g] = << >>
        BY <4>1
      <4>. QED  BY <2>4, <4>2 DEF g
    <3>2. fd'[i] = FileOf(i)
      BY <1>3, <1>5, <2>3, <2>4
    <3>3. Kept(files'[FileOf(i)], PacketsOf(i))
      BY <2>2, <3>1 DEF Kept
    <3>. QED  BY <2>2, <3>1, <3>2, <3>3, Zenon DEF Placed
  <2>5. CASE i < at /\ i # at
    <3>1. Placed(i)
      BY <1>2, <1>6, <2>5
    <3>2. FileOf(i) # FileOf(at)
      BY <1>1, <1>4, <1>6, <2>5, FilesApart
    <3>3. FileOf(i) \in DOMAIN files' /\ files'[FileOf(i)] = files[FileOf(i)]
      <4>. DEFINE g == FileOf(at)
                  f == FileOf(i)
      <4>1. files' = [n \in DOMAIN files \cup {g} |-> IF n = g THEN << >> ELSE files[n]]
        BY <1>3
      <4>2. f \in DOMAIN files /\ f # g
        BY <3>1, <3>2 DEF Placed
      <4>. HIDE DEF g, f
      <4>3. f \in DOMAIN files' /\ files'[f] = files[f]
        BY <4>1, <4>2
      <4>. QED  BY <4>3 DEF f
    <3>4. fd[i] = FileOf(i)
      BY <3>1 DEF Placed
    <3>5. fd'[i] = FileOf(i)
      <4>1. i \in Slots
        BY <1>1, <1>6, FilesApart
      <4>2. fd'[i] = fd[i]
        BY <1>3, <1>5, <2>3, <2>5, <4>1
      <4>. QED  BY <3>4, <4>2
    <3>6. Kept(files'[FileOf(i)], PacketsOf(i))
      BY <3>1, <3>3 DEF Placed
    <3>. QED  BY <2>2, <3>3, <3>5, <3>6, Zenon DEF Placed
  <2>. QED  BY <2>1, <2>4, <2>5
<1>7. ~Connected'
  BY <1>3 DEF Connected
<1>. QED  BY <1>2, <1>6, <1>7

(* What is known of a read: all wanted streams are placed.                 *)
LEMMA AllPlaced ==
  ASSUME TypesFit, Exact, Aligned, Goes, NEW i \in 1 .. Len(job.input), Wanted(i)
  PROVE  Placed(i) /\ fd[i] = FileOf(i)
<1>1. epc = "main"
  BY DEF Goes
<1>2. at = Len(job.input) + 1 /\ Len(job.input) \in Nat
  BY <1>1, JobParts DEF Exact, Connected, TypesFit, TypeOK
<1>3. i < at
  BY <1>2
<1>4. Placed(i)
  BY <1>3 DEF Exact
<1>. QED  BY <1>1, <1>4 DEF Placed

(* A packet of a stream that is not wanted is read, and that is all.       *)
LEMMA ExactSkip ==
  ASSUME TypesFit, Exact, SkipPacket
  PROVE  Exact'
<1>1. /\ Goes /\ ~Wanted(ThisPacket.stream) /\ pos' = pos + 1 /\ pos < Len(job.packets)
      /\ job' = job /\ num_out_streams' = num_out_streams /\ epc' = epc /\ at' = at
      /\ fd' = fd /\ files' = files /\ stray' = stray /\ epc = "main"
  BY DEF SkipPacket, Goes
<1>2. SUFFICES ASSUME Aligned
               PROVE  /\ stray' = 0
                      /\ \A i \in 1 .. Len(job.input) : (Wanted(i) /\ i < at') => Placed(i)'
                      /\ epc' \in {"opening", "waiting"} => pos' = 0
                      /\ Connected' => at' = Len(job.input) + 1
  BY <1>1, SameJob DEF Exact
<1>3. stray = 0 /\ at = Len(job.input) + 1
  BY <1>1, <1>2 DEF Exact, Connected
<1>4. ASSUME NEW i \in 1 .. Len(job.input), Wanted(i)
      PROVE  Placed(i)'
  <2>1. Placed(i) /\ fd[i] = FileOf(i)
    BY <1>1, <1>2, <1>4, AllPlaced
  <2>2. ThisPacket.stream # i
    BY <1>1, <1>4
  <2>3. PacketsOf(i)' = PacketsOf(i) /\ FileOf(i)' = FileOf(i)
    BY <1>1, <2>2, OneMoreRead, SameJob
  <2>4. FileOf(i)' \in DOMAIN files' /\ Kept(files'[FileOf(i)'], PacketsOf(i)')
    BY <1>1, <2>1, <2>3 DEF Placed
  <2>5. fd'[i] = FileOf(i)'
    BY <1>1, <2>1, <2>3
  <2>. QED  BY <2>4, <2>5, Zenon DEF Placed
<1>. QED  BY <1>1, <1>3, <1>4

(* A packet is written to its stream's file.                               *)
LEMMA ExactWrite ==
  ASSUME TypesFit, Exact, Goes, Wanted(ThisPacket.stream),
         NEW w \in BOOLEAN, Written(w),
         job' = job, num_out_streams' = num_out_streams, epc' = epc, at' = at, fd' = fd
  PROVE  Exact'
<1>1. pos' = pos + 1 /\ pos < Len(job.packets) /\ epc = "main"
  BY DEF Written, Goes
<1>2. SUFFICES ASSUME Aligned
               PROVE  /\ stray' = 0
                      /\ \A i \in 1 .. Len(job.input) : (Wanted(i) /\ i < at') => Placed(i)'
                      /\ epc' \in {"opening", "waiting"} => pos' = 0
                      /\ Connected' => at' = Len(job.input) + 1
  BY SameJob DEF Exact
<1>3. stray = 0 /\ at = Len(job.input) + 1
  BY <1>1, <1>2 DEF Exact, Connected
<1>. DEFINE j == ThisPacket.stream
            r == RecordOf(ThisPacket, w)
<1>4. j \in 1 .. Len(job.input) /\ Wanted(j) /\ ThisPacket \in Packet
  BY <1>1, OneMoreRead
<1>5. r \in Record
  BY <1>4, RecordMade
<1>6. Placed(j) /\ fd[j] = FileOf(j)
  <2>. HIDE DEF j
  <2>. QED  BY <1>2, <1>4, AllPlaced
<1>7. FileOf(j) # NoFd
  <2>. HIDE DEF j
  <2>. QED  BY <1>2, <1>4, FilesApart
<1>8. stray' = stray /\ files' = [files EXCEPT ![FileOf(j)] = Append(@, r)]
  BY <1>6, <1>7 DEF Written, Target
<1>9. FileOf(j) \in DOMAIN files /\ files[FileOf(j)] \in Seq(Record)
  BY <1>6 DEF Placed, TypesFit, TypeOK
<1>. DEFINE g == FileOf(j)
<1>10. /\ DOMAIN files' = DOMAIN files
       /\ files'[g] = Append(files[g], r)
       /\ \A n \in DOMAIN files : n # g => files'[n] = files[n]
  <2>1. files' = [files EXCEPT ![g] = Append(@, r)] /\ g \in DOMAIN files
    BY <1>8, <1>9
  <2>. HIDE DEF g, r
  <2>. QED  BY <2>1
<1>11. ASSUME NEW i \in 1 .. Len(job.input), Wanted(i)
       PROVE  Placed(i)'
  <2>1. Placed(i) /\ fd[i] = FileOf(i)
    BY <1>2, <1>11, AllPlaced
  <2>2. FileOf(i)' = FileOf(i)
    BY SameJob
  <2>3. /\ PacketsOf(i) \in Seq(Packet)
        /\ PacketsOf(i)' = IF j = i THEN Append(PacketsOf(i), ThisPacket) ELSE PacketsOf(i)
    BY <1>1, OneMoreRead
  <2>4. Kept(files[FileOf(i)], PacketsOf(i)) /\ FileOf(i) \in DOMAIN files
    BY <2>1 DEF Placed
  <2>5. CASE i = j
    <3>1. PacketsOf(i)' = Append(PacketsOf(i), ThisPacket)
      BY <2>3, <2>5
    <3>2. files'[FileOf(i)] = Append(files[FileOf(i)], RecordOf(ThisPacket, w))
      BY <1>10, <2>5
    <3>3. files[FileOf(i)] \in Seq(Record)
      BY <1>9, <2>5
    <3>4. Kept(files'[FileOf(i)], PacketsOf(i)')
      BY <1>4, <2>3, <2>4, <3>1, <3>2, <3>3, KeptOneMore
    <3>5. FileOf(i)' \in DOMAIN files' /\ Kept(files'[FileOf(i)'], PacketsOf(i)') /\ fd'[i] = FileOf(i)'
      BY <1>10, <2>1, <2>2, <2>4, <3>4
    <3>. QED  BY <3>5, Zenon DEF Placed
  <2>6. CASE i # j
    <3>1. PacketsOf(i)' = PacketsOf(i)
      BY <2>3, <2>6
    <3>2. FileOf(i) # g
      <4>. HIDE DEF j
      <4>. QED  BY <1>2, <1>4, <1>11, <2>6, FilesApart
    <3>3. files'[FileOf(i)] = files[FileOf(i)]
      BY <1>10, <2>4, <3>2
    <3>4. FileOf(i)' \in DOMAIN files' /\ Kept(files'[FileOf(i)'], PacketsOf(i)') /\ fd'[i] = FileOf(i)'
      BY <1>10, <2>1, <2>2, <2>4, <3>1, <3>3
    <3>. QED  BY <3>4, Zenon DEF Placed
  <2>. QED  BY <2>5, <2>6
<1>. QED  BY <1>1, <1>3, <1>8, <1>11

(* Every step keeps the wanted streams placed.                             *)
LEMMA ExactStep == ASSUME TypesFit, Exact, [Next]_vars PROVE Exact'
<1>0. /\ at \in 1 .. Len(job.input) + 1 /\ Len(job.input) \in Nat
      /\ epc \in {"opening", "waiting", "main", "closed", "failed", "killed"}
      /\ epc = "waiting" => (at <= Len(job.input) /\ Wanted(at))
  BY JobParts DEF TypesFit, TypeOK, ReadersFit
<1>c. (Connected /\ Aligned) => at = Len(job.input) + 1
  BY DEF Exact
<1>n. CASE ~Aligned
  <2>1. job' = job /\ num_out_streams' = num_out_streams
    BY DEF Next, Extract, Environment, SkipStream, OpenFile, MakePipe, OpenFails, StartMain,
           Meet, SkipPacket, WritePacket, WriteCut, WriteKills, Close, Signal,
           ReaderMisses, ReaderLeaves, vars, evars
  <2>2. ~Aligned'
    BY <1>n, <2>1, SameJob
  <2>. QED  BY <2>2 DEF Exact
<1>1. ASSUME Aligned, SkipStream \/ MakePipe \/ OpenFails \/ StartMain \/ WriteKills \/ Close
      PROVE  Exact'
  <2>1. /\ job' = job /\ num_out_streams' = num_out_streams
        /\ files' = files /\ stray' = stray /\ pos' = pos
        /\ at' = at \/ (at' = at + 1 /\ ~Wanted(at))
        /\ fd' = fd \/ epc' = "closed"
    BY <1>1 DEF SkipStream, MakePipe, OpenFails, StartMain, WriteKills, Close
  <2>2. /\ epc' \in {"opening", "waiting"} => epc \in {"opening", "waiting"}
        /\ epc' = "main" => epc \in {"opening", "waiting", "main"}
    BY <1>1 DEF SkipStream, MakePipe, OpenFails, StartMain, WriteKills, Close
  <2>3. ASSUME Connected'
        PROVE  at' = Len(job.input) + 1
    <3>1. epc' \in {"main", "closed", "killed"}
      BY <2>3 DEF Connected
    <3>2. CASE StartMain
      <4>1. at' = at /\ at > Len(job.input)
        BY <3>2 DEF StartMain
      <4>. QED  BY <1>0, <4>1
    <3>3. CASE WriteKills \/ Close
      <4>1. at' = at /\ Connected
        BY <3>3 DEF WriteKills, Close, Connected, Goes
      <4>. QED  BY <1>1, <1>c, <4>1
    <3>4. CASE SkipStream \/ MakePipe \/ OpenFails
      <4>1. epc' \in {"opening", "waiting", "failed"}
        BY <3>4 DEF SkipStream, MakePipe, OpenFails
      <4>. QED  BY <3>1, <4>1
    <3>. QED  BY <1>1, <3>2, <3>3, <3>4
  <2>. QED  BY <2>1, <2>2, <2>3, ExactSame
<1>2. CASE OpenFile \/ \E p \in DOMAIN reads : Meet(p)
  <2>1. /\ job' = job /\ num_out_streams' = num_out_streams
        /\ epc \in {"opening", "waiting"} /\ at <= Len(job.input) /\ Wanted(at)
        /\ HasOpened(at) /\ stray' = stray /\ pos' = pos
    BY <1>0, <1>2 DEF OpenFile, Meet
  <2>. QED  BY <2>1, ExactOpen
<1>3. CASE SkipPacket
  BY <1>3, ExactSkip
<1>4. CASE WritePacket \/ WriteCut
  <2>1. /\ Goes /\ Wanted(ThisPacket.stream)
        /\ job' = job /\ num_out_streams' = num_out_streams /\ epc' = epc /\ at' = at /\ fd' = fd
    BY <1>4 DEF WritePacket, WriteCut
  <2>2. PICK w \in BOOLEAN : Written(w)
    BY <1>4 DEF WritePacket, WriteCut
  <2>. QED  BY <2>1, <2>2, ExactWrite
<1>5. ASSUME Aligned, Environment \/ UNCHANGED vars
      PROVE  Exact'
  <2>1. /\ job' = job /\ num_out_streams' = num_out_streams
        /\ files' = files /\ stray' = stray /\ pos' = pos /\ at' = at /\ fd' = fd /\ epc' = epc
    BY <1>5 DEF Environment, Signal, ReaderMisses, ReaderLeaves, evars, vars
  <2>2. Connected' => at' = Len(job.input) + 1
    BY <1>5, <1>c, <2>1 DEF Connected
  <2>. QED  BY <2>1, <2>2, ExactSame
<1>. QED  BY <1>n, <1>1, <1>2, <1>3, <1>4, <1>5, Zenon DEF Next, Extract

(* So they are placed in every state.                                      *)
LEMMA ExactAlways == Spec => [](TypesFit /\ Exact)
<1>1. Init => TypesFit /\ Exact
  BY TypesInit, ExactInit
<1>2. TypesFit /\ Exact /\ [Next]_vars => TypesFit' /\ Exact'
  BY TypesStep, ExactStep
<1>. QED  BY <1>1, <1>2, PTL DEF Spec

(* When the loop begins every wanted stream is placed.                     *)
LEMMA ConnectedPlaced ==
  ASSUME TypesFit, Exact, Aligned, Connected, NEW i \in 1 .. Len(job.input), Wanted(i)
  PROVE  Placed(i)
<1>1. at = Len(job.input) + 1 /\ Len(job.input) \in Nat
  BY JobParts DEF Exact, TypesFit, TypeOK
<1>2. i < at
  BY <1>1
<1>. QED  BY <1>2 DEF Exact

(* In an input whose wanted streams come in the order of the options, each *)
(* stream's file has all of its packets that were read, in their order and *)
(* with their times cut to 33 bits, and no packet goes astray.             *)
THEOREM ExactWhenAlignedHolds == Spec => []ExactWhenAligned
<1>1. ASSUME TypesFit, Exact
      PROVE  ExactWhenAligned
  <2>1. SUFFICES ASSUME Aligned, Connected
                 PROVE  /\ stray = 0
                        /\ \A i \in 1 .. Len(job.input) : Wanted(i) => Placed(i)
    BY Zenon DEF ExactWhenAligned, Placed, Kept
  <2>2. stray = 0
    BY <1>1, <2>1 DEF Exact
  <2>. QED  BY <1>1, <2>1, <2>2, ConnectedPlaced
<1>2. TypesFit /\ Exact => ExactWhenAligned
  BY <1>1
<1>. QED  BY <1>2, ExactAlways, PTL

-----------------------------------------------------------------------------
(***************************************************************************)
(* Division by a fixed positive width, and unrolling, as in                *)
(* PacketClockProofs, which has variables that this module has not.        *)
(***************************************************************************)

(* A remainder is below the width.                                         *)
LEMMA RemainderRange ==
  ASSUME NEW w \in Nat \ {0}, NEW x \in Int
  PROVE  x % w \in 0 .. w - 1
OBVIOUS

(* Quotient and remainder make up the number.                              *)
LEMMA Division ==
  ASSUME NEW w \in Nat \ {0}, NEW x \in Int
  PROVE  x \div w \in Int /\ x = w * (x \div w) + (x % w)
OBVIOUS

(* No other multiple of the width leads from a remainder to a remainder.   *)
LEMMA NoMultiple ==
  ASSUME NEW w \in Nat \ {0}, NEW k \in Int, NEW e \in 0 .. w - 1,
         e + k * w \in 0 .. w - 1
  PROVE  k = 0
<1>1. ASSUME k >= 1 PROVE FALSE
  <2>1. k * w >= w BY <1>1
  <2>2. QED BY <2>1
<1>2. ASSUME k <= -1 PROVE FALSE
  <2>1. k * w <= -w BY <1>2
  <2>2. QED BY <2>1
<1>3. QED BY <1>1, <1>2

(* The remainder forgets multiples of the width.                           *)
LEMMA RemainderOfSum ==
  ASSUME NEW w \in Nat \ {0}, NEW k \in Int, NEW e \in 0 .. w - 1
  PROVE  (e + k * w) % w = e
<1> DEFINE x == e + k * w
           r == x % w
           q == x \div w
<1>1. x \in Int OBVIOUS
<1> HIDE DEF x
<1>2. r \in 0 .. w - 1 BY <1>1, RemainderRange
<1>3. x = w * q + r /\ q \in Int BY <1>1, Division
<1> HIDE DEF r, q
<1>4. e + k * w = w * q + r BY <1>3 DEF x
<1>5. w * q = q * w BY <1>3
<1>6. (k - q) * w = k * w - q * w BY <1>3
<1>7. e + (k - q) * w = r BY <1>2, <1>3, <1>4, <1>5, <1>6
<1>8. k - q \in Int BY <1>3
<1>9. k - q = 0 BY <1>2, <1>7, <1>8, NoMultiple
<1>10. r = e BY <1>2, <1>7, <1>9
<1>11. QED BY <1>10 DEF r, x

(* Half of the wrap is half of it.                                         *)
LEMMA HalfWrap == Wrap = 2 * (Wrap \div 2) /\ Wrap \div 2 \in Nat \ {0}
BY WrapAssumption

-----------------------------------------------------------------------------
(* Extended undoes the loss of any number of wraps from a difference that  *)
(* is less than half a wrap.                                               *)
LEMMA ExtendedExact ==
  ASSUME NEW e \in Int, NEW k \in Int, 2 * e < Wrap, -Wrap < 2 * e
  PROVE  Extended(e + k * Wrap) = e
<1>1. Wrap \in Nat \ {0} BY WrapAssumption
<1>2. Wrap = 2 * (Wrap \div 2) /\ Wrap \div 2 \in Nat BY HalfWrap
<1>3. CASE e >= 0
  <2>1. e \in 0 .. Wrap - 1 BY <1>1, <1>3
  <2>2. (e + k * Wrap) % Wrap = e BY <1>1, <2>1, RemainderOfSum
  <2>3. ~ (e >= Wrap \div 2) BY <1>2
  <2>4. QED BY <2>2, <2>3 DEF Extended
<1>4. CASE e < 0
  <2>1. e + Wrap \in 0 .. Wrap - 1 BY <1>1, <1>4
  <2>2. k - 1 \in Int OBVIOUS
  <2>3. (e + Wrap) + (k - 1) * Wrap = e + k * Wrap BY <1>1
  <2>4. ((e + Wrap) + (k - 1) * Wrap) % Wrap = e + Wrap
    BY <1>1, <2>1, <2>2, RemainderOfSum
  <2>5. (e + k * Wrap) % Wrap = e + Wrap BY <2>3, <2>4
  <2>6. e + Wrap >= Wrap \div 2 BY <1>2
  <2>7. (e + Wrap) - Wrap = e BY <1>1
  <2>8. QED BY <2>5, <2>6, <2>7 DEF Extended
<1>5. QED BY <1>3, <1>4

(* A timestamp is a remainder, and so neither missing nor "no timestamp".  *)
LEMMA RawStamp ==
  ASSUME NEW t \in Int
  PROVE  t % Wrap \in Nat /\ t % Wrap # AV_NOPTS_VALUE /\ t % Wrap # Unset
<1>1. t % Wrap \in 0 .. Wrap - 1 BY WrapAssumption, RemainderRange
<1>2. QED BY <1>1, WrapAssumption, NoPtsAssumption DEF Unset

(* unroll_timestamp is exact: the 33 bits of a time t that is within half  *)
(* a wrap of the base, both counted from an origin where a wrap period     *)
(* begins, unroll to t counted from that origin.                           *)
THEOREM UnrollExact ==
  ASSUME NEW base \in Int, base # Unset, NEW t \in Int,
         NEW org \in Int, NEW k \in Int, org = k * Wrap,
         2 * (t - org - base) < Wrap, -Wrap < 2 * (t - org - base)
  PROVE  /\ unroll_timestamp(base, t % Wrap) = t - org
         /\ base_after(base, t % Wrap) = t - org
<1> DEFINE raw == t % Wrap
           q == t \div Wrap
           e == t - org - base
<1>1. Wrap \in Nat \ {0} BY WrapAssumption
<1>2. raw \in Nat /\ raw # AV_NOPTS_VALUE BY RawStamp
<1>3. t = Wrap * q + raw /\ q \in Int BY <1>1, Division
<1>4. e \in Int /\ 2 * e < Wrap /\ -Wrap < 2 * e OBVIOUS
<1>5. raw - base = e + (k - q) * Wrap
  <2> HIDE DEF raw, q
  <2>1. Wrap * q = q * Wrap BY <1>1, <1>3
  <2>2. (k - q) * Wrap = k * Wrap - q * Wrap BY <1>1, <1>3
  <2>3. k * Wrap \in Int /\ q * Wrap \in Int BY <1>1, <1>3
  <2>4. QED BY <1>2, <1>3, <2>1, <2>2, <2>3
<1> HIDE DEF e
<1>6. k - q \in Int BY <1>3
<1>7. Extended(raw - base) = e BY <1>4, <1>5, <1>6, ExtendedExact
<1>8. base_for(base, raw) = base BY DEF base_for
<1>9. unroll_timestamp(base, raw) = base + e
  BY <1>2, <1>7, <1>8 DEF unroll_timestamp
<1>10. base + e = t - org BY DEF e
<1>11. QED BY <1>2, <1>9, <1>10 DEF base_after

(* The very first timestamp is its own base.                               *)
LEMMA UnrollFirst ==
  ASSUME NEW t \in Int
  PROVE  /\ unroll_timestamp(Unset, t % Wrap) = t % Wrap
         /\ base_after(Unset, t % Wrap) = t % Wrap
<1>1. t % Wrap \in Nat /\ t % Wrap # AV_NOPTS_VALUE BY RawStamp
<1>2. Extended(0) = 0
  <2>1. 0 + 0 * Wrap = 0 BY WrapAssumption
  <2>2. Extended(0 + 0 * Wrap) = 0 BY WrapAssumption, ExtendedExact
  <2>3. QED BY <2>1, <2>2
<1>3. base_for(Unset, t % Wrap) = t % Wrap BY DEF base_for
<1>4. (t % Wrap) - (t % Wrap) = 0 BY <1>1
<1>5. (t % Wrap) + 0 = t % Wrap BY <1>1
<1>6. QED BY <1>1, <1>2, <1>3, <1>4, <1>5 DEF unroll_timestamp, base_after

(* Unrolling gives integers.                                               *)
LEMMA UnrollType ==
  ASSUME NEW base \in Int, NEW t \in Int
  PROVE  unroll_timestamp(base, t) \in Int /\ base_after(base, t) \in Int
<1>1. base_for(base, t) \in Int BY DEF base_for, Unset
<1>2. t - base_for(base, t) \in Int BY <1>1
<1>3. (t - base_for(base, t)) % Wrap \in Int
  BY <1>2, WrapAssumption, RemainderRange
<1>4. Extended(t - base_for(base, t)) \in Int
  BY <1>3, WrapAssumption DEF Extended
<1>5. QED BY <1>1, <1>4 DEF unroll_timestamp, base_after

-----------------------------------------------------------------------------
(***************************************************************************)
(* Times through the cut to 33 bits and the muxer's unrolling.             *)
(***************************************************************************)
IsUnrolled(f, recs, m) ==
  f = [k \in 0 .. m |-> IF k = 0 THEN Unset ELSE base_after(f[k - 1], recs[k].pts)]

(* There is such a function.                                               *)
LEMMA UnrolledExists ==
  ASSUME NEW recs \in Seq(Record)
  PROVE  \E f \in [0 .. Len(recs) -> Int] : IsUnrolled(f, recs, Len(recs))
<1>. DEFINE T == {m \in 0 .. Len(recs) : \E f \in [0 .. m -> Int] : IsUnrolled(f, recs, m)}
<1>1. 0 \in T
  <2>. DEFINE none == [k \in 0 .. 0 |-> Unset]
  <2>1. none \in [0 .. 0 -> Int]
    BY DEF Unset
  <2>2. none = [k \in 0 .. 0 |->
                  IF k = 0 THEN Unset ELSE base_after(none[k - 1], recs[k].pts)]
    <3>1. \A k \in 0 .. 0 : k = 0
      OBVIOUS
    <3>. QED  BY <3>1
  <2>3. IsUnrolled(none, recs, 0)
    BY <2>2 DEF IsUnrolled
  <2>4. 0 \in 0 .. Len(recs)
    OBVIOUS
  <2>. HIDE DEF none
  <2>. QED  BY <2>1, <2>3, <2>4
<1>2. ASSUME NEW i \in 0 .. Len(recs) - 1, i \in T
      PROVE  i + 1 \in T
  <2>1. PICK g \in [0 .. i -> Int] : IsUnrolled(g, recs, i)
    BY <1>2
  <2>2. recs[i + 1] \in Record /\ i + 1 \in 0 .. Len(recs) /\ i \in Nat
    OBVIOUS
  <2>. DEFINE new == base_after(g[i], recs[i + 1].pts)
  <2>3. new \in Int
    <3>1. g[i] \in Int /\ recs[i + 1].pts \in Int
      BY <2>1, <2>2 DEF Record
    <3>. QED  BY <3>1, UnrollType
  <2>. DEFINE h == [k \in 0 .. i + 1 |-> IF k = i + 1 THEN new ELSE g[k]]
  <2>. HIDE DEF new
  <2>4. h \in [0 .. i + 1 -> Int]
    BY <2>1, <2>3
  <2>5. ASSUME NEW k \in 0 .. i + 1
        PROVE  h[k] = IF k = 0 THEN Unset ELSE base_after(h[k - 1], recs[k].pts)
    <3>0. \A j \in 0 .. i : g[j] = IF j = 0 THEN Unset ELSE base_after(g[j - 1], recs[j].pts)
      BY <2>1 DEF IsUnrolled
    <3>1. CASE k = i + 1
      <4>1. h[k] = new /\ h[k - 1] = g[i] /\ k # 0
        BY <2>2, <3>1
      <4>2. new = base_after(g[i], recs[k].pts)
        BY <3>1 DEF new
      <4>. QED  BY <4>1, <4>2
    <3>2. CASE k # i + 1
      <4>1. k \in 0 .. i /\ h[k] = g[k]
        BY <2>5, <3>2
      <4>2. k # 0 => h[k - 1] = g[k - 1]
        BY <4>1
      <4>. QED  BY <3>0, <4>1, <4>2
    <3>. QED  BY <3>1, <3>2
  <2>6. IsUnrolled(h, recs, i + 1)
    <3>1. h = [k \in 0 .. i + 1 |-> h[k]]
      OBVIOUS
    <3>. HIDE DEF h
    <3>. QED  BY <2>5, <3>1 DEF IsUnrolled
  <2>. HIDE DEF h
  <2>. QED  BY <2>2, <2>4, <2>6
<1>3. Len(recs) \in Nat
  OBVIOUS
<1>. HIDE DEF T
<1>4. \A i \in 0 .. Len(recs) : i \in T
  BY <1>1, <1>2, <1>3, InductionTo
<1>5. Len(recs) \in T
  BY <1>3, <1>4
<1>. QED  BY <1>5 DEF T

(* The base before the first record, and behind each.                      *)
LEMMA UnrolledIs ==
  ASSUME NEW recs \in Seq(Record)
  PROVE  /\ UnrolledOf(recs)[0] = Unset
         /\ \A k \in 1 .. Len(recs) :
              UnrolledOf(recs)[k] = base_after(UnrolledOf(recs)[k - 1], recs[k].pts)
<1>1. \E f : IsUnrolled(f, recs, Len(recs))
  BY UnrolledExists
<1>2. IsUnrolled(UnrolledOf(recs), recs, Len(recs))
  BY <1>1, Zenon DEF UnrolledOf, IsUnrolled
<1>3. \A k \in 0 .. Len(recs) : UnrolledOf(recs)[k] =
        IF k = 0 THEN Unset ELSE base_after(UnrolledOf(recs)[k - 1], recs[k].pts)
  <2>. DEFINE u == UnrolledOf(recs)
  <2>1. u = [k \in 0 .. Len(recs) |->
               IF k = 0 THEN Unset ELSE base_after(u[k - 1], recs[k].pts)]
    BY <1>2 DEF IsUnrolled
  <2>. HIDE DEF u
  <2>2. \A k \in 0 .. Len(recs) :
          u[k] = IF k = 0 THEN Unset ELSE base_after(u[k - 1], recs[k].pts)
    BY <2>1
  <2>. QED  BY <2>2 DEF u
<1>4. Len(recs) \in Nat
  OBVIOUS
<1>5. 0 \in 0 .. Len(recs) /\ \A k \in 1 .. Len(recs) : k \in 0 .. Len(recs) /\ k # 0
  BY <1>4
<1>. QED  BY <1>3, <1>5

(* The first time of a stream is counted from where its wrap period began. *)
LEMMA OriginOf ==
  ASSUME NEW x \in Int
  PROVE  \E k \in Int : /\ x - (x % Wrap) = k * Wrap
                        /\ x - (x % Wrap) \in Int
                        /\ x - (x - (x % Wrap)) = x % Wrap
<1>. DEFINE r == x % Wrap
            q == x \div Wrap
<1>0. Wrap \in Nat \ {0}
  BY WrapAssumption
<1>1. q \in Int /\ x = Wrap * q + r
  BY <1>0, Division
<1>2. r \in 0 .. Wrap - 1
  BY <1>0, RemainderRange
<1>. HIDE DEF r, q
<1>3. Wrap * q = q * Wrap /\ Wrap * q \in Int
  BY <1>0, <1>1
<1>4. x - r = q * Wrap /\ x - r \in Int /\ x - (x - r) = r
  BY <1>0, <1>1, <1>2, <1>3
<1>. QED  BY <1>1, <1>4 DEF r

(* Half a wrap either way.                                                 *)
LEMMA HalfApart ==
  ASSUME NEW a \in Int, NEW b \in Int, NEW org \in Int, NEW h \in Nat, NEW w \in Nat,
         w = 2 * h, -h < a - b, a - b < h
  PROVE  2 * (a - org - (b - org)) < w /\ -w < 2 * (a - org - (b - org))
<1>1. a - org - (b - org) = a - b
  OBVIOUS
<1>. QED  BY <1>1

(* Records of a regular sequence of packets unroll to times at the         *)
(* packets' distances, unless one of them is the -1 of "none yet".         *)
LEMMA DistancesSurvive ==
  ASSUME NEW recs \in Seq(Record), NEW ps \in Seq(Packet), Kept(recs, ps), Regular(ps),
         NEW n \in 1 .. Len(recs)
  PROVE  LET u == UnrolledOf(recs)
         IN  \/ \E j \in 1 .. n : u[j] = Unset
             \/ u[n] - u[1] = ps[n].pts - ps[1].pts
<1>. DEFINE u == UnrolledOf(recs)
            L == Len(recs)
            t == [k \in 1 .. L |-> ps[k].pts]
            org == t[1] - (t[1] % Wrap)
            H == Wrap \div 2
<1>1. L \in Nat /\ n \in 1 .. L /\ Len(ps) = L /\ \A k \in 1 .. L : ps[k] \in Packet
  BY DEF Kept
<1>2. \A k \in 1 .. L : t[k] \in Int /\ t[k] = ps[k].pts
  BY <1>1 DEF Packet
<1>3. \A k \in 1 .. L : recs[k].pts = t[k] % Wrap
  <2>1. ASSUME NEW k \in 1 .. L
        PROVE  recs[k].pts = t[k] % Wrap
    <3>1. PICK w \in BOOLEAN : recs[k] = RecordOf(ps[k], w)
      BY <1>1, <2>1 DEF Kept
    <3>2. recs[k].pts = Cut33(ps[k].pts)
      BY <3>1 DEF RecordOf
    <3>. QED  BY <1>2, <2>1, <3>2 DEF Cut33
  <2>. QED  BY <2>1
<1>4. u[0] = Unset /\ \A k \in 1 .. L : u[k] = base_after(u[k - 1], t[k] % Wrap)
  BY <1>3, UnrolledIs
<1>5. \A k \in 2 .. L : -H < t[k] - t[k - 1] /\ t[k] - t[k - 1] < H
  <2>1. ASSUME NEW k \in 2 .. L
        PROVE  -H < t[k] - t[k - 1] /\ t[k] - t[k - 1] < H
    <3>1. k \in 1 .. L /\ k - 1 \in 1 .. L /\ k > 1
      BY <1>1, <2>1
    <3>2. -H < ps[k].pts - ps[k - 1].pts /\ ps[k].pts - ps[k - 1].pts < H
      BY <1>1, <3>1 DEF Regular
    <3>. QED  BY <1>2, <3>1, <3>2
  <2>. QED  BY <2>1
<1>6. Wrap = 2 * H /\ H \in Nat /\ Wrap \in Nat \ {0}
  BY HalfWrap, WrapAssumption
<1>. HIDE DEF u, L, t, H
<1>7. t[1] \in Int
  BY <1>1, <1>2
<1>8. PICK q \in Int : org = q * Wrap /\ org \in Int /\ t[1] - org = t[1] % Wrap
  BY <1>7, OriginOf
<1>. HIDE DEF org
<1>9. org = q * Wrap /\ org \in Int /\ t[1] - org = t[1] % Wrap
  BY <1>8
<1>. DEFINE T == {k \in 0 .. L : k = 0 \/ (\E j \in 1 .. k : u[j] = Unset) \/ u[k] = t[k] - org}
<1>10. 0 \in T
  BY <1>1
<1>11. ASSUME NEW i \in 0 .. L - 1, i \in T
       PROVE  i + 1 \in T
  <2>1. i + 1 \in 1 .. L /\ i + 1 \in 0 .. L /\ (i + 1) - 1 = i /\ i \in Nat
    BY <1>1
  <2>2. u[i + 1] = base_after(u[i], t[i + 1] % Wrap) /\ t[i + 1] \in Int
    <3>1. u[i + 1] = base_after(u[(i + 1) - 1], t[i + 1] % Wrap)
      BY <1>4, <2>1
    <3>. QED  BY <1>2, <2>1, <3>1
  <2>3. CASE i = 0
    <3>1. u[i + 1] = base_after(Unset, t[1] % Wrap)
      BY <1>4, <2>2, <2>3
    <3>2. u[i + 1] = t[i + 1] - org
      BY <1>7, <1>9, <2>3, <3>1, UnrollFirst
    <3>. QED  BY <2>1, <3>2
  <2>4. CASE \E j \in 1 .. i : u[j] = Unset
    <3>1. PICK j \in 1 .. i : u[j] = Unset
      BY <2>4
    <3>2. j \in 1 .. i + 1
      BY <2>1
    <3>. QED  BY <2>1, <3>1, <3>2
  <2>5. CASE i # 0 /\ ~(\E j \in 1 .. i : u[j] = Unset) /\ u[i] = t[i] - org
    <3>0. i >= 1 /\ i + 1 <= L
      BY <1>1, <2>1, <2>5
    <3>1. i \in 1 .. i /\ i + 1 \in 2 .. L /\ i \in 1 .. L
      BY <1>1, <2>1, <3>0
    <3>2. u[i] # Unset /\ t[i] \in Int
      BY <1>2, <2>5, <3>1
    <3>. DEFINE base == u[i]
                tt == t[i + 1]
    <3>3. -H < tt - t[i] /\ tt - t[i] < H
      <4>1. -H < t[i + 1] - t[(i + 1) - 1] /\ t[i + 1] - t[(i + 1) - 1] < H
        BY <1>5, <3>1
      <4>. QED  BY <2>1, <4>1
    <3>4. base \in Int /\ base = t[i] - org /\ base # Unset /\ tt \in Int
      BY <1>9, <2>2, <2>5, <3>2
    <3>. HIDE DEF base, tt
    <3>5. 2 * (tt - org - base) < Wrap /\ -Wrap < 2 * (tt - org - base)
      <4>1. 2 * (tt - org - (t[i] - org)) < Wrap /\ -Wrap < 2 * (tt - org - (t[i] - org))
        BY <1>6, <1>9, <3>2, <3>3, <3>4, HalfApart
      <4>. QED  BY <3>4, <4>1
    <3>6. base_after(base, tt % Wrap) = tt - org
      BY <1>8, <1>9, <3>4, <3>5, UnrollExact
    <3>. QED  BY <2>1, <2>2, <3>6 DEF base, tt
  <2>. QED  BY <1>11, <2>3, <2>4, <2>5
<1>12. \A k \in 0 .. L : k \in T
  <2>. HIDE DEF T
  <2>. QED  BY <1>1, <1>10, <1>11, InductionTo
<1>13. n \in T /\ 1 \in T /\ n \in Nat /\ n >= 1
  <2>. HIDE DEF T
  <2>1. n \in 0 .. L /\ 1 \in 0 .. L /\ n \in Nat /\ n >= 1
    BY <1>1
  <2>. QED  BY <1>12, <2>1
<1>14. CASE \E j \in 1 .. n : u[j] = Unset
  BY <1>14 DEF u
<1>15. CASE ~(\E j \in 1 .. n : u[j] = Unset)
  <2>1. u[n] = t[n] - org
    BY <1>13, <1>15
  <2>2. u[1] = t[1] - org
    <3>1. 1 \in 1 .. n
      BY <1>13
    <3>2. ~(\E j \in 1 .. 1 : u[j] = Unset)
      BY <1>15, <3>1
    <3>. QED  BY <1>13, <3>2
  <2>3. 1 \in 1 .. L /\ t[n] \in Int /\ t[1] = ps[1].pts /\ t[n] = ps[n].pts
    BY <1>1, <1>2, <1>13
  <2>4. u[n] - u[1] = t[n] - t[1]
    BY <1>7, <1>9, <2>1, <2>2, <2>3
  <2>. QED  BY <2>3, <2>4 DEF u
<1>. QED  BY <1>14, <1>15

(* Through the extractor's cut and the muxer's unrolling the packets of a  *)
(* stream keep their distances in time, whatever the wrap, for as long as  *)
(* successive ones are less than half a wrap apart.                        *)
THEOREM TimesSurviveHolds == Spec => []TimesSurvive
<1>1. ASSUME TypesFit, Exact
      PROVE  TimesSurvive
  <2>1. SUFFICES ASSUME Aligned, Connected, NEW i \in 1 .. Len(job.input), Wanted(i),
                        Regular(PacketsOf(i)), NEW k \in 1 .. Len(files[FileOf(i)])
                 PROVE  LET u == UnrolledOf(files[FileOf(i)])
                            ps == PacketsOf(i)
                        IN  \/ \E j \in 1 .. k : u[j] = Unset
                            \/ u[k] - u[1] = ps[k].pts - ps[1].pts
    BY Zenon DEF TimesSurvive
  <2>2. Kept(files[FileOf(i)], PacketsOf(i)) /\ FileOf(i) \in DOMAIN files
    <3>. QED  BY <1>1, <2>1, ConnectedPlaced DEF Placed
  <2>3. files[FileOf(i)] \in Seq(Record)
    BY <1>1, <2>2 DEF TypesFit, TypeOK
  <2>4. PacketsOf(i) \in Seq(Packet)
    BY <1>1, PacketsType
  <2>. QED  BY <2>1, <2>2, <2>3, <2>4, DistancesSurvive
<1>2. TypesFit /\ Exact => TimesSurvive
  BY <1>1
<1>. QED  BY <1>2, ExactAlways, PTL
-----------------------------------------------------------------------------
(***************************************************************************)
(* The order in which the pipes are opened.                                *)
(***************************************************************************)

(* c has the elements of s that are in S, up to m, in their order: h says  *)
(* where each of them is in s.                                             *)
Picks(h, c, s, S, m) ==
  /\ \A k \in 1 .. Len(c) : h[k] \in 1 .. m /\ s[h[k]] \in S /\ c[k] = s[h[k]]
  /\ \A k, l \in 1 .. Len(c) : k < l => h[k] < h[l]
  /\ \A i \in 1 .. m : s[i] \in S => \E k \in 1 .. Len(c) : h[k] = i

(* One more element is picked, or passed over.                             *)
LEMMA PicksNext ==
  ASSUME NEW U, NEW c \in Seq(U), NEW s, NEW S, NEW m \in Nat, NEW h,
         Picks(h, c, s, S, m), s[m + 1] \in U
  PROVE  /\ s[m + 1] \in S => \E g : Picks(g, Append(c, s[m + 1]), s, S, m + 1)
         /\ s[m + 1] \notin S => Picks(h, c, s, S, m + 1)
<1>0. /\ \A k \in 1 .. Len(c) : h[k] \in 1 .. m /\ s[h[k]] \in S /\ c[k] = s[h[k]]
      /\ \A k, l \in 1 .. Len(c) : k < l => h[k] < h[l]
      /\ \A i \in 1 .. m : s[i] \in S => \E k \in 1 .. Len(c) : h[k] = i
  BY DEF Picks
<1>1. Len(c) \in Nat
  OBVIOUS
<1>2. ASSUME s[m + 1] \notin S
      PROVE  Picks(h, c, s, S, m + 1)
  <2>1. \A k \in 1 .. Len(c) : h[k] \in 1 .. m + 1
    <3>1. \A k \in 1 .. Len(c) : h[k] \in 1 .. m
      BY <1>0
    <3>. QED  BY <3>1
  <2>2. ASSUME NEW i \in 1 .. m + 1, s[i] \in S
        PROVE  i \in 1 .. m
    BY <1>2, <2>2
  <2>. QED  BY <1>0, <2>1, <2>2 DEF Picks
<1>3. ASSUME s[m + 1] \in S
      PROVE  \E g : Picks(g, Append(c, s[m + 1]), s, S, m + 1)
  <2>. DEFINE n == Len(c)
              d == Append(c, s[m + 1])
              g == [k \in 1 .. n + 1 |-> IF k = n + 1 THEN m + 1 ELSE h[k]]
  <2>1. n \in Nat
    BY <1>1
  <2>2. Len(d) = n + 1 /\ d[n + 1] = s[m + 1] /\ \A k \in 1 .. n : d[k] = c[k]
    OBVIOUS
  <2>3. g[n + 1] = m + 1 /\ \A k \in 1 .. n : g[k] = h[k] /\ h[k] \in 1 .. m
    BY <1>0, <2>1
  <2>. HIDE DEF n, d, g
  <2>0. /\ \A k \in 1 .. n : h[k] \in 1 .. m /\ s[h[k]] \in S /\ c[k] = s[h[k]]
        /\ \A k, l \in 1 .. n : k < l => h[k] < h[l]
        /\ \A i \in 1 .. m : s[i] \in S => \E k \in 1 .. n : h[k] = i
    BY <1>0 DEF n
  <2>4. ASSUME NEW k \in 1 .. n + 1
        PROVE  g[k] \in 1 .. m + 1 /\ s[g[k]] \in S /\ d[k] = s[g[k]]
    <3>1. CASE k = n + 1
      BY <1>3, <2>2, <2>3, <3>1
    <3>2. CASE k # n + 1
      <4>1. k \in 1 .. n
        BY <2>1, <3>2
      <4>2. g[k] = h[k] /\ h[k] \in 1 .. m /\ d[k] = c[k]
        BY <2>2, <2>3, <4>1
      <4>3. s[h[k]] \in S /\ c[k] = s[h[k]]
        BY <2>0, <4>1
      <4>4. g[k] \in 1 .. m + 1
        BY <4>2
      <4>. QED  BY <4>2, <4>3, <4>4
    <3>. QED  BY <3>1, <3>2
  <2>5. ASSUME NEW k \in 1 .. n + 1, NEW l \in 1 .. n + 1, k < l
        PROVE  g[k] < g[l]
    <3>1. k \in 1 .. n /\ g[k] = h[k] /\ h[k] \in 1 .. m
      BY <2>1, <2>3, <2>5
    <3>2. CASE l = n + 1
      BY <2>3, <3>1, <3>2
    <3>3. CASE l # n + 1
      <4>1. l \in 1 .. n
        BY <2>1, <3>3
      <4>2. g[l] = h[l] /\ h[k] < h[l]
        BY <2>0, <2>3, <2>5, <3>1, <4>1
      <4>. QED  BY <3>1, <4>2
    <3>. QED  BY <3>2, <3>3
  <2>6. ASSUME NEW i \in 1 .. m + 1, s[i] \in S
        PROVE  \E k \in 1 .. n + 1 : g[k] = i
    <3>1. CASE i = m + 1
      <4>1. n + 1 \in 1 .. n + 1
        BY <2>1
      <4>. QED  BY <2>3, <3>1, <4>1
    <3>2. CASE i # m + 1
      <4>1. i \in 1 .. m
        BY <3>2
      <4>2. PICK k \in 1 .. n : h[k] = i
        BY <2>0, <2>6, <4>1
      <4>3. k \in 1 .. n + 1 /\ g[k] = i
        BY <2>1, <2>3, <4>2
      <4>. QED  BY <4>3
    <3>. QED  BY <3>1, <3>2
  <2>7. Picks(g, d, s, S, m + 1)
    BY <2>2, <2>4, <2>5, <2>6 DEF Picks
  <2>. QED  BY <2>7 DEF d
<1>. QED  BY <1>2, <1>3

(* What was chosen was picked in order, and nothing was passed over.       *)
LEMMA ChosenPicks ==
  ASSUME NEW U, NEW s \in Seq(U), NEW S
  PROVE  \E h : Picks(h, Chosen(s, S), s, S, Len(s))
<1>1. PICK f \in [0 .. Len(s) -> Seq(U \cap S)] : IsChosen(f, s, S, Len(s))
  BY ChosenExists
<1>2. Len(s) \in Nat /\ \A m \in 1 .. Len(s) : s[m] \in U
  OBVIOUS
<1>3. f[Len(s)] = Chosen(s, S)
  <2>1. IsChosen(Choosing(s, S), s, S, Len(s)) /\ Chosen(s, S) = Choosing(s, S)[Len(s)]
    BY ChosenIs
  <2>. QED  BY <1>1, <1>2, <2>1, ChosenPrefix
<1>4. \A k \in 0 .. Len(s) : f[k] = IF k = 0 THEN << >>
                ELSE IF s[k] \in S THEN Append(f[k - 1], s[k]) ELSE f[k - 1]
  BY <1>1 DEF IsChosen
<1>. DEFINE T == {m \in 0 .. Len(s) : \E h : Picks(h, f[m], s, S, m)}
<1>5. 0 \in T
  <2>1. 0 \in 0 .. Len(s)
    BY <1>2
  <2>2. f[0] = << >>
    BY <1>4, <2>1
  <2>3. Picks(<< >>, << >>, s, S, 0)
    BY DEF Picks
  <2>. QED  BY <2>1, <2>2, <2>3
<1>6. ASSUME NEW i \in 0 .. Len(s) - 1, i \in T
      PROVE  i + 1 \in T
  <2>1. PICK h : Picks(h, f[i], s, S, i)
    BY <1>6
  <2>2. /\ i + 1 \in 0 .. Len(s) /\ i + 1 \in 1 .. Len(s) /\ (i + 1) - 1 = i /\ i + 1 # 0
        /\ i \in Nat /\ i \in 0 .. Len(s)
    BY <1>2
  <2>3. f[i + 1] = IF s[i + 1] \in S THEN Append(f[i], s[i + 1]) ELSE f[i]
    BY <1>4, <2>2
  <2>4. f[i] \in Seq(U)
    <3>1. f[i] \in Seq(U \cap S)
      BY <1>1, <2>2
    <3>. QED  BY <3>1
  <2>5. s[i + 1] \in U
    BY <1>2, <2>2
  <2>6. /\ s[i + 1] \in S => \E g : Picks(g, Append(f[i], s[i + 1]), s, S, i + 1)
        /\ s[i + 1] \notin S => Picks(h, f[i], s, S, i + 1)
    BY <2>1, <2>2, <2>4, <2>5, PicksNext
  <2>7. \E g : Picks(g, f[i + 1], s, S, i + 1)
    BY <2>3, <2>6
  <2>. QED  BY <2>2, <2>7
<1>. HIDE DEF T
<1>7. \A i \in 0 .. Len(s) : i \in T
  BY <1>2, <1>5, <1>6, InductionTo
<1>8. Len(s) \in T
  BY <1>2, <1>7
<1>. QED  BY <1>3, <1>8 DEF T


(* w has the streams that are opened, each of those that are wanted, in    *)
(* the order of the input.                                                 *)
Ordered(w) ==
  /\ \A k \in 1 .. Len(OpenOrder) :
       w[k] \in 1 .. Len(job.input) /\ Wanted(w[k]) /\ OpenOrder[k] = FileOf(w[k])
  /\ \A k, l \in 1 .. Len(OpenOrder) : k < l => w[k] < w[l]
  /\ \A i \in 1 .. Len(job.input) : Wanted(i) => \E k \in 1 .. Len(OpenOrder) : w[k] = i

(* There is such a w.                                                      *)
LEMMA OrderPicks ==
  ASSUME job \in Jobs
  PROVE  \E w : Ordered(w)
<1>. DEFINE streams == [i \in 1 .. Len(job.input) |-> i]
            W == {i \in 1 .. Len(job.input) : Wanted(i)}
            wanted == Chosen(streams, W)
            n == Len(job.input)
<1>1. n \in Nat
  BY JobParts
<1>2. streams \in Seq(Nat) /\ Len(streams) = n /\ \A i \in 1 .. n : streams[i] = i
  BY <1>1
<1>3. OpenOrder = [k \in 1 .. Len(wanted) |-> FileOf(wanted[k])]
  BY DEF OpenOrder
<1>4. \A i \in 1 .. n : i \in W <=> Wanted(i)
  OBVIOUS
<1>. HIDE DEF streams, W
<1>5. PICK h : Picks(h, wanted, streams, W, n)
  BY <1>2, ChosenPicks
<1>6. wanted \in Seq(Nat \cap W)
  BY <1>2, ChosenType
<1>. HIDE DEF wanted, n
<1>7. Len(OpenOrder) = Len(wanted) /\ \A k \in 1 .. Len(wanted) : OpenOrder[k] = FileOf(wanted[k])
  <2>1. Len(wanted) \in Nat
    BY <1>6
  <2>. QED  BY <1>3, <2>1
<1>8. \A k \in 1 .. Len(wanted) : h[k] \in 1 .. n /\ h[k] \in W /\ wanted[k] = h[k]
  BY <1>2, <1>5 DEF Picks
<1>9. Ordered(h)
  <2>1. \A k \in 1 .. Len(wanted) : h[k] \in 1 .. n /\ Wanted(h[k]) /\ OpenOrder[k] = FileOf(h[k])
    BY <1>4, <1>7, <1>8
  <2>2. \A k, l \in 1 .. Len(wanted) : k < l => h[k] < h[l]
    BY <1>5 DEF Picks
  <2>3. ASSUME NEW i \in 1 .. n, Wanted(i)
        PROVE  \E k \in 1 .. Len(wanted) : h[k] = i
    <3>1. streams[i] \in W
      BY <1>2, <1>4, <2>3
    <3>. QED  BY <1>5, <3>1 DEF Picks
  <2>. QED  BY <1>7, <2>1, <2>2, <2>3 DEF Ordered, n
<1>. QED  BY <1>9

(* OrdersAgree, said of the streams: each pipe's reader has opened before  *)
(* it only pipes of wanted streams that come earlier in the input.         *)
OpensAfter(i, p, j) ==
  /\ reads[p][j] = FileOf(i)
  /\ \A b \in 1 .. j - 1 : \E e \in 1 .. i - 1 : Wanted(e) /\ reads[p][b] = FileOf(e)
Agreeing ==
  \A i \in 1 .. Len(job.input) : Wanted(i) =>
    \E p \in DOMAIN reads : \E j \in 1 .. Len(reads[p]) : OpensAfter(i, p, j)

(* The two ways of saying it are the same.                                 *)
LEMMA AgreeIs ==
  ASSUME job \in Jobs, \A p \in DOMAIN reads : reads[p] \in Seq(Name),
         num_out_streams \in 0 .. MaxStreams
  PROVE  /\ OrdersAgree => Agreeing
         /\ Agreeing => OrdersAgree
<1>1. PICK w : Ordered(w)
  BY OrderPicks
<1>. DEFINE n == Len(OpenOrder)
            N == Len(job.input)
<1>2. n \in Nat /\ N \in Nat
  BY JobParts, OrderType
<1>3. /\ \A k \in 1 .. n : w[k] \in 1 .. N /\ Wanted(w[k]) /\ OpenOrder[k] = FileOf(w[k])
      /\ \A k, l \in 1 .. n : k < l => w[k] < w[l]
      /\ \A i \in 1 .. N : Wanted(i) => \E k \in 1 .. n : w[k] = i
  BY <1>1 DEF Ordered
<1>a. OrdersAgree =
        \A k \in 1 .. n : \E p \in DOMAIN reads : \E j \in 1 .. Len(reads[p]) :
          /\ reads[p][j] = OpenOrder[k]
          /\ \A b \in 1 .. j - 1 : \E m \in 1 .. k - 1 : reads[p][b] = OpenOrder[m]
  BY DEF OrdersAgree
<1>b. Agreeing = \A i \in 1 .. N : Wanted(i) =>
         \E p \in DOMAIN reads : \E j \in 1 .. Len(reads[p]) : OpensAfter(i, p, j)
  BY DEF Agreeing
<1>. HIDE DEF n, N
<1>4. ASSUME OrdersAgree
      PROVE  Agreeing
  <2>1. ASSUME NEW i \in 1 .. N, Wanted(i)
        PROVE  \E p \in DOMAIN reads : \E j \in 1 .. Len(reads[p]) : OpensAfter(i, p, j)
    <3>1. PICK k \in 1 .. n : w[k] = i
      BY <1>3, <2>1
    <3>2. PICK p \in DOMAIN reads : \E j \in 1 .. Len(reads[p]) :
            /\ reads[p][j] = OpenOrder[k]
            /\ \A b \in 1 .. j - 1 : \E m \in 1 .. k - 1 : reads[p][b] = OpenOrder[m]
      BY <1>4, <1>a
    <3>3. PICK j \in 1 .. Len(reads[p]) :
            /\ reads[p][j] = OpenOrder[k]
            /\ \A b \in 1 .. j - 1 : \E m \in 1 .. k - 1 : reads[p][b] = OpenOrder[m]
      BY <3>2
    <3>4. reads[p][j] = FileOf(i)
      BY <1>3, <3>1, <3>3
    <3>5. ASSUME NEW b \in 1 .. j - 1
          PROVE  \E e \in 1 .. i - 1 : Wanted(e) /\ reads[p][b] = FileOf(e)
      <4>1. PICK m \in 1 .. k - 1 : reads[p][b] = OpenOrder[m]
        BY <3>3
      <4>2. m \in 1 .. n /\ m < k
        BY <1>2
      <4>3. w[m] \in 1 .. N /\ Wanted(w[m]) /\ OpenOrder[m] = FileOf(w[m])
        BY <1>3, <4>2
      <4>4. w[m] < i
        BY <1>3, <3>1, <4>2
      <4>5. w[m] \in 1 .. i - 1
        BY <1>2, <4>3, <4>4
      <4>. QED  BY <4>1, <4>3, <4>5
    <3>6. OpensAfter(i, p, j)
      BY <3>4, <3>5 DEF OpensAfter
    <3>. QED  BY <3>6
  <2>. QED  BY <1>b, <2>1
<1>5. ASSUME Agreeing
      PROVE  OrdersAgree
  <2>1. ASSUME NEW k \in 1 .. n
        PROVE  \E p \in DOMAIN reads : \E j \in 1 .. Len(reads[p]) :
            /\ reads[p][j] = OpenOrder[k]
            /\ \A b \in 1 .. j - 1 : \E m \in 1 .. k - 1 : reads[p][b] = OpenOrder[m]
    <3>1. w[k] \in 1 .. N /\ Wanted(w[k]) /\ OpenOrder[k] = FileOf(w[k])
      BY <1>3
    <3>2. PICK p \in DOMAIN reads : \E j \in 1 .. Len(reads[p]) : OpensAfter(w[k], p, j)
      BY <1>5, <1>b, <3>1
    <3>3. PICK j \in 1 .. Len(reads[p]) : OpensAfter(w[k], p, j)
      BY <3>2
    <3>4. ASSUME NEW b \in 1 .. j - 1
          PROVE  \E m \in 1 .. k - 1 : reads[p][b] = OpenOrder[m]
      <4>1. PICK e \in 1 .. w[k] - 1 : Wanted(e) /\ reads[p][b] = FileOf(e)
        BY <3>3 DEF OpensAfter
      <4>2. e \in 1 .. N /\ e < w[k]
        BY <1>2, <3>1
      <4>3. PICK m \in 1 .. n : w[m] = e
        BY <1>3, <4>1, <4>2
      <4>4. m < k
        <5>1. ~ (k < m)
          <6>1. k < m => w[k] < w[m]
            BY <1>3
          <6>. QED  BY <3>1, <4>2, <4>3, <6>1
        <5>2. m # k
          BY <3>1, <4>2, <4>3
        <5>. QED  BY <1>2, <5>1, <5>2
      <4>5. m \in 1 .. k - 1
        BY <1>2, <4>4
      <4>6. OpenOrder[m] = FileOf(e)
        BY <1>3, <4>3
      <4>. QED  BY <4>1, <4>5, <4>6
    <3>. QED  BY <3>1, <3>3, <3>4 DEF OpensAfter
  <2>. QED  BY <1>a, <2>1
<1>. QED  BY <1>4, <1>5

-----------------------------------------------------------------------------
(* No name comes twice.                                                    *)
Apart(s) == \A j, k \in 1 .. Len(s) : s[j] = s[k] => j = k

(* All names of s are among those of S.                                    *)
Within(s, S) == \A j \in 1 .. Len(s) : s[j] \in S

(* The names of one type are different ones, from those given.             *)
LEMMA OfTypeApart ==
  ASSUME NEW names, NEW type \in Types
  PROVE  /\ Apart(OfType(names, type))
         /\ Within(OfType(names, type), {x \in ToSet(names) : x[1] = type})
<1>. DEFINE all == [i \in Slots |-> <<type, i>>]
            S == ToSet(names)
            c == Chosen(all, S)
<1>1. all \in Seq(Name) /\ Len(all) = MaxStreams
  <2>1. \A i \in Slots : <<type, i>> \in Name
    BY DEF Name
  <2>. QED  BY <2>1, StreamsAssumption DEF Slots
<1>2. \A i \in 1 .. MaxStreams : all[i] = <<type, i>>
  BY DEF Slots
<1>. HIDE DEF all, S
<1>3. PICK h : Picks(h, c, all, S, MaxStreams)
  BY <1>1, ChosenPicks
<1>4. c \in Seq(Name)
  <2>1. c \in Seq(Name \cap S)
    BY <1>1, ChosenType
  <2>. QED  BY <2>1
<1>5. OfType(names, type) = c
  BY DEF OfType, all, S
<1>. HIDE DEF c
<1>6. \A k \in 1 .. Len(c) : h[k] \in 1 .. MaxStreams /\ all[h[k]] \in S /\ c[k] = <<type, h[k]>>
  BY <1>2, <1>3 DEF Picks
<1>7. \A k, l \in 1 .. Len(c) : k < l => h[k] < h[l]
  BY <1>3 DEF Picks
<1>8. ASSUME NEW j \in 1 .. Len(c), NEW k \in 1 .. Len(c), c[j] = c[k]
      PROVE  j = k
  <2>1. h[j] = h[k] /\ h[j] \in Int
    BY <1>6, <1>8, StreamsAssumption
  <2>2. ~ (j < k) /\ ~ (k < j)
    BY <1>7, <2>1
  <2>3. j \in Int /\ k \in Int
    BY <1>4
  <2>. QED  BY <2>2, <2>3
<1>9. ASSUME NEW j \in 1 .. Len(c)
      PROVE  c[j] \in ToSet(names) /\ c[j][1] = type
  <2>1. all[h[j]] \in S /\ c[j] = <<type, h[j]>> /\ h[j] \in 1 .. MaxStreams
    BY <1>6
  <2>2. c[j] \in S
    BY <1>2, <2>1
  <2>3. c[j][1] = type
    BY <2>1
  <2>. QED  BY <2>2, <2>3 DEF S
<1>. QED  BY <1>5, <1>8, <1>9 DEF Apart, Within

(* Two sequences without a common name, one behind the other.              *)
LEMMA JoinApart ==
  ASSUME NEW U, NEW s \in Seq(U), NEW t \in Seq(U), NEW S, NEW R,
         Apart(s), Apart(t), Within(s, S), Within(t, R), S \cap R = {}
  PROVE  Apart(s \o t) /\ Within(s \o t, S \cup R) /\ s \o t \in Seq(U)
<1>. DEFINE j1 == s \o t
            m == Len(s)
            n == Len(t)
<1>1. /\ m \in Nat /\ n \in Nat /\ Len(j1) = m + n /\ j1 \in Seq(U)
      /\ \A k \in 1 .. m : j1[k] = s[k]
      /\ \A k \in m + 1 .. m + n : j1[k] = t[k - m]
  OBVIOUS
<1>2. /\ \A j, k \in 1 .. m : s[j] = s[k] => j = k
      /\ \A j, k \in 1 .. n : t[j] = t[k] => j = k
      /\ \A k \in 1 .. m : s[k] \in S
      /\ \A k \in 1 .. n : t[k] \in R
  BY DEF Apart, Within
<1>. HIDE DEF j1, m, n
<1>3. \A k \in m + 1 .. m + n : k - m \in 1 .. n
  BY <1>1
<1>4. ASSUME NEW k \in 1 .. m + n
      PROVE  /\ k <= m => (j1[k] = s[k] /\ j1[k] \in S)
             /\ k > m => (k - m \in 1 .. n /\ j1[k] = t[k - m] /\ j1[k] \in R)
  <2>1. CASE k <= m
    <3>1. k \in 1 .. m
      BY <1>1, <2>1
    <3>2. j1[k] = s[k] /\ s[k] \in S
      BY <1>1, <1>2, <3>1
    <3>. QED  BY <1>1, <2>1, <3>2
  <2>2. CASE k > m
    <3>1. k \in m + 1 .. m + n
      BY <1>1, <2>2
    <3>2. j1[k] = t[k - m] /\ k - m \in 1 .. n
      BY <1>1, <1>3, <3>1
    <3>3. t[k - m] \in R
      BY <1>2, <3>2
    <3>. QED  BY <1>1, <2>2, <3>2, <3>3
  <2>. QED  BY <1>1, <2>1, <2>2
<1>5. ASSUME NEW j \in 1 .. m + n, NEW k \in 1 .. m + n, j1[j] = j1[k]
      PROVE  j = k
  <2>1. CASE j <= m /\ k <= m
    <3>1. j \in 1 .. m /\ k \in 1 .. m
      BY <1>1, <2>1
    <3>. QED  BY <1>2, <1>4, <1>5, <2>1, <3>1
  <2>2. CASE j > m /\ k > m
    <3>1. j - m \in 1 .. n /\ k - m \in 1 .. n /\ t[j - m] = t[k - m]
      BY <1>4, <1>5, <2>2
    <3>2. j - m = k - m
      BY <1>2, <3>1
    <3>. QED  BY <1>1, <3>2
  <2>3. CASE (j <= m /\ k > m) \/ (j > m /\ k <= m)
    <3>1. j1[j] \in S \cap R
      BY <1>4, <1>5, <2>3
    <3>. QED  BY <3>1
  <2>. QED  BY <1>1, <2>1, <2>2, <2>3
<1>6. ASSUME NEW k \in 1 .. m + n
      PROVE  j1[k] \in S \cup R
  BY <1>1, <1>4
<1>. QED  BY <1>1, <1>5, <1>6 DEF Apart, Within, j1

(* The multiplexer's applications open each file once.                     *)
LEMMA OnePlace ==
  ASSUME NEW names \in Seq(Name), job.pipes, job.reader \in {"ts_muxer", "python"}
  PROVE  /\ DOMAIN Readers(names) = {1}
         /\ Apart(Readers(names)[1])
         /\ Within(Readers(names)[1], ToSet(names))
<1>. DEFINE v == OfType(names, "video")
            a == OfType(names, "audio")
            d == OfType(names, "data")
            V == {x \in ToSet(names) : x[1] = "video"}
            A == {x \in ToSet(names) : x[1] = "audio"}
            D == {x \in ToSet(names) : x[1] = "data"}
<1>1. "video" \in Types /\ "audio" \in Types /\ "data" \in Types
  BY DEF Types
<1>2. v \in Seq(Name) /\ a \in Seq(Name) /\ d \in Seq(Name)
  BY <1>1, OfTypeType
<1>3. Apart(v) /\ Within(v, V)
  BY <1>1, OfTypeApart
<1>4. Apart(a) /\ Within(a, A)
  BY <1>1, OfTypeApart
<1>5. Apart(d) /\ Within(d, D)
  BY <1>1, OfTypeApart
<1>6. V \cap A = {} /\ A \cap V = {} /\ (V \cup A) \cap D = {}
      /\ V \cup A \cup D \subseteq ToSet(names) /\ A \cup V \subseteq ToSet(names)
  OBVIOUS
<1>7. Readers(names) = CASE ~job.pipes -> << >>
        [] job.pipes /\ job.reader = "ts_muxer" -> << v \o a \o d >>
        [] job.pipes /\ job.reader = "python" -> << a \o v >>
        [] OTHER -> [k \in 1 .. Len(names) |-> << names[k] >>]
  BY Zenon DEF Readers
<1>. HIDE DEF v, a, d, V, A, D
<1>8. Apart(v \o a) /\ Within(v \o a, V \cup A) /\ v \o a \in Seq(Name)
  BY <1>2, <1>3, <1>4, <1>6, JoinApart
<1>9. Apart((v \o a) \o d) /\ Within((v \o a) \o d, (V \cup A) \cup D)
  BY <1>2, <1>5, <1>6, <1>8, JoinApart
<1>10. Apart(a \o v) /\ Within(a \o v, A \cup V)
  BY <1>2, <1>3, <1>4, <1>6, JoinApart
<1>. DEFINE x == v \o a \o d
            y == a \o v
<1>11. Apart(x) /\ Within(x, ToSet(names))
  BY <1>6, <1>9 DEF Within
<1>12. Apart(y) /\ Within(y, ToSet(names))
  BY <1>6, <1>10 DEF Within
<1>13. \/ Readers(names) = << x >>
       \/ Readers(names) = << y >>
  BY <1>7
<1>. HIDE DEF x, y
<1>14. CASE Readers(names) = << x >>
  BY <1>11, <1>14
<1>15. CASE Readers(names) = << y >>
  BY <1>12, <1>15
<1>. QED  BY <1>13, <1>14, <1>15


(* What the readers open are names of the streams that are opened; and one *)
(* that opens several opens each once, and is the only one.                *)
LEMMA ReadsNames ==
  ASSUME reads = Readers(OpenOrder), job \in Jobs, num_out_streams \in 0 .. MaxStreams,
         NEW p \in DOMAIN reads
  PROVE  Within(reads[p], ToSet(OpenOrder))
<1>1. OpenOrder \in Seq(Name)
  BY OrderType
<1>. DEFINE names == OpenOrder
<1>2. ToSet(names) = {names[k] : k \in DOMAIN names}
  BY DEF ToSet
<1>3. names \in Seq(Name) /\ reads = Readers(names)
  BY <1>1
<1>. HIDE DEF names
<1>4. CASE job.pipes /\ job.reader \in {"ts_muxer", "python"}
  <2>1. DOMAIN reads = {1} /\ Within(reads[1], ToSet(names))
    BY <1>3, <1>4, OnePlace
  <2>2. p = 1
    BY <2>1
  <2>. QED  BY <2>1, <2>2 DEF names
<1>5. CASE ~job.pipes
  <2>1. reads = << >>
    BY <1>3, <1>5, Zenon DEF Readers
  <2>2. DOMAIN reads = {}
    BY <2>1
  <2>. QED  BY <2>2
<1>6. CASE job.pipes /\ job.reader \notin {"ts_muxer", "python"}
  <2>1. reads = [k \in 1 .. Len(names) |-> << names[k] >>]
    BY <1>3, <1>6 DEF Readers
  <2>2. p \in 1 .. Len(names) /\ reads[p] = << names[p] >>
    BY <2>1
  <2>3. names[p] \in ToSet(names)
    BY <1>2, <1>3, <2>2
  <2>4. ASSUME NEW j \in 1 .. Len(reads[p])
        PROVE  reads[p][j] \in ToSet(names)
    <3>1. Len(reads[p]) = 1 /\ reads[p][1] = names[p]
      BY <2>2
    <3>2. j = 1
      BY <3>1
    <3>. QED  BY <2>3, <3>1, <3>2
  <2>. QED  BY <2>4 DEF Within, names
<1>. QED  BY <1>4, <1>5, <1>6

(* A pipe that is not the last one of its reader has no other place among  *)
(* the readers.                                                            *)
LEMMA SamePlace ==
  ASSUME reads = Readers(OpenOrder), job \in Jobs, num_out_streams \in 0 .. MaxStreams,
         NEW p \in DOMAIN reads, NEW q \in DOMAIN reads,
         NEW b \in 1 .. Len(reads[p]) - 1, NEW k \in 1 .. Len(reads[q]),
         reads[p][b] = reads[q][k]
  PROVE  p = q /\ b = k
<1>. DEFINE names == OpenOrder
<1>1. names \in Seq(Name) /\ reads = Readers(names)
  BY OrderType
<1>. HIDE DEF names
<1>2. CASE job.pipes /\ job.reader \in {"ts_muxer", "python"}
  <2>1. DOMAIN reads = {1} /\ Apart(reads[1])
    BY <1>1, <1>2, OnePlace
  <2>2. p = 1 /\ q = 1
    BY <2>1
  <2>3. reads[1] \in Seq(Name)
    BY <1>1, <2>1, ReadersType
  <2>4. b \in 1 .. Len(reads[1]) /\ k \in 1 .. Len(reads[1]) /\ reads[1][b] = reads[1][k]
    <3>1. Len(reads[1]) \in Nat
      BY <2>3
    <3>. QED  BY <2>2, <3>1
  <2>. QED  BY <2>1, <2>2, <2>4 DEF Apart
<1>3. CASE ~job.pipes
  <2>1. reads = << >>
    BY <1>1, <1>3, Zenon DEF Readers
  <2>2. DOMAIN reads = {}
    BY <2>1
  <2>. QED  BY <2>2
<1>4. CASE job.pipes /\ job.reader \notin {"ts_muxer", "python"}
  <2>1. reads = [i \in 1 .. Len(names) |-> << names[i] >>]
    BY <1>1, <1>4 DEF Readers
  <2>2. p \in 1 .. Len(names) /\ reads[p] = << names[p] >>
    BY <2>1
  <2>3. Len(reads[p]) = 1
    BY <2>2
  <2>. QED  BY <2>3
<1>. QED  BY <1>2, <1>3, <1>4

(* A stream was opened with the reader of its pipe; what that reader had   *)
(* opened before are pipes of earlier streams, or ones that it missed and  *)
(* that the extractor has not opened.                                      *)
Before(i, p, b) ==
  \/ \E e \in 1 .. i - 1 : Wanted(e) /\ reads[p][b] = FileOf(e)
  \/ \A e \in 1 .. at - 1 : Wanted(e) => reads[p][b] # FileOf(e)
MetBy(i, p, j) ==
  /\ reads[p][j] = FileOf(i)
  /\ \A b \in 1 .. j - 1 : Before(i, p, b)
Met(i) == \E p \in DOMAIN reads : \E j \in 1 .. opened[p] : MetBy(i, p, j)

(* Every reader found the pipes that it opened.                            *)
NoMiss == \A p \in DOMAIN reads : rpc[p] \notin {"missing", "failed"}
Found(p, j) == \E e \in 1 .. at - 1 : Wanted(e) /\ reads[p][j] = FileOf(e)

(* The inductive invariant: what was opened was opened in an order that    *)
(* both programs share, a reader with pipes left to open is still at it,   *)
(* and without a pipe missed the readers are not ahead of the extractor.   *)
OrderInv ==
  /\ reads = Readers(OpenOrder)
  /\ Connected => at = Len(job.input) + 1
  /\ epc = "waiting" => job.pipes
  /\ job.pipes => \A i \in 1 .. at - 1 : Wanted(i) => Met(i)
  /\ \A p \in DOMAIN reads :
       opened[p] < Len(reads[p]) => rpc[p] \in {"opening", "missing", "failed"}
  /\ NoMiss => \A p \in DOMAIN reads : \A j \in 1 .. opened[p] : Found(p, j)
  /\ (job.pipes /\ job.exist) => (ToSet(OpenOrder) \subseteq made /\ NoMiss)

(* It holds at the start, when nothing is open.                            *)
LEMMA OrderInit == ASSUME Init, TypesFit PROVE OrderInv
<1>1. /\ at = 1 /\ epc = "opening" /\ reads = Readers(OpenOrder)
      /\ opened = [p \in DOMAIN reads |-> 0]
      /\ rpc = [p \in DOMAIN reads |-> IF reads[p] = << >> THEN "reading" ELSE "opening"]
      /\ made = IF job.pipes /\ job.exist THEN ToSet(OpenOrder) ELSE {}
  BY DEF Init
<1>2. \A p \in DOMAIN reads : reads[p] \in Seq(Name)
  BY DEF TypesFit, ReadersFit
<1>3. \A p \in DOMAIN reads : opened[p] = 0 /\ rpc[p] \in {"reading", "opening"}
        /\ (reads[p] # << >> => rpc[p] = "opening")
  BY <1>1
<1>4. ASSUME NEW p \in DOMAIN reads, opened[p] < Len(reads[p])
      PROVE  rpc[p] = "opening"
  <2>1. reads[p] # << >>
    BY <1>2, <1>3, <1>4
  <2>. QED  BY <1>3, <2>1
<1>5. NoMiss
  BY <1>3 DEF NoMiss
<1>6. ~Connected
  BY <1>1 DEF Connected
<1>7. \A p \in DOMAIN reads : \A j \in 1 .. opened[p] : Found(p, j)
  BY <1>3
<1>8. \A i \in 1 .. at - 1 : Wanted(i) => Met(i)
  BY <1>1
<1>9. (job.pipes /\ job.exist) => ToSet(OpenOrder) \subseteq made
  BY <1>1
<1>10. epc # "waiting"
  BY <1>1
<1>. QED  BY <1>1, <1>4, <1>5, <1>6, <1>7, <1>8, <1>9, <1>10 DEF OrderInv

(* What no step changes, and what follows from it.                         *)
LEMMA SameOrder ==
  ASSUME job' = job, num_out_streams' = num_out_streams
  PROVE  /\ OpenOrder' = OpenOrder
         /\ \A names : Readers(names)' = Readers(names)
<1>1. \A i : Wanted(i)' = Wanted(i) /\ FileOf(i)' = FileOf(i)
  BY SameJob
<1>2. OpenOrder' = OpenOrder
  BY DEF OpenOrder, Wanted, FileOf, SlotOf, check_id_stream_is_required, PidOf
<1>3. \A names : Readers(names)' = Readers(names)
  BY Zenon DEF Readers
<1>. QED  BY <1>2, <1>3


(* A stream that was opened with its reader stays so while the extractor   *)
(* goes past streams that have no pipe.                                    *)
LEMMA MetKept ==
  ASSUME job' = job, num_out_streams' = num_out_streams, reads' = reads, at \in Nat,
         \A p \in DOMAIN reads : opened[p] \in Nat /\ opened'[p] \in Nat /\ opened[p] <= opened'[p],
         at' = at \/ (at' = at + 1 /\ ~Wanted(at)),
         NEW i \in Nat, Met(i)
  PROVE  Met(i)'
<1>1. PICK p \in DOMAIN reads : \E j \in 1 .. opened[p] : MetBy(i, p, j)
  BY DEF Met
<1>2. PICK j \in 1 .. opened[p] : MetBy(i, p, j)
  BY <1>1
<1>3. \A e : Wanted(e)' = Wanted(e) /\ FileOf(e)' = FileOf(e)
  BY SameJob
<1>4. j \in 1 .. opened'[p]
  <2>1. opened[p] \in Nat /\ opened'[p] \in Nat /\ opened[p] <= opened'[p]
    BY <1>1
  <2>. QED  BY <2>1
<1>5. ASSUME NEW e \in 1 .. at' - 1, Wanted(e)
      PROVE  e \in 1 .. at - 1
  <2>1. CASE at' = at
    BY <2>1
  <2>2. CASE at' = at + 1 /\ ~Wanted(at)
    <3>1. e # at
      BY <1>5, <2>2
    <3>. QED  BY <2>2, <3>1
  <2>. QED  BY <2>1, <2>2
<1>6. ASSUME NEW b \in 1 .. j - 1
      PROVE  Before(i, p, b)'
  <2>1. Before(i, p, b)
    BY <1>2 DEF MetBy
  <2>2. CASE \E e \in 1 .. i - 1 : Wanted(e) /\ reads[p][b] = FileOf(e)
    <3>1. \E e \in 1 .. i - 1 : Wanted(e)' /\ reads'[p][b] = FileOf(e)'
      BY <1>3, <2>2
    <3>. QED  BY <3>1 DEF Before
  <2>3. CASE \A e \in 1 .. at - 1 : Wanted(e) => reads[p][b] # FileOf(e)
    <3>1. \A e \in 1 .. at' - 1 : Wanted(e)' => reads'[p][b] # FileOf(e)'
      BY <1>3, <1>5, <2>3
    <3>. QED  BY <3>1 DEF Before
  <2>. QED  BY <2>1, <2>2, <2>3 DEF Before
<1>7. reads'[p][j] = FileOf(i)'
  BY <1>2, <1>3 DEF MetBy
<1>8. MetBy(i, p, j)'
  BY <1>6, <1>7 DEF MetBy
<1>. QED  BY <1>4, <1>8 DEF Met

(* Steps that open no pipe.                                                *)
LEMMA OrderSame ==
  ASSUME TypesFit, OrderInv,
         job' = job, num_out_streams' = num_out_streams, reads' = reads,
         at' = at \/ (at' = at + 1 /\ (Wanted(at) => ~job.pipes)),
         \A p \in DOMAIN reads : opened'[p] \in Nat /\ opened[p] <= opened'[p],
         \A p \in DOMAIN reads :
           opened'[p] < Len(reads[p]) => rpc'[p] \in {"opening", "missing", "failed"},
         NoMiss' => (NoMiss /\ \A p \in DOMAIN reads : opened'[p] = opened[p]),
         (job.pipes /\ job.exist) => (ToSet(OpenOrder) \subseteq made' /\ NoMiss'),
         Connected' => at' = Len(job.input) + 1,
         epc' = "waiting" => job.pipes
  PROVE  OrderInv'
<1>1. /\ OpenOrder' = OpenOrder /\ Readers(OpenOrder)' = Readers(OpenOrder)
      /\ \A e : Wanted(e)' = Wanted(e) /\ FileOf(e)' = FileOf(e)
  <2>1. OpenOrder' = OpenOrder
    BY SameOrder
  <2>2. Readers(OpenOrder)' = Readers(OpenOrder)
    BY <2>1, Zenon DEF Readers
  <2>. QED  BY <2>1, <2>2, SameJob
<1>2. at \in Nat /\ \A p \in DOMAIN reads : opened[p] \in Nat
  <2>1. at \in 1 .. Len(job.input) + 1 /\ Len(job.input) \in Nat
    BY JobParts DEF TypesFit, TypeOK
  <2>2. \A p \in DOMAIN reads : opened[p] \in 0 .. Len(reads[p])
    BY DEF TypesFit, TypeOK
  <2>. QED  BY <2>1, <2>2
<1>3. ASSUME job.pipes, NEW i \in 1 .. at' - 1, Wanted(i)
      PROVE  Met(i)'
  <2>1. at' = at \/ (at' = at + 1 /\ ~Wanted(at))
    BY <1>3
  <2>2. i \in 1 .. at - 1 /\ i \in Nat
    <3>1. CASE at' = at
      BY <3>1
    <3>2. CASE at' = at + 1 /\ ~Wanted(at)
      <4>1. i # at
        BY <1>3, <3>2
      <4>. QED  BY <1>2, <3>2, <4>1
    <3>. QED  BY <2>1, <3>1, <3>2
  <2>3. Met(i)
    BY <1>3, <2>2 DEF OrderInv
  <2>. QED  BY <1>2, <2>1, <2>2, <2>3, MetKept
<1>4. ASSUME NoMiss', NEW p \in DOMAIN reads, NEW j \in 1 .. opened'[p]
      PROVE  Found(p, j)'
  <2>1. NoMiss /\ j \in 1 .. opened[p]
    BY <1>4
  <2>2. Found(p, j)
    BY <2>1 DEF OrderInv
  <2>3. PICK e \in 1 .. at - 1 : Wanted(e) /\ reads[p][j] = FileOf(e)
    BY <2>2 DEF Found
  <2>4. e \in 1 .. at' - 1
    BY <1>2
  <2>5. Wanted(e)' /\ reads'[p][j] = FileOf(e)'
    BY <1>1, <2>3
  <2>. QED  BY <2>4, <2>5 DEF Found
<1>5. reads' = Readers(OpenOrder)'
  BY <1>1 DEF OrderInv
<1>6. job'.pipes => \A i \in 1 .. at' - 1 : Wanted(i)' => Met(i)'
  BY <1>1, <1>3
<1>7. \A p \in DOMAIN reads' :
        opened'[p] < Len(reads'[p]) => rpc'[p] \in {"opening", "missing", "failed"}
  OBVIOUS
<1>8. NoMiss' => \A p \in DOMAIN reads' : \A j \in 1 .. opened'[p] : Found(p, j)'
  BY <1>4
<1>9. (job'.pipes /\ job'.exist) => (ToSet(OpenOrder)' \subseteq made' /\ NoMiss')
  <2>1. ToSet(OpenOrder)' = ToSet(OpenOrder)
    BY <1>1 DEF ToSet
  <2>. QED  BY <2>1
<1>10. (Connected' => at' = Len(job'.input) + 1) /\ (epc' = "waiting" => job'.pipes)
  OBVIOUS
<1>. QED  BY <1>5, <1>6, <1>7, <1>8, <1>9, <1>10 DEF OrderInv

(* The extractor's open and that of reader p let each other go.            *)
LEMMA OrderMeet ==
  ASSUME TypesFit, OrderInv, NEW p \in DOMAIN reads, Meet(p)
  PROVE  OrderInv'
<1>1. /\ job' = job /\ num_out_streams' = num_out_streams /\ reads' = reads /\ made' = made
      /\ at' = at + 1 /\ epc' = "opening" /\ epc = "waiting"
      /\ Opens(p) /\ reads[p][opened[p] + 1] = FileOf(at)
      /\ opened' = [opened EXCEPT ![p] = @ + 1]
      /\ rpc' = [rpc EXCEPT ![p] = AfterPipe(p, @)]
  BY DEF Meet, NextPipe, HasOpened
<1>2. /\ OpenOrder' = OpenOrder /\ Readers(OpenOrder)' = Readers(OpenOrder)
      /\ \A e : Wanted(e)' = Wanted(e) /\ FileOf(e)' = FileOf(e)
  <2>1. OpenOrder' = OpenOrder
    BY <1>1, SameOrder
  <2>2. Readers(OpenOrder)' = Readers(OpenOrder)
    BY <1>1, <2>1, Zenon DEF Readers
  <2>. QED  BY <1>1, <2>1, <2>2, SameJob
<1>3. /\ job \in Jobs /\ num_out_streams \in 0 .. MaxStreams
      /\ at \in 1 .. Len(job.input) + 1 /\ at <= Len(job.input) /\ Wanted(at)
      /\ DOMAIN opened = DOMAIN reads /\ DOMAIN rpc = DOMAIN reads
      /\ opened[p] < Len(reads[p])
      /\ \A q \in DOMAIN reads : reads[q] \in Seq(Name) /\ opened[q] \in 0 .. Len(reads[q])
  BY <1>1 DEF TypesFit, TypeOK, ReadersFit
<1>4. /\ at \in Nat /\ Len(job.input) \in Nat
      /\ \A q \in DOMAIN reads : opened[q] \in Nat /\ Len(reads[q]) \in Nat /\ opened[q] <= Len(reads[q])
  <2>1. Len(job.input) \in Nat
    BY <1>3, JobParts
  <2>2. ASSUME NEW q \in DOMAIN reads
        PROVE  opened[q] \in Nat /\ Len(reads[q]) \in Nat /\ opened[q] <= Len(reads[q])
    <3>1. reads[q] \in Seq(Name) /\ opened[q] \in 0 .. Len(reads[q])
      BY <1>3
    <3>2. Len(reads[q]) \in Nat
      BY <3>1
    <3>. QED  BY <3>1, <3>2
  <2>. QED  BY <1>3, <2>1, <2>2
<1>5. /\ opened'[p] = opened[p] + 1 /\ rpc'[p] = AfterPipe(p, rpc[p])
      /\ \A q \in DOMAIN reads : q # p => (opened'[q] = opened[q] /\ rpc'[q] = rpc[q])
  BY <1>1, <1>3
<1>6. reads = Readers(OpenOrder)
  BY DEF OrderInv
<1>. DEFINE j0 == opened[p] + 1
<1>7. j0 \in 1 .. Len(reads[p]) /\ j0 \in 1 .. opened'[p] /\ reads[p][j0] = FileOf(at)
  BY <1>1, <1>3, <1>4, <1>5
<1>8. ASSUME NEW q \in DOMAIN reads, NEW b \in 1 .. Len(reads[q]) - 1, reads[q][b] = FileOf(at)
      PROVE  q = p /\ b = j0
  <2>1. reads[q][b] = reads[p][j0]
    BY <1>7, <1>8
  <2>. HIDE DEF j0
  <2>. QED  BY <1>3, <1>6, <1>7, <2>1, SamePlace
<1>9. job.pipes
  BY <1>1 DEF OrderInv
<1>i. PICK i0 \in Nat : i0 = at
  BY <1>4
<1>10. Met(i0)'
  <2>1. ASSUME NEW b \in 1 .. j0 - 1
        PROVE  Before(i0, p, b)'
    <3>1. CASE \E e \in 1 .. i0 - 1 : Wanted(e) /\ reads[p][b] = FileOf(e)
      <4>1. \E e \in 1 .. i0 - 1 : Wanted(e)' /\ reads'[p][b] = FileOf(e)'
        BY <1>1, <1>2, <3>1
      <4>. QED  BY <4>1 DEF Before
    <3>2. CASE ~ \E e \in 1 .. i0 - 1 : Wanted(e) /\ reads[p][b] = FileOf(e)
      <4>1. ASSUME NEW e \in 1 .. at' - 1, Wanted(e), reads[p][b] = FileOf(e)
            PROVE  FALSE
        <5>1. e = at
          <6>1. e \notin 1 .. i0 - 1
            BY <3>2, <4>1
          <6>. QED  BY <1>1, <1>4, <1>i, <6>1
        <5>2. b \in 1 .. Len(reads[p]) - 1 /\ b # j0
          BY <1>4, <1>7
        <5>. QED  BY <1>8, <4>1, <5>1, <5>2
      <4>2. \A e \in 1 .. at' - 1 : Wanted(e)' => reads'[p][b] # FileOf(e)'
        BY <1>1, <1>2, <4>1
      <4>. QED  BY <4>2 DEF Before
    <3>. QED  BY <3>1, <3>2
  <2>2. reads'[p][j0] = FileOf(i0)'
    BY <1>1, <1>2, <1>7, <1>i
  <2>3. PICK j \in 1 .. opened'[p] : j = j0
    BY <1>7
  <2>. HIDE DEF j0
  <2>4. MetBy(i0, p, j)'
    BY <2>1, <2>2, <2>3 DEF MetBy
  <2>5. p \in DOMAIN reads'
    BY <1>1
  <2>. QED  BY <2>3, <2>4, <2>5 DEF Met
<1>11. ASSUME NEW i \in 1 .. at - 1, Wanted(i)
       PROVE  Met(i)'
  <2>1. Met(i)
    BY <1>9, <1>11 DEF OrderInv
  <2>2. PICK q \in DOMAIN reads : \E j \in 1 .. opened[q] : MetBy(i, q, j)
    BY <2>1 DEF Met
  <2>3. PICK j \in 1 .. opened[q] : MetBy(i, q, j)
    BY <2>2
  <2>4. j \in 1 .. opened'[q]
    BY <1>4, <1>5
  <2>5. ASSUME NEW b \in 1 .. j - 1
        PROVE  Before(i, q, b)'
    <3>1. Before(i, q, b)
      BY <2>3 DEF MetBy
    <3>2. CASE \E e \in 1 .. i - 1 : Wanted(e) /\ reads[q][b] = FileOf(e)
      <4>1. \E e \in 1 .. i - 1 : Wanted(e)' /\ reads'[q][b] = FileOf(e)'
        BY <1>1, <1>2, <3>2
      <4>. QED  BY <4>1 DEF Before
    <3>3. CASE \A e \in 1 .. at - 1 : Wanted(e) => reads[q][b] # FileOf(e)
      <4>1. ASSUME NEW e \in 1 .. at' - 1, Wanted(e), reads[q][b] = FileOf(e)
            PROVE  FALSE
        <5>1. CASE e \in 1 .. at - 1
          BY <3>3, <4>1, <5>1
        <5>2. CASE e \notin 1 .. at - 1
          <6>1. e = at
            BY <1>1, <1>4, <5>2
          <6>2. b \in 1 .. Len(reads[q]) - 1
            BY <1>4
          <6>3. q = p /\ b = j0
            BY <1>8, <4>1, <6>1, <6>2
          <6>. QED  BY <1>4, <6>3
        <5>. QED  BY <5>1, <5>2
      <4>2. \A e \in 1 .. at' - 1 : Wanted(e)' => reads'[q][b] # FileOf(e)'
        BY <1>1, <1>2, <4>1
      <4>. QED  BY <4>2 DEF Before
    <3>. QED  BY <3>1, <3>2, <3>3 DEF Before
  <2>6. reads'[q][j] = FileOf(i)'
    BY <1>1, <1>2, <2>3 DEF MetBy
  <2>7. MetBy(i, q, j)'
    BY <2>5, <2>6 DEF MetBy
  <2>8. q \in DOMAIN reads'
    BY <1>1
  <2>. QED  BY <2>4, <2>7, <2>8 DEF Met
<1>12. ASSUME NEW i \in 1 .. at' - 1, Wanted(i)'
       PROVE  Met(i)'
  <2>1. CASE i = i0
    BY <1>10, <2>1
  <2>2. CASE i # i0
    <3>1. i \in 1 .. at - 1 /\ Wanted(i)
      BY <1>1, <1>2, <1>4, <1>12, <1>i, <2>2
    <3>. QED  BY <1>11, <3>1
  <2>. QED  BY <2>1, <2>2
<1>13. AfterPipe(p, rpc[p]) = IF opened[p] + 1 < Len(reads[p]) THEN rpc[p]
                              ELSE IF rpc[p] = "missing" THEN "failed" ELSE "reading"
  BY DEF AfterPipe
<1>14. rpc[p] \in {"opening", "missing"}
  BY <1>1 DEF Opens
<1>15. ASSUME NEW q \in DOMAIN reads', opened'[q] < Len(reads'[q])
       PROVE  rpc'[q] \in {"opening", "missing", "failed"}
  <2>1. CASE q = p
    BY <1>1, <1>5, <1>13, <1>14, <1>15, <2>1
  <2>2. CASE q # p
    BY <1>1, <1>5, <1>15, <2>2 DEF OrderInv
  <2>. QED  BY <2>1, <2>2
<1>16. NoMiss' <=> NoMiss
  <2>1. rpc'[p] \in {"missing", "failed"} <=> rpc[p] \in {"missing", "failed"}
    BY <1>5, <1>13, <1>14
  <2>2. NoMiss <=> \A q \in DOMAIN reads : rpc[q] \notin {"missing", "failed"}
    BY DEF NoMiss
  <2>3. NoMiss' <=> \A q \in DOMAIN reads : rpc'[q] \notin {"missing", "failed"}
    BY <1>1 DEF NoMiss
  <2>. QED  BY <1>5, <2>1, <2>2, <2>3
<1>17. ASSUME NoMiss', NEW q \in DOMAIN reads', NEW j \in 1 .. opened'[q]
       PROVE  Found(q, j)'
  <2>1. CASE q = p /\ j = j0
    <3>1. i0 \in 1 .. at' - 1 /\ Wanted(i0)' /\ reads'[q][j] = FileOf(i0)'
      BY <1>1, <1>2, <1>3, <1>4, <1>7, <1>i, <2>1
    <3>. QED  BY <3>1 DEF Found
  <2>2. CASE ~ (q = p /\ j = j0)
    <3>1. q \in DOMAIN reads /\ j \in 1 .. opened[q]
      BY <1>1, <1>4, <1>5, <2>2
    <3>2. Found(q, j)
      BY <1>16, <1>17, <3>1 DEF OrderInv
    <3>3. PICK e \in 1 .. at - 1 : Wanted(e) /\ reads[q][j] = FileOf(e)
      BY <3>2 DEF Found
    <3>4. e \in 1 .. at' - 1 /\ Wanted(e)' /\ reads'[q][j] = FileOf(e)'
      BY <1>1, <1>2, <1>4, <3>3
    <3>. QED  BY <3>4 DEF Found
  <2>. QED  BY <2>1, <2>2
<1>18. (job'.pipes /\ job'.exist) => (ToSet(OpenOrder)' \subseteq made' /\ NoMiss')
  <2>1. ToSet(OpenOrder)' = ToSet(OpenOrder)
    BY <1>2 DEF ToSet
  <2>. QED  BY <1>1, <1>16, <2>1 DEF OrderInv
<1>19. reads' = Readers(OpenOrder)'
  BY <1>1, <1>2, <1>6
<1>20. epc' # "waiting" /\ ~Connected'
  BY <1>1 DEF Connected
<1>. QED  BY <1>12, <1>15, <1>17, <1>18, <1>19, <1>20 DEF OrderInv


(* Every step keeps it.                                                    *)
LEMMA OrderStep == ASSUME TypesFit, OrderInv, [Next]_vars PROVE OrderInv'
<1>0. /\ at \in 1 .. Len(job.input) + 1 /\ Len(job.input) \in Nat
      /\ epc = "waiting" => (at <= Len(job.input) /\ Wanted(at))
      /\ DOMAIN opened = DOMAIN reads /\ DOMAIN rpc = DOMAIN reads
      /\ \A p \in DOMAIN reads : opened[p] \in 0 .. Len(reads[p]) /\ reads[p] \in Seq(Name)
  BY JobParts DEF TypesFit, TypeOK, ReadersFit
<1>00. /\ Connected => at = Len(job.input) + 1
       /\ epc = "waiting" => job.pipes
       /\ \A p \in DOMAIN reads :
            opened[p] < Len(reads[p]) => rpc[p] \in {"opening", "missing", "failed"}
       /\ (job.pipes /\ job.exist) => (ToSet(OpenOrder) \subseteq made /\ NoMiss)
  BY DEF OrderInv
<1>000. /\ \A p \in DOMAIN reads : opened[p] \in Nat /\ opened[p] <= opened[p]
        /\ at = at
  <2>1. ASSUME NEW p \in DOMAIN reads
        PROVE  opened[p] \in Nat /\ opened[p] <= opened[p]
    <3>1. opened[p] \in Nat
      BY <1>0
    <3>. QED  BY <3>1
  <2>. QED  BY <2>1
<1>1. ASSUME SkipStream \/ OpenFile \/ MakePipe \/ OpenFails \/ StartMain
             \/ SkipPacket \/ WritePacket \/ WriteCut \/ WriteKills \/ Close
             \/ Signal \/ UNCHANGED vars
      PROVE  OrderInv'
  <2>1. /\ job' = job /\ num_out_streams' = num_out_streams /\ reads' = reads
        /\ opened' = opened /\ rpc' = rpc
    BY <1>1 DEF SkipStream, OpenFile, MakePipe, OpenFails, StartMain, SkipPacket, WritePacket,
                WriteCut, WriteKills, Close, Signal, vars, evars
  <2>2. at' = at \/ (at' = at + 1 /\ (Wanted(at) => ~job.pipes))
    BY <1>1 DEF SkipStream, OpenFile, MakePipe, OpenFails, StartMain, SkipPacket, WritePacket,
                WriteCut, WriteKills, Close, Signal, vars, evars, HasOpened
  <2>3. made' = made \/ made' = made \cup {FileOf(at)}
    BY <1>1 DEF SkipStream, OpenFile, MakePipe, OpenFails, StartMain, SkipPacket, WritePacket,
                WriteCut, WriteKills, Close, Signal, vars, evars
  <2>4. ASSUME Connected'
        PROVE  at' = Len(job.input) + 1
    <3>1. CASE StartMain
      <4>1. at' = at /\ at > Len(job.input)
        BY <3>1 DEF StartMain
      <4>. QED  BY <1>0, <4>1
    <3>2. CASE SkipStream \/ OpenFile \/ MakePipe \/ OpenFails
      <4>1. epc' \in {"opening", "waiting", "failed"}
        BY <3>2 DEF SkipStream, OpenFile, HasOpened, MakePipe, OpenFails
      <4>. QED  BY <2>4, <4>1 DEF Connected
    <3>3. CASE SkipPacket \/ WritePacket \/ WriteCut \/ WriteKills \/ Close
      <4>1. at' = at /\ epc = "main"
        BY <3>3 DEF SkipPacket, WritePacket, WriteCut, WriteKills, Close, Goes
      <4>. QED  BY <1>00, <4>1 DEF Connected
    <3>4. CASE Signal \/ UNCHANGED vars
      <4>1. at' = at /\ epc' = epc
        BY <3>4 DEF Signal, vars, evars
      <4>. QED  BY <1>00, <2>4, <4>1 DEF Connected
    <3>. QED  BY <1>1, <3>1, <3>2, <3>3, <3>4
  <2>5. epc' = "waiting" => job.pipes
    <3>1. CASE MakePipe
      BY <3>1 DEF MakePipe
    <3>2. CASE Signal \/ UNCHANGED vars
      BY <1>00, <3>2 DEF Signal, vars, evars
    <3>3. CASE ~MakePipe /\ ~Signal /\ ~UNCHANGED vars
      <4>1. epc' \in {"opening", "failed", "main", "killed", "closed"}
        BY <1>1, <3>3 DEF SkipStream, OpenFile, HasOpened, OpenFails, StartMain, SkipPacket,
                    WritePacket, WriteCut, WriteKills, Close, Goes
      <4>. QED  BY <4>1
    <3>. QED  BY <3>1, <3>2, <3>3
  <2>6. NoMiss' <=> NoMiss
    BY <2>1 DEF NoMiss
  <2>7. \A p \in DOMAIN reads : opened'[p] \in Nat /\ opened[p] <= opened'[p]
    BY <1>000, <2>1
  <2>8. \A p \in DOMAIN reads :
           opened'[p] < Len(reads[p]) => rpc'[p] \in {"opening", "missing", "failed"}
    BY <1>00, <2>1
  <2>9. (job.pipes /\ job.exist) => (ToSet(OpenOrder) \subseteq made' /\ NoMiss')
    BY <1>00, <2>3, <2>6
  <2>10. NoMiss' => (NoMiss /\ \A p \in DOMAIN reads : opened'[p] = opened[p])
    BY <2>1, <2>6
  <2>. QED  BY <2>1, <2>2, <2>4, <2>5, <2>7, <2>8, <2>9, <2>10, OrderSame
<1>2. ASSUME NEW p \in DOMAIN reads, ReaderMisses(p)
      PROVE  OrderInv'
  <2>1. /\ job' = job /\ num_out_streams' = num_out_streams /\ reads' = reads
        /\ at' = at /\ epc' = epc /\ made' = made
        /\ Opens(p) /\ reads[p][opened[p] + 1] \notin made
        /\ opened' = [opened EXCEPT ![p] = @ + 1]
        /\ rpc' = [rpc EXCEPT ![p] = IF job.reader = "ts_muxer" THEN AfterPipe(p, "missing")
                                                              ELSE "failed"]
    BY <1>2 DEF ReaderMisses, NextPipe, evars
  <2>2. /\ opened'[p] = opened[p] + 1 /\ rpc'[p] \in {"missing", "failed"}
        /\ \A q \in DOMAIN reads : q # p => (opened'[q] = opened[q] /\ rpc'[q] = rpc[q])
    BY <1>0, <2>1 DEF AfterPipe
  <2>3. ~NoMiss'
    BY <2>1, <2>2 DEF NoMiss
  <2>4. \A q \in DOMAIN reads : opened'[q] \in Nat /\ opened[q] <= opened'[q]
    BY <1>000, <2>2
  <2>5. \A q \in DOMAIN reads :
           opened'[q] < Len(reads[q]) => rpc'[q] \in {"opening", "missing", "failed"}
    BY <1>00, <2>2
  <2>6. ~ (job.pipes /\ job.exist)
    <3>1. SUFFICES ASSUME job.pipes, job.exist
                   PROVE  FALSE
      OBVIOUS
    <3>2. ToSet(OpenOrder) \subseteq made
      BY <1>00, <3>1
    <3>3. opened[p] < Len(reads[p])
      BY <2>1 DEF TypesFit, ReadersFit
    <3>4. opened[p] + 1 \in 1 .. Len(reads[p])
      <4>1. opened[p] \in Nat /\ Len(reads[p]) \in Nat
        BY <1>0
      <4>. QED  BY <3>3, <4>1
    <3>5. Within(reads[p], ToSet(OpenOrder))
      BY ReadsNames DEF OrderInv, TypesFit, TypeOK
    <3>. QED  BY <2>1, <3>2, <3>4, <3>5 DEF Within
  <2>7. Connected' => at' = Len(job.input) + 1
    BY <1>00, <2>1 DEF Connected
  <2>8. epc' = "waiting" => job.pipes
    BY <1>00, <2>1
  <2>. QED  BY <2>1, <2>3, <2>4, <2>5, <2>6, <2>7, <2>8, OrderSame
<1>3. ASSUME NEW p \in DOMAIN reads, ReaderLeaves(p)
      PROVE  OrderInv'
  <2>1. /\ job' = job /\ num_out_streams' = num_out_streams /\ reads' = reads
        /\ at' = at /\ epc' = epc /\ made' = made /\ opened' = opened
        /\ rpc[p] = "reading" /\ rpc' = [rpc EXCEPT ![p] = "gone"]
    BY <1>3 DEF ReaderLeaves, evars
  <2>2. rpc'[p] = "gone" /\ \A q \in DOMAIN reads : q # p => rpc'[q] = rpc[q]
    BY <1>0, <2>1
  <2>3. NoMiss' <=> NoMiss
    <3>1. NoMiss <=> \A q \in DOMAIN reads : rpc[q] \notin {"missing", "failed"}
      BY DEF NoMiss
    <3>2. NoMiss' <=> \A q \in DOMAIN reads : rpc'[q] \notin {"missing", "failed"}
      BY <2>1 DEF NoMiss
    <3>. QED  BY <2>1, <2>2, <3>1, <3>2
  <2>4. \A q \in DOMAIN reads : opened'[q] \in Nat /\ opened[q] <= opened'[q]
    BY <1>000, <2>1
  <2>5. \A q \in DOMAIN reads :
           opened'[q] < Len(reads[q]) => rpc'[q] \in {"opening", "missing", "failed"}
    BY <1>00, <2>1, <2>2
  <2>6. (job.pipes /\ job.exist) => (ToSet(OpenOrder) \subseteq made' /\ NoMiss')
    BY <1>00, <2>1, <2>3
  <2>7. Connected' => at' = Len(job.input) + 1
    BY <1>00, <2>1 DEF Connected
  <2>8. epc' = "waiting" => job.pipes
    BY <1>00, <2>1
  <2>9. NoMiss' => (NoMiss /\ \A q \in DOMAIN reads : opened'[q] = opened[q])
    BY <2>1, <2>3
  <2>. QED  BY <2>1, <2>4, <2>5, <2>6, <2>7, <2>8, <2>9, OrderSame
<1>4. ASSUME NEW p \in DOMAIN reads, Meet(p)
      PROVE  OrderInv'
  BY <1>4, OrderMeet
<1>. QED  BY <1>1, <1>2, <1>3, <1>4, Zenon DEF Next, Extract, Environment

(* So it holds in every state.                                             *)
LEMMA OrderAlways == Spec => [](TypesFit /\ OrderInv)
<1>1. Init => TypesFit /\ OrderInv
  BY TypesInit, OrderInit
<1>2. TypesFit /\ OrderInv /\ [Next]_vars => TypesFit' /\ OrderInv'
  BY TypesStep, OrderStep
<1>. QED  BY <1>1, <1>2, PTL DEF Spec

(* When the extractor is through, its order was the readers'.              *)
LEMMA ConnectedAgree ==
  ASSUME TypesFit, OrderInv, Connected, job.pipes
  PROVE  OrdersAgree
<1>1. /\ at = Len(job.input) + 1 /\ Len(job.input) \in Nat
      /\ job \in Jobs /\ num_out_streams \in 0 .. MaxStreams
      /\ reads = Readers(OpenOrder)
      /\ \A p \in DOMAIN reads : reads[p] \in Seq(Name) /\ opened[p] \in 0 .. Len(reads[p])
  BY JobParts DEF OrderInv, TypesFit, TypeOK, ReadersFit
<1>2. PICK w : Ordered(w)
  BY <1>1, OrderPicks
<1>3. ASSUME NEW x \in ToSet(OpenOrder)
      PROVE  \E e \in 1 .. at - 1 : Wanted(e) /\ x = FileOf(e)
  <2>1. PICK k \in DOMAIN OpenOrder : x = OpenOrder[k]
    BY <1>3 DEF ToSet
  <2>2. k \in 1 .. Len(OpenOrder)
    <3>1. OpenOrder \in Seq(Name)
      BY <1>1, OrderType
    <3>. HIDE DEF OpenOrder
    <3>. QED  BY <2>1, <3>1
  <2>3. w[k] \in 1 .. Len(job.input) /\ Wanted(w[k]) /\ x = FileOf(w[k])
    BY <1>2, <2>1, <2>2 DEF Ordered
  <2>4. w[k] \in 1 .. at - 1
    BY <1>1, <2>3
  <2>. QED  BY <2>3, <2>4
<1>4. ASSUME NEW i \in 1 .. Len(job.input), Wanted(i)
      PROVE  \E p \in DOMAIN reads : \E j \in 1 .. Len(reads[p]) : OpensAfter(i, p, j)
  <2>1. i \in 1 .. at - 1
    BY <1>1
  <2>2. Met(i)
    BY <1>4, <2>1 DEF OrderInv
  <2>3. PICK p \in DOMAIN reads : \E j \in 1 .. opened[p] : MetBy(i, p, j)
    BY <2>2 DEF Met
  <2>4. PICK j \in 1 .. opened[p] : MetBy(i, p, j)
    BY <2>3
  <2>5. j \in 1 .. Len(reads[p]) /\ Len(reads[p]) \in Nat
    <3>1. reads[p] \in Seq(Name) /\ opened[p] \in 0 .. Len(reads[p])
      BY <1>1
    <3>2. Len(reads[p]) \in Nat
      BY <3>1
    <3>. QED  BY <3>1, <3>2
  <2>6. Within(reads[p], ToSet(OpenOrder))
    BY <1>1, ReadsNames
  <2>7. ASSUME NEW b \in 1 .. j - 1
        PROVE  \E e \in 1 .. i - 1 : Wanted(e) /\ reads[p][b] = FileOf(e)
    <3>1. b \in 1 .. Len(reads[p])
      BY <2>5
    <3>2. reads[p][b] \in ToSet(OpenOrder)
      BY <2>6, <3>1 DEF Within
    <3>3. \E e \in 1 .. at - 1 : Wanted(e) /\ reads[p][b] = FileOf(e)
      BY <1>3, <3>2
    <3>4. Before(i, p, b)
      BY <2>4 DEF MetBy
    <3>. QED  BY <3>3, <3>4 DEF Before
  <2>8. OpensAfter(i, p, j)
    BY <2>4, <2>7 DEF OpensAfter, MetBy
  <2>. QED  BY <2>5, <2>8
<1>5. Agreeing
  BY <1>4 DEF Agreeing
<1>6. \A p \in DOMAIN reads : reads[p] \in Seq(Name)
  BY <1>1
<1>. QED  BY <1>1, <1>5, <1>6, AgreeIs

(* The extractor's and the readers' orders stay what they are.             *)
LEMMA OrdersStay ==
  ASSUME [Next]_vars
  PROVE  /\ job' = job /\ OrdersAgree' = OrdersAgree /\ NamesDiffer' = NamesDiffer
<1>1. job' = job /\ num_out_streams' = num_out_streams /\ reads' = reads
  BY DEF Next, Extract, Environment, SkipStream, OpenFile, MakePipe, OpenFails, StartMain,
         Meet, SkipPacket, WritePacket, WriteCut, WriteKills, Close, Signal,
         ReaderMisses, ReaderLeaves, vars, evars
<1>2. OpenOrder' = OpenOrder
  BY <1>1, SameOrder
<1>3. \A i : Wanted(i)' = Wanted(i) /\ FileOf(i)' = FileOf(i)
  BY <1>1, SameJob
<1>4. OrdersAgree' = OrdersAgree
  BY <1>1, <1>2 DEF OrdersAgree
<1>5. NamesDiffer' = NamesDiffer
  BY <1>1, <1>3 DEF NamesDiffer
<1>. QED  BY <1>1, <1>4, <1>5

(* Two programs that open their pipes in different orders never come       *)
(* together, whatever signals come and whichever pipes the readers miss:   *)
(* the second half of ConnectsIfOrdersAgree.                               *)
THEOREM NeverConnects == Spec => ((job.pipes /\ ~OrdersAgree) => []~Connected)
<1>. DEFINE Bad == job.pipes /\ ~OrdersAgree
<1>1. TypesFit /\ OrderInv /\ Bad => ~Connected
  BY ConnectedAgree
<1>2. Bad /\ [Next]_vars => Bad'
  BY OrdersStay
<1>. HIDE DEF Bad
<1>3. Spec => (Bad => []~Connected)
  BY <1>1, <1>2, OrderAlways, PTL DEF Spec
<1>. QED  BY <1>3 DEF Bad

(* The extractor waits in open, and no reader is at that pipe.             *)
Stuck ==
  epc = "waiting" /\ ~ \E p \in DOMAIN reads : Opens(p) /\ NextPipe(p) = FileOf(at)

(* When the orders agree, and each pipe has one stream, it is not stuck    *)
(* unless a reader came to a pipe before the extractor had made it.        *)
LEMMA StuckOnlyIfMissed ==
  ASSUME TypesFit, OrderInv, OrdersAgree, NamesDiffer, Stuck
  PROVE  ~NoMiss
<1>1. /\ at \in 1 .. Len(job.input) /\ Len(job.input) \in Nat /\ Wanted(at) /\ epc = "waiting"
      /\ job \in Jobs /\ num_out_streams \in 0 .. MaxStreams
      /\ reads = Readers(OpenOrder) /\ job.pipes
      /\ \A p \in DOMAIN reads : reads[p] \in Seq(Name) /\ opened[p] \in 0 .. Len(reads[p])
  <2>1. Len(job.input) \in Nat
    BY JobParts DEF TypesFit, TypeOK
  <2>2. epc = "waiting" /\ at <= Len(job.input) /\ Wanted(at) /\ at \in 1 .. Len(job.input) + 1
    BY DEF Stuck, TypesFit, TypeOK, ReadersFit
  <2>. QED  BY <2>1, <2>2 DEF OrderInv, TypesFit, TypeOK, ReadersFit
<1>2. SUFFICES ASSUME NoMiss
               PROVE  FALSE
  OBVIOUS
<1>3. Agreeing
  BY <1>1, AgreeIs
<1>4. PICK p \in DOMAIN reads : \E j \in 1 .. Len(reads[p]) : OpensAfter(at, p, j)
  BY <1>1, <1>3 DEF Agreeing
<1>5. PICK j \in 1 .. Len(reads[p]) : OpensAfter(at, p, j)
  BY <1>4
<1>6. opened[p] \in Nat /\ Len(reads[p]) \in Nat /\ opened[p] <= Len(reads[p]) /\ j \in Nat
  <2>1. reads[p] \in Seq(Name) /\ opened[p] \in 0 .. Len(reads[p])
    BY <1>1
  <2>2. Len(reads[p]) \in Nat
    BY <2>1
  <2>. QED  BY <2>1, <2>2
<1>7. ~ (j <= opened[p])
  <2>1. SUFFICES ASSUME j <= opened[p]
                 PROVE  FALSE
    OBVIOUS
  <2>2. j \in 1 .. opened[p]
    BY <1>6, <2>1
  <2>3. Found(p, j)
    BY <1>2, <2>2 DEF OrderInv
  <2>4. PICK e \in 1 .. at - 1 : Wanted(e) /\ reads[p][j] = FileOf(e)
    BY <2>3 DEF Found
  <2>5. FileOf(e) = FileOf(at) /\ e \in 1 .. Len(job.input)
    BY <1>1, <1>5, <2>4 DEF OpensAfter
  <2>6. e = at
    BY <1>1, <2>4, <2>5 DEF NamesDiffer
  <2>. QED  BY <1>1, <2>6
<1>8. ~ (opened[p] + 1 < j)
  <2>1. SUFFICES ASSUME opened[p] + 1 < j
                 PROVE  FALSE
    OBVIOUS
  <2>2. opened[p] + 1 \in 1 .. j - 1 /\ opened[p] + 1 \in 1 .. Len(reads[p]) - 1
    BY <1>5, <1>6, <2>1
  <2>3. PICK e \in 1 .. at - 1 : Wanted(e) /\ reads[p][opened[p] + 1] = FileOf(e)
    BY <1>5, <2>2 DEF OpensAfter
  <2>4. Met(e)
    BY <1>1, <2>3 DEF OrderInv
  <2>5. PICK q \in DOMAIN reads : \E k \in 1 .. opened[q] : MetBy(e, q, k)
    BY <2>4 DEF Met
  <2>6. PICK k \in 1 .. opened[q] : MetBy(e, q, k)
    BY <2>5
  <2>7. reads[p][opened[p] + 1] = reads[q][k]
    BY <2>3, <2>6 DEF MetBy
  <2>8. k \in 1 .. Len(reads[q])
    <3>1. reads[q] \in Seq(Name) /\ opened[q] \in 0 .. Len(reads[q])
      BY <1>1
    <3>2. Len(reads[q]) \in Nat
      BY <3>1
    <3>. QED  BY <3>1, <3>2
  <2>9. p = q /\ opened[p] + 1 = k
    <3>1. PICK b \in 1 .. Len(reads[p]) - 1 : b = opened[p] + 1
      BY <2>2
    <3>2. reads[p][b] = reads[q][k]
      BY <2>7, <3>1
    <3>3. p = q /\ b = k
      BY <1>1, <2>8, <3>2, SamePlace
    <3>. QED  BY <3>1, <3>3
  <2>. QED  BY <1>6, <2>6, <2>9
<1>9. opened[p] + 1 = j /\ opened[p] < Len(reads[p])
  BY <1>5, <1>6, <1>7, <1>8
<1>10. Opens(p)
  <2>1. rpc[p] \in {"opening", "missing", "failed"}
    BY <1>9 DEF OrderInv
  <2>2. rpc[p] \notin {"missing", "failed"}
    BY <1>2 DEF NoMiss
  <2>. QED  BY <2>1, <2>2 DEF Opens
<1>11. NextPipe(p) = FileOf(at)
  BY <1>5, <1>9 DEF NextPipe, OpensAfter
<1>. QED  BY <1>10, <1>11 DEF Stuck

(* If the two programs open the pipes in the same order, each for one      *)
(* stream, an extractor in open has its reader at the other end, whatever  *)
(* the readers of the other pipes did; unless a reader came to a pipe that *)
(* did not exist, which none does when the pipes were there before.        *)
NeverStuck ==
  (job.pipes => (OrdersAgree /\ NamesDiffer)) =>
     (~Stuck \/ (~job.exist /\ \E p \in DOMAIN rpc : rpc[p] \in {"missing", "failed"}))

(* It follows from the invariant.                                          *)
LEMMA NeverStuckIs == ASSUME TypesFit, OrderInv PROVE NeverStuck
<1>1. SUFFICES ASSUME job.pipes => (OrdersAgree /\ NamesDiffer), Stuck
               PROVE  ~job.exist /\ \E p \in DOMAIN rpc : rpc[p] \in {"missing", "failed"}
  BY DEF NeverStuck
<1>2. job.pipes
  BY <1>1 DEF Stuck, OrderInv
<1>3. ~NoMiss
  BY <1>1, <1>2, StuckOnlyIfMissed
<1>4. DOMAIN rpc = DOMAIN reads
  BY DEF TypesFit, ReadersFit
<1>5. ~job.exist
  BY <1>2, <1>3 DEF OrderInv
<1>. QED  BY <1>3, <1>4, <1>5 DEF NoMiss

(* No deadlock between the extractor and the readers of its pipes, for     *)
(* every job whose orders agree.                                           *)
THEOREM NeverStuckHolds == Spec => []NeverStuck
<1>1. TypesFit /\ OrderInv => NeverStuck
  BY NeverStuckIs
<1>. QED  BY <1>1, OrderAlways, PTL

(* What an extractor that is given its turns comes to: it is through, it   *)
(* gives up, or it is stuck.                                               *)
ThroughOrStuck == <>(Connected \/ epc = "failed" \/ Stuck)

(* So ConnectsIfOrdersAgree, for every job, needs of the scheduler only    *)
(* that the extractor does not stop without a reason.                      *)
THEOREM ConnectsUnlessStuck == (Spec /\ ThroughOrStuck) => ConnectsIfOrdersAgree
<1>. DEFINE Agree  == job.pipes => (OrdersAgree /\ NamesDiffer)
            Missed == ~job.exist /\ \E p \in DOMAIN rpc : rpc[p] \in {"missing", "failed"}
            Bad    == job.pipes /\ ~OrdersAgree
            Ends   == Connected \/ epc = "failed" \/ Missed
<1>1. NeverStuck /\ Agree /\ (Connected \/ epc = "failed" \/ Stuck) => Ends
  BY DEF NeverStuck
<1>2. Agree /\ [Next]_vars => Agree'
  BY OrdersStay
<1>3. ConnectsIfOrdersAgree <=> (Agree => <>Ends) /\ (Bad => []~Connected)
  BY DEF ConnectsIfOrdersAgree
<1>4. Spec => (Bad => []~Connected)
  BY NeverConnects
<1>. HIDE DEF Agree, Missed, Bad, Ends
<1>5. Spec /\ ThroughOrStuck => (Agree => <>Ends)
  BY <1>1, <1>2, NeverStuckHolds, PTL DEF Spec, ThroughOrStuck
<1>. QED  BY <1>3, <1>4, <1>5, PTL
=============================================================================
