--------------------------- MODULE PacketClockProofs ---------------------------
(***************************************************************************)
(* Proofs about Timestamps and PacketClock: unrolling is exact while       *)
(* successive timestamps are less than half a wrap apart, so that the two  *)
(* streams of a file whose video headers carry their dts stay in step for  *)
(* ever, whatever the wrap, the frame rate and the order of the packets;   *)
(* and where some headers lack it, while the muxer's guesses stay near.    *)
(***************************************************************************)
EXTENDS PacketClock, TLAPS

-----------------------------------------------------------------------------
(* Division by a fixed positive width.                                     *)

(* A remainder is below the width.                                         *)
LEMMA RemainderRange ==
  ASSUME NEW w \in Nat \ {0}, NEW x \in Int
  PROVE  x % w \in 0 .. w - 1
OBVIOUS

(* Quotient and remainder make up the number.                              *)
LEMMA Division ==
  ASSUME NEW w \in Nat \ {0}, NEW x \in Int
  PROVE  x \div w \in Int /\ x = w * (x \div w) + (x % w)
OBVIOUS

(* No other multiple of the width leads from a remainder to a remainder.   *)
LEMMA NoMultiple ==
  ASSUME NEW w \in Nat \ {0}, NEW k \in Int, NEW e \in 0 .. w - 1,
         e + k * w \in 0 .. w - 1
  PROVE  k = 0
<1>1. ASSUME k >= 1 PROVE FALSE
  <2>1. k * w >= w BY <1>1
  <2>2. QED BY <2>1
<1>2. ASSUME k <= -1 PROVE FALSE
  <2>1. k * w <= -w BY <1>2
  <2>2. QED BY <2>1
<1>3. QED BY <1>1, <1>2

(* The remainder forgets multiples of the width.                           *)
LEMMA RemainderOfSum ==
  ASSUME NEW w \in Nat \ {0}, NEW k \in Int, NEW e \in 0 .. w - 1
  PROVE  (e + k * w) % w = e
<1> DEFINE x == e + k * w
           r == x % w
           q == x \div w
<1>1. x \in Int OBVIOUS
<1> HIDE DEF x
<1>2. r \in 0 .. w - 1 BY <1>1, RemainderRange
<1>3. x = w * q + r /\ q \in Int BY <1>1, Division
<1> HIDE DEF r, q
<1>4. e + k * w = w * q + r BY <1>3 DEF x
<1>5. w * q = q * w BY <1>3
<1>6. (k - q) * w = k * w - q * w BY <1>3
<1>7. e + (k - q) * w = r BY <1>2, <1>3, <1>4, <1>5, <1>6
<1>8. k - q \in Int BY <1>3
<1>9. k - q = 0 BY <1>2, <1>7, <1>8, NoMultiple
<1>10. r = e BY <1>2, <1>7, <1>9
<1>11. QED BY <1>10 DEF r, x

(* Half of the wrap is half of it.                                         *)
LEMMA HalfWrap == Wrap = 2 * (Wrap \div 2) /\ Wrap \div 2 \in Nat \ {0}
BY WrapAssumption

-----------------------------------------------------------------------------
(* Extended undoes the loss of any number of wraps from a difference that  *)
(* is less than half a wrap.                                               *)
LEMMA ExtendedExact ==
  ASSUME NEW e \in Int, NEW k \in Int, 2 * e < Wrap, -Wrap < 2 * e
  PROVE  Extended(e + k * Wrap) = e
<1>1. Wrap \in Nat \ {0} BY WrapAssumption
<1>2. Wrap = 2 * (Wrap \div 2) /\ Wrap \div 2 \in Nat BY HalfWrap
<1>3. CASE e >= 0
  <2>1. e \in 0 .. Wrap - 1 BY <1>1, <1>3
  <2>2. (e + k * Wrap) % Wrap = e BY <1>1, <2>1, RemainderOfSum
  <2>3. ~ (e >= Wrap \div 2) BY <1>2
  <2>4. QED BY <2>2, <2>3 DEF Extended
<1>4. CASE e < 0
  <2>1. e + Wrap \in 0 .. Wrap - 1 BY <1>1, <1>4
  <2>2. k - 1 \in Int OBVIOUS
  <2>3. (e + Wrap) + (k - 1) * Wrap = e + k * Wrap BY <1>1
  <2>4. ((e + Wrap) + (k - 1) * Wrap) % Wrap = e + Wrap
    BY <1>1, <2>1, <2>2, RemainderOfSum
  <2>5. (e + k * Wrap) % Wrap = e + Wrap BY <2>3, <2>4
  <2>6. e + Wrap >= Wrap \div 2 BY <1>2
  <2>7. (e + Wrap) - Wrap = e BY <1>1
  <2>8. QED BY <2>5, <2>6, <2>7 DEF Extended
<1>5. QED BY <1>3, <1>4

(* A timestamp is a remainder, and so neither missing nor "no timestamp".  *)
LEMMA RawStamp ==
  ASSUME NEW t \in Int
  PROVE  t % Wrap \in Nat /\ t % Wrap # AV_NOPTS_VALUE /\ t % Wrap # Unset
<1>1. t % Wrap \in 0 .. Wrap - 1 BY WrapAssumption, RemainderRange
<1>2. QED BY <1>1, WrapAssumption, NoPtsAssumption DEF Unset

(* unroll_timestamp is exact: the 33 bits of a time t that is within half  *)
(* a wrap of the base, both counted from an origin where a wrap period     *)
(* begins, unroll to t counted from that origin.                           *)
THEOREM UnrollExact ==
  ASSUME NEW base \in Int, base # Unset, NEW t \in Int,
         NEW org \in Int, NEW k \in Int, org = k * Wrap,
         2 * (t - org - base) < Wrap, -Wrap < 2 * (t - org - base)
  PROVE  /\ unroll_timestamp(base, t % Wrap) = t - org
         /\ base_after(base, t % Wrap) = t - org
<1> DEFINE raw == t % Wrap
           q == t \div Wrap
           e == t - org - base
<1>1. Wrap \in Nat \ {0} BY WrapAssumption
<1>2. raw \in Nat /\ raw # AV_NOPTS_VALUE BY RawStamp
<1>3. t = Wrap * q + raw /\ q \in Int BY <1>1, Division
<1>4. e \in Int /\ 2 * e < Wrap /\ -Wrap < 2 * e OBVIOUS
<1>5. raw - base = e + (k - q) * Wrap
  <2> HIDE DEF raw, q
  <2>1. Wrap * q = q * Wrap BY <1>1, <1>3
  <2>2. (k - q) * Wrap = k * Wrap - q * Wrap BY <1>1, <1>3
  <2>3. k * Wrap \in Int /\ q * Wrap \in Int BY <1>1, <1>3
  <2>4. QED BY <1>2, <1>3, <2>1, <2>2, <2>3
<1> HIDE DEF e
<1>6. k - q \in Int BY <1>3
<1>7. Extended(raw - base) = e BY <1>4, <1>5, <1>6, ExtendedExact
<1>8. base_for(base, raw) = base BY DEF base_for
<1>9. unroll_timestamp(base, raw) = base + e
  BY <1>2, <1>7, <1>8 DEF unroll_timestamp
<1>10. base + e = t - org BY DEF e
<1>11. QED BY <1>2, <1>9, <1>10 DEF base_after

(* The very first timestamp is its own base.                               *)
LEMMA UnrollFirst ==
  ASSUME NEW t \in Int
  PROVE  /\ unroll_timestamp(Unset, t % Wrap) = t % Wrap
         /\ base_after(Unset, t % Wrap) = t % Wrap
<1>1. t % Wrap \in Nat /\ t % Wrap # AV_NOPTS_VALUE BY RawStamp
<1>2. Extended(0) = 0
  <2>1. 0 + 0 * Wrap = 0 BY WrapAssumption
  <2>2. Extended(0 + 0 * Wrap) = 0 BY WrapAssumption, ExtendedExact
  <2>3. QED BY <2>1, <2>2
<1>3. base_for(Unset, t % Wrap) = t % Wrap BY DEF base_for
<1>4. (t % Wrap) - (t % Wrap) = 0 BY <1>1
<1>5. (t % Wrap) + 0 = t % Wrap BY <1>1
<1>6. QED BY <1>1, <1>2, <1>3, <1>4, <1>5 DEF unroll_timestamp, base_after

-----------------------------------------------------------------------------
(***************************************************************************)
(* What init_next_av_packet makes of a header whose true times are known.  *)
(***************************************************************************)

(* The header of a frame with its dts, at the true times tp and td.        *)
Header(tp, td) == [pts |-> tp % Wrap, dts |-> td % Wrap]

(* Such a header's dts is the one that is used.                            *)
LEMMA OwnDts ==
  ASSUME NEW st, NEW tp \in Int, NEW td \in Int, NEW isVideo \in BOOLEAN,
         isVideo \/ tp = td
  PROVE  (IF isVideo THEN video_dts(st, Header(tp, td)) ELSE Header(tp, td).pts)
           = td % Wrap
<1>1. td % Wrap # Unset BY RawStamp
<1>2. Header(tp, td).dts = td % Wrap /\ Header(tp, td).pts = tp % Wrap BY DEF Header
<1>3. video_dts(st, Header(tp, td)) = td % Wrap BY <1>1, <1>2 DEF video_dts
<1>4. QED BY <1>2, <1>3

(* The origin begins a wrap period.                                        *)
PeriodStart(org) == \E k \in Int : org = k * Wrap

(* Two times are less than half a wrap apart.                              *)
HalfNear(a, b) == 2 * (a - b) < Wrap /\ -Wrap < 2 * (a - b)

(* Only a video frame's pts and dts differ.                                *)
Times(kind, tp, td) == kind = "video" \/ tp = td

(* Stamped, for a kind of packet.                                          *)
StampedAs(kind, base, st, hdr) == Stamped(base, st, hdr, kind = "video")

(* From a base that is known, both timestamps come out true.               *)
LEMMA StampExact ==
  ASSUME NEW kind, NEW st, NEW tp \in Int, NEW td \in Int,
         NEW base \in Int, NEW org \in Int,
         Times(kind, tp, td), base # Unset, PeriodStart(org),
         HalfNear(tp - org, base), HalfNear(td, tp)
  PROVE  LET s == StampedAs(kind, base, st, Header(tp, td))
         IN  /\ s.pts = tp - org
             /\ s.pts # Unset => (s.dts = td - org /\ s.base = td - org)
<1> DEFINE isVideo == kind = "video"
           h == Header(tp, td)
           dts0 == IF isVideo THEN video_dts(st, h) ELSE h.pts
           base1 == base_after(base, h.pts)
           s == Stamped(base, st, h, isVideo)
<1> PICK k \in Int : org = k * Wrap BY DEF PeriodStart
<1> USE DEF HalfNear
<1>. isVideo \in BOOLEAN /\ (isVideo \/ tp = td) BY DEF Times
<1> HIDE DEF isVideo
<1>1. h.pts = tp % Wrap BY DEF Header
<1>2. dts0 = td % Wrap BY OwnDts
<1>3. unroll_timestamp(base, h.pts) = tp - org /\ base1 = tp - org
  BY <1>1, UnrollExact
<1>4. /\ s.pts = unroll_timestamp(base, h.pts)
      /\ s.dts = unroll_timestamp(base1, dts0)
      /\ s.base = base_after(base1, dts0)
  BY DEF Stamped
<1>5. ASSUME tp - org # Unset
      PROVE  /\ unroll_timestamp(base1, dts0) = td - org
             /\ base_after(base1, dts0) = td - org
  <2>1. tp - org \in Int OBVIOUS
  <2>2. td - org - (tp - org) = td - tp OBVIOUS
  <2>3. /\ unroll_timestamp(tp - org, td % Wrap) = td - org
        /\ base_after(tp - org, td % Wrap) = td - org
    BY <1>5, <2>1, <2>2, UnrollExact
  <2>4. QED BY <1>2, <1>3, <2>3
<1>6. QED BY <1>3, <1>4, <1>5 DEF StampedAs, isVideo

(* The first header sets the origin.                                       *)
LEMMA StampFirst ==
  ASSUME NEW st, NEW tp \in Int, NEW td \in Int, NEW isVideo \in BOOLEAN,
         isVideo \/ tp = td,
         2 * (td - tp) < Wrap, -Wrap < 2 * (td - tp)
  PROVE  LET s == Stamped(Unset, st, Header(tp, td), isVideo)
             org == tp - (tp % Wrap)
         IN  /\ \E k \in Int : org = k * Wrap
             /\ s.pts = tp - org
             /\ s.dts = td - org /\ s.base = td - org
<1> DEFINE h == Header(tp, td)
           dts0 == IF isVideo THEN video_dts(st, h) ELSE h.pts
           base1 == base_after(Unset, h.pts)
           s == Stamped(Unset, st, h, isVideo)
           org == tp - (tp % Wrap)
           k == tp \div Wrap
<1>1. h.pts = tp % Wrap BY DEF Header
<1>2. dts0 = td % Wrap BY OwnDts
<1>3. tp % Wrap \in Nat /\ tp % Wrap # Unset BY RawStamp
<1>4. k \in Int /\ tp = Wrap * k + (tp % Wrap)
  BY Division, WrapAssumption
<1> HIDE DEF k
<1>5. org = k * Wrap
  <2>1. Wrap * k = k * Wrap /\ Wrap * k \in Int BY <1>4, WrapAssumption
  <2>2. QED BY <1>3, <1>4, <2>1
<1>6. org \in Int /\ tp - org = tp % Wrap BY <1>3
<1> HIDE DEF org
<1>7. unroll_timestamp(Unset, h.pts) = tp % Wrap /\ base1 = tp % Wrap
  BY <1>1, UnrollFirst
<1>8. td - org - (tp % Wrap) = td - tp BY <1>3, <1>6
<1>9. /\ unroll_timestamp(tp % Wrap, td % Wrap) = td - org
      /\ base_after(tp % Wrap, td % Wrap) = td - org
  BY <1>3, <1>4, <1>5, <1>6, <1>8, UnrollExact
<1>10. /\ s.pts = unroll_timestamp(Unset, h.pts)
       /\ s.dts = unroll_timestamp(base1, dts0)
       /\ s.base = base_after(base1, dts0)
  BY DEF Stamped
<1>11. QED BY <1>2, <1>4, <1>5, <1>6, <1>7, <1>9, <1>10 DEF org

-----------------------------------------------------------------------------
(***************************************************************************)
(* Types.                                                                  *)
(***************************************************************************)

(* Unrolling gives integers.                                               *)
LEMMA UnrollType ==
  ASSUME NEW base \in Int, NEW t \in Int
  PROVE  unroll_timestamp(base, t) \in Int /\ base_after(base, t) \in Int
<1>1. base_for(base, t) \in Int BY DEF base_for, Unset
<1>2. t - base_for(base, t) \in Int BY <1>1
<1>3. (t - base_for(base, t)) % Wrap \in Int
  BY <1>2, WrapAssumption, RemainderRange
<1>4. Extended(t - base_for(base, t)) \in Int
  BY <1>3, WrapAssumption DEF Extended
<1>5. QED BY <1>1, <1>4 DEF unroll_timestamp, base_after

(* A stamped packet and the state of its stream are of their types.        *)
LEMMA StampType ==
  ASSUME NEW base \in Int, NEW st \in StreamState,
         NEW hdr \in [pts : Int, dts : Int], NEW isVideo \in BOOLEAN
  PROVE  LET s == Stamped(base, st, hdr, isVideo)
         IN  s.pts \in Int /\ s.dts \in Int /\ s.base \in Int /\ s.st \in StreamState
<1> DEFINE diff == hdr.dts - st.last_dts
           dts0 == IF isVideo THEN video_dts(st, hdr) ELSE hdr.pts
           base1 == base_after(base, hdr.pts)
           s == Stamped(base, st, hdr, isVideo)
<1>1. hdr.pts \in Int /\ hdr.dts \in Int OBVIOUS
<1>2. st.last_dts \in Int /\ st.min_dts_diff \in Nat \ {0} BY DEF StreamState
<1>3. diff \in Int BY <1>1, <1>2
<1>4. min_dts_diff_after(st, hdr) \in Nat \ {0}
  BY <1>2, <1>3 DEF min_dts_diff_after
<1>5. video_dts(st, hdr) \in Int
  BY <1>1, <1>2, <1>4, TicksAssumption DEF video_dts
<1>6. dts0 \in Int BY <1>1, <1>5
<1>7. unroll_timestamp(base, hdr.pts) \in Int /\ base1 \in Int
  BY <1>1, UnrollType
<1> HIDE DEF dts0, base1
<1>8. unroll_timestamp(base1, dts0) \in Int /\ base_after(base1, dts0) \in Int
  BY <1>6, <1>7, UnrollType
<1>9. /\ s.pts = unroll_timestamp(base, hdr.pts)
      /\ s.dts = unroll_timestamp(base1, dts0)
      /\ s.base = base_after(base1, dts0)
  BY DEF Stamped, dts0, base1
<1>10. s.st = [last_pts |-> unroll_timestamp(base, hdr.pts),
               last_dts |-> unroll_timestamp(base1, dts0),
               min_dts_diff |-> IF isVideo THEN min_dts_diff_after(st, hdr)
                                           ELSE st.min_dts_diff]
  BY DEF Stamped, dts0, base1
<1>11. s.st \in StreamState
  BY <1>2, <1>4, <1>7, <1>8, <1>10 DEF StreamState
<1>12. QED BY <1>7, <1>8, <1>9, <1>11

(* Taking a packet keeps the types of what it sets.                        *)
LEMMA TakeType ==
  ASSUME TypeOK, NEW kind \in {"video", "audio"}, NEW st \in StreamState,
         NEW hdr \in [pts : Int, dts : Int], NEW tp \in Int, NEW td \in Int,
         NEW own \in BOOLEAN, Take(kind, st, hdr, tp, td, own)
  PROVE  /\ base_ts' \in Int
         /\ pkt' \in [kind : {"none", "video", "audio"}, pts : Int, dts : Int,
                      true_pts : Int, true_dts : Int, own_dts : BOOLEAN]
         /\ origin' \in Int
         /\ collided' \in BOOLEAN
         /\ cur_dts' \in [{"video", "audio"} -> SUBSET Int]
         /\ accepted' \in BOOLEAN
         /\ writer' \in Writers
<1> DEFINE s == Stamped(base_ts, st, hdr, kind = "video")
<1>1. base_ts \in Int /\ origin \in Int /\ collided \in BOOLEAN BY DEF TypeOK
<1>2. (kind = "video") \in BOOLEAN OBVIOUS
<1>3. s.pts \in Int /\ s.dts \in Int /\ s.base \in Int
  BY <1>1, <1>2, StampType
<1> HIDE DEF s
<1>4. base_ts' = s.base BY DEF Take, s
<1>5. pkt' = [kind |-> kind, pts |-> s.pts, dts |-> s.dts, true_pts |-> tp,
              true_dts |-> td, own_dts |-> own]
  BY DEF Take, s
<1>7. tp % Wrap \in Int BY RawStamp
<1>8. origin' = OriginAfter(tp) BY DEF Take
<1>9. origin' \in Int BY <1>1, <1>7, <1>8 DEF OriginAfter
<1>10. collided' = (collided \/ s.pts = Unset \/ s.dts = Unset) BY DEF Take, s
<1>11. collided' \in BOOLEAN BY <1>10
<1>12. pkt' \in [kind : {"none", "video", "audio"}, pts : Int, dts : Int,
                 true_pts : Int, true_dts : Int, own_dts : BOOLEAN]
  BY <1>3, <1>5
<1>13. cur_dts' = [cur_dts EXCEPT ![kind] = {s.dts}] \/ cur_dts' = cur_dts
  BY DEF Take, s
<1>14. cur_dts' \in [{"video", "audio"} -> SUBSET Int]
  BY <1>3, <1>13 DEF TypeOK
<1>15. accepted' = Accepts(kind, s.pts, s.dts) /\ writer' = writer
  BY DEF Take, s
<1>16. accepted' \in BOOLEAN /\ writer' \in Writers BY <1>15 DEF Accepts, TypeOK
<1>17. QED BY <1>3, <1>4, <1>9, <1>11, <1>12, <1>14, <1>16

LEMMA InitTypeOK == Init => TypeOK
<1> SUFFICES ASSUME Init PROVE TypeOK
  OBVIOUS
<1>1. new_stream \in StreamState
  BY TicksAssumption DEF new_stream, StreamState, Unset
<1>2. video \in StreamState /\ audio \in StreamState BY <1>1 DEF Init
<1>3. base_ts \in Int BY DEF Init, Unset
<1>4. vtime \in Nat BY StreamAssumption DEF Init
<1>5. atime \in Nat BY <1>4, StreamAssumption DEF Init
<1>6. origin \in Int BY DEF Init
<1>7. collided \in BOOLEAN BY DEF Init
<1>8. pkt \in [kind : {"none", "video", "audio"}, pts : Int, dts : Int,
              true_pts : Int, true_dts : Int, own_dts : BOOLEAN]
  BY DEF Init, NoPacket
<1>9. /\ writer \in Writers /\ accepted \in BOOLEAN /\ shown \in SUBSET Nat
      /\ cur_dts \in [{"video", "audio"} -> SUBSET Int]
  BY DEF Init
<1>10. QED BY <1>2, <1>3, <1>4, <1>5, <1>6, <1>7, <1>8, <1>9 DEF TypeOK

(* A video packet, whatever dts its header has.                            *)
LEMMA VideoTypeOK ==
  ASSUME TypeOK, NEW late \in Reorder, NEW dts \in Int, NEW own \in BOOLEAN,
         VideoPacket(late, dts, own)
  PROVE  TypeOK'
<1> DEFINE hdr == [pts |-> (vtime + late) % Wrap, dts |-> dts]
<1>1. base_ts \in Int /\ vtime \in Nat /\ atime \in Nat /\ vtime \in Int BY DEF TypeOK
<1>2. video \in StreamState /\ audio \in StreamState BY DEF TypeOK
<1>3. late \in Nat /\ vtime + late \in Int /\ vtime + late \in Nat
  BY <1>1, StreamAssumption
<1>4. (vtime + late) % Wrap \in Int BY <1>3, RawStamp
<1>5. hdr \in [pts : Int, dts : Int] BY <1>4
<1> HIDE DEF hdr
<1>6. Take("video", video, hdr, vtime + late, vtime, own)
  BY DEF VideoPacket, hdr
<1>7. video' = Stamped(base_ts, video, hdr, TRUE).st BY DEF VideoPacket, hdr
<1>8. video' \in StreamState BY <1>1, <1>2, <1>5, <1>7, StampType
<1>9. audio' = audio /\ atime' = atime BY DEF VideoPacket
<1>10. vtime' \in Nat
  <2>1. PICK gap \in Spacing : vtime' = vtime + gap BY DEF VideoPacket
  <2>2. QED BY <1>1, <2>1, StreamAssumption
<1>11. shown' = shown \/ shown' = {vtime + late} BY DEF VideoPacket
<1>12. shown' \in SUBSET Nat BY <1>3, <1>11 DEF TypeOK
<1>13. /\ base_ts' \in Int
       /\ pkt' \in [kind : {"none", "video", "audio"}, pts : Int, dts : Int,
                    true_pts : Int, true_dts : Int, own_dts : BOOLEAN]
       /\ origin' \in Int
       /\ collided' \in BOOLEAN
       /\ cur_dts' \in [{"video", "audio"} -> SUBSET Int]
       /\ accepted' \in BOOLEAN
       /\ writer' \in Writers
  BY <1>1, <1>2, <1>3, <1>5, <1>6, TakeType
<1>14. QED BY <1>1, <1>2, <1>8, <1>9, <1>10, <1>12, <1>13 DEF TypeOK

LEMMA NextTypeOK == TypeOK /\ [Next]_vars => TypeOK'
<1> SUFFICES ASSUME TypeOK, [Next]_vars PROVE TypeOK'
  OBVIOUS
<1>1. base_ts \in Int /\ vtime \in Nat /\ atime \in Nat BY DEF TypeOK
<1>2. video \in StreamState /\ audio \in StreamState BY DEF TypeOK
<1>3. ASSUME NEW late \in Reorder, VideoFromAvToEs(late)
      PROVE  TypeOK'
  <2>1. vtime + late \in Int BY <1>1, StreamAssumption
  <2>2. (vtime + late) % Wrap \in Int BY <2>1, RawStamp
  <2>3. QED BY <1>3, <2>2, VideoTypeOK DEF VideoFromAvToEs
<1>7. ASSUME NEW late \in Reorder, NEW own_dts \in DtsThere,
             VideoFromCaller(late, own_dts)
      PROVE  TypeOK'
  <2>1. own_dts \in BOOLEAN /\ vtime \in Int BY <1>1, StreamAssumption
  <2>2. (IF own_dts THEN vtime % Wrap ELSE Unset) \in Int
    BY <2>1, RawStamp DEF Unset
  <2>3. QED BY <1>7, <2>1, <2>2, VideoTypeOK DEF VideoFromCaller
<1>4. ASSUME AudioPacket PROVE TypeOK'
  <2> DEFINE hdr == [pts |-> atime % Wrap, dts |-> atime % Wrap]
  <2>1. atime \in Int /\ atime % Wrap \in Int BY <1>1, RawStamp
  <2>2. hdr \in [pts : Int, dts : Int] BY <2>1
  <2> HIDE DEF hdr
  <2>3. Take("audio", audio, hdr, atime, atime, TRUE) BY <1>4 DEF AudioPacket, hdr
  <2>4. audio' = Stamped(base_ts, audio, hdr, FALSE).st
    BY <1>4 DEF AudioPacket, hdr
  <2>5. audio' \in StreamState BY <1>1, <1>2, <2>2, <2>4, StampType
  <2>6. video' = video /\ vtime' = vtime /\ atime' = atime + AudioTicks
        /\ shown' = shown
    BY <1>4 DEF AudioPacket
  <2>7. atime' \in Nat /\ shown' \in SUBSET Nat
    BY <1>1, <2>6, StreamAssumption DEF TypeOK
  <2>8. /\ base_ts' \in Int
        /\ pkt' \in [kind : {"none", "video", "audio"}, pts : Int, dts : Int,
                     true_pts : Int, true_dts : Int, own_dts : BOOLEAN]
        /\ origin' \in Int
        /\ collided' \in BOOLEAN
        /\ cur_dts' \in [{"video", "audio"} -> SUBSET Int]
        /\ accepted' \in BOOLEAN
        /\ writer' \in Writers
    BY <1>2, <2>1, <2>2, <2>3, TakeType
  <2>9. QED BY <1>1, <1>2, <2>5, <2>6, <2>7, <2>8 DEF TypeOK
<1>5. CASE UNCHANGED vars BY <1>5 DEF vars, stamps, checks, TypeOK
<1>6. QED BY <1>3, <1>4, <1>5, <1>7 DEF Next

(* Every timestamp stays an integer, and the estimate of the distance of   *)
(* two frames a positive one, whatever dts the headers carry or lack, and  *)
(* what libavformat remembers of each stream is a set of dts.              *)
THEOREM TypeCorrect == Spec => []TypeOK
<1>1. QED BY InitTypeOK, NextTypeOK, PTL DEF Spec

-----------------------------------------------------------------------------
(***************************************************************************)
(* Lip sync where every video header has a dts: the frame's own, or, from  *)
(* av_to_es, its pts.                                                      *)
(***************************************************************************)

(* A packet was built and no unrolled timestamp was ever Unset.            *)
Known == pkt.kind # "none" /\ ~collided

(* The true time that the last packet's dts was written from.              *)
WrittenDts(tp, td) == IF writer = "av_to_es" THEN tp ELSE td
DtsTime == WrittenDts(pkt.true_pts, pkt.true_dts)

Apart(a, b, d) == a - b <= d /\ b - a <= d

(* The origin begins a wrap period, the streams are close, and the base is *)
(* the time of the last dts, which is close to both streams' next frames.  *)
SyncInv(reach) ==
  /\ pkt.kind = "none" => base_ts = Unset
  /\ \E k \in Int : origin = k * Wrap
  /\ Apart(vtime, atime, Skew + reach)
  /\ Known => /\ base_ts # Unset
              /\ base_ts = DtsTime - origin
              /\ pkt.pts = pkt.true_pts - origin
              /\ pkt.dts = DtsTime - origin
              /\ pkt.own_dts => DtsTime = pkt.true_dts
              /\ Apart(DtsTime, vtime, Skew + 2 * reach)
              /\ Apart(DtsTime, atime, Skew + 2 * reach)

(* A wrap period begins where the remainder is 0.                          *)
LEMMA OriginBegins ==
  ASSUME NEW tp \in Int
  PROVE  \E k \in Int : tp - (tp % Wrap) = k * Wrap
<1> DEFINE k == tp \div Wrap
<1>1. k \in Int /\ tp = Wrap * k + (tp % Wrap) BY Division, WrapAssumption
<1>2. tp % Wrap \in Nat BY RawStamp
<1> HIDE DEF k
<1>3. Wrap * k = k * Wrap /\ Wrap * k \in Int BY <1>1, WrapAssumption
<1>4. tp - (tp % Wrap) = k * Wrap BY <1>1, <1>2, <1>3
<1>5. QED BY <1>1, <1>4

(* The step takes a packet whose header was written from the times tp and  *)
(* td, not far from the base.                                              *)
TakesNear(reach, kind, st, tp, td, true_dts, own) ==
  /\ kind = "video" \/ tp = td
  /\ td = WrittenDts(tp, true_dts)
  /\ Known => Apart(tp, DtsTime, Skew + 3 * reach)
  /\ Apart(tp, td, reach)
  /\ Take(kind, st, Header(tp, td), tp, true_dts, own)

(* Taking a packet near the base gives it the times of its header and      *)
(* moves the base to its dts, be it the first packet or a later one.       *)
LEMMA TakeInStep ==
  ASSUME TypeOK, NEW reach \in Nat, Near(reach), SyncInv(reach),
         NEW kind \in {"video", "audio"}, NEW st,
         NEW tp \in Int, NEW td \in Int, NEW own, NEW true_dts \in Int,
         TakesNear(reach, kind, st, tp, td, true_dts, own), ~collided'
  PROVE  /\ \E k \in Int : origin' = k * Wrap
         /\ pkt'.kind = kind /\ pkt'.true_pts = tp /\ pkt'.true_dts = true_dts
         /\ pkt'.own_dts = own
         /\ DtsTime' = td
         /\ pkt'.pts = tp - origin' /\ pkt'.dts = td - origin'
         /\ base_ts' = td - origin' /\ base_ts' # Unset
         /\ origin' \in Int
         /\ Known => origin' = origin
<1> DEFINE h == Header(tp, td)
           isVideo == kind = "video"
           s == Stamped(base_ts, st, h, isVideo)
<1>1. base_ts \in Int /\ origin \in Int /\ collided \in BOOLEAN BY DEF TypeOK
<1> USE DEF TakesNear
<1>2. isVideo \in BOOLEAN /\ (isVideo \/ tp = td) OBVIOUS
<1>3. Skew \in Nat /\ Wrap \in Nat /\ 2 * (Skew + 3 * reach) < Wrap
  BY StreamAssumption, WrapAssumption DEF Near
<1>4. 2 * (td - tp) < Wrap /\ -Wrap < 2 * (td - tp)
  BY <1>3 DEF Apart
<1> HIDE DEF h, isVideo
<1>5. /\ base_ts' = s.base
      /\ origin' = OriginAfter(tp)
      /\ collided' = (collided \/ s.pts = Unset \/ s.dts = Unset)
      /\ pkt' = [kind |-> kind, pts |-> s.pts, dts |-> s.dts, true_pts |-> tp,
                 true_dts |-> true_dts, own_dts |-> own]
      /\ writer' = writer
  BY DEF Take, h, isVideo
<1>6. pkt'.kind = kind /\ pkt'.true_pts = tp /\ pkt'.true_dts = true_dts
      /\ pkt'.pts = s.pts /\ pkt'.dts = s.dts /\ pkt'.own_dts = own
      /\ DtsTime' = td
  BY <1>5 DEF DtsTime, WrittenDts
<1>7. ~collided /\ s.pts # Unset /\ s.dts # Unset BY <1>5
<1>8. CASE pkt.kind = "none"
  <2>1. base_ts = Unset /\ ~Known BY <1>8 DEF SyncInv, Known
  <2>2. origin' = tp - (tp % Wrap) /\ tp % Wrap \in Nat
    BY <1>5, <1>8, RawStamp DEF OriginAfter
  <2>3. /\ \E k \in Int : tp - (tp % Wrap) = k * Wrap
        /\ s.pts = tp - (tp - (tp % Wrap))
        /\ s.dts = td - (tp - (tp % Wrap)) /\ s.base = td - (tp - (tp % Wrap))
    BY <1>2, <1>4, <2>1, StampFirst DEF h
  <2>4. origin' \in Int BY <2>2
  <2>5. QED BY <1>5, <1>6, <1>7, <2>1, <2>2, <2>3, <2>4
<1>9. CASE pkt.kind # "none"
  <2>1. Known BY <1>7, <1>9 DEF Known
  <2>2. base_ts # Unset /\ base_ts = DtsTime - origin
    BY <2>1 DEF SyncInv
  <2>3. PICK k \in Int : origin = k * Wrap BY DEF SyncInv
  <2>4. origin' = origin BY <1>5, <1>9 DEF OriginAfter
  <2>5. DtsTime \in Int BY DEF TypeOK, DtsTime, WrittenDts
  <2>6. tp - origin - base_ts = tp - DtsTime BY <1>1, <2>2, <2>5
  <2>7. Apart(tp, DtsTime, Skew + 3 * reach) BY <2>1
  <2>8. 2 * (tp - DtsTime) < Wrap /\ -Wrap < 2 * (tp - DtsTime)
    BY <1>3, <2>5, <2>7 DEF Apart
  <2>9. 2 * (tp - origin - base_ts) < Wrap /\ -Wrap < 2 * (tp - origin - base_ts)
    BY <2>6, <2>8
  <2>10. /\ s.pts = tp - origin
         /\ s.pts # Unset => (s.dts = td - origin /\ s.base = td - origin)
    <3>1. base_ts \in Int /\ origin \in Int BY <1>1
    <3>2. base_ts # Unset BY <2>2
    <3>3. PeriodStart(origin) BY <2>3 DEF PeriodStart
    <3>4. HalfNear(tp - origin, base_ts) /\ HalfNear(td, tp)
      BY <1>4, <2>9 DEF HalfNear
    <3>5. s = StampedAs(kind, base_ts, st, Header(tp, td))
      BY DEF StampedAs, h, isVideo
    <3>6. Times(kind, tp, td) BY DEF Times
    <3> HIDE DEF s
    <3>7. QED BY <3>1, <3>2, <3>3, <3>4, <3>5, <3>6, StampExact
  <2>11. s.dts = td - origin /\ s.base = td - origin BY <1>7, <2>10
  <2>12. QED BY <1>1, <1>5, <1>6, <1>7, <2>3, <2>4, <2>10, <2>11
<1>10. QED BY <1>8, <1>9

LEMMA InitSyncInv ==
  ASSUME NEW reach \in Nat
  PROVE  Init => SyncInv(reach)
<1> SUFFICES ASSUME Init PROVE SyncInv(reach)
  OBVIOUS
<1>1. pkt.kind = "none" /\ base_ts = Unset BY DEF Init, NoPacket
<1>2. ~Known BY <1>1 DEF Known
<1>3. \E k \in Int : origin = k * Wrap
  <2>1. origin = 0 BY DEF Init
  <2>2. 0 = 0 * Wrap BY WrapAssumption
  <2>3. QED BY <2>1, <2>2
<1>4. Apart(vtime, atime, Skew + reach)
  <2>1. vtime \in Nat /\ Skew \in Nat BY StreamAssumption DEF Init
  <2>2. atime \in 0 .. vtime + Skew /\ vtime - Skew <= atime BY DEF Init
  <2>3. QED BY <2>1, <2>2 DEF Apart
<1>5. QED BY <1>1, <1>2, <1>3, <1>4 DEF SyncInv

(* A video packet whose header has a dts, td, near its pts.                *)
LEMMA VideoSyncInv ==
  ASSUME NEW reach \in Nat, Near(reach), TypeOK, SyncInv(reach),
         NEW late \in Reorder, NEW own \in BOOLEAN, NEW tp, NEW td,
         tp = vtime + late,
         td = WrittenDts(tp, vtime),
         own => td = vtime,
         VideoPacket(late, td % Wrap, own)
  PROVE  /\ SyncInv(reach)'
         /\ ~collided' => /\ pkt'.pts = tp - origin' /\ pkt'.dts = td - origin'
                          /\ origin' \in Int
                          /\ Known => origin' = origin
         /\ pkt'.kind = "video" /\ pkt'.true_pts = tp
<1>1. /\ vtime \in Nat /\ atime \in Nat /\ collided \in BOOLEAN
      /\ base_ts \in Int /\ DtsTime \in Int
  BY DEF TypeOK, DtsTime, WrittenDts
<1>2. Skew \in Nat
  BY StreamAssumption
<1>3. Apart(vtime, atime, Skew + reach) BY DEF SyncInv
<1>4. Known => /\ Apart(DtsTime, vtime, Skew + 2 * reach)
               /\ Apart(DtsTime, atime, Skew + 2 * reach)
  BY DEF SyncInv
<1>5. late \in Nat /\ late <= reach BY StreamAssumption DEF Near
<1>6. vtime <= atime + Skew /\ atime' = atime BY DEF VideoPacket
<1>7. PICK gap \in Spacing : vtime' = vtime + gap BY DEF VideoPacket
<1>8. gap \in Nat /\ gap <= reach BY StreamAssumption DEF Near
<1>9. tp \in Int /\ td \in Int /\ vtime \in Int /\ (td = tp \/ td = vtime)
  BY <1>1, <1>5 DEF WrittenDts
<1>10. Take("video", video, Header(tp, td), tp, vtime, own)
  BY DEF VideoPacket, Header
<1>11. Known => Apart(tp, DtsTime, Skew + 3 * reach)
  BY <1>1, <1>2, <1>4, <1>5 DEF Apart
<1>12. Apart(tp, td, reach) BY <1>1, <1>5, <1>9 DEF Apart
<1>13. Apart(vtime', atime', Skew + reach)
  BY <1>1, <1>2, <1>3, <1>6, <1>7, <1>8 DEF Apart
<1>14. Apart(td, vtime', Skew + 2 * reach) /\ Apart(td, atime', Skew + 2 * reach)
  BY <1>1, <1>2, <1>3, <1>5, <1>6, <1>7, <1>8, <1>9 DEF Apart
<1>15. ASSUME ~collided'
       PROVE  /\ \E k \in Int : origin' = k * Wrap
              /\ pkt'.own_dts = own /\ pkt'.true_dts = vtime
              /\ pkt'.true_pts = tp
              /\ DtsTime' = td
              /\ pkt'.pts = tp - origin' /\ pkt'.dts = td - origin'
              /\ base_ts' = td - origin' /\ base_ts' # Unset
              /\ origin' \in Int
              /\ Known => origin' = origin
  <2>1. TakesNear(reach, "video", video, tp, td, vtime, own)
    BY <1>10, <1>11, <1>12 DEF TakesNear
  <2>2. QED BY <1>9, <1>15, <2>1, TakeInStep
<1>16. pkt'.kind = "video" /\ pkt'.true_pts = tp BY <1>10 DEF Take
<1>17. \E k \in Int : origin' = k * Wrap
  <2>1. CASE pkt.kind = "none"
    <3>1. origin' = tp - (tp % Wrap)
      BY <1>10, <2>1 DEF Take, OriginAfter
    <3>2. QED BY <1>9, <3>1, OriginBegins
  <2>2. CASE pkt.kind # "none"
    <3>1. origin' = origin BY <1>10, <2>2 DEF Take, OriginAfter
    <3>2. QED BY <3>1 DEF SyncInv
  <2>3. QED BY <2>1, <2>2
<1>18. (pkt'.kind = "none") => base_ts' = Unset BY <1>16
<1>19. (Known => /\ base_ts # Unset
                 /\ base_ts = DtsTime - origin
                 /\ pkt.pts = pkt.true_pts - origin
                 /\ pkt.dts = DtsTime - origin
                 /\ pkt.own_dts => DtsTime = pkt.true_dts
                 /\ Apart(DtsTime, vtime, Skew + 2 * reach)
                 /\ Apart(DtsTime, atime, Skew + 2 * reach))'
  BY <1>14, <1>15 DEF Known, Apart
<1>20. (Apart(vtime, atime, Skew + reach))' BY <1>13 DEF Apart
<1>21. SyncInv(reach)' BY <1>17, <1>18, <1>19, <1>20 DEF SyncInv
<1>22. QED BY <1>15, <1>16, <1>21

(* An audio packet.                                                        *)
LEMMA AudioSyncInv ==
  ASSUME NEW reach \in Nat, Near(reach), TypeOK, SyncInv(reach), AudioPacket
  PROVE  /\ SyncInv(reach)'
         /\ ~collided' => /\ pkt'.pts = atime - origin' /\ pkt'.dts = atime - origin'
                          /\ origin' \in Int
                          /\ Known => origin' = origin
         /\ pkt'.kind = "audio"
<1>1. /\ vtime \in Nat /\ atime \in Nat /\ collided \in BOOLEAN
      /\ base_ts \in Int /\ DtsTime \in Int
  BY DEF TypeOK, DtsTime, WrittenDts
<1>2. Skew \in Nat /\ AudioTicks \in Nat /\ AudioTicks <= reach
  BY StreamAssumption DEF Near
<1>3. Apart(vtime, atime, Skew + reach) BY DEF SyncInv
<1>4. Known => /\ Apart(DtsTime, vtime, Skew + 2 * reach)
               /\ Apart(DtsTime, atime, Skew + 2 * reach)
  BY DEF SyncInv
<1>5. atime <= vtime + Skew /\ vtime' = vtime /\ atime' = atime + AudioTicks
  BY DEF AudioPacket
<1>6. Take("audio", audio, Header(atime, atime), atime, atime, TRUE)
  BY DEF AudioPacket, Header
<1>7. Known => Apart(atime, DtsTime, Skew + 3 * reach)
  BY <1>1, <1>2, <1>4 DEF Apart
<1>8. Apart(atime, atime, reach) BY <1>1 DEF Apart
<1>9. Apart(vtime', atime', Skew + reach)
  BY <1>1, <1>2, <1>3, <1>5 DEF Apart
<1>10. Apart(atime, vtime', Skew + 2 * reach) /\ Apart(atime, atime', Skew + 2 * reach)
  BY <1>1, <1>2, <1>3, <1>5 DEF Apart
<1>11. atime \in Int /\ atime = WrittenDts(atime, atime)
  BY <1>1 DEF WrittenDts
<1>12. ASSUME ~collided'
       PROVE  /\ \E k \in Int : origin' = k * Wrap
              /\ pkt'.true_dts = atime /\ pkt'.true_pts = atime
              /\ DtsTime' = atime
              /\ pkt'.pts = atime - origin' /\ pkt'.dts = atime - origin'
              /\ base_ts' = atime - origin' /\ base_ts' # Unset
              /\ origin' \in Int
              /\ Known => origin' = origin
  <2>1. TakesNear(reach, "audio", audio, atime, atime, atime, TRUE)
    BY <1>6, <1>7, <1>8, <1>11 DEF TakesNear
  <2>2. QED BY <1>11, <1>12, <2>1, TakeInStep
<1>13. pkt'.kind = "audio" BY <1>6 DEF Take
<1>14. \E k \in Int : origin' = k * Wrap
  <2>1. CASE pkt.kind = "none"
    <3>1. origin' = atime - (atime % Wrap)
      BY <1>6, <2>1 DEF Take, OriginAfter
    <3>2. QED BY <1>11, <3>1, OriginBegins
  <2>2. CASE pkt.kind # "none"
    <3>1. origin' = origin BY <1>6, <2>2 DEF Take, OriginAfter
    <3>2. QED BY <3>1 DEF SyncInv
  <2>3. QED BY <2>1, <2>2
<1>15. (pkt'.kind = "none") => base_ts' = Unset BY <1>13
<1>16. (Known => /\ base_ts # Unset
                 /\ base_ts = DtsTime - origin
                 /\ pkt.pts = pkt.true_pts - origin
                 /\ pkt.dts = DtsTime - origin
                 /\ pkt.own_dts => DtsTime = pkt.true_dts
                 /\ Apart(DtsTime, vtime, Skew + 2 * reach)
                 /\ Apart(DtsTime, atime, Skew + 2 * reach))'
  BY <1>10, <1>12 DEF Known, Apart
<1>17. (Apart(vtime, atime, Skew + reach))' BY <1>9 DEF Apart
<1>18. SyncInv(reach)' BY <1>14, <1>15, <1>16, <1>17 DEF SyncInv
<1>19. QED BY <1>12, <1>13, <1>18

LEMMA NextSyncInv ==
  ASSUME NEW reach \in Nat, Near(reach),
         writer = "av_to_es" \/ DtsThere = {TRUE},
         TypeOK, SyncInv(reach), [Next]_vars
  PROVE  SyncInv(reach)'
<1>1. ASSUME NEW late \in Reorder, VideoFromAvToEs(late)
      PROVE  SyncInv(reach)'
  <2>1. PICK tp : tp = vtime + late OBVIOUS
  <2>2. writer = "av_to_es" /\ VideoPacket(late, tp % Wrap, FALSE)
    BY <1>1, <2>1 DEF VideoFromAvToEs
  <2>3. tp = WrittenDts(tp, vtime) BY <2>2 DEF WrittenDts
  <2>4. QED BY <2>1, <2>2, <2>3, VideoSyncInv
<1>2. ASSUME NEW late \in Reorder, NEW own_dts \in DtsThere,
             VideoFromCaller(late, own_dts)
      PROVE  SyncInv(reach)'
  <2>1. PICK tp : tp = vtime + late OBVIOUS
  <2>2. writer = "caller" /\ own_dts = TRUE
    BY <1>2 DEF VideoFromCaller
  <2>3. VideoPacket(late, vtime % Wrap, TRUE)
    BY <1>2, <2>2 DEF VideoFromCaller
  <2>4. vtime = WrittenDts(tp, vtime) BY <2>2 DEF WrittenDts
  <2>5. QED BY <2>1, <2>2, <2>3, <2>4, VideoSyncInv
<1>3. CASE AudioPacket BY <1>3, AudioSyncInv
<1>4. CASE UNCHANGED vars
  BY <1>4 DEF vars, stamps, SyncInv, Known, Apart, DtsTime, WrittenDts
<1>5. QED BY <1>1, <1>2, <1>3, <1>4 DEF Next

(* The streams of a file stay in step for ever, across every wrap, when    *)
(* the video headers have a dts, be it the frame's own or av_to_es's copy  *)
(* of the pts, and successive frames are less than half a wrap apart.      *)
THEOREM InStepHolds ==
  ASSUME NEW CONSTANT reach \in Nat, Near(reach),
         Writers = {"av_to_es"} \/ DtsThere = {TRUE}
  PROVE  Spec => []InStep
<1>1. Init => TypeOK /\ SyncInv(reach) BY InitTypeOK, InitSyncInv
<1>2. TypeOK /\ SyncInv(reach) /\ [Next]_vars => TypeOK' /\ SyncInv(reach)'
  <2>1. TypeOK => writer = "av_to_es" \/ DtsThere = {TRUE} BY DEF TypeOK
  <2>2. QED BY <2>1, NextTypeOK, NextSyncInv
<1>3. TypeOK /\ SyncInv(reach) => InStep
  <2> SUFFICES ASSUME TypeOK, SyncInv(reach), Known
               PROVE  /\ pkt.pts = pkt.true_pts - origin
                      /\ pkt.own_dts => pkt.dts = pkt.true_dts - origin
    BY DEF Known, InStep
  <2>1. QED BY DEF SyncInv
<1>4. QED BY <1>1, <1>2, <1>3, PTL DEF Spec

-----------------------------------------------------------------------------
(***************************************************************************)
(* Streams some of whose video headers lack their dts.                     *)
(***************************************************************************)

(* unroll_timestamp of a time that is, but for whole wraps, less than half *)
(* a wrap from the base; it need not be a 33-bit one, as a guess is not.   *)
LEMMA UnrollNear ==
  ASSUME NEW base \in Int, base # Unset, NEW t \in Int, t # AV_NOPTS_VALUE,
         NEW e \in Int, NEW j \in Int, t - base = e + j * Wrap,
         2 * e < Wrap, -Wrap < 2 * e
  PROVE  unroll_timestamp(base, t) = base + e /\ base_after(base, t) = base + e
<1>1. Extended(t - base) = e
  BY ExtendedExact
<1>2. base_for(base, t) = base
  BY DEF base_for
<1>3. unroll_timestamp(base, t) = base + e
  BY <1>1, <1>2 DEF unroll_timestamp
<1> QED
  BY <1>3 DEF base_after

(* The pts of a frame unrolls to its true time, whether from a base that   *)
(* is near or, as the first timestamp of all, from itself.                 *)
LEMMA PtsExact ==
  ASSUME NEW base \in Int, NEW org \in Int, NEW tp \in Int, PeriodStart(org),
         \/ base # Unset /\ HalfNear(tp - org, base)
         \/ base = Unset /\ org = tp - (tp % Wrap)
  PROVE  /\ unroll_timestamp(base, tp % Wrap) = tp - org
         /\ base_after(base, tp % Wrap) = tp - org
<1>1. CASE base # Unset /\ HalfNear(tp - org, base)
  <2>1. PICK k \in Int : org = k * Wrap
    BY DEF PeriodStart
  <2>2. 2 * (tp - org - base) < Wrap /\ -Wrap < 2 * (tp - org - base)
    BY <1>1 DEF HalfNear
  <2> QED BY <1>1, <2>1, <2>2, UnrollExact
<1>2. CASE base = Unset /\ org = tp - (tp % Wrap)
  <2>1. tp % Wrap \in Int
    BY RawStamp
  <2>2. tp - org = tp % Wrap
    BY <1>2, <2>1
  <2> QED BY <1>2, <2>2, UnrollFirst
<1> QED BY <1>1, <1>2

(* The header of a frame whose dts is there, or Unset.                     *)
HeaderWith(tp, dts) == [pts |-> tp % Wrap, dts |-> dts]

(* The dts of a video packet: its own; or, of the first frame, Lead before *)
(* its pts; or min_dts_diff after the one before.                          *)
LEMMA OwnVideoDts ==
  ASSUME NEW st, NEW tp \in Int, NEW td \in Int, NEW org \in Int,
         PeriodStart(org), tp - org # Unset, HalfNear(td, tp),
         NEW b \in Int, b = tp - org,
         NEW d, d = video_dts(st, HeaderWith(tp, td % Wrap))
  PROVE  /\ unroll_timestamp(b, d) = td - org
         /\ base_after(b, d) = td - org
<1>1. HeaderWith(tp, td % Wrap).dts = td % Wrap /\ td % Wrap # Unset
  BY RawStamp DEF HeaderWith
<1>2. video_dts(st, HeaderWith(tp, td % Wrap)) = td % Wrap
  BY <1>1 DEF video_dts
<1>3. PICK k \in Int : org = k * Wrap
  BY DEF PeriodStart
<1>4. b = tp - org
  OBVIOUS
<1>5. 2 * (td - org - b) < Wrap /\ -Wrap < 2 * (td - org - b) /\ b # Unset
  BY <1>4 DEF HalfNear
<1>6. /\ unroll_timestamp(b, td % Wrap) = td - org
      /\ base_after(b, td % Wrap) = td - org
  BY <1>3, <1>5, UnrollExact
<1> QED BY <1>2, <1>4, <1>6

(* A first frame without one is stamped Lead before its pts.               *)
LEMMA FirstVideoDts ==
  ASSUME NEW st, st.last_dts = Unset, NEW tp \in Int,
         NEW org \in Int, PeriodStart(org), tp - org # Unset,
         2 * Lead < Wrap, AV_NOPTS_VALUE < -Lead,
         NEW b \in Int, b = tp - org,
         NEW d, d = video_dts(st, HeaderWith(tp, Unset))
  PROVE  /\ unroll_timestamp(b, d) = b - Lead
         /\ base_after(b, d) = b - Lead
<1>1. HeaderWith(tp, Unset).dts = Unset /\ HeaderWith(tp, Unset).pts = tp % Wrap
  BY DEF HeaderWith
<1>2. video_dts(st, HeaderWith(tp, Unset)) = (tp % Wrap) - Lead
  BY <1>1 DEF video_dts
<1>3. PICK k \in Int : org = k * Wrap
  BY DEF PeriodStart
<1>4. PICK raw \in Nat : raw = tp % Wrap
  BY RawStamp
<1>5. PICK q \in Int : tp = Wrap * q + raw
  BY <1>4, Division, WrapAssumption
<1>6. b = tp - org
  OBVIOUS
<1>7. Lead \in Nat /\ Wrap \in Nat /\ AV_NOPTS_VALUE \in Int
  BY TicksAssumption, WrapAssumption, NoPtsAssumption
<1>8. (raw - Lead) - b = (0 - Lead) + (k - q) * Wrap
  <2>1. Wrap * q = q * Wrap /\ (k - q) * Wrap = k * Wrap - q * Wrap
        /\ k * Wrap \in Int /\ q * Wrap \in Int
    BY <1>7
  <2> QED BY <1>3, <1>5, <1>6, <1>7, <2>1
<1>9. /\ raw - Lead \in Int /\ raw - Lead # AV_NOPTS_VALUE /\ 0 - Lead \in Int
      /\ k - q \in Int /\ 2 * (0 - Lead) < Wrap /\ -Wrap < 2 * (0 - Lead)
  BY <1>7, WrapAssumption
<1>10. b # Unset
  BY <1>6
<1>11. /\ unroll_timestamp(b, raw - Lead) = b + (0 - Lead)
       /\ base_after(b, raw - Lead) = b + (0 - Lead)
  BY <1>8, <1>9, <1>10, UnrollNear
<1>12. b + (0 - Lead) = b - Lead
  BY <1>6, <1>7
<1> QED BY <1>2, <1>4, <1>6, <1>11, <1>12

(* A later one is stamped with the guess, if that is near enough the base. *)
LEMMA GuessedVideoDts ==
  ASSUME NEW st, st.last_dts # Unset, NEW tp \in Int,
         NEW b \in Int, b # Unset,
         NEW g \in Int, g = st.last_dts + st.min_dts_diff,
         g # AV_NOPTS_VALUE, HalfNear(g, b),
         NEW d, d = video_dts(st, HeaderWith(tp, Unset))
  PROVE  /\ unroll_timestamp(b, d) = g
         /\ base_after(b, d) = g
         /\ min_dts_diff_after(st, HeaderWith(tp, Unset)) = st.min_dts_diff
<1>1. HeaderWith(tp, Unset).dts = Unset
  BY DEF HeaderWith
<1>2. min_dts_diff_after(st, HeaderWith(tp, Unset)) = st.min_dts_diff
  BY <1>1 DEF min_dts_diff_after
<1>3. video_dts(st, HeaderWith(tp, Unset)) = g
  BY <1>1, <1>2 DEF video_dts
<1>5. PICK e \in Int : e = g - b
  OBVIOUS
<1>6. /\ g - b = e + 0 * Wrap /\ 0 \in Int /\ 2 * e < Wrap /\ -Wrap < 2 * e
      /\ b # Unset /\ b + e = g
  BY <1>5, WrapAssumption DEF HalfNear
<1>7. unroll_timestamp(b, g) = b + e /\ base_after(b, g) = b + e
  BY <1>6, UnrollNear
<1> QED BY <1>2, <1>3, <1>6, <1>7

(* The bounds that the theorems assume: all distances small beside half a  *)
(* wrap, guesses included, which stay within drift behind the truth when   *)
(* no frame comes sooner than the frame rate says, none is presented later *)
(* than Lead after its decoding (or else a guess is ahead), and            *)
(* either the stream is short, or it has exactly the muxer's frame rate    *)
(* and does not begin so near a wrap that its first dts, compared with the *)
(* -1 of last_dts, passes for a distance of two frames (ts_muxer.c:222).   *)
ShortStream(drift) == \A s \in Starts : Lead + (Horizon - s) <= drift

Steady == Spacing = {FrameTicks} /\ \A s \in Starts : FrameTicks <= (s % Wrap) + 1

GuessesNear(reach, drift) ==
  /\ \A gap \in Spacing : FrameTicks <= gap
  /\ \A late \in Reorder : late <= Lead
  /\ Lead <= drift
  /\ ShortStream(drift) \/ Steady
  /\ AV_NOPTS_VALUE <= -Wrap
  /\ 2 * (Skew + 3 * reach + drift) < Wrap

(* How far the next guess lags, in each case.                              *)
Lagged(drift) ==
  \/ /\ Steady
     /\ video.min_dts_diff = FrameTicks
     /\ (vtime - origin) - (video.last_dts + FrameTicks) <= Lead
  \/ /\ ShortStream(drift)
     /\ \E s \in Starts : s <= vtime /\ s - Lead <= video.last_dts + origin

(* The last packet and the base it left, at most drift behind its frame's  *)
(* true time, which is near both streams' next frames.                     *)
Stamps(reach, drift) ==
  /\ base_ts # Unset
  /\ base_ts = pkt.dts
  /\ pkt.true_dts - drift <= base_ts + origin
  /\ base_ts + origin <= pkt.true_dts
  /\ pkt.pts = pkt.true_pts - origin
  /\ pkt.own_dts => pkt.dts = pkt.true_dts - origin
  /\ Apart(pkt.true_dts, vtime, Skew + 2 * reach)
  /\ Apart(pkt.true_dts, atime, Skew + 2 * reach)
  /\ origin <= vtime + Skew + reach

(* SyncInv, where dts may be guesses: the next guess too is behind the     *)
(* truth, and not far.                                                     *)
GuessInv(reach, drift) ==
  /\ pkt.kind = "none" => base_ts = Unset /\ video.last_dts = Unset
  /\ PeriodStart(origin)
  /\ Apart(vtime, atime, Skew + reach)
  /\ video.min_dts_diff <= FrameTicks
  /\ (~collided /\ video.last_dts = Unset)
       => vtime \in Starts /\ video.min_dts_diff = FrameTicks
  /\ Known => Stamps(reach, drift)
  /\ (Known /\ video.last_dts # Unset)
       => video.last_dts + FrameTicks <= vtime - origin /\ Lagged(drift)

(* The estimate of the distance of two frames only shrinks.                *)
LEMMA DiffShrinks ==
  ASSUME NEW st \in StreamState, NEW hdr, hdr.dts \in Int
  PROVE  /\ min_dts_diff_after(st, hdr) \in Nat \ {0}
         /\ min_dts_diff_after(st, hdr) <= st.min_dts_diff
<1>1. st.last_dts \in Int /\ st.min_dts_diff \in Nat \ {0}
  BY DEF StreamState
<1> QED BY <1>1 DEF min_dts_diff_after

(* A frame at td that is the first, not so soon after a wrap, or that      *)
(* comes at least FrameTicks and less than a wrap after the last dts.      *)
Spaced(last, td, org) ==
  \/ last = Unset /\ FrameTicks <= (td % Wrap) + 1
  \/ FrameTicks <= (td - org) - last /\ (td - org) - last < Wrap

(* And not even that when the frames come at the frame rate.               *)
LEMMA DiffSteady ==
  ASSUME NEW st \in StreamState, st.min_dts_diff = FrameTicks,
         NEW tp \in Int, NEW td \in Int, NEW org \in Int, PeriodStart(org),
         NEW dts, dts = td % Wrap \/ dts = Unset,
         Spaced(st.last_dts, td, org)
  PROVE  min_dts_diff_after(st, HeaderWith(tp, dts)) = FrameTicks
<1> DEFINE h == HeaderWith(tp, dts)
<1>1. st.last_dts \in Int /\ FrameTicks \in Nat /\ Wrap \in Nat \ {0}
  BY TicksAssumption, WrapAssumption DEF StreamState
<1>2. CASE dts = Unset
  <2>1. h.dts = Unset
    BY <1>2 DEF HeaderWith
  <2> QED BY <2>1 DEF min_dts_diff_after
<1>3. CASE dts = td % Wrap
  <2>1. PICK raw \in Nat : raw = td % Wrap
    BY RawStamp
  <2>2. PICK q \in Int : td = Wrap * q + raw
    BY <2>1, Division, WrapAssumption
  <2>3. PICK k \in Int : org = k * Wrap
    BY DEF PeriodStart
  <2>4. h.dts = raw
    BY <1>3, <2>1 DEF HeaderWith
  <2>5. PICK last \in Int : last = st.last_dts
    BY <1>1
  <2>6. raw - last >= FrameTicks \/ raw - last <= 0
    <3>1. CASE st.last_dts = Unset /\ FrameTicks <= (td % Wrap) + 1
      BY <1>1, <2>1, <2>5, <3>1 DEF Unset
    <3>2. CASE FrameTicks <= (td - org) - st.last_dts /\ (td - org) - st.last_dts < Wrap
      <4>1. PICK x \in Int : x = (td - org) - last
        BY <2>5
      <4>2. raw - last = x + (k - q) * Wrap
        <5>1. Wrap * q = q * Wrap /\ (k - q) * Wrap = k * Wrap - q * Wrap
              /\ k * Wrap \in Int /\ q * Wrap \in Int
          BY <1>1
        <5> QED BY <2>2, <2>3, <4>1, <5>1
      <4>3. FrameTicks <= x /\ x < Wrap
        BY <2>5, <3>2, <4>1
      <4>4. k - q >= 0 => (k - q) * Wrap >= 0
        BY <1>1
      <4>5. ~ (k - q >= 0) => (k - q) * Wrap <= -Wrap
        BY <1>1
      <4>6. PICK m \in Int : m = (k - q) * Wrap
        BY <1>1
      <4>7. (m >= 0 \/ m <= -Wrap) /\ raw - last = x + m
        BY <4>2, <4>4, <4>5, <4>6
      <4> QED BY <1>1, <4>3, <4>7
    <3> QED BY <3>1, <3>2 DEF Spaced
  <2>7. ~ (h.dts # Unset /\ h.dts - st.last_dts > 0 /\ h.dts - st.last_dts < st.min_dts_diff)
    BY <1>1, <2>1, <2>4, <2>5, <2>6
  <2> HIDE DEF h
  <2>8. min_dts_diff_after(st, h) = st.min_dts_diff
    BY <2>7 DEF min_dts_diff_after
  <2> QED BY <2>8 DEF h
<1> QED BY <1>2, <1>3

(* The next guess is later than the last dts, not ahead of the frame's     *)
(* true time and at most drift behind it.                                  *)
LEMMA GuessRange ==
  ASSUME TypeOK, NEW reach \in Nat, NEW drift \in Nat,
         GuessesNear(reach, drift), GuessInv(reach, drift),
         Known, video.last_dts # Unset, vtime <= Horizon,
         NEW g, g = video.last_dts + video.min_dts_diff
  PROVE  /\ g \in Int /\ g # AV_NOPTS_VALUE
         /\ video.last_dts < g
         /\ g <= vtime - origin
         /\ (vtime - origin) - drift <= g
<1>1. /\ video.last_dts \in Int /\ video.min_dts_diff \in Nat \ {0}
      /\ vtime \in Nat /\ origin \in Int
  BY DEF TypeOK, StreamState
<1>2. /\ Lead \in Nat /\ FrameTicks \in Nat /\ Wrap \in Nat /\ Skew \in Nat
      /\ Horizon \in Nat /\ AV_NOPTS_VALUE \in Int /\ Starts \subseteq Nat
  BY TicksAssumption, WrapAssumption, StreamAssumption, NoPtsAssumption
<1>3. /\ video.min_dts_diff <= FrameTicks
      /\ origin <= vtime + Skew + reach
      /\ video.last_dts + FrameTicks <= vtime - origin
      /\ Lagged(drift)
  BY DEF GuessInv, Stamps
<1>4. /\ Lead <= drift /\ AV_NOPTS_VALUE <= -Wrap
      /\ 2 * (Skew + 3 * reach + drift) < Wrap
  BY DEF GuessesNear
<1>5. PICK last \in Int, diff \in Nat \ {0} :
        last = video.last_dts /\ diff = video.min_dts_diff
  BY <1>1
<1>6. g = last + diff /\ diff <= FrameTicks /\ last + FrameTicks <= vtime - origin
  BY <1>3, <1>5
<1>7. g \in Int /\ last < g /\ g <= vtime - origin
  BY <1>1, <1>2, <1>6
<1>8. (vtime - origin) - drift <= g
  <2>1. CASE Steady /\ video.min_dts_diff = FrameTicks
             /\ (vtime - origin) - (video.last_dts + FrameTicks) <= Lead
    BY <1>1, <1>2, <1>4, <1>5, <1>6, <2>1
  <2>2. CASE ShortStream(drift)
             /\ \E s \in Starts : s <= vtime /\ s - Lead <= video.last_dts + origin
    <3>1. PICK s \in Starts : s <= vtime /\ s - Lead <= video.last_dts + origin
      BY <2>2
    <3>2. s \in Nat /\ Lead + (Horizon - s) <= drift
      BY <1>2, <2>2 DEF ShortStream
    <3>3. s - Lead <= last + origin
      BY <1>5, <3>1
    <3> QED BY <1>1, <1>2, <1>6, <3>2, <3>3
  <2> QED BY <1>3, <2>1, <2>2 DEF Lagged
<1>9. g # AV_NOPTS_VALUE
  BY <1>1, <1>2, <1>3, <1>4, <1>7, <1>8
<1> QED BY <1>5, <1>7, <1>8, <1>9

(* From the invariant, the pts of the next frame of either stream unrolls  *)
(* to its true time from the origin.                                       *)
LEMMA PtsInStep ==
  ASSUME TypeOK, NEW reach \in Nat, NEW drift \in Nat, Near(reach),
         GuessesNear(reach, drift), GuessInv(reach, drift), ~collided,
         NEW tp \in Int, NEW org, org = OriginAfter(tp),
         Known => Apart(tp, pkt.true_dts, Skew + 3 * reach)
  PROVE  /\ org \in Int /\ PeriodStart(org)
         /\ unroll_timestamp(base_ts, tp % Wrap) = tp - org
         /\ base_after(base_ts, tp % Wrap) = tp - org
         /\ Known => org = origin
         /\ ~Known => org <= tp
<1>1. base_ts \in Int /\ origin \in Int /\ pkt.true_dts \in Int
  BY DEF TypeOK
<1>2. Skew \in Nat /\ Wrap \in Nat /\ 2 * (Skew + 3 * reach + drift) < Wrap
  BY StreamAssumption, WrapAssumption DEF GuessesNear
<1>3. CASE Known
  <2>1. org = origin
    BY <1>3 DEF OriginAfter, Known
  <2>2. /\ base_ts # Unset /\ PeriodStart(origin)
        /\ pkt.true_dts - drift <= base_ts + origin
        /\ base_ts + origin <= pkt.true_dts
    BY <1>3 DEF GuessInv, Stamps
  <2>3. tp - pkt.true_dts <= Skew + 3 * reach /\ pkt.true_dts - tp <= Skew + 3 * reach
    BY <1>3 DEF Apart
  <2>4. HalfNear(tp - org, base_ts)
    <3>1. PICK td \in Int : td = pkt.true_dts
      BY <1>1
    <3>2. /\ td - drift <= base_ts + origin /\ base_ts + origin <= td
          /\ tp - td <= Skew + 3 * reach /\ td - tp <= Skew + 3 * reach
      BY <2>2, <2>3, <3>1
    <3>3. 2 * ((tp - origin) - base_ts) < Wrap /\ -Wrap < 2 * ((tp - origin) - base_ts)
      BY <1>1, <1>2, <3>2
    <3> QED BY <2>1, <3>3 DEF HalfNear
  <2> QED BY <1>1, <1>3, <2>1, <2>2, <2>4, PtsExact
<1>4. CASE ~Known
  <2>1. pkt.kind = "none" /\ base_ts = Unset
    BY <1>4 DEF Known, GuessInv
  <2>2. org = tp - (tp % Wrap) /\ tp % Wrap \in Nat
    BY <2>1, RawStamp DEF OriginAfter
  <2>3. org \in Int /\ org <= tp
    BY <2>2
  <2>4. PeriodStart(org)
    BY <2>2, OriginBegins DEF PeriodStart
  <2> QED BY <1>1, <1>4, <2>1, <2>2, <2>3, <2>4, PtsExact
<1> QED BY <1>3, <1>4

(* What a step that takes a packet sets.                                   *)
LEMMA TakeSets ==
  ASSUME NEW kind, NEW st, NEW hdr, NEW tp, NEW td, NEW own,
         Take(kind, st, hdr, tp, td, own)
  PROVE  LET b == base_after(base_ts, hdr.pts)
             d == IF kind = "video" THEN video_dts(st, hdr) ELSE hdr.pts
         IN  /\ pkt'.kind = kind /\ pkt'.true_pts = tp /\ pkt'.true_dts = td
             /\ pkt'.pts = unroll_timestamp(base_ts, hdr.pts)
             /\ pkt'.dts = unroll_timestamp(b, d)
             /\ base_ts' = base_after(b, d)
             /\ origin' = OriginAfter(tp)
             /\ pkt'.own_dts = own
             /\ accepted' = Accepts(kind, pkt'.pts, pkt'.dts)
             /\ cur_dts' = IF accepted' THEN [cur_dts EXCEPT ![kind] = {pkt'.dts}]
                                        ELSE cur_dts
             /\ writer' = writer
             /\ ~collided' => ~collided /\ pkt'.pts # Unset /\ pkt'.dts # Unset
<1> DEFINE s == Stamped(base_ts, st, hdr, kind = "video")
           b == base_after(base_ts, hdr.pts)
           d == IF kind = "video" THEN video_dts(st, hdr) ELSE hdr.pts
<1>1. /\ s.pts = unroll_timestamp(base_ts, hdr.pts)
      /\ s.dts = unroll_timestamp(b, d)
      /\ s.base = base_after(b, d)
  BY DEF Stamped
<1>2. /\ base_ts' = s.base
      /\ origin' = OriginAfter(tp)
      /\ collided' = (collided \/ s.pts = Unset \/ s.dts = Unset)
      /\ pkt' = [kind |-> kind, pts |-> s.pts, dts |-> s.dts, true_pts |-> tp,
                 true_dts |-> td, own_dts |-> own]
      /\ accepted' = Accepts(kind, s.pts, s.dts)
      /\ cur_dts' = IF Accepts(kind, s.pts, s.dts)
                    THEN [cur_dts EXCEPT ![kind] = {s.dts}]
                    ELSE cur_dts
      /\ writer' = writer
  BY DEF Take
<1> HIDE DEF s, b, d
<1>3. /\ pkt'.kind = kind /\ pkt'.true_pts = tp /\ pkt'.true_dts = td
      /\ pkt'.pts = s.pts /\ pkt'.dts = s.dts
      /\ pkt'.own_dts = own
  BY <1>2
<1> QED BY <1>1, <1>2, <1>3 DEF b, d

(* A video packet's timestamps, whether its dts was read or guessed.       *)
LEMMA VideoStamps ==
  ASSUME TypeOK, NEW reach \in Nat, NEW drift \in Nat, Near(reach),
         GuessesNear(reach, drift), GuessInv(reach, drift),
         NEW late \in Reorder, NEW own \in BOOLEAN,
         VideoFromCaller(late, own),
         ~collided'
  PROVE  /\ ~collided /\ origin' \in Int /\ PeriodStart(origin')
         /\ Known => origin' = origin
         /\ ~Known => origin' <= vtime + late
         /\ pkt'.kind = "video" /\ pkt'.true_dts = vtime
         /\ pkt'.true_pts = vtime + late
         /\ pkt'.pts = (vtime + late) - origin'
         /\ pkt'.dts \in Int /\ pkt'.dts # Unset
         /\ base_ts' = pkt'.dts
         /\ pkt'.own_dts => pkt'.dts = vtime - origin'
         /\ pkt'.dts <= vtime - origin'
         /\ (vtime - origin') - drift <= pkt'.dts
         /\ video.last_dts # Unset => video.last_dts < pkt'.dts
         /\ pkt'.dts = vtime - origin'
            \/ /\ video.last_dts = Unset
               /\ pkt'.dts = ((vtime + late) - origin') - Lead
               /\ ~ own
            \/ /\ video.last_dts # Unset
               /\ pkt'.dts = video.last_dts + video.min_dts_diff
               /\ ~ own
<1> DEFINE tp == vtime + late
           hdr == HeaderWith(tp, IF own THEN vtime % Wrap ELSE Unset)
           org == OriginAfter(tp)
<1>1. /\ vtime \in Nat /\ late \in Nat /\ late <= reach /\ late <= Lead /\ tp \in Int
      /\ collided \in BOOLEAN /\ vtime <= Horizon
  BY StreamAssumption DEF TypeOK, Near, GuessesNear, VideoFromCaller, VideoPacket
<1>2. /\ Lead \in Nat /\ Wrap \in Nat /\ Skew \in Nat /\ FrameTicks \in Nat
      /\ Lead <= drift /\ AV_NOPTS_VALUE <= -Wrap /\ AV_NOPTS_VALUE \in Int
      /\ 2 * (Skew + 3 * reach + drift) < Wrap
  BY TicksAssumption, WrapAssumption, StreamAssumption, NoPtsAssumption DEF GuessesNear
<1>3. Take("video", video, hdr, tp, vtime, own)
  BY DEF VideoFromCaller, VideoPacket, HeaderWith
<1>4. hdr.pts = tp % Wrap /\ (~ own => hdr.dts = Unset)
  BY DEF HeaderWith
<1> HIDE DEF tp, hdr, org
<1>5. /\ ~collided
      /\ pkt'.kind = "video" /\ pkt'.true_dts = vtime /\ pkt'.true_pts = tp
      /\ pkt'.pts = unroll_timestamp(base_ts, tp % Wrap)
      /\ pkt'.dts = unroll_timestamp(base_after(base_ts, tp % Wrap), video_dts(video, hdr))
      /\ base_ts' = base_after(base_after(base_ts, tp % Wrap), video_dts(video, hdr))
      /\ origin' = org
      /\ pkt'.pts # Unset /\ pkt'.dts # Unset
  BY <1>3, <1>4, TakeSets DEF org
<1>6. pkt'.own_dts => own
  BY <1>3, TakeSets
<1>7. Known => Apart(tp, pkt.true_dts, Skew + 3 * reach)
  <2> SUFFICES ASSUME Known
               PROVE  Apart(tp, pkt.true_dts, Skew + 3 * reach)
    OBVIOUS
  <2>1. Apart(pkt.true_dts, vtime, Skew + 2 * reach) /\ pkt.true_dts \in Int
    BY DEF GuessInv, Stamps, TypeOK
  <2> QED BY <1>1, <1>2, <2>1 DEF Apart, tp
<1>8. /\ org \in Int /\ PeriodStart(org)
      /\ unroll_timestamp(base_ts, tp % Wrap) = tp - org
      /\ base_after(base_ts, tp % Wrap) = tp - org
      /\ Known => org = origin
      /\ ~Known => org <= tp
  BY <1>1, <1>5, <1>7, PtsInStep DEF org
<1>9. /\ pkt'.pts = tp - org /\ tp - org # Unset
      /\ pkt'.dts = unroll_timestamp(tp - org, video_dts(video, hdr))
      /\ base_ts' = base_after(tp - org, video_dts(video, hdr))
  BY <1>5, <1>8
<1>19. PICK d : d = video_dts(video, hdr)
  OBVIOUS
<1>20. PICK b \in Int : b = tp - org /\ d = video_dts(video, hdr)
  BY <1>1, <1>8, <1>19
<1>21. pkt'.dts = unroll_timestamp(b, d) /\ base_ts' = base_after(b, d)
  BY <1>9, <1>20
<1>10. HalfNear(vtime, tp)
  BY <1>1, <1>2 DEF HalfNear, tp
<1>11. ASSUME video.last_dts # Unset
       PROVE  Known /\ video.last_dts + FrameTicks <= vtime - org
              /\ video.last_dts \in Int
  BY <1>5, <1>8, <1>11 DEF GuessInv, Known, TypeOK, StreamState
<1>12. FrameTicks > 0
  BY TicksAssumption
<1>13. CASE own
  <2>1. d = video_dts(video, HeaderWith(tp, vtime % Wrap))
    BY <1>13, <1>20 DEF hdr
  <2>2. pkt'.dts = vtime - org /\ base_ts' = vtime - org
    BY <1>1, <1>8, <1>9, <1>10, <1>20, <1>21, <2>1, OwnVideoDts
  <2>3. video.last_dts # Unset => video.last_dts < pkt'.dts
    BY <1>1, <1>2, <1>8, <1>11, <1>12, <2>2
  <2>4. vtime - org \in Int /\ vtime - org <= vtime - org /\ (vtime - org) - drift <= vtime - org
    BY <1>1, <1>8
  <2> QED BY <1>5, <1>8, <1>9, <2>2, <2>3, <2>4 DEF tp
<1>14. CASE ~ own /\ video.last_dts = Unset
  <2>1. d = video_dts(video, HeaderWith(tp, Unset))
    BY <1>14, <1>20 DEF hdr
  <2>2. 2 * Lead < Wrap /\ AV_NOPTS_VALUE < -Lead
    BY <1>2
  <2>3. pkt'.dts = (tp - org) - Lead /\ base_ts' = (tp - org) - Lead
    <3>1. unroll_timestamp(b, d) = b - Lead /\ base_after(b, d) = b - Lead
      BY <1>1, <1>8, <1>9, <1>14, <1>20, <2>1, <2>2, FirstVideoDts
    <3> QED BY <1>20, <1>21, <3>1
  <2>4. /\ (tp - org) - Lead \in Int /\ (tp - org) - Lead <= vtime - org
        /\ (vtime - org) - drift <= (tp - org) - Lead
    BY <1>1, <1>2, <1>8 DEF tp
  <2> QED BY <1>5, <1>6, <1>8, <1>9, <1>14, <2>3, <2>4 DEF tp
<1>15. CASE ~ own /\ video.last_dts # Unset
  <2>1. d = video_dts(video, HeaderWith(tp, Unset))
    BY <1>15, <1>20 DEF hdr
  <2>2. PICK g : g = video.last_dts + video.min_dts_diff
    OBVIOUS
  <2>3. Known /\ org = origin
    BY <1>8, <1>11, <1>15
  <2>4. /\ g \in Int /\ g # AV_NOPTS_VALUE
        /\ video.last_dts < g
        /\ g <= vtime - org
        /\ (vtime - org) - drift <= g
    BY <1>1, <1>15, <2>2, <2>3, GuessRange
  <2>5. HalfNear(g, b) /\ b # Unset
    BY <1>1, <1>2, <1>8, <1>9, <1>20, <2>4 DEF HalfNear, tp
  <2>6. pkt'.dts = g /\ base_ts' = g
    BY <1>1, <1>15, <1>20, <1>21, <2>1, <2>2, <2>4, <2>5, GuessedVideoDts
  <2> QED BY <1>5, <1>6, <1>8, <1>9, <1>15, <2>2, <2>4, <2>6 DEF tp
<1> QED BY <1>13, <1>14, <1>15

(* The estimate of the distance of two frames after a video packet: never  *)
(* more than the frame rate's, and just that when the frames keep to it.   *)
LEMMA VideoDiff ==
  ASSUME TypeOK, NEW reach \in Nat, NEW drift \in Nat, Near(reach),
         GuessesNear(reach, drift), GuessInv(reach, drift),
         NEW late \in Reorder, NEW own \in BOOLEAN,
         VideoFromCaller(late, own),
         ~collided'
  PROVE  /\ video'.last_dts = pkt'.dts
         /\ video'.min_dts_diff <= FrameTicks
         /\ (Steady /\ (Known /\ video.last_dts # Unset
                          => video.min_dts_diff = FrameTicks
                             /\ (vtime - origin) - (video.last_dts + FrameTicks) <= Lead))
              => video'.min_dts_diff = FrameTicks
<1> DEFINE tp == vtime + late
           dts == IF own THEN vtime % Wrap ELSE Unset
           hdr == HeaderWith(tp, dts)
           s == Stamped(base_ts, video, hdr, TRUE)
<1>1. /\ vtime \in Nat /\ late \in Nat /\ tp \in Int /\ video \in StreamState
      /\ origin \in Int /\ FrameTicks \in Nat /\ Wrap \in Nat /\ Lead \in Nat
  BY StreamAssumption, TicksAssumption, WrapAssumption DEF TypeOK
<1>2. dts \in Int /\ (dts = vtime % Wrap \/ dts = Unset)
  BY <1>1, RawStamp DEF Unset
<1>3. video' = s.st /\ Take("video", video, hdr, tp, vtime, own)
  BY DEF VideoFromCaller, VideoPacket, HeaderWith
<1> HIDE DEF tp, dts
<1>4. hdr.pts = tp % Wrap /\ hdr.dts = dts
  BY DEF HeaderWith
<1> HIDE DEF hdr
<1>5. /\ s.st.last_dts = s.dts
      /\ s.st.min_dts_diff = min_dts_diff_after(video, hdr)
      /\ s.dts = unroll_timestamp(base_after(base_ts, hdr.pts), video_dts(video, hdr))
  BY DEF Stamped
<1>6. pkt'.dts = unroll_timestamp(base_after(base_ts, hdr.pts), video_dts(video, hdr))
      /\ ~collided
  BY <1>3, TakeSets
<1> HIDE DEF s
<1>7. video'.last_dts = pkt'.dts /\ video'.min_dts_diff = min_dts_diff_after(video, hdr)
  BY <1>3, <1>5, <1>6
<1>8. video.min_dts_diff <= FrameTicks /\ video.min_dts_diff \in Nat
  BY <1>1 DEF GuessInv, StreamState
<1>9. video'.min_dts_diff <= FrameTicks
  <2>1. /\ min_dts_diff_after(video, hdr) \in Nat
        /\ min_dts_diff_after(video, hdr) <= video.min_dts_diff
    BY <1>1, <1>2, <1>4, DiffShrinks
  <2> QED BY <1>1, <1>7, <1>8, <2>1
<1>10. ASSUME Steady, Known /\ video.last_dts # Unset
                        => video.min_dts_diff = FrameTicks
                           /\ (vtime - origin) - (video.last_dts + FrameTicks) <= Lead
       PROVE  video'.min_dts_diff = FrameTicks
  <2>1. hdr = HeaderWith(tp, dts)
    BY DEF hdr
  <2>2. CASE video.last_dts = Unset
    <3>1. vtime \in Starts /\ video.min_dts_diff = FrameTicks
      BY <1>6, <2>2 DEF GuessInv
    <3>2. FrameTicks <= (vtime % Wrap) + 1
      BY <1>10, <3>1 DEF Steady
    <3>3. PICK k \in Int : k = 0
      OBVIOUS
    <3>4. PeriodStart(0)
      <4>1. 0 = 0 * Wrap
        BY <1>1
      <4> QED BY <4>1 DEF PeriodStart
    <3>5. PICK org \in Int : PeriodStart(org)
      BY <3>4
    <3>6. min_dts_diff_after(video, HeaderWith(tp, dts)) = FrameTicks
      <4>1. Spaced(video.last_dts, vtime, org)
        BY <2>2, <3>2 DEF Spaced
      <4> QED BY <1>1, <1>2, <3>1, <3>5, <4>1, DiffSteady
    <3> QED BY <1>7, <2>1, <3>6
  <2>3. CASE video.last_dts # Unset
    <3>1. Known
      BY <1>6, <2>3 DEF GuessInv, Known
    <3>2. /\ video.min_dts_diff = FrameTicks
          /\ (vtime - origin) - (video.last_dts + FrameTicks) <= Lead
          /\ video.last_dts + FrameTicks <= vtime - origin
          /\ PeriodStart(origin)
      BY <1>10, <2>3, <3>1 DEF GuessInv
    <3>3. Lead + FrameTicks < Wrap
      <4>1. FrameTicks \in Spacing
        BY <1>10 DEF Steady
      <4>2. FrameTicks <= reach /\ Lead <= drift /\ 2 * (Skew + 3 * reach + drift) < Wrap
        BY <4>1 DEF Near, GuessesNear
      <4> QED BY <1>1, <4>2, StreamAssumption
    <3>4. PICK last \in Int : last = video.last_dts
      BY <1>1 DEF StreamState
    <3>5. /\ (vtime - origin) - (last + FrameTicks) <= Lead
          /\ last + FrameTicks <= vtime - origin
      BY <3>2, <3>4
    <3>6. FrameTicks <= (vtime - origin) - last /\ (vtime - origin) - last < Wrap
      BY <1>1, <3>3, <3>5
    <3>7. /\ FrameTicks <= (vtime - origin) - video.last_dts
          /\ (vtime - origin) - video.last_dts < Wrap
      BY <3>4, <3>6
    <3>8. min_dts_diff_after(video, HeaderWith(tp, dts)) = FrameTicks
      <4>1. Spaced(video.last_dts, vtime, origin)
        BY <3>7 DEF Spaced
      <4>2. PICK st \in StreamState, td \in Int, o \in Int, d \in Int :
              st = video /\ td = vtime /\ o = origin /\ d = dts
        BY <1>1, <1>2
      <4>3. /\ st.min_dts_diff = FrameTicks /\ PeriodStart(o)
            /\ d = td % Wrap \/ d = Unset
            /\ Spaced(st.last_dts, td, o)
        BY <1>2, <3>2, <4>1, <4>2
      <4>4. min_dts_diff_after(st, HeaderWith(tp, d)) = FrameTicks
        BY <1>1, <4>3, DiffSteady
      <4> QED BY <4>2, <4>4
    <3> QED BY <1>7, <2>1, <3>8
  <2> QED BY <2>2, <2>3
<1> QED BY <1>7, <1>9, <1>10

(* At the start nothing was stamped.                                       *)
LEMMA InitGuessInv ==
  ASSUME NEW reach \in Nat, NEW drift \in Nat
  PROVE  Init => GuessInv(reach, drift)
<1> SUFFICES ASSUME Init
             PROVE  GuessInv(reach, drift)
  OBVIOUS
<1>1. SyncInv(reach) /\ pkt.kind = "none" /\ vtime \in Starts
  BY InitSyncInv DEF Init, NoPacket
<1>2. video.last_dts = Unset /\ video.min_dts_diff = FrameTicks /\ FrameTicks \in Nat
  BY TicksAssumption DEF Init, new_stream
<1>3. ~Known
  BY <1>1 DEF Known
<1>4. PeriodStart(origin)
  BY <1>1 DEF SyncInv, PeriodStart
<1>5. base_ts = Unset /\ Apart(vtime, atime, Skew + reach)
  BY <1>1 DEF SyncInv
<1> QED BY <1>1, <1>2, <1>3, <1>4, <1>5 DEF GuessInv

(* A video packet keeps the invariant.                                     *)
LEMMA VideoGuessInv ==
  ASSUME TypeOK, NEW reach \in Nat, NEW drift \in Nat, Near(reach),
         GuessesNear(reach, drift), GuessInv(reach, drift),
         NEW late \in Reorder, NEW own \in BOOLEAN,
         VideoFromCaller(late, own)
  PROVE  GuessInv(reach, drift)'
<1>1. /\ vtime \in Nat /\ atime \in Nat /\ late \in Nat /\ late <= reach /\ late <= Lead
      /\ Skew \in Nat /\ Lead \in Nat /\ FrameTicks \in Nat /\ vtime <= Horizon
      /\ origin \in Int /\ Starts \subseteq Nat
  BY StreamAssumption, TicksAssumption DEF TypeOK, Near, GuessesNear, VideoFromCaller, VideoPacket
<1>2. PICK gap \in Spacing : vtime' = vtime + gap
  BY DEF VideoFromCaller, VideoPacket
<1>3. gap \in Nat /\ gap <= reach /\ FrameTicks <= gap /\ (Steady => gap = FrameTicks)
  BY StreamAssumption DEF Near, GuessesNear, Steady
<1>4. vtime <= atime + Skew /\ atime' = atime /\ Apart(vtime, atime, Skew + reach)
  BY DEF VideoFromCaller, VideoPacket, GuessInv
<1>5. /\ Apart(vtime', atime', Skew + reach)
      /\ Apart(vtime, vtime', Skew + 2 * reach)
      /\ Apart(vtime, atime', Skew + 2 * reach)
  BY <1>1, <1>2, <1>3, <1>4 DEF Apart
<1>6. pkt'.kind = "video" /\ origin' = OriginAfter(vtime + late)
  BY TakeSets DEF VideoFromCaller, VideoPacket
<1>7. PeriodStart(origin')
  <2>1. vtime + late \in Int
    BY <1>1
  <2>2. CASE pkt.kind = "none"
    <3>1. origin' = (vtime + late) - ((vtime + late) % Wrap)
      BY <1>6, <2>2 DEF OriginAfter
    <3> QED BY <2>1, <3>1, OriginBegins DEF PeriodStart
  <2>3. CASE pkt.kind # "none"
    BY <1>6, <2>3 DEF OriginAfter, GuessInv
  <2> QED BY <2>2, <2>3
<1>8. video'.min_dts_diff <= FrameTicks
  <2> DEFINE hdr == HeaderWith(vtime + late, IF own THEN vtime % Wrap ELSE Unset)
  <2>1. video' = Stamped(base_ts, video, hdr, TRUE).st /\ video \in StreamState
    BY DEF VideoFromCaller, VideoPacket, HeaderWith, TypeOK
  <2>2. hdr.dts \in Int
    BY <1>1, RawStamp DEF HeaderWith, Unset
  <2> HIDE DEF hdr
  <2>3. video'.min_dts_diff = min_dts_diff_after(video, hdr)
    BY <2>1 DEF Stamped
  <2>4. /\ min_dts_diff_after(video, hdr) \in Nat
        /\ min_dts_diff_after(video, hdr) <= video.min_dts_diff
    BY <2>1, <2>2, DiffShrinks
  <2>5. video.min_dts_diff <= FrameTicks /\ video.min_dts_diff \in Nat
    BY <2>1 DEF GuessInv, StreamState
  <2> QED BY <1>1, <2>3, <2>4, <2>5
<1>9. ASSUME ~collided'
      PROVE  /\ video'.last_dts # Unset
             /\ base_ts' # Unset /\ base_ts' = pkt'.dts
             /\ pkt'.true_dts - drift <= base_ts' + origin'
             /\ base_ts' + origin' <= pkt'.true_dts
             /\ pkt'.pts = pkt'.true_pts - origin'
             /\ pkt'.own_dts => pkt'.dts = pkt'.true_dts - origin'
             /\ Apart(pkt'.true_dts, vtime', Skew + 2 * reach)
             /\ Apart(pkt'.true_dts, atime', Skew + 2 * reach)
             /\ origin' <= vtime' + Skew + reach
             /\ video'.last_dts + FrameTicks <= vtime' - origin'
             /\ Lagged(drift)'
  <2>1. /\ ~collided /\ origin' \in Int
        /\ Known => origin' = origin
        /\ ~Known => origin' <= vtime + late
        /\ pkt'.true_dts = vtime /\ pkt'.true_pts = vtime + late
        /\ pkt'.pts = (vtime + late) - origin'
        /\ pkt'.dts \in Int /\ pkt'.dts # Unset
        /\ base_ts' = pkt'.dts
        /\ pkt'.own_dts => pkt'.dts = vtime - origin'
        /\ pkt'.dts <= vtime - origin'
        /\ (vtime - origin') - drift <= pkt'.dts
    BY <1>9, VideoStamps
  <2>2. \/ pkt'.dts = vtime - origin'
        \/ /\ video.last_dts = Unset
           /\ pkt'.dts = ((vtime + late) - origin') - Lead
        \/ /\ video.last_dts # Unset
           /\ pkt'.dts = video.last_dts + video.min_dts_diff
    BY <1>9, VideoStamps
  <2>3. /\ video'.last_dts = pkt'.dts
        /\ (Steady /\ (Known /\ video.last_dts # Unset
                         => video.min_dts_diff = FrameTicks
                            /\ (vtime - origin) - (video.last_dts + FrameTicks) <= Lead))
              => video'.min_dts_diff = FrameTicks
    BY <1>9, VideoDiff
  <2>4. PICK d \in Int, org \in Int : d = pkt'.dts /\ org = origin'
    BY <2>1
  <2>5. d <= vtime - org /\ (vtime - org) - drift <= d
    BY <2>1, <2>4
  <2>6. vtime - drift <= d + org /\ d + org <= vtime
    BY <1>1, <2>4, <2>5
  <2>7. org <= vtime' + Skew + reach
    <3>1. Known => org <= vtime + Skew + reach
      BY <2>1, <2>4 DEF GuessInv, Stamps
    <3>2. ~Known => org <= vtime + late
      BY <2>1, <2>4
    <3>3. CASE Known
      BY <1>1, <1>2, <1>3, <2>4, <3>1, <3>3
    <3>4. CASE ~Known
      BY <1>1, <1>2, <1>3, <2>4, <3>2, <3>4
    <3> QED BY <3>3, <3>4
  <2>8. d + FrameTicks <= vtime' - org
    BY <1>1, <1>2, <1>3, <2>4, <2>5
  <2>9. video.last_dts # Unset => Known /\ Lagged(drift) /\ origin = org
    BY <2>1, <2>4 DEF GuessInv, Known
  <2>10. video.last_dts = Unset => vtime \in Starts
    BY <2>1 DEF GuessInv
  <2>11. PICK last \in Int, diff \in Nat \ {0} :
           last = video.last_dts /\ diff = video.min_dts_diff
    BY DEF TypeOK, StreamState
  <2>12. Lagged(drift)'
    <3>1. CASE ShortStream(drift)
                /\ (video.last_dts # Unset =>
                      \E s \in Starts : s <= vtime /\ s - Lead <= video.last_dts + origin)
      <4>1. \E s \in Starts : s <= vtime' /\ s - Lead <= d + org
        <5>1. CASE video.last_dts = Unset
          <6>1. vtime \in Starts /\ vtime <= vtime'
            BY <1>1, <1>2, <1>3, <2>10, <5>1
          <6>2. d = vtime - org \/ d = ((vtime + late) - org) - Lead
            BY <2>2, <2>4, <5>1
          <6>3. vtime - Lead <= d + org
            BY <1>1, <2>4, <6>2
          <6> QED BY <6>1, <6>3
        <5>2. CASE video.last_dts # Unset
          <6>1. PICK s \in Starts : s <= vtime /\ s - Lead <= video.last_dts + origin
            BY <3>1, <5>2
          <6>2. s \in Nat /\ s - Lead <= last + org
            BY <1>1, <2>9, <2>11, <5>2, <6>1
          <6>3. d = vtime - org \/ d = last + diff
            BY <2>2, <2>4, <2>11, <5>2
          <6>4. s <= vtime' /\ s - Lead <= d + org
            BY <1>1, <1>2, <1>3, <2>4, <2>11, <6>1, <6>2, <6>3
          <6> QED BY <6>4
        <5> QED BY <5>1, <5>2
      <4>2. \E s \in Starts : s <= vtime' /\ s - Lead <= video'.last_dts + origin'
        BY <2>3, <2>4, <4>1
      <4> QED BY <3>1, <4>2 DEF Lagged
    <3>2. CASE Steady
                /\ (video.last_dts # Unset =>
                      /\ video.min_dts_diff = FrameTicks
                      /\ (vtime - origin) - (video.last_dts + FrameTicks) <= Lead)
      <4>1. video'.min_dts_diff = FrameTicks
        BY <2>3, <3>2
      <4>2. (vtime' - org) - (d + FrameTicks) <= Lead
        <5>1. vtime' = vtime + FrameTicks
          BY <1>2, <1>3, <3>2
        <5>2. (vtime - org) - d <= Lead
          <6>1. CASE video.last_dts = Unset
            <7>1. d = vtime - org \/ d = ((vtime + late) - org) - Lead
              BY <2>2, <2>4, <6>1
            <7> QED BY <1>1, <2>4, <7>1
          <6>2. CASE video.last_dts # Unset
            <7>1. d = vtime - org \/ d = last + FrameTicks
              BY <2>2, <2>4, <2>11, <3>2, <6>2
            <7>2. (vtime - org) - (last + FrameTicks) <= Lead
              BY <2>9, <2>11, <3>2, <6>2
            <7> QED BY <1>1, <2>4, <2>11, <7>1, <7>2
          <6> QED BY <6>1, <6>2
        <5> QED BY <1>1, <2>4, <5>1, <5>2
      <4>3. (vtime' - origin') - (video'.last_dts + FrameTicks) <= Lead
        BY <2>3, <2>4, <4>2
      <4> QED BY <3>2, <4>1, <4>3 DEF Lagged, Steady
    <3> QED BY <2>9, <3>1, <3>2 DEF Lagged, GuessesNear
  <2> QED BY <1>5, <2>1, <2>3, <2>4, <2>6, <2>7, <2>8, <2>12
<1>10. (pkt'.kind = "none") => base_ts' = Unset /\ video'.last_dts = Unset
  BY <1>6
<1>11. (~collided' /\ video'.last_dts = Unset)
         => vtime' \in Starts /\ video'.min_dts_diff = FrameTicks
  BY <1>9
<1>12. (Known => Stamps(reach, drift))'
  BY <1>9 DEF Known, Stamps, Apart
<1>13. ((Known /\ video.last_dts # Unset)
          => video.last_dts + FrameTicks <= vtime - origin /\ Lagged(drift))'
  BY <1>9 DEF Known
<1>14. (Apart(vtime, atime, Skew + reach))'
  BY <1>5 DEF Apart
<1>15. PeriodStart(origin)'
  BY <1>7 DEF PeriodStart
<1> QED BY <1>8, <1>10, <1>11, <1>12, <1>13, <1>14, <1>15, Zenon DEF GuessInv

(* An audio packet, whose dts is its pts, keeps it too.                    *)
LEMMA AudioGuessInv ==
  ASSUME TypeOK, NEW reach \in Nat, NEW drift \in Nat, Near(reach),
         GuessesNear(reach, drift), GuessInv(reach, drift), AudioPacket
  PROVE  /\ GuessInv(reach, drift)'
         /\ ~collided' => /\ pkt'.pts = atime - origin' /\ pkt'.dts = atime - origin'
                          /\ origin' \in Int
                          /\ Known => origin' = origin
<1> DEFINE hdr == [pts |-> atime % Wrap, dts |-> atime % Wrap]
           org == OriginAfter(atime)
<1>1. /\ vtime \in Nat /\ atime \in Nat /\ atime \in Int /\ Skew \in Nat
      /\ AudioTicks \in Nat /\ AudioTicks <= reach
      /\ origin \in Int /\ 2 * (Skew + 3 * reach + drift) < Wrap /\ Wrap \in Nat
  BY StreamAssumption, WrapAssumption DEF TypeOK, Near, GuessesNear
<1>2. /\ atime <= vtime + Skew /\ vtime' = vtime /\ atime' = atime + AudioTicks
      /\ video' = video /\ Apart(vtime, atime, Skew + reach)
  BY DEF AudioPacket, GuessInv
<1> PICK own \in BOOLEAN : own = TRUE
  OBVIOUS
<1>3. Take("audio", audio, hdr, atime, atime, own)
  BY DEF AudioPacket
<1>4. hdr.pts = atime % Wrap
  OBVIOUS
<1> HIDE DEF hdr, org
<1>5. /\ pkt'.kind = "audio" /\ pkt'.true_pts = atime /\ pkt'.true_dts = atime
      /\ pkt'.pts = unroll_timestamp(base_ts, atime % Wrap)
      /\ pkt'.dts = unroll_timestamp(base_after(base_ts, atime % Wrap), atime % Wrap)
      /\ base_ts' = base_after(base_after(base_ts, atime % Wrap), atime % Wrap)
      /\ origin' = org
      /\ ~collided' => ~collided /\ pkt'.pts # Unset /\ pkt'.dts # Unset
  <2>1. PICK kind : kind = "audio"
    OBVIOUS
  <2>2. Take(kind, audio, hdr, atime, atime, own)
    BY <1>3, <2>1
  <2>3. /\ pkt'.kind = kind /\ pkt'.true_pts = atime /\ pkt'.true_dts = atime
        /\ pkt'.pts = unroll_timestamp(base_ts, hdr.pts)
        /\ origin' = OriginAfter(atime)
        /\ ~collided' => ~collided /\ pkt'.pts # Unset /\ pkt'.dts # Unset
    BY <2>2, TakeSets
  <2>4. LET b == base_after(base_ts, hdr.pts)
            d == IF kind = "video" THEN video_dts(audio, hdr) ELSE hdr.pts
        IN  pkt'.dts = unroll_timestamp(b, d) /\ base_ts' = base_after(b, d)
    BY <2>2, TakeSets
  <2> QED BY <1>4, <2>1, <2>3, <2>4 DEF org
<1>6. /\ Apart(vtime', atime', Skew + reach)
      /\ Apart(atime, vtime', Skew + 2 * reach)
      /\ Apart(atime, atime', Skew + 2 * reach)
  BY <1>1, <1>2 DEF Apart
<1>7. PeriodStart(origin')
  <2>1. CASE pkt.kind = "none"
    <3>1. origin' = atime - (atime % Wrap)
      BY <1>5, <2>1 DEF OriginAfter, org
    <3> QED BY <1>1, <3>1, OriginBegins DEF PeriodStart
  <2>2. CASE pkt.kind # "none"
    BY <1>5, <2>2 DEF OriginAfter, GuessInv, org
  <2> QED BY <2>1, <2>2
<1>8. ASSUME ~collided'
      PROVE  /\ pkt'.pts = atime - origin' /\ pkt'.dts = atime - origin'
             /\ base_ts' = atime - origin' /\ origin' \in Int
             /\ Known => origin' = origin
             /\ ~Known => origin' <= atime
             /\ pkt'.dts # Unset
  <2>1. ~collided /\ pkt'.pts # Unset /\ pkt'.dts # Unset
    BY <1>5, <1>8
  <2>2. Known => Apart(atime, pkt.true_dts, Skew + 3 * reach)
    <3> SUFFICES ASSUME Known
                 PROVE  Apart(atime, pkt.true_dts, Skew + 3 * reach)
      OBVIOUS
    <3>1. Apart(pkt.true_dts, atime, Skew + 2 * reach) /\ pkt.true_dts \in Int
      BY DEF GuessInv, Stamps, TypeOK
    <3> QED BY <1>1, <3>1 DEF Apart
  <2>3. /\ org \in Int /\ PeriodStart(org)
        /\ unroll_timestamp(base_ts, atime % Wrap) = atime - org
        /\ base_after(base_ts, atime % Wrap) = atime - org
        /\ Known => org = origin
        /\ ~Known => org <= atime
    BY <1>1, <2>1, <2>2, PtsInStep DEF org
  <2>4. PICK b \in Int : b = atime - org
    BY <1>1, <2>3
  <2>5. b # Unset
    BY <1>5, <2>1, <2>3, <2>4
  <2>6. HalfNear(atime - org, b)
    BY <1>1, <2>3, <2>4, WrapAssumption DEF HalfNear
  <2>7. unroll_timestamp(b, atime % Wrap) = b /\ base_after(b, atime % Wrap) = b
    BY <1>1, <2>3, <2>4, <2>5, <2>6, PtsExact
  <2> QED BY <1>5, <2>1, <2>3, <2>4, <2>7
<1>9. pkt'.kind # "none"
  BY <1>5
<1>10. ASSUME ~collided'
       PROVE  Stamps(reach, drift)'
  <2>1. PICK o \in Int : o = origin'
    BY <1>8, <1>10
  <2>2. /\ base_ts' = atime - o /\ pkt'.dts = atime - o /\ pkt'.pts = atime - o
        /\ pkt'.true_dts = atime /\ pkt'.true_pts = atime
    BY <1>5, <1>8, <1>10, <2>1
  <2>3. base_ts' # Unset /\ base_ts' = pkt'.dts
    BY <1>8, <1>10
  <2>4. base_ts' + o = atime /\ atime - drift <= atime
    BY <1>1, <2>2
  <2>5. o <= vtime' + Skew + reach
    <3>1. ASSUME Known
          PROVE  o <= vtime + Skew + reach
      BY <1>8, <1>10, <2>1, <3>1 DEF GuessInv, Stamps
    <3>2. ~Known => o <= atime
      BY <1>8, <1>10, <2>1
    <3>3. CASE ~Known
      <4>1. o <= atime
        BY <3>2, <3>3
      <4> QED BY <1>1, <1>2, <2>1, <4>1
    <3> QED BY <1>2, <3>1, <3>3
  <2>6. pkt'.pts = pkt'.true_pts - origin' /\ pkt'.dts = pkt'.true_dts - origin'
    BY <2>1, <2>2
  <2>7. /\ pkt'.true_dts - drift <= base_ts' + origin'
        /\ base_ts' + origin' <= pkt'.true_dts
        /\ origin' <= vtime' + Skew + reach
    BY <2>1, <2>2, <2>4, <2>5
  <2>8. /\ Apart(pkt'.true_dts, vtime', Skew + 2 * reach)
        /\ Apart(pkt'.true_dts, atime', Skew + 2 * reach)
    BY <1>6, <2>2
  <2> QED BY <2>3, <2>6, <2>7, <2>8 DEF Stamps, Apart
<1>11. ((~collided /\ video.last_dts = Unset)
          => vtime \in Starts /\ video.min_dts_diff = FrameTicks)'
  BY <1>2, <1>5 DEF GuessInv
<1>12. ((Known /\ video.last_dts # Unset)
          => video.last_dts + FrameTicks <= vtime - origin /\ Lagged(drift))'
  <2> SUFFICES ASSUME ~collided', video.last_dts # Unset
               PROVE  /\ video.last_dts + FrameTicks <= vtime - origin'
                      /\ Lagged(drift)'
    BY <1>2, <1>9 DEF Known
  <2>1. Known
    BY <1>5 DEF GuessInv, Known
  <2>2. origin' = origin
    BY <1>8, <2>1
  <2>3. video.last_dts + FrameTicks <= vtime - origin /\ Lagged(drift)
    BY <2>1 DEF GuessInv
  <2>4. Lagged(drift)'
    BY <1>2, <2>2, <2>3 DEF Lagged, Steady, ShortStream
  <2> QED BY <2>2, <2>3, <2>4
<1>13. (Known => Stamps(reach, drift))'
  BY <1>10 DEF Known
<1>14. (Apart(vtime, atime, Skew + reach))' /\ PeriodStart(origin)'
  BY <1>6, <1>7 DEF Apart, PeriodStart
<1>15. (video.min_dts_diff <= FrameTicks)'
  BY <1>2 DEF GuessInv
<1>16. (pkt.kind = "none" => base_ts = Unset /\ video.last_dts = Unset)'
  BY <1>9
<1>17. GuessInv(reach, drift)'
  BY <1>11, <1>12, <1>13, <1>14, <1>15, <1>16, Zenon DEF GuessInv
<1> QED BY <1>8, <1>17

(* Every step keeps it.                                                    *)
LEMMA NextGuessInv ==
  ASSUME NEW reach \in Nat, NEW drift \in Nat, Near(reach),
         GuessesNear(reach, drift), TypeOK, GuessInv(reach, drift),
         writer = "caller", [Next]_vars
  PROVE  GuessInv(reach, drift)'
<1>1. CASE UNCHANGED vars
  <2>1. /\ base_ts' = base_ts /\ video' = video /\ vtime' = vtime /\ atime' = atime
        /\ origin' = origin /\ pkt' = pkt /\ collided' = collided
    BY <1>1 DEF vars, stamps
  <2>2. Known' = Known /\ Stamps(reach, drift)' = Stamps(reach, drift)
        /\ Lagged(drift)' = Lagged(drift)
    BY <2>1 DEF Known, Stamps, Lagged, Apart, Steady, ShortStream
  <2> QED BY <2>1, <2>2 DEF GuessInv, Apart, PeriodStart
<1>2. ASSUME NEW late \in Reorder, NEW own_dts \in DtsThere,
             VideoFromCaller(late, own_dts)
      PROVE  GuessInv(reach, drift)'
  <2>1. own_dts \in BOOLEAN
    BY StreamAssumption
  <2> QED BY <1>2, <2>1, VideoGuessInv
<1>3. CASE AudioPacket
  BY <1>3, AudioGuessInv
<1>4. ASSUME NEW late \in Reorder, VideoFromAvToEs(late)
      PROVE  FALSE
  BY <1>4 DEF VideoFromAvToEs
<1> QED BY <1>1, <1>2, <1>3, <1>4 DEF Next

-----------------------------------------------------------------------------
(***************************************************************************)
(* What libavformat makes of the packets.                                  *)
(***************************************************************************)

(* Which invariant the timestamps have depends on the writer of the        *)
(* headers: av_to_es always gives a dts, another caller may not.           *)
StampInv(reach, drift) ==
  IF writer = "av_to_es" THEN SyncInv(reach) ELSE GuessInv(reach, drift)

(* The dts that libavformat compares with the next packet's: with          *)
(* av_to_es's headers that of the frame presented last so far, otherwise   *)
(* the last video frame's; and one before the next audio frame's.          *)
OrderInv ==
  /\ pkt.kind = "none" => cur_dts = [kind \in {"video", "audio"} |-> {}] /\ shown = {}
  /\ ~collided =>
       /\ \A last \in cur_dts["audio"] : last < atime - origin
       /\ IF writer = "av_to_es"
          THEN cur_dts["video"] = {latest - origin : latest \in shown}
          ELSE cur_dts["video"] = IF video.last_dts = Unset THEN {} ELSE {video.last_dts}

(* Nothing of a stream is known before the first packet, and the origin    *)
(* stays where the first packet put it.                                    *)
LEMMA OriginStays ==
  ASSUME OrderInv, ~collided, Known => origin' = origin
  PROVE  \/ origin' = origin
         \/ cur_dts["video"] = {} /\ cur_dts["audio"] = {} /\ shown = {}
BY DEF OrderInv, Known

(* A frame that av_to_es extracted is accepted if it is presented after    *)
(* all those decoded before it, and only then.                             *)
LEMMA AvToEsStep ==
  ASSUME NEW reach \in Nat, Near(reach), TypeOK, SyncInv(reach), OrderInv,
         NEW late \in Reorder, VideoFromAvToEs(late)
  PROVE  /\ SyncInv(reach)' /\ OrderInv'
         /\ ~collided' => (accepted' <=> ~Behind(pkt'.true_pts))
         /\ pkt'.kind = "video"
<1>1. vtime \in Nat /\ late \in Nat /\ shown \subseteq Nat /\ origin \in Int
      /\ atime \in Nat
      /\ cur_dts \in [{"video", "audio"} -> SUBSET Int]
  BY StreamAssumption DEF TypeOK
<1>2. PICK tp \in Nat : tp = vtime + late
  BY <1>1
<1>3. /\ writer = "av_to_es" /\ VideoPacket(late, tp % Wrap, FALSE)
      /\ tp = WrittenDts(tp, vtime)
  BY <1>2 DEF VideoFromAvToEs, WrittenDts
<1>4. /\ SyncInv(reach)'
      /\ ~collided' => /\ pkt'.pts = tp - origin' /\ pkt'.dts = tp - origin'
                       /\ origin' \in Int
                       /\ Known => origin' = origin
      /\ pkt'.kind = "video" /\ pkt'.true_pts = tp
  BY <1>2, <1>3, VideoSyncInv
<1>5. /\ accepted' = Accepts("video", pkt'.pts, pkt'.dts)
      /\ cur_dts' = IF accepted' THEN [cur_dts EXCEPT !["video"] = {pkt'.dts}]
                                 ELSE cur_dts
      /\ writer' = writer
      /\ ~collided' => ~collided
  BY <1>3, TakeSets DEF VideoPacket
<1>6. shown' = (IF Behind(tp) THEN shown ELSE {tp}) /\ atime' = atime
  BY <1>2, <1>3 DEF VideoPacket
<1>7. ASSUME ~collided'
      PROVE  /\ accepted' <=> ~Behind(tp)
             /\ \A last \in cur_dts'["audio"] : last < atime' - origin'
             /\ cur_dts'["video"] = {latest - origin' : latest \in shown'}
  <2>1. PICK org \in Int : org = origin'
    BY <1>4, <1>7
  <2>2. /\ pkt'.pts = tp - org /\ pkt'.dts = tp - org /\ tp - org \in Int
        /\ cur_dts["video"] = {latest - org : latest \in shown}
        /\ \A last \in cur_dts["audio"] : last < atime - org
    <3>1. /\ cur_dts["video"] = {latest - origin : latest \in shown}
          /\ \A last \in cur_dts["audio"] : last < atime - origin
      BY <1>3, <1>5, <1>7 DEF OrderInv
    <3>2. \/ origin' = origin
          \/ cur_dts["video"] = {} /\ cur_dts["audio"] = {} /\ shown = {}
      BY <1>4, <1>5, <1>7, OriginStays
    <3>3. CASE origin' = origin
      BY <1>1, <1>4, <1>7, <2>1, <3>1, <3>3
    <3>4. CASE cur_dts["video"] = {} /\ cur_dts["audio"] = {} /\ shown = {}
      BY <1>1, <1>4, <1>7, <2>1, <3>4
    <3> QED BY <3>2, <3>3, <3>4
  <2>3. accepted' <=> ~Behind(tp)
    <3>1. accepted' <=> \A last \in cur_dts["video"] : last < tp - org
      <4>1. Accepts("video", tp - org, tp - org)
              <=> \A last \in cur_dts["video"] : last < tp - org
        BY <2>2 DEF Accepts
      <4>2. accepted' = Accepts("video", tp - org, tp - org)
        BY <1>5, <2>2
      <4> QED BY <4>1, <4>2
    <3>2. (\A last \in cur_dts["video"] : last < tp - org)
            <=> \A latest \in shown : latest - org < tp - org
      BY <2>2
    <3>3. \A latest \in shown : (latest - org < tp - org) <=> ~ (tp <= latest)
      <4> SUFFICES ASSUME NEW latest \in shown
                   PROVE  (latest - org < tp - org) <=> ~ (tp <= latest)
        OBVIOUS
      <4>1. latest \in Nat
        BY <1>1
      <4> QED BY <1>2, <2>1, <4>1
    <3> QED BY <3>1, <3>2, <3>3 DEF Behind
  <2>4. cur_dts'["video"] = {latest - org : latest \in shown'}
    <3>1. CASE Behind(tp)
      BY <1>5, <1>6, <2>2, <2>3, <3>1
    <3>2. CASE ~Behind(tp)
      <4>1. cur_dts'["video"] = {tp - org}
        BY <1>1, <1>5, <2>2, <2>3, <3>2
      <4> QED BY <1>6, <3>2, <4>1
    <3> QED BY <3>1, <3>2
  <2>5. cur_dts'["audio"] = cur_dts["audio"]
    BY <1>1, <1>5
  <2> QED BY <1>6, <2>1, <2>2, <2>3, <2>4, <2>5
<1>8. OrderInv'
  BY <1>3, <1>4, <1>5, <1>7 DEF OrderInv
<1> QED BY <1>4, <1>7, <1>8

(* Another caller's frame is accepted, whether its dts was read or         *)
(* guessed.                                                                *)
LEMMA CallerStep ==
  ASSUME NEW reach \in Nat, NEW drift \in Nat, Near(reach),
         GuessesNear(reach, drift), TypeOK, GuessInv(reach, drift), OrderInv,
         NEW late \in Reorder, NEW own \in BOOLEAN, VideoFromCaller(late, own)
  PROVE  /\ OrderInv'
         /\ ~collided' => accepted'
<1>1. vtime \in Nat /\ late \in Nat /\ origin \in Int /\ atime \in Nat
      /\ video.last_dts \in Int
      /\ cur_dts \in [{"video", "audio"} -> SUBSET Int]
  BY StreamAssumption DEF TypeOK, StreamState
<1>2. writer = "caller"
  BY DEF VideoFromCaller
<1>3. /\ accepted' = Accepts("video", pkt'.pts, pkt'.dts)
      /\ cur_dts' = IF accepted' THEN [cur_dts EXCEPT !["video"] = {pkt'.dts}]
                                 ELSE cur_dts
      /\ writer' = writer /\ pkt'.kind = "video"
      /\ ~collided' => ~collided
  BY TakeSets DEF VideoFromCaller, VideoPacket
<1>4. atime' = atime
  BY DEF VideoFromCaller, VideoPacket
<1>5. ASSUME ~collided'
      PROVE  /\ accepted'
             /\ \A last \in cur_dts'["audio"] : last < atime' - origin'
             /\ cur_dts'["video"] = {video'.last_dts} /\ video'.last_dts # Unset
  <2>1. /\ pkt'.pts = (vtime + late) - origin' /\ origin' \in Int
        /\ pkt'.dts \in Int /\ pkt'.dts # Unset /\ pkt'.dts <= vtime - origin'
        /\ video.last_dts # Unset => video.last_dts < pkt'.dts
        /\ Known => origin' = origin
    BY <1>5, VideoStamps
  <2>2. video'.last_dts = pkt'.dts
    BY <1>5, VideoDiff
  <2>3. /\ \A last \in cur_dts["audio"] : last < atime - origin
        /\ cur_dts["video"] = IF video.last_dts = Unset THEN {} ELSE {video.last_dts}
    BY <1>2, <1>3, <1>5 DEF OrderInv
  <2>4. \/ origin' = origin
        \/ cur_dts["audio"] = {}
    BY <1>3, <1>5, <2>1, OriginStays
  <2>5. accepted'
    <3>1. \A last \in cur_dts["video"] : last < pkt'.dts
      BY <2>1, <2>3
    <3>2. pkt'.dts <= pkt'.pts
      BY <1>1, <2>1
    <3> QED BY <1>3, <3>1, <3>2 DEF Accepts
  <2>6. cur_dts'["video"] = {pkt'.dts} /\ cur_dts'["audio"] = cur_dts["audio"]
    BY <1>1, <1>3, <2>5
  <2> QED BY <1>4, <2>1, <2>2, <2>3, <2>4, <2>5, <2>6
<1>6. writer' # "av_to_es"
  BY <1>2, <1>3
<1>7. OrderInv'
  BY <1>3, <1>5, <1>6 DEF OrderInv
<1> QED BY <1>5, <1>7

(* So is every audio packet.                                               *)
LEMMA AudioStep ==
  ASSUME TypeOK, OrderInv, AudioPacket,
         ~collided' => /\ pkt'.pts = atime - origin' /\ pkt'.dts = atime - origin'
                       /\ origin' \in Int
                       /\ Known => origin' = origin
  PROVE  /\ OrderInv'
         /\ ~collided' => accepted'
<1>1. origin \in Int /\ atime \in Nat /\ AudioTicks \in Nat \ {0}
      /\ cur_dts \in [{"video", "audio"} -> SUBSET Int]
  BY StreamAssumption DEF TypeOK
<1>2. /\ accepted' = Accepts("audio", pkt'.pts, pkt'.dts)
      /\ cur_dts' = IF accepted' THEN [cur_dts EXCEPT !["audio"] = {pkt'.dts}]
                                 ELSE cur_dts
      /\ writer' = writer /\ pkt'.kind = "audio"
      /\ ~collided' => ~collided
  BY TakeSets DEF AudioPacket
<1>3. video' = video /\ shown' = shown /\ atime' = atime + AudioTicks
  BY DEF AudioPacket
<1>4. cur_dts'["video"] = cur_dts["video"]
  BY <1>1, <1>2
<1>5. ASSUME ~collided'
      PROVE  /\ accepted'
             /\ \A last \in cur_dts'["audio"] : last < atime' - origin'
             /\ IF writer' = "av_to_es"
                THEN cur_dts'["video"] = {latest - origin' : latest \in shown'}
                ELSE cur_dts'["video"] = IF video'.last_dts = Unset
                                         THEN {} ELSE {video'.last_dts}
  <2>1. /\ \A last \in cur_dts["audio"] : last < atime - origin
        /\ IF writer = "av_to_es"
           THEN cur_dts["video"] = {latest - origin : latest \in shown}
           ELSE cur_dts["video"] = IF video.last_dts = Unset THEN {} ELSE {video.last_dts}
    BY <1>2, <1>5 DEF OrderInv
  <2>2. \/ origin' = origin
        \/ cur_dts["video"] = {} /\ cur_dts["audio"] = {} /\ shown = {}
    BY <1>2, <1>5, OriginStays
  <2>3. \A last \in cur_dts["audio"] : last < atime - origin'
    BY <2>1, <2>2
  <2>4. accepted'
    <3>1. PICK d \in Int : d = atime - origin'
      BY <1>1, <1>5
    <3>2. Accepts("audio", d, d)
      BY <2>3, <3>1 DEF Accepts
    <3> QED BY <1>2, <1>5, <3>1, <3>2
  <2>5. cur_dts'["audio"] = {atime - origin'}
    BY <1>1, <1>2, <1>5, <2>4
  <2>6. \A last \in cur_dts'["audio"] : last < atime' - origin'
    BY <1>1, <1>3, <1>5, <2>5
  <2>7. CASE writer = "av_to_es"
    <3>1. cur_dts["video"] = {latest - origin' : latest \in shown}
      BY <2>1, <2>2, <2>7
    <3> QED BY <1>2, <1>3, <1>4, <2>4, <2>6, <2>7, <3>1
  <2>8. CASE writer # "av_to_es"
    BY <1>2, <1>3, <1>4, <2>1, <2>4, <2>6, <2>8
  <2> QED BY <2>7, <2>8
<1>6. OrderInv'
  BY <1>2, <1>5 DEF OrderInv
<1> QED BY <1>5, <1>6

(* What a step does to all of it.                                          *)
LEMMA StepAccepted ==
  ASSUME NEW reach \in Nat, NEW drift \in Nat, Near(reach),
         GuessesNear(reach, drift), TypeOK, StampInv(reach, drift), OrderInv, Next
  PROVE  /\ StampInv(reach, drift)' /\ OrderInv'
         /\ ~collided' =>
              (accepted' <=> ~ (/\ writer = "av_to_es"
                                /\ pkt'.kind = "video"
                                /\ Behind(pkt'.true_pts)))
<1>1. writer \in {"av_to_es", "caller"}
  BY StreamAssumption DEF TypeOK
<1>2. ASSUME NEW late \in Reorder, VideoFromAvToEs(late)
      PROVE  /\ StampInv(reach, drift)' /\ OrderInv'
             /\ writer = "av_to_es" /\ pkt'.kind = "video"
             /\ ~collided' => (accepted' <=> ~Behind(pkt'.true_pts))
  <2>1. writer = "av_to_es" /\ writer' = writer
    BY <1>2, TakeSets DEF VideoFromAvToEs, VideoPacket
  <2>2. SyncInv(reach)
    BY <2>1 DEF StampInv
  <2>3. /\ SyncInv(reach)' /\ OrderInv'
        /\ ~collided' => (accepted' <=> ~Behind(pkt'.true_pts))
        /\ pkt'.kind = "video"
    BY <1>2, <2>2, AvToEsStep
  <2> QED BY <2>1, <2>3 DEF StampInv
<1>3. ASSUME NEW late \in Reorder, NEW own_dts \in DtsThere,
             VideoFromCaller(late, own_dts)
      PROVE  /\ StampInv(reach, drift)' /\ OrderInv'
             /\ writer = "caller"
             /\ ~collided' => accepted'
  <2>1. own_dts \in BOOLEAN
    BY StreamAssumption
  <2>2. writer = "caller" /\ writer' = writer
    BY <1>3, TakeSets DEF VideoFromCaller, VideoPacket
  <2>3. GuessInv(reach, drift)
    BY <2>2 DEF StampInv
  <2>4. GuessInv(reach, drift)'
    BY <1>3, <2>1, <2>3, VideoGuessInv
  <2>5. OrderInv' /\ (~collided' => accepted')
    BY <1>3, <2>1, <2>3, CallerStep
  <2> QED BY <2>2, <2>4, <2>5 DEF StampInv
<1>4. ASSUME AudioPacket
      PROVE  /\ StampInv(reach, drift)' /\ OrderInv'
             /\ pkt'.kind = "audio"
             /\ ~collided' => accepted'
  <2>1. writer' = writer /\ pkt'.kind = "audio"
    BY <1>4, TakeSets DEF AudioPacket
  <2>2. /\ StampInv(reach, drift)'
        /\ ~collided' => /\ pkt'.pts = atime - origin' /\ pkt'.dts = atime - origin'
                         /\ origin' \in Int
                         /\ Known => origin' = origin
    <3>1. CASE writer = "av_to_es"
      BY <1>4, <2>1, <3>1, AudioSyncInv DEF StampInv
    <3>2. CASE writer # "av_to_es"
      BY <1>4, <2>1, <3>2, AudioGuessInv DEF StampInv
    <3> QED BY <3>1, <3>2
  <2> QED BY <1>4, <2>1, <2>2, AudioStep
<1>5. CASE \E late \in Reorder : VideoFromAvToEs(late)
  BY <1>2, <1>5
<1>6. CASE \E late \in Reorder, own_dts \in DtsThere : VideoFromCaller(late, own_dts)
  BY <1>3, <1>6
<1>7. CASE AudioPacket
  BY <1>4, <1>7
<1> QED BY <1>5, <1>6, <1>7 DEF Next

(* So it always holds.                                                     *)
LEMMA StampInvAlways ==
  ASSUME NEW CONSTANT reach \in Nat, NEW CONSTANT drift \in Nat,
         Near(reach), GuessesNear(reach, drift)
  PROVE  Spec => [](TypeOK /\ StampInv(reach, drift) /\ OrderInv)
<1>1. Init => TypeOK /\ StampInv(reach, drift) /\ OrderInv
  <2> SUFFICES ASSUME Init
               PROVE  TypeOK /\ StampInv(reach, drift) /\ OrderInv
    OBVIOUS
  <2>1. TypeOK /\ SyncInv(reach) /\ GuessInv(reach, drift)
    BY InitTypeOK, InitSyncInv, InitGuessInv
  <2>2. OrderInv
    <3>1. /\ cur_dts = [kind \in {"video", "audio"} |-> {}] /\ shown = {}
          /\ video.last_dts = Unset
      BY DEF Init, new_stream
    <3>2. cur_dts["video"] = {} /\ cur_dts["audio"] = {}
      BY <3>1
    <3> QED BY <3>1, <3>2 DEF OrderInv
  <2> QED BY <2>1, <2>2 DEF StampInv
<1>2. TypeOK /\ StampInv(reach, drift) /\ OrderInv /\ [Next]_vars
        => TypeOK' /\ StampInv(reach, drift)' /\ OrderInv'
  <2> SUFFICES ASSUME TypeOK, StampInv(reach, drift), OrderInv, [Next]_vars
               PROVE  TypeOK' /\ StampInv(reach, drift)' /\ OrderInv'
    OBVIOUS
  <2>1. TypeOK'
    BY NextTypeOK
  <2>2. CASE Next
    BY <2>1, <2>2, StepAccepted
  <2>3. CASE UNCHANGED vars
    <3>1. /\ writer' = writer /\ base_ts' = base_ts /\ video' = video /\ vtime' = vtime
          /\ atime' = atime /\ origin' = origin /\ pkt' = pkt /\ collided' = collided
          /\ cur_dts' = cur_dts /\ shown' = shown
      BY <2>3 DEF vars, stamps, checks
    <3>2. OrderInv' = OrderInv /\ SyncInv(reach)' = SyncInv(reach)
      BY <3>1 DEF OrderInv, SyncInv, Known, Apart, DtsTime, WrittenDts
    <3>3. Known' = Known /\ Stamps(reach, drift)' = Stamps(reach, drift)
          /\ Lagged(drift)' = Lagged(drift)
      BY <3>1 DEF Known, Stamps, Lagged, Apart, Steady, ShortStream
    <3>4. GuessInv(reach, drift)' = GuessInv(reach, drift)
      BY <3>1, <3>3 DEF GuessInv, Apart, PeriodStart
    <3> QED BY <2>1, <3>1, <3>2, <3>4 DEF StampInv
  <2> QED BY <2>1, <2>2, <2>3
<1> QED BY <1>1, <1>2, PTL DEF Spec

(* Streams that lack some of their video dts stay in step just as well, if *)
(* the frames come no sooner than the muxer's frame rate says: for ever    *)
(* when they keep exactly to it, and as long as the stream is short enough *)
(* for the guesses not to fall half a wrap behind when they do not.        *)
THEOREM InStepGuessed ==
  ASSUME NEW CONSTANT reach \in Nat, NEW CONSTANT drift \in Nat,
         Near(reach), GuessesNear(reach, drift)
  PROVE  Spec => []InStep
<1>1. TypeOK /\ StampInv(reach, drift) => InStep
  <2> SUFFICES ASSUME TypeOK, StampInv(reach, drift), Known
               PROVE  /\ pkt.pts = pkt.true_pts - origin
                      /\ pkt.own_dts => pkt.dts = pkt.true_dts - origin
    BY DEF Known, InStep
  <2>1. CASE writer = "av_to_es"
    BY <2>1 DEF StampInv, SyncInv
  <2>2. CASE writer # "av_to_es"
    BY <2>2 DEF StampInv, GuessInv, Stamps
  <2> QED BY <2>1, <2>2
<1> QED BY <1>1, StampInvAlways, PTL

(* And under the same conditions libavformat accepts every packet of a     *)
(* caller, whose dts init_next_av_packet reads or makes up; of the video   *)
(* that av_to_es extracted it refuses exactly the frames that are not      *)
(* presented after all those decoded before them.                          *)
THEOREM DtsAcceptedHolds ==
  ASSUME NEW CONSTANT reach \in Nat, NEW CONSTANT drift \in Nat,
         Near(reach), GuessesNear(reach, drift)
  PROVE  Spec => DtsAccepted
<1>1. TypeOK /\ StampInv(reach, drift) /\ OrderInv /\ [Next]_vars
        => [~collided' =>
              (accepted' <=> ~ (/\ writer = "av_to_es"
                                /\ pkt'.kind = "video"
                                /\ Behind(pkt'.true_pts)))]_vars
  BY StepAccepted
<1> QED BY <1>1, StampInvAlways, PTL DEF Spec, DtsAccepted
=============================================================================
