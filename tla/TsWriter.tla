------------------------------- MODULE TsWriter -------------------------------
(***************************************************************************)
(* The MPEG-TS muxer of libavformat/mpegtsenc.c.  mpegts_write_packet is   *)
(* given access units (and SCTE-35 sections) by libavformat's interleaver; *)
(* audio units are gathered into PES of limited size and duration, other   *)
(* units make a PES of their own, and mpegts_write_pes cuts a PES into     *)
(* packets, with tables, clock references and, at a constant rate, null    *)
(* packets in between.                                                     *)
(*                                                                         *)
(* A call of mpegts_write_packet decides at once which PES to write and    *)
(* what stays gathered; that is one step, which leaves the PES in `jobs`.  *)
(* Then each iteration of mpegts_write_pes's loop is a step, and the next  *)
(* call comes when all PES are written.                                    *)
(*                                                                         *)
(* Every unit has its timestamps: libavformat refuses or completes those   *)
(* that do not.  What a bitstream check adds to a unit (access unit        *)
(* delimiter, ADTS or Opus header) is part of its size.                    *)
(***************************************************************************)
EXTENDS TsPacket, Sequences, FiniteSets

CONSTANTS
  NumStreams,        \* streams other than SCTE-35 ones
  Video,             \* those of type AVMEDIA_TYPE_VIDEO
  Audio,             \* and AVMEDIA_TYPE_AUDIO
  NumSections,       \* scte_sections
  Kinds,             \* per stream the units that come: size, late, key, samples
  Gaps,              \* per stream the distances of successive dts
  Starts,            \* times from which the first gaps are counted
  SectionLens,       \* lengths of SCTE-35 sections
  TableLen,          \* lengths of the PAT, PMT and SDT sections
  MaxUnits,          \* bound: units and sections in all
  MaxPackets,        \* bound: packets in the file before padding stops
  pes_payload_size,
  max_delay,         \* in ticks of 90 kHz
  CBR,               \* mux_rate > 1
  copyts,            \* mpegts_copyts = 1
  PacketPcr,         \* how long a packet lasts at the mux rate, in PCR units
  PcrOffset,         \* and the 11 bytes of get_pcr
  pcr_packet_period,
  pat_packet_period, pat_period,   \* in loop iterations, in 90 kHz ticks
  sdt_packet_period, sdt_period,
  MaxQueued,         \* 5760 samples
  NOPTS              \* AV_NOPTS_VALUE

ASSUME StreamsAssumption == /\ NumStreams \in Nat \ {0} /\ NumSections \in Nat
                            /\ Video \subseteq 1 .. NumStreams
                            /\ Audio \subseteq 1 .. NumStreams
                            /\ Video \cap Audio = {}
ASSUME TimesAssumption == /\ pes_payload_size \in Nat \ {0}
                          /\ max_delay \in Nat
                          /\ {CBR, copyts} \subseteq BOOLEAN
                          /\ PacketPcr \in Nat \ {0} /\ PcrOffset \in Nat
                          /\ NOPTS \in Int
ASSUME PeriodsAssumption ==
  {pcr_packet_period, pat_packet_period, pat_period, sdt_packet_period,
   sdt_period, MaxQueued} \subseteq Nat \ {0}

Streams == 1 .. NumStreams

(* A unit has bytes, and times.                                            *)
ASSUME UnitsAssumption ==
  /\ Starts \subseteq Int
  /\ \A s \in Streams : /\ Gaps[s] \subseteq Int
                        /\ \A kind \in Kinds[s] :
                             kind \in [size : Nat \ {0}, late : Int, key : BOOLEAN,
                                      samples : Nat]

(* A section has its CRC, and a table's its header too.                    *)
SectionLen == Nat \ 0 .. 3

ASSUME SectionsAssumption ==
  /\ SectionLens \subseteq SectionLen
  /\ TableLen \in [sdt : SectionLen, pat : SectionLen, pmt : SectionLen]
ASSUME BoundsAssumption == MaxUnits \in Nat /\ MaxPackets \in Nat

(* A packet's pid is the number of its stream or section, or one of these. *)
Sections == NumStreams + 1 .. NumStreams + NumSections
PAT == 0
PMT == -1
SDT == -2
Null == -3
Pids == Streams \cup Sections \cup {PAT, PMT, SDT}

(* service->pcr_pid: the first video stream's, else the first stream's.    *)
PcrStream ==
  IF Video = {} THEN 1 ELSE CHOOSE s \in Video : \A t \in Video : s <= t

Unit == [id : Nat \ {0}, size : Nat \ {0}, pts : Int, dts : Int,
         key : BOOLEAN, samples : Nat]

(* A PES that is to be written: `left` of its bytes are, it is fresh until *)
(* the loop's first turn and at its start until its first packet.          *)
Pes == [s : Streams, units : Seq(Unit), pts : Int, dts : Int, key : BOOLEAN,
        left : Nat \ {0}, fresh : BOOLEAN, start : BOOLEAN]

(* What is gathered of a stream.                                           *)
Payload == [units : Seq(Unit), size : Nat, pts : Int, dts : Int, key : BOOLEAN]

VARIABLES
  held,         \* of each stream: payload, payload_size, payload_pts, ...
  queued,       \* opus_queued_samples
  prev_key,     \* prev_payload_key
  cc,           \* continuity counters
  tables,       \* countdowns and times of retransmit_si_info
  pcr_count,    \* service->pcr_packet_count
  first_pcr,
  sent,         \* packets written: avio_tell(pb) / TS_PACKET_SIZE
  jobs,         \* the PES that the current call still has to write
  given,        \* units given so far, per stream
  given_dts,    \* dts of the last one, per stream
  last_dts,     \* and of the last of all
  budget,       \* bound: units and sections still to come
  done,         \* history: units of each stream that were written
  wrote,        \* history: packets of the last step
  seen,         \* history: continuity counter last seen with each pid
  fed,          \* history: streams that had packets since the last PMT
  last_pcr      \* history: the last clock reference, its bits, packet and dts

payloadvars == <<held, queued>>
clockvars == <<tables, pcr_count, first_pcr>>
inputvars == <<given, given_dts, last_dts, budget>>
receiver == <<seen, fed, last_pcr>>
vars == <<payloadvars, prev_key, cc, clockvars, sent, jobs, inputvars,
          done, wrote, receiver>>

Empty == [units |-> << >>, size |-> 0, pts |-> NOPTS, dts |-> NOPTS, key |-> FALSE]

Packet == [pid : Pids \cup {Null}, cc : 0 .. 15, payload : BOOLEAN,
           key : BOOLEAN, pcr : Seq(Int), dts : Int]

TypeOK ==
  /\ held \in [Streams -> Payload]
  /\ queued \in [Streams -> Nat]
  /\ prev_key \in [Streams -> BOOLEAN]
  /\ cc \in [Pids -> 0 .. 15]
  /\ tables \in [sdt_count : Nat, pat_count : Nat, last_sdt_ts : Int, last_pat_ts : Int]
  /\ pcr_count \in Nat
  /\ first_pcr \in Int
  /\ sent \in Nat
  /\ jobs \in Seq(Pes)
  /\ given \in [Streams -> Nat] /\ done \in [Streams -> Nat]
  /\ given_dts \in [Streams -> Int] /\ last_dts \in Int
  /\ budget \in 0 .. MaxUnits
  /\ wrote \in Seq(Packet)
  /\ seen \in [Pids -> 0 .. 15]
  /\ fed \subseteq Streams
  /\ last_pcr \in [value : Int, coded : [base : Nat, ext : Nat], at : Int, dts : Int]

Init ==
  /\ held = [s \in Streams |-> Empty]
  /\ queued = [s \in Streams |-> 0]
  /\ prev_key = [s \in Streams |-> FALSE]
  /\ cc = [p \in Pids |-> 15]
  /\ tables = [sdt_count |-> sdt_packet_period - 1, pat_count |-> pat_packet_period - 1,
               last_sdt_ts |-> NOPTS, last_pat_ts |-> NOPTS]
  /\ pcr_count = pcr_packet_period
  /\ first_pcr = IF CBR /\ ~copyts THEN max_delay * PcrScale ELSE 0
  /\ sent = 0
  /\ jobs = << >>
  /\ given = [s \in Streams |-> 0]
  /\ \E start \in Starts : given_dts = [s \in Streams |-> start] /\ last_dts = start
  /\ budget = MaxUnits
  /\ done = [s \in Streams |-> 0]
  /\ wrote = << >>
  /\ seen = [p \in Pids |-> 15]
  /\ fed = {}
  /\ last_pcr = [value |-> 0, coded |-> [base |-> 0, ext |-> 0], at |-> -1, dts |-> 0]

-----------------------------------------------------------------------------
(***************************************************************************)
(* mpegts_write_packet: which units are gathered, which PES are written.   *)
(***************************************************************************)

(* A PES of the units gathered of stream s.                                *)
PesOf(s) ==
  [s |-> s, units |-> held[s].units, pts |-> held[s].pts, dts |-> held[s].dts,
   key |-> held[s].key, left |-> held[s].size, fresh |-> TRUE, start |-> TRUE]

(* The PES of the streams in chosen, as a loop over all streams comes to   *)
(* them.                                                                   *)
PesOfAll(chosen) ==
  LET upto[i \in 0 .. NumStreams] ==
        IF i = 0 THEN << >>
        ELSE IF i \in chosen THEN Append(upto[i - 1], PesOf(i)) ELSE upto[i - 1]
  IN  upto[NumStreams]

(* A PES of one unit.                                                      *)
UnitPes(s, u) ==
  [s |-> s, units |-> <<u>>, pts |-> u.pts, dts |-> u.dts, key |-> u.key,
   left |-> u.size, fresh |-> TRUE, start |-> TRUE]

(* Mutation: what was written stays gathered.                              *)
Emptied_Not(h) == h

(* payload_size = 0: nothing is gathered any more.                         *)
Emptied(h) ==
  [units |-> << >>, size |-> 0, pts |-> h.pts, dts |-> h.dts, key |-> h.key]

(* Mutation: every unit sets the timestamps.                               *)
Gathered_Restamped(h, u) ==
  [units |-> Append(h.units, u), size |-> h.size + u.size,
   pts |-> u.pts, dts |-> u.dts, key |-> u.key]

(* A unit joins the payload; the first gives the PES its timestamps.       *)
Gathered(h, u) ==
  LET first == IF h.size = 0 THEN u ELSE h
  IN  [units |-> Append(h.units, u), size |-> h.size + u.size,
       pts |-> first.pts, dts |-> first.dts, key |-> first.key]

(* Mutation: a stream is looked at only when its own units come.           *)
Stale_Never(s, dts) == FALSE

(* Any stream's payload is written when a unit of any stream is max_delay  *)
(* later than its first.                                                   *)
Stale(s, dts) == held[s].size > 0 /\ dts - held[s].dts > max_delay

(* Mutation: the size limit is looked at before the unit is added.         *)
Full_OffByOne(s, u) ==
  \/ held[s].size > pes_payload_size
  \/ u.dts - held[s].dts >= max_delay
  \/ queued[s] + u.samples >= MaxQueued

(* The unit may not join its stream's payload any more.                    *)
Full(s, u) ==
  \/ held[s].size + u.size > pes_payload_size
  \/ u.dts - held[s].dts >= max_delay
  \/ queued[s] + u.samples >= MaxQueued

(* mpegts_write_packet_internal for the unit u of stream s.                *)
WriteUnit(s, u) ==
  LET kept   == [i \in Streams |-> IF Stale(i, u.dts) THEN Emptied(held[i]) ELSE held[i]]
      full   == kept[s].size > 0 /\ Full(s, u)
      mine   == IF full THEN Emptied(kept[s]) ELSE kept[s]
      direct == s \notin Audio \/ u.size > pes_payload_size
  IN  /\ jobs' = PesOfAll({i \in Streams : Stale(i, u.dts)})
                   \o (IF full THEN <<PesOf(s)>> ELSE << >>)
                   \o (IF direct THEN <<UnitPes(s, u)>> ELSE << >>)
      /\ held' = [kept EXCEPT ![s] = IF direct THEN mine ELSE Gathered(mine, u)]
      /\ queued' = [queued EXCEPT ![s] = IF direct THEN 0
                                         ELSE (IF full THEN 0 ELSE @) + u.samples]

(* Without mpegts_copyts all timestamps are moved by twice max_delay.      *)
Shift == IF copyts THEN 0 ELSE 2 * max_delay

(* The next unit of a stream, in the interleaver's order of dts.           *)
GiveUnit(s, kind, gap) ==
  LET dts == given_dts[s] + gap
  IN  /\ jobs = << >>
      /\ budget > 0
      /\ dts >= last_dts
      /\ WriteUnit(s, [id |-> given[s] + 1, size |-> kind.size,
                       pts |-> dts + kind.late + Shift, dts |-> dts + Shift,
                       key |-> kind.key, samples |-> kind.samples])
      /\ given' = [given EXCEPT ![s] = @ + 1]
      /\ given_dts' = [given_dts EXCEPT ![s] = dts]
      /\ last_dts' = dts
      /\ budget' = budget - 1
      /\ wrote' = << >>
      /\ UNCHANGED <<prev_key, cc, clockvars, sent, done, receiver>>

(* mpegts_write_flush, at the end and when libavformat is told to flush.   *)
Flush ==
  LET rest == {i \in Streams : held[i].size > 0}
  IN  /\ jobs = << >>
      /\ rest # {}
      /\ jobs' = PesOfAll(rest)
      /\ held' = [s \in Streams |-> Emptied(held[s])]
      /\ queued' = [s \in Streams |-> IF held[s].size > 0 THEN 0 ELSE queued[s]]
      /\ wrote' = << >>
      /\ UNCHANGED <<prev_key, cc, clockvars, sent, inputvars, done, receiver>>

-----------------------------------------------------------------------------
(***************************************************************************)
(* Packets.                                                                *)
(***************************************************************************)

(* mpegts_insert_null_packet, and the fields that most packets have.       *)
NullPacket ==
  [pid |-> Null, cc |-> 0, payload |-> TRUE, key |-> FALSE, pcr |-> << >>, dts |-> 0]

(* The packets of a section of len bytes.                                  *)
SectionOf(pid, len) ==
  [k \in 1 .. SectionPackets(len) |->
     [NullPacket EXCEPT !.pid = pid, !.cc = (cc[pid] + k) % 16]]

(* The continuity counter a receiver last saw with pid p, before the k-th  *)
(* of the packets.                                                         *)
LastSeen(packets, k, p) ==
  LET mine == {m \in 1 .. k - 1 : packets[m].pid = p}
  IN  IF mine = {} THEN seen[p]
      ELSE packets[CHOOSE m \in mine : \A i \in mine : i <= m].cc

(* avio_write of the packets, and what a receiver has seen behind them.    *)
WritePackets(packets) ==
  LET n == Len(packets)
      own == packets[n]
  IN  /\ wrote' = packets
      /\ sent' = sent + n
      /\ seen' = [p \in Pids |-> LastSeen(packets, n + 1, p)]
      /\ fed' = (IF \E k \in 1 .. n : packets[k].pid = PMT THEN {} ELSE fed)
                  \cup ({own.pid} \cap {p \in Streams : own.payload})
      /\ last_pcr' = IF own.pcr = << >> THEN last_pcr
                     ELSE [value |-> own.pcr[1], coded |-> write_pcr_bits(own.pcr[1]),
                           at |-> sent + n - 1, dts |-> own.dts]

(* An SCTE-35 section goes out as it is, past everything else.             *)
GiveSection(p, len) ==
  /\ jobs = << >>
  /\ budget > 0
  /\ budget' = budget - 1
  /\ WritePackets(SectionOf(p, len))
  /\ cc' = [cc EXCEPT ![p] = (@ + SectionPackets(len)) % 16]
  /\ UNCHANGED <<payloadvars, prev_key, clockvars, jobs, given, given_dts, last_dts, done>>

-----------------------------------------------------------------------------
(***************************************************************************)
(* mpegts_write_pes: one turn of its loop for the PES j.                   *)
(***************************************************************************)

Larger(a, b) == IF a >= b THEN a ELSE b

(* Mutation: a key frame does not force the tables.                        *)
ForcePat_Never(j) == FALSE

(* A key frame behind one that is not has the PAT and PMT written first.   *)
ForcePat(j) == j.fresh /\ j.s \in Video /\ j.key /\ ~prev_key[j.s]

SdtDue(dts) ==
  \/ tables.sdt_count + 1 = sdt_packet_period
  \/ tables.last_sdt_ts = NOPTS
  \/ dts - tables.last_sdt_ts >= sdt_period

PatDue(dts, force_pat) ==
  \/ tables.pat_count + 1 = pat_packet_period
  \/ tables.last_pat_ts = NOPTS
  \/ dts - tables.last_pat_ts >= pat_period
  \/ force_pat

(* retransmit_si_info: the packets of the tables, and its own state.       *)
TablePackets(sdt, pat) ==
  (IF sdt THEN SectionOf(SDT, TableLen.sdt) ELSE << >>)
    \o (IF pat THEN SectionOf(PAT, TableLen.pat) \o SectionOf(PMT, TableLen.pmt) ELSE << >>)

TablesAfter(sdt, pat, dts) ==
  [sdt_count   |-> IF sdt THEN 0 ELSE tables.sdt_count + 1,
   pat_count   |-> IF pat THEN 0 ELSE tables.pat_count + 1,
   last_sdt_ts |-> IF sdt THEN Larger(dts, tables.last_sdt_ts) ELSE tables.last_sdt_ts,
   last_pat_ts |-> IF pat THEN Larger(dts, tables.last_pat_ts) ELSE tables.last_pat_ts]

(* Mutation: & 0xf is missing.                                             *)
CountersAfter_NoWrap(sdt, pat, own) ==
  [p \in Pids |-> IF p = own THEN cc[p] + 1 ELSE cc[p]]

(* cc once the packets are written, the own packet of the turn included.   *)
CountersAfter(sdt, pat, own) ==
  LET n(p) == IF sdt /\ p = SDT THEN SectionPackets(TableLen.sdt)
              ELSE IF pat /\ p = PAT THEN SectionPackets(TableLen.pat)
              ELSE IF pat /\ p = PMT THEN SectionPackets(TableLen.pmt)
              ELSE IF p = own THEN 1 ELSE 0
  IN  [p \in Pids |-> (cc[p] + n(p)) % 16]

(* Mutation: the clock starts over with every PES.                         *)
FirstPcr_Always(j) ==
  IF j.fresh /\ copyts THEN (j.dts - max_delay) * PcrScale ELSE first_pcr

(* first_pcr, which 0 says was not set yet.                                *)
FirstPcr(j) ==
  IF j.fresh /\ copyts /\ first_pcr = 0 THEN (j.dts - max_delay) * PcrScale ELSE first_pcr

(* Mutation: the clock counts the units written, not the packets.          *)
get_pcr_NoNull(n, first) == done[PcrStream] * PacketPcr + PcrOffset + first

(* The clock behind n packets.                                             *)
get_pcr(n, first) == n * PacketPcr + PcrOffset + first

(* Mutation: max_delay on the wrong side.                                  *)
TooEarly_Off(j, n, first) == CBR /\ j.dts - Ticks(get_pcr(n, first)) + max_delay > 0

(* At a constant rate nothing is sent more than max_delay before its dts.  *)
TooEarly(j, n, first) == CBR /\ j.dts - Ticks(get_pcr(n, first)) > max_delay

(* Mutation: every packet of the PCR stream is counted at any rate.        *)
PcrCount_Any(j) == IF j.s = PcrStream THEN pcr_count + 1 ELSE pcr_count

(* pcr_packet_count: turns at a constant rate, PES at a variable one.      *)
PcrCount(j) ==
  IF j.s = PcrStream /\ (CBR \/ j.start) THEN pcr_count + 1 ELSE pcr_count

(* The turn of the loop that comes next: tables first, then the clock.     *)
Turn(j) ==
  LET sdt   == SdtDue(j.dts)
      pat   == PatDue(j.dts, ForcePat(j))
      first == FirstPcr(j)
      n     == sent + Len(TablePackets(sdt, pat))
      due   == j.s = PcrStream /\ PcrCount(j) >= pcr_packet_period
  IN  [sdt |-> sdt, pat |-> pat, first |-> first, n |-> n,
       pcr_count |-> IF due THEN 0 ELSE PcrCount(j), write_pcr |-> due,
       pad |-> TooEarly(j, n, first)]

(* What every turn does.                                                   *)
Turned(j, t, own, packet) ==
  /\ tables' = TablesAfter(t.sdt, t.pat, j.dts)
  /\ pcr_count' = t.pcr_count
  /\ first_pcr' = t.first
  /\ cc' = CountersAfter(t.sdt, t.pat, own)
  /\ \E packets \in {Append(TablePackets(t.sdt, t.pat), packet)} : WritePackets(packets)
  /\ UNCHANGED <<payloadvars, inputvars>>

(* The PES being written, if there is one.                                 *)
InHand == IF jobs = << >> THEN {} ELSE {Head(jobs)}

(* Mutation: the packet counts although it has no payload.                 *)
PcrOnly_Counts(j, pcr) ==
  [NullPacket EXCEPT !.pid = j.s, !.cc = (cc[j.s] + 1) % 16, !.payload = FALSE,
                     !.pcr = <<pcr>>, !.dts = j.dts]

(* mpegts_insert_pcr_only: no payload, so the counter stays.               *)
PcrOnly(j, pcr) ==
  [NullPacket EXCEPT !.pid = j.s, !.cc = cc[j.s], !.payload = FALSE,
                     !.pcr = <<pcr>>, !.dts = j.dts]

(* The PES is early: a clock reference that is due goes out alone, else a  *)
(* null packet does.                                                       *)
Pad ==
  /\ sent < MaxPackets
  /\ \E j \in InHand : \E t \in {Turn(j)} :
       /\ t.pad
       /\ Turned(j, t, Null,
            IF t.write_pcr THEN PcrOnly(j, get_pcr(t.n, t.first)) ELSE NullPacket)
       /\ jobs' = <<[j EXCEPT !.fresh = FALSE]>> \o Tail(jobs)
  /\ UNCHANGED <<prev_key, done>>

(* The first packet of a key frame's PES is a point of random access.      *)
RandomAccess(j) == j.key /\ j.start

(* How the next packet of the PES is laid out.                             *)
Layout(j, write_pcr) ==
  PesPacket(AfBytes(RandomAccess(j), write_pcr), PesHeader(j.start, j.dts # j.pts, FALSE),
            j.left)

(* A packet of the PES, the last of which ends its loop.                   *)
Emit ==
  \E j \in InHand : \E t \in {Turn(j)} :
    LET write_pcr == t.write_pcr \/ (RandomAccess(j) /\ j.s = PcrStream)
        pcr == IF CBR THEN get_pcr(t.n, t.first) ELSE (j.dts - max_delay) * PcrScale
        rest == [j EXCEPT !.left = @ - Layout(j, write_pcr).len,
                          !.fresh = FALSE, !.start = FALSE]
    IN  /\ ~t.pad
        /\ Turned(j, t, j.s,
             [pid |-> j.s, cc |-> (cc[j.s] + 1) % 16, payload |-> TRUE,
              key |-> RandomAccess(j), pcr |-> IF write_pcr THEN <<pcr>> ELSE << >>,
              dts |-> j.dts])
        /\ IF rest.left > 0
           THEN /\ jobs' = <<rest>> \o Tail(jobs)
                /\ UNCHANGED <<prev_key, done>>
           ELSE /\ jobs' = Tail(jobs)
                /\ prev_key' = [prev_key EXCEPT ![j.s] = j.key]
                /\ done' = [done EXCEPT ![j.s] = @ + Len(j.units)]

Next ==
  \/ \E s \in Streams : \E kind \in Kinds[s], gap \in Gaps[s] : GiveUnit(s, kind, gap)
  \/ \E p \in Sections, len \in SectionLens : GiveSection(p, len)
  \/ Flush
  \/ Pad
  \/ Emit

Spec == Init /\ [][Next]_vars

(* A call of the muxer runs on until it returns.                           *)
FairSpec == Spec /\ WF_vars(Pad \/ Emit)

-----------------------------------------------------------------------------
(* What a receiver checks: with each pid the continuity counter goes on by *)
(* one from packet to packet, and stays for one without payload (ISO/IEC   *)
(* 13818-1, 2.4.3.3), across tables, PES and sections in any order.        *)
ContinuousPackets(packets) ==
  \A k \in 1 .. Len(packets) :
    LET before == LastSeen(packets, k, packets[k].pid)
    IN  packets[k].pid \in Pids =>
          packets[k].cc = IF packets[k].payload THEN (before + 1) % 16 ELSE before

Continuous == [][sent' # sent => ContinuousPackets(wrote')]_vars

(* The units of stream s that were given and are not written yet: those of *)
(* the PES in hand, then those gathered.                                   *)
Pending(s) ==
  LET ids(units) == [k \in 1 .. Len(units) |-> units[k].id]
      upto[n \in 0 .. Len(jobs)] ==
        IF n = 0 THEN << >>
        ELSE IF jobs[n].s = s THEN upto[n - 1] \o ids(jobs[n].units) ELSE upto[n - 1]
  IN  upto[Len(jobs)] \o ids(held[s].units)

(* Every unit is written once, and those of a stream in their order:       *)
(* gathering, the limits and the PES of large units never overtake, lose   *)
(* or repeat one (mpegtsenc.c:1796 asserts a part of this).                *)
InOrderOnce ==
  \A s \in Streams : Pending(s) = [k \in 1 .. given[s] - done[s] |-> done[s] + k]

(* f[1] + ... + f[n]                                                       *)
Total(f, n) ==
  LET sum[k \in 0 .. n] == IF k = 0 THEN 0 ELSE sum[k - 1] + f[k]
  IN  sum[n]

Bytes(units) == Total([k \in 1 .. Len(units) |-> units[k].size], Len(units))

Samples(units) == Total([k \in 1 .. Len(units) |-> units[k].samples], Len(units))

Fits(units, size, pts, dts) ==
  /\ size = Bytes(units)
  /\ pts = units[1].pts /\ dts = units[1].dts
  /\ Len(units) > 1 =>
       /\ size <= pes_payload_size
       /\ Samples(units) < MaxQueued
       /\ \A k \in 1 .. Len(units) : units[k].dts - dts < max_delay

(* A PES holds whole units, has the timestamps of its first, and is longer *)
(* than pes_payload_size, max_delay or 120 ms of Opus only if a single     *)
(* unit is, even though the count of samples is not reset when another     *)
(* stream's unit flushes what was gathered.                                *)
PesFits ==
  /\ \A s \in Streams :
       held[s].units # << >> => Fits(held[s].units, held[s].size, held[s].pts, held[s].dts)
  /\ \A n \in 1 .. Len(jobs) :
       jobs[n].fresh => Fits(jobs[n].units, jobs[n].left, jobs[n].pts, jobs[n].dts)

(* What is gathered fits into the memory that mpegts_init allocated for it *)
(* (mpegtsenc.c:875), whatever comes in whatever sizes.                    *)
PayloadFits == \A s \in Streams : held[s].size <= pes_payload_size

(* No gathered unit waits for longer than max_delay in the dts of any      *)
(* stream, however rarely its own stream's units come.                     *)
NotHeldBack ==
  \A s \in Streams : held[s].units # << >> => last_dts + Shift - held[s].dts <= max_delay

(* The clock references are one clock: at a constant rate they are as far  *)
(* apart as the packets between them last, tables, sections and padding    *)
(* included, whatever call wrote them.                                     *)
OneClock ==
  [][last_pcr' # last_pcr /\ last_pcr.at >= 0 /\ CBR =>
       last_pcr'.value - last_pcr.value = (last_pcr'.at - last_pcr.at) * PacketPcr]_vars

(* At any rate clock references increase from one to the next.             *)
PcrIncreases ==
  [][last_pcr' # last_pcr /\ last_pcr.at >= 0 => last_pcr'.value > last_pcr.value]_vars

(* At a rate that the streams fit in, no clock reference is after the dts  *)
(* of the PES that it comes with, the sort of stream that mpegtsenc.c:1277 *)
(* calls invalid.  (It says nothing of a PES without one: a gathered audio *)
(* PES may begin late because of the video and the tables before it.)      *)
PcrBeforeDts == last_pcr.at >= 0 => Ticks(last_pcr.value) <= last_pcr.dts

(* The dts of all that waits: of the PES in hand and those behind it, and  *)
(* of what is gathered of any stream.                                      *)
Waiting ==
  {jobs[n].dts : n \in 1 .. Len(jobs)}
    \cup {held[s].dts : s \in {t \in Streams : held[t].size > 0}}

(* Padding makes nothing late: a null packet, or a clock reference alone,  *)
(* is begun only while the clock is before the dts of every unit that      *)
(* waits, gathered units of other streams included, at whatever rate.  If  *)
(* a PES comes late, payload and tables have taken its time.               *)
PaddingLeavesTime ==
  [][\A p \in {wrote'[k] : k \in {Len(wrote')} \ {0}} :
       (sent' # sent /\ (p.pid = Null \/ ~p.payload))
         => \A dts \in Waiting : Ticks(get_pcr(sent' - 1, first_pcr')) < dts]_vars

(* A receiver reads the clock that was written, modulo its 33 bits and     *)
(* remainder, also across their wrap; except that before time 0, which     *)
(* comes when the first dts is less than max_delay, it reads a clock that  *)
(* is ahead by 512 or 512 + 300 units (mpegtsenc.c:1090).                  *)
PcrReadsBack ==
  last_pcr.at >= 0 =>
    PcrError(last_pcr.value, last_pcr.coded) \in
      IF last_pcr.value >= 0 \/ last_pcr.value % PcrScale = 0
      THEN {0} ELSE {512, 512 + PcrScale}

(* A video key frame behind one that is not is behind a PAT and PMT of its *)
(* own, so that a receiver can start with it, however much padding and     *)
(* however many audio PES are in between (mpegtsenc.c:992 says so).        *)
KeyAfterTables ==
  [][\A k \in 1 .. Len(wrote') :
       LET p == wrote'[k]
       IN  (sent' # sent /\ p.key /\ p.pid \in Video /\ ~prev_key[p.pid])
             => p.pid \notin fed \/ \E m \in 1 .. k - 1 : wrote'[m].pid = PMT]_vars

(* Each call ends: padding reaches the time of the PES that it waits for.  *)
WriteEnds == (jobs # << >>) ~> (jobs = << >>)
=============================================================================
