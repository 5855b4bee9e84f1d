------------------------------- MODULE TsPacket -------------------------------
(***************************************************************************)
(* The layout of the transport-stream packets that mpegtsenc.c writes, as  *)
(* pure operators: how mpegts_write_pes divides a packet among adaptation  *)
(* field, PES header, payload and stuffing, into how many packets          *)
(* mpegts_write_section cuts a section, and how write_pcr_bits codes a     *)
(* clock reference.                                                        *)
(*                                                                         *)
(* Not here: DVB subtitles and teletext, whose PES headers are padded, and *)
(* the 4-byte prefix of m2ts files; no program of the repository asks for  *)
(* either.                                                                 *)
(***************************************************************************)
EXTENDS Integers

CONSTANTS
  TS_PACKET_SIZE,      \* 188
  PcrScale,            \* 300: units of a clock reference in a tick of 90 kHz
  PcrWrap              \* 2^33 of these ticks

(* The longest headers, counted below, leave room for payload.             *)
ASSUME PacketSizeAssumption == TS_PACKET_SIZE \in Nat /\ TS_PACKET_SIZE > 34

(* The remainder fits into its nine bits; the ticks have bits themselves.  *)
ASSUME PcrAssumption ==
  /\ PcrScale \in 1 .. 512
  /\ PcrWrap \in Nat \ {0}
  /\ PcrWrap % 2 = 0
  /\ PcrWrap * PcrScale > 1024

(* Sync byte, pid, flags and continuity counter.                           *)
TsHeader == 4

(* The adaptation field before stuffing: its length and flags bytes when   *)
(* set_af_flag was called, and the six of write_pcr_bits.                  *)
AfBytes(random_access, write_pcr) ==
  IF write_pcr THEN 8 ELSE IF random_access THEN 2 ELSE 0

(* Start code, stream id, length, flags, pts, a dts of its own, extension. *)
PesHeader(is_start, own_dts, pes_extension) ==
  IF is_start
  THEN 9 + 5 + (IF own_dts THEN 5 ELSE 0) + (IF pes_extension THEN 3 ELSE 0)
  ELSE 0

(* Payload bytes that go into a packet behind header_len others.           *)
PayloadLen(header_len, payload_size) ==
  IF TS_PACKET_SIZE - header_len > payload_size
  THEN payload_size
  ELSE TS_PACKET_SIZE - header_len

(* The adaptation field with its stuffing: an existing one grows, and one  *)
(* made for the purpose is all stuffing, its length byte included.         *)
StuffedAf(af, stuffing_len) ==
  IF stuffing_len = 0 THEN af ELSE IF af > 0 THEN af + stuffing_len ELSE stuffing_len

(* A packet of mpegts_write_pes: the bytes of its adaptation field, of the *)
(* PES header and of the payload.                                          *)
PesPacket(af, pes, payload_size) ==
  LET header_len == TsHeader + af + pes
      len == PayloadLen(header_len, payload_size)
  IN  [af  |-> StuffedAf(af, TS_PACKET_SIZE - header_len - len),
       pes |-> pes,
       len |-> len]

(* The packets of a section of len bytes; the first has a byte less.       *)
SectionPackets(len) ==
  LET room == TS_PACKET_SIZE - TsHeader
  IN  IF len <= room - 1 THEN 1 ELSE 1 + (len - (room - 1) + room - 1) \div room

-----------------------------------------------------------------------------
(* C's division: towards 0.                                                *)
Ticks(pcr) == IF pcr >= 0 THEN pcr \div PcrScale ELSE - ((- pcr) \div PcrScale)

(* Mutation: the remainder has a byte only.                                *)
write_pcr_bits_Byte(pcr) ==
  LET pcr_high == Ticks(pcr)
      pcr_low  == pcr - pcr_high * PcrScale
  IN  [base |-> pcr_high % PcrWrap, ext |-> pcr_low % 256]

(* The ticks, and the remainder, which has nine bits below six set ones    *)
(* and the last bit of the ticks.  They are put together with |: the sign  *)
(* bits of a negative remainder set that last bit too.                     *)
write_pcr_bits(pcr) ==
  LET pcr_high == Ticks(pcr)
      pcr_low  == pcr - pcr_high * PcrScale
      high     == pcr_high % PcrWrap
  IN  [base |-> IF pcr_low < 0 /\ high % 2 = 0 THEN high + 1 ELSE high,
       ext  |-> pcr_low % 512]

(* The clock that a receiver reads, in program_clock_reference_base and    *)
(* _extension.                                                             *)
ReadPcr(bits) == bits.base * PcrScale + bits.ext

(* How far the clock that is read is ahead of the one that was written.    *)
PcrError(pcr, bits) == (ReadPcr(bits) - pcr) % (PcrWrap * PcrScale)

-----------------------------------------------------------------------------
(* A packet is whole: its parts are TS_PACKET_SIZE bytes, which is what    *)
(* avio_write is told to write, and the adaptation field's length byte can *)
(* say how long it is.                                                     *)
Whole(p) ==
  /\ TsHeader + p.af + p.pes + p.len = TS_PACKET_SIZE
  /\ p.af >= 0 /\ p.pes >= 0 /\ p.len >= 0
  /\ p.af <= TS_PACKET_SIZE - TsHeader
=============================================================================
