SPECIFICATION Spec
CONSTANTS
  TS_PACKET_SIZE = 188
  NumStreams = 3
  Video <- OneVideo
  Audio <- AudioTwoThree
  NumSections = 0
  Kinds <- VbrKinds
  Gaps <- VbrGaps
  Starts <- VbrStarts
  SectionLens = {}
  TableLen <- Tables
  MaxUnits = 5
  MaxPackets = 400
  pes_payload_size = 354
  max_delay = 9000
  CBR = FALSE
  copyts = FALSE
  PcrScale = 300
  PcrWrap = 1048576
  PacketPcr = 90100
  PcrOffset = 5271
  pcr_packet_period = 2
  pat_packet_period = 40
  pat_period <- Never
  sdt_packet_period = 200
  sdt_period <- Never
  MaxQueued = 5760
  NOPTS <- NoTime
INVARIANTS
  TypeOK
  PesFits
  NotHeldBack
  PayloadFits
PROPERTIES
  PcrIncreases
CHECK_DEADLOCK FALSE
