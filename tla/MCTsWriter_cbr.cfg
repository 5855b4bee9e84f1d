SPECIFICATION FairSpec
CONSTANTS
  TS_PACKET_SIZE = 188
  NumStreams = 2
  Video <- OneVideo
  Audio <- AudioTwo
  NumSections = 1
  Kinds <- CbrKinds
  Gaps <- CbrGaps
  Starts <- CbrStarts
  SectionLens <- CbrSections
  TableLen <- Tables
  MaxUnits = 4
  MaxPackets = 400
  pes_payload_size = 354
  max_delay = 9000
  CBR = TRUE
  copyts = TRUE
  PcrScale = 300
  PcrWrap = 1024
  PacketPcr = 90100
  PcrOffset = 5271
  pcr_packet_period = 6
  pat_packet_period <- Never
  pat_period = 9000
  sdt_packet_period = 40
  sdt_period <- Never
  MaxQueued = 5760
  NOPTS <- NoTime
INVARIANTS
  InOrderOnce
  PcrBeforeDts
  PcrReadsBack
PROPERTIES
  Continuous
  OneClock
  PaddingLeavesTime
  KeyAfterTables
  WriteEnds
CHECK_DEADLOCK FALSE
