\* Runs of 6 packets are longer than the AVIO buffer, which is then flushed
\* full and in the middle of a packet.
CONSTANTS
  Unwritten = Unwritten
  MaxSize = 11
  AvioSize = 11
  PktSize = 2
  ReadChunk = 4
  Bursts = {1, 3, 6}
  MaxPackets = 12
  Rounds = 2
  Programs = {"c", "python"}
SPECIFICATION Spec
INVARIANT WrittenOut
\* The process exits.
CHECK_DEADLOCK FALSE
