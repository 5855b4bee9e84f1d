\* As in the program the packet (2, for 188) does not divide the FIFO (11, for
\* 40000000) and a read takes several packets; every run leaves room
\* for a read beside it, so that no write waits for bytes that stay unread.
CONSTANTS
  Unwritten = Unwritten
  MaxSize = 11
  AvioSize = 11
  PktSize = 2
  ReadChunk = 4
  Bursts = {1, 2, 3}
  MaxPackets = 12
  Rounds = 2
  Programs = {"c", "python"}
SPECIFICATION FairSpec
INVARIANT NeverFilled
PROPERTY WaitsTillWritten
\* The process exits.
CHECK_DEADLOCK FALSE
