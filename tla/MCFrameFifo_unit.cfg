\* Records of 4, 6 and 10 bytes, all multiples of 2, in a ring of 9: no write
\* can fill the ring exactly.  The frame of 7 bytes passes the space check of
\* an empty FIFO although its record of 10 does not fit.
CONSTANTS
  Unwritten = Unwritten
  MaxSize = 9
  SizeLen = 1
  PtsLen = 1
  DtsLen = 1
  Sizes = {1, 3, 7}
  NumFrames = 5
SPECIFICATION Spec
INVARIANT NeverFilled
PROPERTY ImplementsQueue
\* The file ends and the FIFO drains: the program stops.
CHECK_DEADLOCK FALSE
