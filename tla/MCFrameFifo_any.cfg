\* Records of 4, 5 and 6 bytes in a ring of 8: 4+4 fills it exactly, and the
\* frame of 6 bytes passes the space check but its record never fits.
CONSTANTS
  Unwritten = Unwritten
  MaxSize = 8
  SizeLen = 1
  PtsLen = 1
  DtsLen = 1
  Sizes = {1, 2, 3, 6}
  NumFrames = 4
SPECIFICATION Spec
INVARIANTS Integrity PeekStaysValid
PROPERTY DeliveredInOrder
\* The file ends and the FIFO drains: the program stops.
CHECK_DEADLOCK FALSE
