\* The Readme's options.
CONSTANTS
  Wrap = 16
  Lead = 2
  FrameTicks = 2
  AV_NOPTS_VALUE <- NoTime
  MaxStreams = 3
  Jobs <- ReadmeJobs
  Garbage = {0, 1, 3}
SPECIFICATION Spec
INVARIANT FileHoldsItsStream
CHECK_DEADLOCK FALSE
