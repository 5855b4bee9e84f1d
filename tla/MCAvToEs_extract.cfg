\* Inputs in and out of the order of the options, files and pipes, three ways
\* of reading the pipes, no options at all; times across a wrap at 16.
CONSTANTS
  Wrap = 16
  Lead = 2
  FrameTicks = 2
  AV_NOPTS_VALUE <- NoTime
  MaxStreams = 3
  Jobs <- McJobs
  Garbage = {0, 1, 3}
SPECIFICATION FairSpec
INVARIANTS TypeOK ExactWhenAligned OnlyLastCut TimesSurvive
PROPERTIES ConnectsIfOrdersAgree
\* The process exits, or waits for ever in open.
CHECK_DEADLOCK FALSE
