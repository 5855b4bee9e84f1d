\* Headers of av_to_es, and a caller's of which some lack their dts.  The frame rate is that of the muxer or
\* lower; the streams begin just before a wrap and end before a guess can have
\* drifted by half a wrap.
CONSTANTS
  Wrap = 100
  Lead = 4
  FrameTicks = 3
  AV_NOPTS_VALUE <- NoTime
  Writers = {"av_to_es", "caller"}
  Starts = {91, 98}
  Spacing = {3, 5}
  Reorder = {0, 3, 4}
  AudioTicks = 6
  Skew = 5
  DtsThere = {TRUE, FALSE}
  Horizon = 112
SPECIFICATION Spec
INVARIANT InStep
PROPERTY DtsAccepted
\* The streams end at the horizon.
CHECK_DEADLOCK FALSE
