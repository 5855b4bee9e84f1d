\* Both programs, files that starve the threads and files that do not, FIFOs
\* that can be filled exactly, files without audio, and files that wrap.
CONSTANTS
  Wrap = 1000
  Lead = 4
  FrameTicks = 2
  AV_NOPTS_VALUE <- NoTime
  Inputs <- McInputs
  video_fifo_size = 9
  audio_fifo_size = 9
  scte_fifo_size = 5
  Gate = 6
  Overhead = 1
  Rounds = 2
  Garbage <- Stack
SPECIFICATION FairSpec
INVARIANTS TypeOK Interleaved TracksCaughtUp FedInTurn
PROPERTIES DoneOrStarved StarvedForever Finishes
\* The process exits.
CHECK_DEADLOCK FALSE
