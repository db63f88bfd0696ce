SPECIFICATION FairSpec
CONSTANTS
  Logs <- MCLogs
  Thresholds = {1, 2, None}
  None = None
  BufferSize = 2
  FREQ_COUNT = 3
  CounterSize = 8
  MaxFailures = 1
INVARIANTS WinnerIsLeast HistogramIsRight
PROPERTIES OldReleaseAdvances OldReleaseEnds
CHECK_DEADLOCK FALSE
