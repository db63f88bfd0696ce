SPECIFICATION FairSpec
CONSTANTS
  Logs <- MCSameLogs
  Thresholds = {2}
  None = None
  BufferSize = 2
  FREQ_COUNT = 3
  CounterSize = 8
  MaxFailures = 0
PROPERTIES CompleteDeduplication
CHECK_DEADLOCK FALSE
