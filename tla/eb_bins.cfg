SPECIFICATION BinningSpec
CONSTANTS
  FIX_SEGMENT_SIZE = 2
  NFiles = 2
  Logs <- MCLogs
  Middle4Bytes <- MCMiddle
  CounterSize = 8
  Garbage <- MCGarbage
  MaxStarted = 2
  MaxMisread = 2
INVARIANTS BinsAreBySimilarity  SummaryAndFiles
CHECK_DEADLOCK FALSE
