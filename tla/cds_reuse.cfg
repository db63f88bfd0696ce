SPECIFICATION Spec
CONSTANTS
  Cksum <- MCCksum
  NumBuckets = 2
  FirstByte <- MCFirstByte
  Lists <- MCLists
  Unreadable = Unreadable
  End = End
  Thresholds = {1, 2, 3}
  Unit = 3
  MaxRuns = 3
INVARIANTS ReuseIsRegeneration
CHECK_DEADLOCK FALSE
