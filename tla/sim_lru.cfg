SPECIFICATION SimSpec
CONSTANTS
  FIX_SEGMENT_SIZE = 2
  Traces <- MCSnapshots
  Parents <- MCParents
  CdsFiles <- MCCds
  NoParent = NoParent
  MaxRuns = 1
  Capacities = {1, 3}
  MaxClock = 3
INVARIANTS SizeIsKept LruFindsMore LruFindsOnlyParents
CHECK_DEADLOCK FALSE
