SPECIFICATION LruSpec
CONSTANTS
  FIX_SEGMENT_SIZE = 2
  Traces <- MCTraces
  Parents <- MCParents
  CdsFiles <- MCCds
  NoParent = NoParent
  MaxRuns = 2
  Capacities = {1, 2, 3}
  Tenth = 2
  MaxClock = 4
INVARIANTS CapacityIsKept RecentIsCached OtherIsCached
PROPERTIES ImplementsCdsSim
CHECK_DEADLOCK FALSE
