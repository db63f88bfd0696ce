SPECIFICATION Spec
CONSTANTS
  MaxBlocks = 3
  FIX_SEGMENT_SIZE = 2
  Traces <- MCTraces
  Parents <- MCTraces
  CdsFiles <- MCCds
  NoParent = NoParent
  MaxRuns = 1
INVARIANTS TagsAreRight OutputIsSnapshot NoFalseDuplicates ReportIsTrue HitLengthsAreRuns SortingIsHarmless
CHECK_DEADLOCK FALSE
