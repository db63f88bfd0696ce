SPECIFICATION FairSpec
CONSTANTS
  Paths <- MCPaths
  FileSystems <- MCFileSystems
  Nodes <- MCNodes
  Args <- MCArgs
  Readers = {"LOCAL", "PANGU"}
  MAX_RETRY = 1
  MaxBlocks = 2
  MaxChanges = 1
INVARIANTS BlocksFindTheirFile OnlyTheLastLacksBlocks LimitsAreKept EachPathOnce
PROPERTIES Terminates
CHECK_DEADLOCK FALSE
