SPECIFICATION FairSpec
CONSTANTS
  MaxShort = 6
  MaxTwo = 9
  MaxLong = 19
  Files <- MCFiles
  Byte <- MCByte
  Stale = 99
  READ_BUFFER_SIZE = 4
  read_errors = TRUE
  avg_size = 3
  Tmin = 2
  Tmax = 4
  fix_boundary_size = 5
  has_data = TRUE
  RABIN_WINDOW_SIZE = 2
  Kind <- MCKind
  Indeterminate = {5}
INVARIANTS IInv CutsAreTTTD DataRestoresLog OnlyATailIsLost
PROPERTIES ImplementsChunkLog Terminates EveryStepAdvances
