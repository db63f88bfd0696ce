SPECIFICATION Spec
CONSTANTS
  MaxShort = 4
  MaxTwo = 4
  MaxLong = 4
  Files <- MCFiles
  Byte <- MCByte
  Stale = 99
  READ_BUFFER_SIZE = 4
  read_errors = FALSE
  avg_size = 3
  Tmin = 2
  Tmax = 4
  fix_boundary_size = 0
  has_data = TRUE
  RABIN_WINDOW_SIZE = 2
  Kind <- MCKind
  Indeterminate = {5}
INVARIANTS RemainingDataAdded
