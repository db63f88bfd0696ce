-------------------------------- MODULE TTTD --------------------------------
(***************************************************************************)
(* The two-threshold two-divisor rule that varScan is to follow, stated on *)
(* the file and not on the state of the scan: where the block that begins  *)
(* at a given byte must end.                                               *)
(***************************************************************************)
EXTENDS Scanner, FiniteSetsExt

\* Without forced breaks the whole file is one segment.
SegmentStart(x) == IF fix_boundary_size = 0 THEN 0 ELSE x - (x % fix_boundary_size)

\* What the fingerprint covers at byte x: nothing from before the segment.
WindowAt(x) ==
  [i \in 1 .. RABIN_WINDOW_SIZE |->
     LET y == x - RABIN_WINDOW_SIZE + i
     IN  IF y >= SegmentStart(x) THEN file[y + 1] ELSE 0]

\* Where the data ends for the scan: a short read ends it.
DataEnd == IF eof THEN total_bytes ELSE Len(file)

\* The first main breakpoint from Tmin on; failing that, for a block that
\* grows to Tmax, its last backup breakpoint; failing that, all there is.
BlockSize(from) ==
  LET limit   == Max({n \in 1 .. Tmax :
                        /\ from + n <= DataEnd
                        /\ SegmentStart(from + n - 1) <= from \/ n = 1})
      at(n)   == Kind[WindowAt(from + n - 1)]
      mains   == {n \in Tmin .. limit : at(n) = "main"}
      backups == {n \in Tmin .. limit : at(n) = "backup"}
  IN  IF mains # {} THEN Min(mains)
      ELSE IF limit = Tmax /\ backups # {} THEN Max(backups)
      ELSE limit

\* varScan, which decides byte by byte and never looks back, cuts every
\* block where the rule says.  The rule for a block looks no further than
\* its segment, so in fixed-boundary mode a segment is cut the same way
\* whatever comes before it in the file.
CutsAreTTTD ==
  is_var => \A i \in 1 .. Len(log) : log[i].size = BlockSize(log[i].offset)

=============================================================================
