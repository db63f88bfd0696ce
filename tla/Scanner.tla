------------------------------ MODULE Scanner ------------------------------
(***************************************************************************)
(* The scan of one file: the double-buffered read loop of dedup_main.cpp   *)
(* (scan, load_data) feeding one Scanner of scanner.cpp, in either of its  *)
(* modes.  varScan is the TTTD chunking algorithm: a rolling fingerprint   *)
(* proposes main and backup breakpoints, a block is at least Tmin and at   *)
(* most Tmax long, and in fixed-boundary mode a break is forced at every   *)
(* multiple of fix_boundary_size.  fixScan cuts every buffer into blocks   *)
(* of avg_size.                                                            *)
(*                                                                         *)
(* Positions (offset, new_start, backup_break, b1_offset) are absolute, as *)
(* in the code; a buffer is a function from 0 .. READ_BUFFER_SIZE - 1.     *)
(* What the fingerprint tests compute is the table Kind over the last      *)
(* RABIN_WINDOW_SIZE bytes: "main" when rabinf % D = D - 1, "backup" when  *)
(* only rabinf % Ddash = Ddash - 1 (D is 2 * Ddash, so main implies        *)
(* backup), "none" otherwise.                                              *)
(***************************************************************************)
EXTENDS Integers, Sequences

CONSTANTS
  Files,              \* the files that may be scanned, each a sequence of bytes
  Byte,               \* what a byte of a file can be, 0 among them
  Stale,              \* what the buffers hold before this file is read
  READ_BUFFER_SIZE,   \* size of each of the two read buffers
  read_errors,        \* may a read fail or come up short before the end?
  avg_size,           \* the block size of fixScan
  Tmin, Tmax,         \* the least and the largest block size of varScan
  fix_boundary_size,  \* varScan: size between forced breaks, 0 for none
  has_data,           \* is there a data file (ofsdata # NULL)?
  RABIN_WINDOW_SIZE,  \* bytes the rolling fingerprint depends on
  Kind,               \* the breakpoint kind of every window
  Indeterminate       \* what tot_blocks, tot_dup_blocks may hold unset

Kinds == {"none", "backup", "main"}
Windows == [1 .. RABIN_WINDOW_SIZE -> Byte]

ASSUME FilesAssumption == Files \subseteq Seq(Byte) /\ 0 \in Byte
ASSUME ModeAssumption ==
  /\ has_data \in BOOLEAN /\ read_errors \in BOOLEAN
  /\ Indeterminate \subseteq Nat
ASSUME SizesAssumption ==
  /\ READ_BUFFER_SIZE \in Nat \ {0}
  /\ avg_size \in Nat \ {0}
  /\ Tmin \in Nat /\ Tmax \in Nat
  /\ 1 < Tmin /\ Tmin <= Tmax /\ Tmax <= READ_BUFFER_SIZE
  /\ fix_boundary_size \in Nat
ASSUME FingerprintAssumption ==
  /\ RABIN_WINDOW_SIZE \in Nat \ {0}
  /\ Kind \in [Windows -> Kinds]

VARIABLES
  file,             \* the file being scanned
  is_var,           \* which Scanner of the file this is: of variable size (TTTD) or fixed size blocks
  pc,               \* "load", "scan", "slide" or "done"
  p1, p2,           \* the latest and the previous buffer
  nbytes,           \* bytes the last read put into p1
  total_bytes,      \* bytes read so far
  eof,              \* was the last read a short one?
  ctx,              \* the bytes hashed into the whole-file checksum
  p,                \* loop index of the scan in p1
  b1_offset,        \* position of p1 in the file
  new_start,        \* first byte after the last break
  backup_break,     \* the last backup breakpoint since then, 0 for none
  window,           \* the bytes the fingerprint currently covers
  log,              \* records written to the scan log
  data,             \* records written to the data file
  datamap,          \* checksums already in the data file
  tot_blocks, tot_dup_blocks

readVars == <<file, is_var, p1, p2, nbytes, total_bytes, eof, ctx>>
outVars  == <<log, data, datamap, tot_blocks, tot_dup_blocks>>
cutVars  == <<b1_offset, new_start, backup_break, window>>
vars     == <<readVars, outVars, cutVars, pc, p>>

InBuffer == 0 .. READ_BUFFER_SIZE - 1

LogEnd(l) == IF l = <<>> THEN 0 ELSE l[Len(l)].offset + l[Len(l)].size

\* rabin_init: an all-zero window; rabin_slide8: the oldest byte goes.
EmptyWindow == [i \in 1 .. RABIN_WINDOW_SIZE |-> 0]
Slide(w, b) ==
  [i \in 1 .. RABIN_WINDOW_SIZE |-> IF i < RABIN_WINDOW_SIZE THEN w[i + 1] ELSE b]

\* The n bytes of buffer b from index i on.
Slice(b, i, n) == [k \in 1 .. n |-> b[i + k - 1]]

Init ==
  /\ file \in Files /\ is_var \in BOOLEAN
  /\ pc = "load"
  /\ p1 = [i \in InBuffer |-> Stale]
  /\ p2 = [i \in InBuffer |-> Stale]
  /\ nbytes = 0 /\ total_bytes = 0 /\ eof = FALSE /\ ctx = <<>>
  /\ p = 0 /\ b1_offset = 0 /\ new_start = 0 /\ backup_break = 0
  /\ window = EmptyWindow
  /\ log = <<>> /\ data = <<>> /\ datamap = {}
  /\ tot_blocks \in Indeterminate /\ tot_dup_blocks \in Indeterminate

-----------------------------------------------------------------------------
(* Reading *)

\* What readData may return at this point of the file.
ReadResults ==
  LET left == Len(file) - total_bytes
      full == IF left < READ_BUFFER_SIZE THEN left ELSE READ_BUFFER_SIZE
  IN  IF read_errors THEN 0 .. full ELSE {full}

\* A read that does not fill the buffer is taken for the end of the file.
IsShort(n) == n # READ_BUFFER_SIZE

\* Mutant: the loop does not look at what the read returned.
AfterReadAlways(n) == "scan"

\* A read of nothing ends the loop.
AfterRead(n) == IF n = 0 THEN "done" ELSE "scan"

\* The buffers change places and the new p1 is filled.
LoadData ==
  /\ pc = "load"
  /\ \E n \in ReadResults :
       /\ p2' = p1
       /\ p1' = [i \in InBuffer |-> IF i < n THEN file[total_bytes + i + 1] ELSE p2[i]]
       /\ nbytes' = n
       /\ total_bytes' = total_bytes + n
       /\ ctx' = ctx \o Slice(p1', 0, n)
       /\ eof' = (n # 0 /\ IsShort(n))
       /\ pc' = AfterRead(n)
  /\ p' = 0
  /\ UNCHANGED <<file, is_var, cutVars, outVars>>

AfterBuffer == IF eof THEN "done" ELSE "load"

\* addData returns: load the next buffer unless this was the last one.
EndOfBuffer ==
  /\ pc = "scan"
  /\ p >= nbytes
  /\ b1_offset' = b1_offset + nbytes
  /\ pc' = AfterBuffer
  /\ UNCHANGED <<readVars, new_start, backup_break, window, p>>

-----------------------------------------------------------------------------
(* Writing a block *)

AddBlock(offset, bytes) ==
  log' = Append(log, [offset |-> offset, size |-> Len(bytes), cksum |-> bytes])

\* Mutant: a block that begins in p2 is taken from p2 alone.
BlockBytesNotSplit(to) ==
  IF new_start >= b1_offset
    THEN Slice(p1, new_start - b1_offset, to - new_start + 1)
    ELSE [k \in 1 .. to - new_start + 1 |->
            p2[(new_start + READ_BUFFER_SIZE - b1_offset + k - 1) % READ_BUFFER_SIZE]]

\* The block from new_start to `to': all in p1, all in p2, or half-half.
BlockBytes(to) ==
  LET in2  == new_start + READ_BUFFER_SIZE - b1_offset
      size == to - new_start + 1
  IN  IF new_start >= b1_offset THEN Slice(p1, new_start - b1_offset, size)
      ELSE IF to < b1_offset THEN Slice(p2, in2, size)
      ELSE Slice(p2, in2, b1_offset - new_start) \o Slice(p1, 0, to - b1_offset + 1)

\* Mutant: the content is written but not remembered.
SaveDataForgets(bytes) ==
  IF has_data /\ bytes \notin datamap
    THEN /\ data' = Append(data, [cksum |-> bytes, size |-> Len(bytes)])
         /\ UNCHANGED <<datamap, tot_dup_blocks>>
    ELSE UNCHANGED <<data, datamap, tot_dup_blocks>>

SaveData(bytes) ==
  IF ~has_data
    THEN UNCHANGED <<data, datamap, tot_dup_blocks>>
    ELSE IF bytes \in datamap
           THEN tot_dup_blocks' = tot_dup_blocks + 1 /\ UNCHANGED <<data, datamap>>
           ELSE /\ data' = Append(data, [cksum |-> bytes, size |-> Len(bytes)])
                /\ datamap' = datamap \union {bytes}
                /\ UNCHANGED tot_dup_blocks

AddBreakpoint(to) ==
  IF to - new_start + 1 = 0
    THEN UNCHANGED outVars
    ELSE /\ tot_blocks' = tot_blocks + 1
         /\ SaveData(BlockBytes(to))
         /\ AddBlock(new_start, BlockBytes(to))

-----------------------------------------------------------------------------
(* varScan: one byte per step *)

offset == b1_offset + p

\* Mutant: the first byte of a buffer is taken for the first of the file.
AtBoundaryInBuffer ==
  fix_boundary_size # 0 /\ p # 0 /\ p % fix_boundary_size = 0

AtBoundary ==
  fix_boundary_size # 0 /\ offset # 0 /\ offset % fix_boundary_size = 0

RestartRabin == window' = EmptyWindow

\* Mutant: a backup breakpoint survives the boundary.
EnforceBoundaryKeepsBackup ==
  /\ is_var /\ pc = "scan" /\ p < nbytes /\ AtBoundary
  /\ IF new_start < offset THEN AddBreakpoint(offset - 1) ELSE UNCHANGED outVars
  /\ new_start' = offset
  /\ RestartRabin
  /\ pc' = "slide"
  /\ UNCHANGED <<readVars, p, b1_offset, backup_break>>

\* In fixed-boundary mode: end the block before this byte, restart rabin.
EnforceBoundary ==
  /\ is_var /\ pc = "scan" /\ p < nbytes /\ AtBoundary
  /\ IF new_start < offset THEN AddBreakpoint(offset - 1) ELSE UNCHANGED outVars
  /\ new_start' = offset
  /\ backup_break' = 0
  /\ RestartRabin
  /\ pc' = "slide"
  /\ UNCHANGED <<readVars, p, b1_offset>>

\* The fingerprint takes in the byte at p.
AtByte ==
  /\ is_var /\ p < nbytes
  /\ pc = "slide" \/ (pc = "scan" /\ ~AtBoundary)

length == offset - new_start + 1
kind   == Kind[Slide(window, p1[p])]

\* Mutant: the first backup breakpoint is kept, not the last.
backupFirst ==
  IF kind = "none" \/ backup_break # 0 THEN backup_break ELSE offset

backup == IF kind = "none" THEN backup_break ELSE offset

NextByte ==
  /\ window' = Slide(window, p1[p])
  /\ p' = p + 1
  /\ pc' = "scan"
  /\ UNCHANGED <<readVars, b1_offset>>

BelowMin ==
  /\ AtByte /\ length < Tmin
  /\ NextByte
  /\ UNCHANGED <<outVars, new_start, backup_break>>

\* Mutant: the backup breakpoint of the block just ended survives.
BreakAfterKeepsBackup(b) ==
  /\ AddBreakpoint(b)
  /\ new_start' = b + 1
  /\ UNCHANGED backup_break

\* A break after byte b; the bytes after b start the next block.
BreakAfter(b) ==
  /\ AddBreakpoint(b)
  /\ new_start' = b + 1
  /\ backup_break' = 0

MainBreak ==
  /\ AtByte /\ length >= Tmin /\ kind = "main"
  /\ BreakAfter(offset)
  /\ NextByte

NoBreak ==
  /\ AtByte /\ length >= Tmin /\ kind # "main" /\ length < Tmax
  /\ backup_break' = backup
  /\ NextByte
  /\ UNCHANGED <<outVars, new_start>>

AtMax == AtByte /\ length >= Tmin /\ kind # "main" /\ length >= Tmax

BackupBreak ==
  /\ AtMax /\ backup # 0
  /\ BreakAfter(backup)
  /\ NextByte

HardBreak ==
  /\ AtMax /\ backup = 0
  /\ BreakAfter(offset)
  /\ NextByte

\* Mutant: the end of the data is taken relative to the buffer.
EndOfVarBufferInBuffer ==
  /\ is_var
  /\ IF eof /\ new_start < nbytes
       THEN AddBreakpoint(nbytes + b1_offset - 1)
       ELSE UNCHANGED outVars
  /\ EndOfBuffer

\* At the end of the file the remaining data becomes a block.
EndOfVarBuffer ==
  /\ is_var
  /\ IF eof /\ new_start < nbytes + b1_offset
       THEN AddBreakpoint(nbytes + b1_offset - 1)
       ELSE UNCHANGED outVars
  /\ EndOfBuffer

-----------------------------------------------------------------------------
(* fixScan: one block per step, p is its `start' *)

\* Mutant: every buffer is taken for a full one.
fixSizeOfFullBuffer ==
  IF p + avg_size > READ_BUFFER_SIZE THEN READ_BUFFER_SIZE - p ELSE avg_size

fixSize == IF p + avg_size > nbytes THEN nbytes - p ELSE avg_size

FixBlock ==
  /\ ~is_var /\ pc = "scan" /\ p < nbytes
  /\ AddBlock(p + b1_offset, Slice(p1, p, fixSize))
  /\ p' = p + avg_size
  /\ UNCHANGED <<readVars, cutVars, pc, data, datamap, tot_blocks, tot_dup_blocks>>

EndOfFixBuffer ==
  /\ ~is_var
  /\ EndOfBuffer
  /\ UNCHANGED outVars

-----------------------------------------------------------------------------
Done == pc = "done" /\ UNCHANGED vars

Next ==
  \/ LoadData
  \/ EnforceBoundary \/ BelowMin \/ MainBreak \/ NoBreak \/ BackupBreak \/ HardBreak
  \/ EndOfVarBuffer
  \/ FixBlock \/ EndOfFixBuffer
  \/ Done

Spec == Init /\ [][Next]_vars

\* The program is one thread: while it has a next step it takes it.
FairSpec == Spec /\ WF_vars(Next)

-----------------------------------------------------------------------------
(* What the scan promises *)

\* What a scanner of either mode promises of its blocks; only varScan saves
\* their content.
ModeOf(var) ==
  [max_block |-> IF var THEN Tmax ELSE avg_size,
   boundary  |-> IF var THEN fix_boundary_size ELSE 0,
   keep_data |-> has_data /\ var]

CL == INSTANCE ChunkLog WITH Modes <- {ModeOf(var) : var \in BOOLEAN}, mode <- ModeOf(is_var)

\* Each step of the scan is a step of ChunkLog or changes nothing it shows:
\* whatever the buffers, the read sizes and the breakpoints, every record
\* names the next range of the file and carries the checksum of its bytes.
ImplementsChunkLog == CL!Spec

Blocks == [offset : Nat, size : Nat, cksum : Seq(Byte \union {Stale})]

OutputTypeOK ==
  /\ log \in Seq(Blocks)
  /\ data \in Seq([cksum : Seq(Byte \union {Stale}), size : Nat])
  /\ datamap \subseteq Seq(Byte \union {Stale})
  /\ tot_blocks \in Nat /\ tot_dup_blocks \in Nat

\* Every variable has the type of its declaration in the code.
TypeOK ==
  /\ file \in Files /\ is_var \in BOOLEAN
  /\ pc \in {"load", "scan", "slide", "done"}
  /\ p1 \in [InBuffer -> Byte \union {Stale}]
  /\ p2 \in [InBuffer -> Byte \union {Stale}]
  /\ nbytes \in 0 .. READ_BUFFER_SIZE
  /\ total_bytes \in Nat
  /\ eof \in BOOLEAN
  /\ ctx \in Seq(Byte \union {Stale})
  /\ p \in Nat /\ b1_offset \in Nat /\ new_start \in Nat /\ backup_break \in Nat
  /\ window \in Windows
  /\ OutputTypeOK

Loaded == pc \in {"scan", "slide"}

\* The first byte the scan has not looked at yet.
pos == IF Loaded THEN offset ELSE b1_offset

\* How far the read loop is: total_bytes counts what p1 ends with, and only
\* a buffer that is not the last may be followed by another.
ReadProgress ==
  /\ total_bytes <= Len(file)
  /\ ctx = SubSeq(file, 1, total_bytes)
  /\ pc # "done" => b1_offset = 0 \/ b1_offset >= READ_BUFFER_SIZE
  /\ Loaded => /\ total_bytes = b1_offset + nbytes
               /\ nbytes > 0
               /\ eof = (nbytes # READ_BUFFER_SIZE)
               /\ is_var => p <= nbytes
  /\ pc = "load" => total_bytes = b1_offset /\ ~eof
  /\ pc = "slide" => is_var /\ p < nbytes

Holds(b, from, n) == \A i \in 0 .. n - 1 : b[i] = file[from + i + 1]

\* The buffers hold the file where the scan looks for it: p1 from b1_offset
\* on, p2 the buffer before.  A pending block begins in one of the two.
BuffersHold ==
  /\ Loaded => Holds(p1, b1_offset, nbytes)
  /\ Loaded /\ b1_offset # 0 => Holds(p2, b1_offset - READ_BUFFER_SIZE, READ_BUFFER_SIZE)
  /\ pc = "load" /\ b1_offset # 0 => Holds(p1, b1_offset - READ_BUFFER_SIZE, READ_BUFFER_SIZE)

NoBoundaryInside(from, to) == \A x \in from + 1 .. to - 1 : ~CL!IsBoundary(x)

\* The block being built starts where the log ends, is still shorter than
\* Tmax, has no boundary inside and holds the backup breakpoint, if any.
PendingBlock ==
  is_var /\ pc # "done" =>
    /\ new_start = LogEnd(log)
    /\ new_start <= pos /\ pos - new_start < Tmax
    /\ NoBoundaryInside(new_start, pos)
    /\ backup_break # 0 => new_start <= backup_break /\ backup_break < pos
    /\ pc = "slide" => new_start = pos /\ backup_break = 0

FixedProgress ==
  ~is_var => LogEnd(log) = IF Loaded /\ p <= nbytes THEN b1_offset + p ELSE total_bytes

\* At the end everything read is in the log when the last read was a short
\* one (or blocks are of fixed size); otherwise only the block being built
\* when the data ran out, less than Tmax bytes, is missing.
OnlyATailIsLost ==
  pc = "done" => /\ LogEnd(log) <= total_bytes
                 /\ eof \/ ~is_var => LogEnd(log) = total_bytes
                 /\ total_bytes - LogEnd(log) < Tmax

DataMapMatches == datamap = {data[i].cksum : i \in 1 .. Len(data)}

\* The inductive invariant: what the buffers, the cut positions and the
\* output have to do with one another between two steps.
IInv ==
  /\ TypeOK
  /\ ReadProgress
  /\ BuffersHold
  /\ PendingBlock
  /\ FixedProgress
  /\ OnlyATailIsLost
  /\ DataMapMatches

\* The log can be restored from the data file: with one, every logged block
\* has its content there, and no content is there twice.
DataRestoresLog ==
  is_var /\ has_data =>
    /\ \A i \in 1 .. Len(log) : \E j \in 1 .. Len(data) : data[j].cksum = log[i].cksum
    /\ \A i, j \in 1 .. Len(data) : i # j => data[i].cksum # data[j].cksum

InBufferLeft == IF p < nbytes THEN nbytes - p ELSE 0

\* What the scan has still to do, in steps: a read, two steps at most for each
\* byte of the buffer, and one back to the read loop.
Remaining ==
  LET reads == 4 * (Len(file) - total_bytes)
  IN  CASE pc = "load"  -> 1 + reads
        [] pc = "slide" -> 1 + reads + 2 * InBufferLeft
        [] pc = "scan"  -> 2 + reads + 2 * InBufferLeft
        [] pc = "done"  -> 0

\* Nothing is done over again: whatever reads return, and wherever boundaries
\* stop the scan before a byte, every step leaves less to do than there was.
EveryStepAdvances == [][Remaining' < Remaining]_vars

\* The scan of a file ends, reads that fail included.
Terminates == <>(pc = "done")

\* scanner.cpp:112, "at the end of file, add remaining data as a block": a
\* file read to its end is logged to its end.
RemainingDataAdded ==
  pc = "done" /\ total_bytes = Len(file) => LogEnd(log) = Len(file)

=============================================================================
