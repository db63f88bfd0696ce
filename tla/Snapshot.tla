------------------------------ MODULE Snapshot ------------------------------
(***************************************************************************)
(* What the snapshot simulators have in common: a run reads a snapshot     *)
(* segment by segment, and its parent in step with it, tags every block of *)
(* the segment with the levels that find it, and writes the tagged blocks. *)
(* The simulators differ in level 2 and level 3, which their own modules   *)
(* add.                                                                    *)
(*                                                                         *)
(* Runs follow one another.  A run may be killed; of the output, which is  *)
(* open until the run ends, any prefix may then be on disk.                *)
(***************************************************************************)
EXTENDS Trace

CONSTANTS
  Traces,       \* the snapshots a run may be given
  Parents,      \* the parents a run may be given
  CdsFiles,     \* the CDS files a run may be given
  NoParent,     \* the optional argument is not there
  MaxRuns       \* bound: runs in one behaviour

ASSUME InputsAssumption ==
  /\ Traces \union Parents \union CdsFiles \subseteq Seq(Block)
  /\ NoParent \notin Parents

VARIABLES
  pc,              \* "idle", "done", "killed", or the phase of the run
  runs,            \* runs started
  snapshot,        \* argument: the trace of the snapshot
  parent,          \* argument: the trace of its parent, or NoParent
  cds,             \* the CDS, in the order of its file
  current_input,   \* what is left of the snapshot to read
  parent_input,    \* what is left of the parent to read
  has_parent,
  current_seg, parent_seg,
  i,               \* index of the next block of current_seg for level 3
  output           \* the tagged trace

argVars == <<runs, snapshot, parent, cds>>
inVars  == <<argVars, current_input, parent_input>>
snapshotVars == <<inVars, pc, has_parent, current_seg, parent_seg, i, output>>

Stopped == pc \in {"idle", "done", "killed"}

Init ==
  /\ pc = "idle" /\ runs = 0
  /\ snapshot = <<>> /\ parent = NoParent /\ cds = <<>>
  /\ current_input = <<>> /\ parent_input = <<>> /\ has_parent = FALSE
  /\ current_seg = <<>> /\ parent_seg = <<>>
  /\ i = 1
  /\ output = <<>>

\* A run opens its inputs and truncates its output.
Open ==
  /\ Stopped /\ runs < MaxRuns
  /\ runs' = runs + 1
  /\ snapshot' \in Traces /\ parent' \in Parents \union {NoParent} /\ cds' \in CdsFiles
  /\ current_input' = snapshot'
  /\ has_parent' = (parent' # NoParent)
  /\ parent_input' = IF parent' = NoParent THEN <<>> ELSE parent'
  /\ current_seg' = <<>> /\ parent_seg' = <<>>
  /\ i' = 1
  /\ output' = <<>>
  /\ pc' = "load"

\* Mutant: a parent that is exhausted leaves its last segment in place.
NextParentSegStays ==
  IF SegmentBlocks(parent_input) = <<>> THEN parent_seg ELSE SegmentBlocks(parent_input)

NextParentSeg == SegmentBlocks(parent_input)

\* The next segment of the snapshot, and that of the parent.
LoadSegments ==
  /\ pc = "load"
  /\ SegmentBlocks(current_input) # <<>>
  /\ current_seg' = SegmentBlocks(current_input)
  /\ current_input' = AfterSegment(current_input)
  /\ IF has_parent
       THEN parent_seg' = NextParentSeg /\ parent_input' = AfterSegment(parent_input)
       ELSE UNCHANGED <<parent_seg, parent_input>>
  /\ i' = 1
  /\ pc' = "tag"
  /\ UNCHANGED <<argVars, has_parent, output>>

\* Mutant: the checksum does not tell in which order the blocks are.
SegmentUnchangedInOrder == Contents(current_seg) = Contents(parent_seg)

SegmentUnchanged == SegmentCksum(current_seg) = SegmentCksum(parent_seg)

Tagged(blk, bits) == [blk EXCEPT !.file_id = @ \union bits]

\* Level 1: the whole segment is the parent's.
TagParent ==
  /\ pc = "tag" /\ has_parent /\ SegmentUnchanged
  /\ current_seg' = [k \in DOMAIN current_seg |-> Tagged(current_seg[k], IN_PARENT)]
  /\ pc' = "cds"
  /\ UNCHANGED <<inVars, has_parent, parent_seg, i, output>>

WithoutParent ==
  /\ pc = "tag" /\ ~has_parent
  /\ pc' = "cds"
  /\ UNCHANGED <<inVars, has_parent, current_seg, parent_seg, i, output>>

\* Mutant: the bits go to the block after.
TagNextAhead(bits) ==
  /\ pc = "cds" /\ i <= Len(current_seg)
  /\ current_seg' = [current_seg EXCEPT ![Min({i + 1, Len(current_seg)})] = Tagged(@, bits)]
  /\ i' = i + 1
  /\ UNCHANGED <<inVars, pc, has_parent, parent_seg, output>>

\* Level 3 adds bits to one block.
TagNext(bits) ==
  /\ pc = "cds" /\ i <= Len(current_seg)
  /\ current_seg' = [current_seg EXCEPT ![i] = Tagged(@, bits)]
  /\ i' = i + 1
  /\ UNCHANGED <<inVars, pc, has_parent, parent_seg, output>>

WriteSegment ==
  /\ pc = "cds" /\ i > Len(current_seg)
  /\ output' = output \o current_seg
  /\ pc' = "load"
  /\ UNCHANGED <<inVars, has_parent, current_seg, parent_seg, i>>

\* Nothing is left of the snapshot; the failed load clears the segment.
EndOfSnapshot(phase) ==
  /\ pc = "load"
  /\ SegmentBlocks(current_input) = <<>>
  /\ current_seg' = <<>> /\ current_input' = <<>>
  /\ pc' = phase
  /\ UNCHANGED <<argVars, parent_input, has_parent, parent_seg, i, output>>

Close ==
  /\ pc = "close"
  /\ pc' = "done"
  /\ UNCHANGED <<inVars, has_parent, current_seg, parent_seg, i, output>>

Kill ==
  /\ ~Stopped
  /\ pc' = "killed"
  /\ output' \in Prefixes(output)
  /\ UNCHANGED <<inVars, has_parent, current_seg, parent_seg, i>>

-----------------------------------------------------------------------------
(* What the output of a run says *)

\* Segments neither lose nor repeat nor reorder a block: whatever the sizes
\* of records, and with empty records anywhere, the output is the snapshot.
OutputIsSnapshot ==
  /\ ~Stopped => Untagged(NonEmpty(snapshot)) =
       Untagged(output)
         \o (IF pc \in {"tag", "cds"} THEN Untagged(current_seg) ELSE <<>>)
         \o Untagged(NonEmpty(current_input))
  /\ pc = "done" => Untagged(output) = Untagged(NonEmpty(snapshot))

\* A trace of fixed-boundary mode with the boundary FIX_SEGMENT_SIZE, which
\* is how dedup_main scans snapshots: contiguous, no block across a boundary.
IsAligned(trace) ==
  \A k \in DOMAIN trace :
    /\ trace[k].offset = TotalSize(SubSeq(trace, 1, k - 1))
    /\ trace[k].offset \div FIX_SEGMENT_SIZE =
         (trace[k].offset + trace[k].size - 1) \div FIX_SEGMENT_SIZE

RangeOf(blk) == blk.offset \div FIX_SEGMENT_SIZE

OfRange(blocks, r) ==
  FoldLeft(LAMBDA kept, blk : IF RangeOf(blk) = r THEN Append(kept, blk) ELSE kept, <<>>, blocks)

InRange(trace, r) == OfRange(NonEmpty(trace), r)

ParentTrace == IF parent = NoParent THEN <<>> ELSE parent

=============================================================================
