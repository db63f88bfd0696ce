------------------------------- MODULE CdsSim -------------------------------
(***************************************************************************)
(* dedup_cds_sim.cpp, and dedup_sim.cpp, which is the same file: level 1   *)
(* compares the segment with the parent's, level 2 searches the parent's   *)
(* segment when they differ, level 3 searches the CDS for every block.     *)
(***************************************************************************)
EXTENDS Snapshot

vars == snapshotVars

\* SearchBlock, in a segment sorted when it was loaded.
InParentSeg(blk) == blk.cksum \in Contents(parent_seg)

\* Level 2.
TagDirty ==
  /\ pc = "tag" /\ has_parent /\ ~SegmentUnchanged
  /\ current_seg' = [k \in DOMAIN current_seg |->
       IF InParentSeg(current_seg[k]) THEN Tagged(current_seg[k], IN_DIRTY_SEG)
                                      ELSE current_seg[k]]
  /\ pc' = "cds"
  /\ UNCHANGED <<inVars, has_parent, parent_seg, i, output>>

InCds(blk) == BinarySearch(cds, blk.cksum)

SearchCds == TagNext(IF i <= Len(current_seg) /\ InCds(current_seg[i]) THEN IN_CDS ELSE {})

Next ==
  \/ Open
  \/ LoadSegments \/ TagParent \/ TagDirty \/ WithoutParent \/ SearchCds \/ WriteSegment
  \/ EndOfSnapshot("close") \/ Close
  \/ Kill

Spec == Init /\ [][Next]_vars

-----------------------------------------------------------------------------

\* The tag a block of the snapshot should get, said of the traces alone: of
\* segments, of the order of reading and of where a trace ends it knows
\* nothing.
RightTag(blk) ==
  LET here  == InRange(snapshot, RangeOf(blk))
      there == InRange(ParentTrace, RangeOf(blk))
  IN  (IF SegmentCksum(here) = SegmentCksum(there) THEN IN_PARENT
       ELSE IF blk.cksum \in Contents(there) THEN IN_DIRTY_SEG
       ELSE {})
      \union (IF blk.cksum \in Contents(cds) THEN IN_CDS ELSE {})

\* For traces of fixed-boundary mode and a sorted CDS every tag is the right
\* one: blocks are compared with what the parent has in the same 2MB of the
\* disk, also after one of the traces has ended.
TagsAreRight ==
  IsAligned(snapshot) /\ IsAligned(ParentTrace) /\ Sorted(cds) =>
    \A k \in DOMAIN output : output[k].file_id = RightTag(output[k])

\* Whatever the inputs, also for traces that are not aligned and a CDS that
\* is not sorted: nothing is called a duplicate that is not one.
NoFalseDuplicates ==
  \A k \in DOMAIN output :
    /\ 0 \in output[k].file_id => output[k].cksum \in Contents(ParentTrace)
    /\ 1 \in output[k].file_id => output[k].cksum \in Contents(cds)

=============================================================================
