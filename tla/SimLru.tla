------------------------------- MODULE SimLru -------------------------------
(***************************************************************************)
(* dedup_sim_lru.cpp with the LruCache of lru_cache.cpp: as CdsSim, but    *)
(* level 2 searches a cache of the blocks of all dirty parent segments     *)
(* read so far.  The cache is a vector that is sorted by time to discard   *)
(* and by checksum to search; one content may be in it several times.  It  *)
(* is modelled as a bag of entries, each a checksum with a time.           *)
(***************************************************************************)
EXTENDS CdsSim, TimedCache, Bags

vectorVars == <<capacity, cache, clock>>
simVars    == <<snapshotVars, vectorVars>>

Size == SumFunction(cache)

Cached == {e.cksum : e \in BagToSet(cache)}

SimInit == Init /\ capacity = 0 /\ cache = EmptyBag /\ clock = 1

SimOpen == Open /\ capacity' \in Capacities /\ cache' = EmptyBag /\ clock' = 1

StillHasParent == has_parent /\ NextParentSeg # <<>>

\* A parent that is exhausted is not asked again.
SimLoadSegments ==
  /\ pc = "load"
  /\ SegmentBlocks(current_input) # <<>>
  /\ current_seg' = SegmentBlocks(current_input)
  /\ current_input' = AfterSegment(current_input)
  /\ IF has_parent
       THEN parent_seg' = NextParentSeg /\ parent_input' = AfterSegment(parent_input)
       ELSE UNCHANGED <<parent_seg, parent_input>>
  /\ has_parent' = StillHasParent
  /\ i' = 1
  /\ pc' = "tag"
  /\ UNCHANGED <<argVars, output, vectorVars>>

AsEntries(blocks, t) ==
  [e \in {[cksum |-> c, time |-> t] : c \in Contents(blocks)} |->
     Cardinality({k \in DOMAIN blocks : blocks[k].cksum = e.cksum})]

\* How many of each entry to discard to be rid of n, none of them younger
\* than one that stays.
Oldest(n) ==
  {gone \in [BagToSet(cache) -> 0 .. n] :
     /\ \A e \in BagToSet(cache) : gone[e] <= cache[e]
     /\ SumFunction(gone) = n
     /\ \A e, f \in BagToSet(cache) : gone[e] > 0 /\ gone[f] < cache[f] => e.time <= f.time}

Full == Size >= capacity

\* Mutant: one entry too few is discarded.
ToDiscardLess ==
  LET n == Len(parent_seg)
  IN  IF Full THEN n - 1 ELSE IF n + Size > capacity THEN Min({Size, n + Size - capacity}) ELSE 0

\* A full cache has as many entries overwritten as there are blocks to add;
\* from any other, RemoveItems takes what would be too many, or all there is.
ToDiscard ==
  LET n == Len(parent_seg)
  IN  IF Full THEN n ELSE IF n + Size > capacity THEN Min({Size, n + Size - capacity}) ELSE 0

\* Mutant: the blocks are added when the segment has been searched.
AddBlocksLater(t) == cache

AddBlocks(t) == AsEntries(parent_seg, t)

\* AddItems of a dirty segment.
AddItems ==
  /\ pc = "tag" /\ has_parent /\ ~SegmentUnchanged
  /\ Full => Len(parent_seg) <= Size
  /\ \E t \in Readings, gone \in Oldest(ToDiscard) :
       /\ clock' = t
       /\ cache' = (cache (-) gone) (+) AddBlocks(t)
  /\ pc' = "search"
  /\ UNCHANGED <<inVars, has_parent, current_seg, parent_seg, i, output, capacity>>

\* parent_seg is sorted by checksum by the time its blocks are added.
ByHash ==
  {order \in [DOMAIN parent_seg -> DOMAIN parent_seg] :
     /\ IsInjective(order)
     /\ \A j, k \in DOMAIN parent_seg :
          j < k => parent_seg[order[j]].cksum <= parent_seg[order[k]].cksum}

\* A full cache smaller than the segment: its first blocks overwrite all
\* entries, and the loop runs on, in front of the vector.  The run dies there,
\* which is Kill in this state, or the rest is nowhere.
AddOverrun ==
  /\ pc = "tag" /\ has_parent /\ ~SegmentUnchanged
  /\ Full /\ Len(parent_seg) > Size
  /\ \E t \in Readings, order \in ByHash :
       /\ clock' = t
       /\ cache' = AsEntries([k \in 1 .. Size |-> parent_seg[order[k]]], t)
  /\ pc' = "search"
  /\ UNCHANGED <<inVars, has_parent, current_seg, parent_seg, i, output, capacity>>

\* SearchItem: one entry of that content is renewed.
SearchHit ==
  /\ pc = "search" /\ i <= Len(current_seg)
  /\ \E e \in BagToSet(cache), t \in Readings :
       /\ e.cksum = current_seg[i].cksum
       /\ clock' = t
       /\ cache' = (cache (-) SetToBag({e})) (+) SetToBag({[e EXCEPT !.time = t]})
  /\ current_seg' = [current_seg EXCEPT ![i] = Tagged(@, IN_DIRTY_SEG)]
  /\ i' = i + 1
  /\ UNCHANGED <<inVars, pc, has_parent, parent_seg, output, capacity>>

SearchMiss ==
  /\ pc = "search" /\ i <= Len(current_seg)
  /\ current_seg[i].cksum \notin Cached
  /\ i' = i + 1
  /\ UNCHANGED <<inVars, pc, has_parent, current_seg, parent_seg, output, vectorVars>>

SearchDone ==
  /\ pc = "search" /\ i > Len(current_seg)
  /\ i' = 1
  /\ pc' = "cds"
  /\ UNCHANGED <<inVars, has_parent, current_seg, parent_seg, output, vectorVars>>

SimNext ==
  \/ SimOpen
  \/ SimLoadSegments
  \/ AddItems \/ AddOverrun \/ SearchHit \/ SearchMiss \/ SearchDone
  \/ /\ \/ TagParent \/ WithoutParent \/ SearchCds \/ WriteSegment
        \/ EndOfSnapshot("close") \/ Close \/ Kill
     /\ UNCHANGED vectorVars

SimSpec == SimInit /\ [][SimNext]_simVars

-----------------------------------------------------------------------------

SegmentsFit == \A k \in DOMAIN Segments(ParentTrace) : Len(Segments(ParentTrace)[k]) <= capacity

\* As long as no segment has more blocks than the cache may hold entries,
\* the cache never holds more, however often contents come back.
SizeIsKept == SegmentsFit => Size <= capacity

\* Then level 2 with a cache finds all that level 2 without one finds,
\* whatever was discarded: a tag has at least the bits CdsSim would give it.
LruFindsMore ==
  SegmentsFit /\ IsAligned(snapshot) /\ IsAligned(ParentTrace) /\ Sorted(cds) =>
    \A k \in DOMAIN output : RightTag(output[k]) \subseteq output[k].file_id

\* What the parent holds as far as it has been read.
SearchedBefore == Contents(SubSeq(ParentTrace, 1, Len(ParentTrace) - Len(parent_input)))

\* And what it finds beyond that is no invention: the content was in a part
\* of the parent that has been read, and IN_PARENT alone still says that the
\* whole segment is the parent's.
LruFindsOnlyParents ==
  /\ \A k \in DOMAIN output :
       0 \in output[k].file_id => output[k].cksum \in SearchedBefore
  /\ IsAligned(snapshot) /\ IsAligned(ParentTrace) /\ Sorted(cds) =>
       \A k \in DOMAIN output :
         output[k].file_id \intersect IN_DIRTY_SEG = IN_PARENT
           => IN_PARENT = RightTag(output[k]) \intersect IN_DIRTY_SEG

=============================================================================
