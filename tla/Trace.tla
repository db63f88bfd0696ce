------------------------------- MODULE Trace -------------------------------
(***************************************************************************)
(* Scan logs as the later programs read them (trace_types.cpp and the      *)
(* load_segment of each simulator): a trace is the sequence of its         *)
(* complete records, read front to back in segments of FIX_SEGMENT_SIZE    *)
(* bytes or a little more.                                                 *)
(*                                                                         *)
(* file_id_ is reused by the simulators for a set of tag bits, and is      *)
(* modelled as one.                                                        *)
(***************************************************************************)
EXTENDS Integers, SequencesExt

CONSTANT FIX_SEGMENT_SIZE    \* 2MB in the code

ASSUME SegmentSizeAssumption == FIX_SEGMENT_SIZE \in Nat \ {0}

\* A record, its checksum as a number in the order of memcmp.
Block == [cksum : Int, size : Nat, offset : Nat, file_id : SUBSET Nat]

IN_PARENT    == {0}
IN_CDS       == {1}
IN_DIRTY_SEG == {0, 2}
IN_CDS_CACHE == {1, 3}

\* Records of size zero are read and left out.
NonEmpty(trace) ==
  FoldLeft(LAMBDA kept, blk : IF blk.size = 0 THEN kept ELSE Append(kept, blk), <<>>, trace)

TotalSize(blocks) == FoldLeft(LAMBDA n, blk : n + blk.size, 0, blocks)

\* Mutant: a record that reaches the limit exactly does not end a segment.
RecordsPastSize(trace) ==
  {n \in 1 .. Len(trace) : TotalSize(SubSeq(trace, 1, n)) > FIX_SEGMENT_SIZE}

\* Mutant: an empty record ends a segment, too.
RecordsToSizeOrEmpty(trace) ==
  {n \in 1 .. Len(trace) : \/ TotalSize(SubSeq(trace, 1, n)) >= FIX_SEGMENT_SIZE
                          \/ trace[n].size = 0}

\* The records with which a segment may end.
RecordsToSize(trace) ==
  {n \in 1 .. Len(trace) : TotalSize(SubSeq(trace, 1, n)) >= FIX_SEGMENT_SIZE}

\* How many records the next segment takes: all there are, or as many as it
\* needs to reach FIX_SEGMENT_SIZE.
SegmentLen(trace) == Min(RecordsToSize(trace) \union {Len(trace)})

Untagged(blocks) == [k \in DOMAIN blocks |-> [blocks[k] EXCEPT !.file_id = {}]]

\* The blocks of the next segment, all tagged new.
SegmentBlocks(trace) == Untagged(NonEmpty(SubSeq(trace, 1, SegmentLen(trace))))

AfterSegment(trace) == SubSeq(trace, SegmentLen(trace) + 1, Len(trace))

\* The checksum of a segment is that of its blocks' checksums.
SegmentCksum(seg) == [k \in DOMAIN seg |-> seg[k].cksum]

Contents(blocks) == {blocks[k].cksum : k \in DOMAIN blocks}

\* std::binary_search, by checksum, as the standard library carries it out:
\* it finds what is there in a sorted vector and may miss it in another.
BinarySearch(blocks, c) ==
  LET lower[n \in 0 .. Len(blocks)] ==    \* of the n records from first + 1 on
        [first \in Nat |->
           LET half == n \div 2
           IN  IF n = 0 THEN first
               ELSE IF blocks[first + half + 1].cksum < c
                      THEN lower[n - half - 1][first + half + 1]
                      ELSE lower[half][first]]
      at == lower[Len(blocks)][0] + 1
  IN  at <= Len(blocks) /\ blocks[at].cksum = c

Sorted(blocks) == \A i, j \in DOMAIN blocks : i < j => blocks[i].cksum <= blocks[j].cksum

\* The segments of a trace.
Segments(trace) ==
  LET from[k \in 0 .. Len(trace)] ==
        LET rem == SubSeq(trace, k + 1, Len(trace))
        IN  IF SegmentBlocks(rem) = <<>> THEN <<>>
            ELSE <<SegmentBlocks(rem)>> \o from[k + SegmentLen(rem)]
  IN  from[0]

=============================================================================
