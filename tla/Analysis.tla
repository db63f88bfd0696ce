------------------------------ MODULE Analysis ------------------------------
(***************************************************************************)
(* The two programs that are run on the traces of the simulators:          *)
(* dedup_analysis.cpp counts the blocks and bytes of a tagged trace by     *)
(* class, cds_hit_analysis.cpp searches the blocks of a snapshot in a CDS  *)
(* and writes how many are found in a row.  Both read once, front to back, *)
(* and keep nothing but counters, so they are operators on traces.         *)
(***************************************************************************)
EXTENDS Trace

Classes == {"new", "L1", "L2", "L3", "other"}

\* Mutant: a dirty segment's block that is in the CDS too has no case.
ClassOfNoDirtyCds(tag) ==
  CASE tag = {}                                -> "new"
    [] tag \in {IN_PARENT, IN_PARENT \union IN_CDS} -> "L1"
    [] tag = IN_DIRTY_SEG                      -> "L2"
    [] tag = IN_CDS                            -> "L3"
    [] OTHER                                   -> "other"

\* Mutant: what is in the CDS counts for level 3, whoever found it first.
ClassOfCdsFirst(tag) ==
  CASE tag = {}                                -> "new"
    [] 1 \in tag                               -> "L3"
    [] tag = IN_PARENT                         -> "L1"
    [] tag = IN_DIRTY_SEG                      -> "L2"
    [] OTHER                                   -> "other"

\* The switch on file_id: the first level that finds a block has it.
ClassOf(tag) ==
  CASE tag = {}                                           -> "new"
    [] tag \in {IN_PARENT, IN_PARENT \union IN_CDS}       -> "L1"
    [] tag \in {IN_DIRTY_SEG, IN_DIRTY_SEG \union IN_CDS} -> "L2"
    [] tag = IN_CDS                                       -> "L3"
    [] OTHER                                              -> "other"

OfClass(trace, class) ==
  FoldLeft(LAMBDA those, blk : IF ClassOf(blk.file_id) = class THEN Append(those, blk) ELSE those,
           <<>>, trace)

\* The lines the program prints: blocks and bytes of every class.
Report(trace) ==
  [c \in Classes |-> [blocks |-> Len(OfClass(trace, c)), data |-> TotalSize(OfClass(trace, c))]]

\* Mutant: every miss writes a line.
AfterMissAlways(s) == [hit_len |-> 0, output |-> Append(s.output, s.hit_len)]

\* A miss writes the length of the hits before it, if there were any.
AfterMiss(s) ==
  IF s.hit_len # 0 THEN [hit_len |-> 0, output |-> Append(s.output, s.hit_len)] ELSE s

AfterBlock(s, hit) == IF hit THEN [s EXCEPT !.hit_len = @ + 1] ELSE AfterMiss(s)

\* The blocks of a segment, each searched in the CDS.
AfterBlocks(s, seg, blocks) ==
  FoldLeft(LAMBDA t, blk : AfterBlock(t, BinarySearch(blocks, blk.cksum)), s, seg)

NothingRead == [hit_len |-> 0, output |-> <<>>]

\* Mutant: the count begins anew in every segment.
HitLengthsBySegment(trace, blocks) ==
  FoldLeft(LAMBDA s, seg : AfterBlocks([s EXCEPT !.hit_len = 0], seg, blocks),
           NothingRead, Segments(trace)).output

\* Segment after segment; hits that reach the end of the trace are not
\* followed by a miss and are not written.
HitLengths(trace, blocks) ==
  FoldLeft(LAMBDA s, seg : AfterBlocks(s, seg, blocks), NothingRead, Segments(trace)).output

=============================================================================
