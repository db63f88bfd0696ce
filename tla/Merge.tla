------------------------------- MODULE Merge -------------------------------
(***************************************************************************)
(* The k-way merge that counts how often each block occurs in sorted logs, *)
(* dedup_merge.cpp: a loser tree over buffered streams, and counters by    *)
(* the number of duplicates.  dedup_merge.cpp.old is the release before.   *)
(* The two differ in the stream the next block is loaded from, in the last *)
(* counter, and in what they write; everything else is the same.           *)
(*                                                                         *)
(* A block is its checksum and its size.  Logs are sorted and hold whole   *)
(* records, as dedup_sort.cpp writes them; so does a buffer.               *)
(***************************************************************************)
EXTENDS Integers, SequencesExt, FiniteSetsExt

CONSTANTS
  Logs,          \* sequences of logs; a run is given one whose logs are sorted
  Thresholds,    \* the thresholds it may be given; None is none
  None,
  BufferSize,    \* MERGE_BUFFER_SIZE, in records
  FREQ_COUNT,    \* number of counters of the old release
  CounterSize,   \* one more than the largest value of a counter
  MaxFailures    \* bound: reads that fail

Block == [cksum : Nat, size : Nat]

\* With no log at all the merge looks at what is not there.
ASSUME LogsAssumption == Logs \subseteq Seq(Seq(Block)) \ {<<>>} /\ BufferSize \in Nat \ {0}

\* Blocks of the same content are of the same size, except that size zero is
\* the size of none.
ASSUME ContentAssumption ==
  \A s \in Logs : \A j, k \in DOMAIN s : \A m \in DOMAIN s[j], n \in DOMAIN s[k] :
    s[j][m].cksum = s[k][n].cksum /\ s[j][m].size # 0 /\ s[k][n].size # 0 => s[j][m] = s[k][n]

ASSUME CountersAssumption ==
  /\ FREQ_COUNT \in Nat \ {0} /\ CounterSize \in Nat \ {0}
  /\ Thresholds \subseteq Nat \union {None} /\ None \notin Nat

VARIABLES
  release,       \* "old" or "new"
  threshold,     \* None: write_cds is false
  logs,          \* the files, numbered from zero
  pc,            \* "open", "load", "count", "next", "end", "done" or "died"
  i,
  pos,           \* records read from each file
  buf,           \* what is left of the buffer of each
  full,          \* was its last read a full one?
  failures,      \* reads that failed, for each file
  bls,           \* the next block of each
  tree,          \* tree[0] is the winner, the others are losers
  last_blk, dup_count,
  blk_count, size_count, dedup_count,
  os             \* the output

inputVars  == <<release, threshold, logs>>
streamVars == <<pos, buf, full, failures, bls>>
countVars  == <<last_blk, dup_count, blk_count, size_count, dedup_count, os>>
vars == <<inputVars, pc, i, streamVars, tree, countVars>>

num_files == Len(logs)
Files == 0 .. num_files - 1
Log(w) == logs[w + 1]

EndBlock == [cksum |-> 0, size |-> 0]

\* What dedup_sort writes.
Sorted(log) == \A j, k \in DOMAIN log : j < k => log[j].cksum <= log[k].cksum

\* The old release needs two files; with one it compares with what is not there.
Init ==
  /\ release \in {"old", "new"}
  /\ logs \in {s \in Logs : \A k \in DOMAIN s : Sorted(s[k])}
  /\ release = "old" => num_files >= 2
  /\ threshold \in IF release = "old" THEN {None} ELSE Thresholds
  /\ pc = "open" /\ i = 0
  /\ pos = [w \in Files |-> 0] /\ buf = [w \in Files |-> <<>>]
  /\ full = [w \in Files |-> FALSE] /\ failures = [w \in Files |-> 0]
  /\ bls = [w \in Files |-> EndBlock] /\ tree = [k \in Files |-> 0]
  /\ last_blk = EndBlock /\ dup_count = 1 /\ os = <<>>
  /\ blk_count = [n \in 0 .. CounterSize - 1 |-> 0]
  /\ size_count = blk_count /\ dedup_count = blk_count

-----------------------------------------------------------------------------
(* block_compare: a block of size zero comes after all others *)

\* Mutant: blocks of size zero are like any others.
AfterByCksum(b1, b2) == b1.cksum > b2.cksum

After(b1, b2) ==
  IF b1.size = 0 \/ b2.size = 0 THEN b2.size > b1.size ELSE b1.cksum > b2.cksum

SameBlock(b1, b2) == ~After(b1, b2) /\ ~After(b2, b1)

-----------------------------------------------------------------------------
(* Streams *)

Open ==
  /\ pc = "open"
  /\ pc' = "load"
  /\ UNCHANGED <<inputVars, i, streamVars, tree, countVars>>

\* A log that cannot be opened ends the run.
CannotOpen ==
  /\ pc = "open"
  /\ pc' = "done"
  /\ UNCHANGED <<inputVars, i, streamVars, tree, countVars>>

\* What a read may return: as much as the buffer takes, or less if it fails.
Reads(w) ==
  LET rest == Len(Log(w)) - pos[w]
      most == IF rest < BufferSize THEN rest ELSE BufferSize
  IN  {most} \union (IF failures[w] < MaxFailures THEN 0 .. most - 1 ELSE {})

\* load_buffer, and the block at its front.
LoadBuffer(w) ==
  \E n \in Reads(w) :
    LET got == SubSeq(Log(w), pos[w] + 1, pos[w] + n)
    IN  /\ pos' = [pos EXCEPT ![w] = @ + n]
        /\ full' = [full EXCEPT ![w] = n = BufferSize]
        /\ failures' = [failures EXCEPT ![w] = IF n = Max(Reads(w)) THEN @ ELSE @ + 1]
        /\ buf' = [buf EXCEPT ![w] = IF n = 0 THEN <<>> ELSE Tail(got)]
        /\ bls' = [bls EXCEPT ![w] = IF n = 0 THEN [@ EXCEPT !.size = 0] ELSE Head(got)]

\* Mutant: a full buffer that is used up is the end of the log.
LoadBlockOfOneBuffer(w) ==
  /\ IF buf[w] # <<>>
       THEN bls' = [bls EXCEPT ![w] = Head(buf[w])] /\ buf' = [buf EXCEPT ![w] = Tail(@)]
       ELSE bls' = [bls EXCEPT ![w].size = 0] /\ UNCHANGED buf
  /\ UNCHANGED <<pos, full, failures>>

\* load_block: only behind a full buffer may there be more.
LoadBlock(w) ==
  IF buf[w] = <<>> /\ full[w] THEN LoadBuffer(w)
  ELSE /\ IF buf[w] # <<>>
            THEN bls' = [bls EXCEPT ![w] = Head(buf[w])] /\ buf' = [buf EXCEPT ![w] = Tail(@)]
            ELSE bls' = [bls EXCEPT ![w].size = 0] /\ UNCHANGED buf
       /\ UNCHANGED <<pos, full, failures>>

LoadFirst ==
  /\ pc = "load" /\ i < num_files
  /\ LoadBuffer(i)
  /\ i' = i + 1
  /\ UNCHANGED <<inputVars, pc, tree, countVars>>

-----------------------------------------------------------------------------
(* The loser tree: node k has the children 2k and 2k + 1, and a child that *)
(* is not a node is the stream num_files less *)

\* init_tree: what wins at each node, and what loses.
InitTree ==
  LET Winner[k \in 1 .. 2 * num_files - 1] ==
        IF k >= num_files THEN k - num_files
        ELSE IF After(bls[Winner[2 * k]], bls[Winner[2 * k + 1]])
             THEN Winner[2 * k + 1] ELSE Winner[2 * k]
  IN  [k \in Files |-> IF k = 0 THEN Winner[1]
                       ELSE IF Winner[k] = Winner[2 * k] THEN Winner[2 * k + 1] ELSE Winner[2 * k]]

\* Mutant: only the last match is played.
AdjustTreeAtRoot(t, blocks, new) ==
  IF num_files = 1 \/ After(blocks[t[1]], blocks[new]) THEN t
  ELSE [t EXCEPT ![0] = t[1], ![1] = new]

\* adjust_tree: up from its leaf, the stream that has a new block plays those
\* that lost, and changes place with each that it does not beat.
AdjustTree(t, blocks, new) ==
  LET Play(at) ==
        LET k == at.parent
        IN  IF k = 0 THEN at
            ELSE IF After(blocks[at.tree[k]], blocks[at.small]) THEN [at EXCEPT !.parent = k \div 2]
            ELSE [parent |-> k \div 2, small |-> at.tree[k], tree |-> [at.tree EXCEPT ![k] = at.small]]
      Round[n \in 0 .. num_files] ==
        IF n = 0 THEN [parent |-> (new + num_files) \div 2, small |-> new, tree |-> t] ELSE Play(Round[n - 1])
      top == Round[num_files]
  IN  [top.tree EXCEPT ![0] = top.small]

StartMerge ==
  /\ pc = "load" /\ i = num_files
  /\ tree' = InitTree
  /\ pc' = "count"
  /\ UNCHANGED <<inputVars, i, streamVars, countVars>>

-----------------------------------------------------------------------------
(* count *)

winner == tree[0]

\* The counter of blocks that occur n times: the old release has FREQ_COUNT
\* of them, and the last one is for all that occur more often too.
Counter(n) == IF release = "old" /\ n >= FREQ_COUNT THEN FREQ_COUNT ELSE n

IsWritten(n) == threshold # None /\ n >= threshold

\* A block that is not the last one's duplicate ends the count of that one.
CountBlock ==
  /\ last_blk' = bls[winner]
  /\ IF SameBlock(bls[winner], last_blk)
     THEN /\ dup_count' = (dup_count + 1) % CounterSize
          /\ UNCHANGED <<blk_count, size_count, dedup_count, os>>
     ELSE LET c == Counter(dup_count)
          IN  /\ blk_count' = [blk_count EXCEPT ![c] = (@ + 1) % CounterSize]
              /\ size_count' = [size_count EXCEPT ![c] = (@ + last_blk.size * dup_count) % CounterSize]
              /\ dedup_count' = [dedup_count EXCEPT ![c] = (@ + last_blk.size) % CounterSize]
              /\ os' = IF IsWritten(dup_count)
                       THEN Append(os, [block |-> last_blk, offset |-> dup_count]) ELSE os
              /\ dup_count' = 1

\* The first block of size zero is counted as well, so that the one before
\* it is, and ends the merge.
Count ==
  /\ pc = "count"
  /\ CountBlock
  /\ pc' = IF bls[winner].size = 0 THEN "end" ELSE "next"
  /\ UNCHANGED <<inputVars, i, streamVars, tree>>

\* Mutant: what the new release does.
LoadNextOfNone ==
  /\ pc = "next" /\ release = "old"
  /\ tree' = AdjustTree(tree, bls, winner)
  /\ pc' = "count"
  /\ UNCHANGED <<inputVars, i, streamVars, countVars>>

\* The old release: the next block of the stream whose block was counted.
LoadNext ==
  /\ pc = "next" /\ release = "old"
  /\ LoadBlock(winner)
  /\ tree' = AdjustTree(tree, bls', winner)
  /\ pc' = "count"
  /\ UNCHANGED <<inputVars, i, countVars>>

\* The new one: the next block of stream i, which is num_files: of no stream.
\* What that reads and writes is behind the arrays: the run dies of it, or the
\* streams stay as they are.
LoadPastEnd ==
  /\ pc = "next" /\ release = "new"
  /\ \/ pc' = "count" /\ tree' = AdjustTree(tree, bls, winner)
     \/ pc' = "died" /\ UNCHANGED tree
  /\ UNCHANGED <<inputVars, i, streamVars, countVars>>

\* The block of size zero that stood before the first one was counted too.
Finish ==
  /\ pc = "end"
  /\ blk_count' = [blk_count EXCEPT ![1] = (@ - 1) % CounterSize]
  /\ pc' = "done"
  /\ UNCHANGED <<inputVars, i, streamVars, tree, last_blk, dup_count, size_count, dedup_count, os>>

Next ==
  \/ Open \/ CannotOpen \/ LoadFirst \/ StartMerge
  \/ Count \/ LoadNext \/ LoadPastEnd \/ Finish

Spec == Init /\ [][Next]_vars

\* A single thread that nothing blocks.
FairSpec == Spec /\ WF_vars(Next)

-----------------------------------------------------------------------------

\* Between two matches the tree holds every stream once, and its winner is a
\* stream with a least block, whichever streams are at their end.
WinnerIsLeast ==
  pc \in {"count", "end"} =>
    /\ {tree[k] : k \in Files} = Files
    /\ \A w \in Files : ~After(bls[winner], bls[w])

\* What the merge is to count of a file: what was read of it, up to the first
\* block of size zero, with which it seems to be at its end.
Counted(w) ==
  LET read  == SubSeq(Log(w), 1, pos[w])
      zeros == {k \in DOMAIN read : read[k].size = 0}
  IN  IF zeros = {} THEN read ELSE SubSeq(read, 1, Min(zeros) - 1)

\* The places, in all the files, of what is to be counted.
AllCounted == UNION {{w} \X DOMAIN Counted(w) : w \in Files}
BlockAt(p) == Log(p[1])[p[2]]
Times(b) == Cardinality({p \in AllCounted : BlockAt(p) = b})
InCounter(c) == {b \in {BlockAt(p) : p \in AllCounted} : Counter(Times(b)) = c}

\* A file that did not fail is read to its end, or to a block of size zero.
ReadInFull(w) ==
  failures[w] > 0 \/ pos[w] = Len(Log(w)) \/ Len(Counted(w)) < pos[w]

\* When the old release has counted the last block, each counter tells how
\* many blocks occur so often, and of what size, as long as none occurs more
\* often than a counter can count.  Only with nothing to count it is wrong:
\* one less than zero blocks occur once.
HistogramIsRight ==
  pc = "done" /\ release = "old" /\ i = num_files =>
    /\ \A w \in Files : ReadInFull(w)
    /\ (\A p \in AllCounted : Times(BlockAt(p)) < CounterSize) =>
         \A c \in 1 .. CounterSize - 1 :
           LET wrong == IF AllCounted = {} /\ c = 1 THEN -1 ELSE 0
               total == SumFunction([b \in InCounter(c) |-> b.size * Times(b)])
           IN  /\ blk_count[c] = (Cardinality(InCounter(c)) + wrong) % CounterSize
               /\ size_count[c] = total % CounterSize
               /\ dedup_count[c] = SumFunction([b \in InCounter(c) |-> b.size]) % CounterSize

\* "This program performs complete deduplication over input files.  If a
\* threshold is given, will output blocks whose duplication count are equal or
\* above threshold" (dedup_merge.cpp:37).  Said of the release at hand: unless
\* it dies, it ends, and of logs that opened these blocks are in the output.
FrequentBlocks == {BlockAt(p) : p \in {q \in AllCounted : IsWritten(Times(BlockAt(q)))}}

CompleteDeduplication ==
  release = "new" =>
    <>(\/ pc = "died"
       \/ pc = "done" /\ (i = num_files => FrequentBlocks \subseteq {os[k].block : k \in DOMAIN os}))

\* The records of stream w that are still to come: not yet read, in its buffer
\* or, unless it is of size zero, its next block.
ToCome(w) == Len(Log(w)) - pos[w] + Len(buf[w]) + (IF bls[w].size = 0 THEN 0 ELSE 1)

\* The steps a run has left at most: each stream is opened once, and each record
\* is counted and followed by the next one.
StepsLeft ==
  num_files - i + 2 * SumFunction([w \in Files |-> ToCome(w)])
    + CASE pc = "open" -> 5 [] pc = "load" -> 4 [] pc = "count" -> 3 [] pc = "next" -> 2
        [] pc = "end" -> 1 [] OTHER -> 0

\* No step of the old release takes a record back: each leaves less to do,
\* also one that loads a block after a read that failed or the end of a log.
OldReleaseAdvances == [][release = "old" => StepsLeft' < StepsLeft]_vars

\* The old release gets to the end of all streams.
OldReleaseEnds == release = "old" => <>(pc = "done")

=============================================================================
