--------------------------- MODULE DirScanProofs ---------------------------
(***************************************************************************)
(* The directory scan, for file systems, options and readers of any kind,  *)
(* any number of changes under the walk, and a kill at any point: a block  *)
(* never leads to a wrong file, no record but the last lacks blocks, the   *)
(* limits on large files are kept, and every path is met once.             *)
(***************************************************************************)
EXTENDS DirScan, DataTheorems

Entry == [name : Paths, slash : BOOLEAN]

Types ==
  /\ fs \in [Paths -> Node]
  /\ pc \in {"open", "dir", "file", "scan", "save", "flush", "done", "killed"}
  /\ stack \in Seq(Seq(Entry))
  /\ pc = "dir" => stack # <<>>
  /\ path \in Paths /\ size \in Nat
  /\ file_id \in Nat
  /\ filelog \in Seq([file_id : Nat, size : Nat, name : Paths])
  /\ blocklog \in Seq([file_id : Nat, name : Paths])
  /\ counts \in Seq(Nat) /\ flushed \in 0 .. Len(blocklog)

-----------------------------------------------------------------------------
(* Types *)

LEMMA PathsAreFine == <<>> \in Paths /\ IsFiniteSet(Paths)
  BY PathsAssumption

LEMMA EntriesType ==
  ASSUME Types
  PROVE  IsFiniteSet(Entries(path)) /\ Entries(path) \subseteq Entry
<1> DEFINE f == [q \in Paths |-> [name |-> q, slash |-> args.ft = "PANGU" /\ fs[q].kind \in {"dir", "locked"}]]
           I == {q \in Paths : q # <<>> /\ Front(q) = path /\ fs[q].kind # "absent"}
<1>1. IsFiniteSet(I)
  BY PathsAreFine, FS_Subset
<1>2. Entries(path) = {f[q] : q \in I}
  BY DEF Entries
<1>3. IsFiniteSet({f[q] : q \in I})
  <2>1. [q \in I |-> f[q]] \in Surjection(I, {f[q] : q \in I})
    <3> HIDE DEF f, I
    <3> QED BY DEF Surjection
  <2> HIDE DEF f, I
  <2> QED BY <1>1, <2>1, FS_Surjection
<1>4. \A q \in I : f[q] \in Entry
  BY DEF Entry
<1> QED BY <1>2, <1>3, <1>4

LEMMA AfterScanType ==
  AfterScan \in {"done", "dir"} /\ (AfterScan = "dir" => stack # <<>>)
  BY DEF AfterScan

LEMMA InitTypes == Init => Types
  BY PathsAreFine, NodesAssumption DEF Init, Types

\* Of what save_file appends to.
LEMMA SaveFileType ==
  ASSUME Types, SaveFile
  PROVE  /\ file_id' \in Nat
         /\ filelog' \in Seq([file_id : Nat, size : Nat, name : Paths])
<1>1. CASE opened
  <2>1. [file_id |-> file_id + 1, size |-> size, name |-> path] \in [file_id : Nat, size : Nat, name : Paths]
    BY DEF Types
  <2>2. /\ file_id' = file_id + 1
        /\ filelog' = Append(filelog, [file_id |-> file_id + 1, size |-> size, name |-> path])
    BY <1>1 DEF SaveFile
  <2> QED BY <2>1, <2>2 DEF Types
<1>2. CASE ~opened
  BY <1>2 DEF SaveFile, Types
<1> QED BY <1>1, <1>2

LEMMA StepTypes ==
  ASSUME Types, [Next]_vars
  PROVE  Types'
<1> USE DEF envVars, argVars, readVars, sumVars, logVars, Leave
<1>1. CASE Change
  BY <1>1, NodesAssumption DEF Change, Types
<1>2. CASE Kill
  <2>1. PICK n \in flushed .. Len(blocklog) : blocklog' = SubSeq(blocklog, 1, n)
    BY <1>2 DEF Kill
  <2>2. blocklog' \in Seq([file_id : Nat, name : Paths]) /\ Len(blocklog') = n
    <3> DEFINE B == [file_id : Nat, name : Paths]
    <3>1. blocklog \in Seq(B) /\ n \in Nat /\ n <= Len(blocklog)
      BY DEF Types
    <3> HIDE DEF B
    <3>2. SubSeq(blocklog, 1, n) \in Seq(B) /\ Len(SubSeq(blocklog, 1, n)) = n
      BY <3>1
    <3> QED BY <2>1, <3>2 DEF B
  <2>3. flushed' \in 0 .. Len(blocklog')
    BY <1>2, <2>1, <2>2 DEF Kill, Types
  <2> QED BY <1>2, <2>2, <2>3 DEF Kill, Types
<1>3. CASE NoReader \/ GiveUp \/ SkipSmall
  BY <1>3, AfterScanType DEF NoReader, GiveUp, SkipSmall, Types
<1>4. CASE Retry
  BY <1>4 DEF Retry, Opening, Types
<1>5. CASE OpenDir
  <2>1. PICK entities \in SetToSeqs(Entries(path)) : stack' = Append(stack, entities)
    BY <1>5 DEF OpenDir
  <2>2. entities \in Seq(Entry)
    <3>1. entities \in Seq(Entries(path))
      BY <2>1, EntriesType, SetToSeqsType
    <3> QED BY <3>1, EntriesType
  <2>3. stack' \in Seq(Seq(Entry)) /\ stack' # <<>>
    <3> DEFINE E == Seq(Entry)
    <3>1. stack \in Seq(E) /\ entities \in E
      BY <2>2 DEF Types
    <3> HIDE DEF E
    <3>2. Append(stack, entities) \in Seq(E) /\ Len(Append(stack, entities)) = Len(stack) + 1
      BY <3>1
    <3>3. Len(stack) \in Nat /\ Append(stack, entities) # <<>>
      BY <3>1, <3>2
    <3> QED BY <2>1, <3>2, <3>3 DEF E
  <2> QED BY <1>5, <2>3 DEF OpenDir, Types
<1>6. CASE OpenFile
  <2>1. fs[path].size \in Nat
    BY <1>6 DEF OpenFile, IsFile, Types, Node
  <2> QED BY <1>6, <2>1 DEF OpenFile, Types
<1>7. CASE NextEntry
  <2>1. Last(stack) \in Seq(Entry) /\ Last(stack) # <<>> /\ Front(stack) \in Seq(Seq(Entry))
    BY <1>7 DEF NextEntry, Types, Last, Front
  <2>2. Head(Last(stack)) \in Entry /\ Tail(Last(stack)) \in Seq(Entry)
    BY <2>1
  <2> QED BY <1>7, <2>1, <2>2 DEF NextEntry, Types, Entry
<1>8. CASE EndOfDir
  BY <1>8 DEF EndOfDir, Types, Front
<1>9. CASE SkipFirst \/ SkipRest
  BY <1>9, AfterScanType DEF SkipFirst, SkipRest, CountDown, Types
<1>10. CASE MetaOnly
  BY <1>10, AfterScanType, SaveFileType DEF MetaOnly, CountDown, Types
<1>11. CASE StartScan
  BY <1>11 DEF StartScan, CountDown, Types
<1>12. CASE ScanBlocks
  <2>1. PICK n \in Nat : /\ blocklog' = blocklog \o [k \in 1 .. n |-> [file_id |-> file_id, name |-> path]]
                         /\ counts' = Append(counts, n)
    <3>1. (IF readable THEN 0 .. MaxBlocks ELSE {0}) \subseteq Nat
      OBVIOUS
    <3> QED BY <1>12, <3>1 DEF ScanBlocks
  <2>2. [k \in 1 .. n |-> [file_id |-> file_id, name |-> path]] \in Seq([file_id : Nat, name : Paths])
    BY DEF Types
  <2> QED BY <1>12, <2>1, <2>2 DEF ScanBlocks, Types
<1>13. CASE SaveRecord
  BY <1>13, SaveFileType DEF SaveRecord, Types
<1>14. CASE FlushBlocks
  BY <1>14, AfterScanType DEF FlushBlocks, Types
<1>15. CASE UNCHANGED vars
  BY <1>15 DEF vars, Types
<1> QED
  BY <1>1, <1>2, <1>3, <1>4, <1>5, <1>6, <1>7, <1>8, <1>9, <1>10, <1>11, <1>12, <1>13, <1>14, <1>15
  DEF Next, Walk

-----------------------------------------------------------------------------
(* Numbers *)

\* A block leads to the file it is of.
Finds(b) ==
  \/ b.file_id + 1 \in DOMAIN filelog /\ filelog[b.file_id + 1].name = b.name
  \/ b.file_id + 1 = Len(filelog) + 1 /\ path = b.name /\ pc \in {"save", "killed"}

NumberInv ==
  opened =>
    /\ file_id = Len(filelog)
    /\ \A k \in DOMAIN filelog : filelog[k].file_id = k
    /\ \A k \in DOMAIN blocklog : Finds(blocklog[k])

LEMMA InitNumberInv == Init => NumberInv
  BY DEF Init, NumberInv

\* The steps that write neither log keep the numbers.
LEMMA NothingWritten ==
  ASSUME Types, NumberInv, pc \notin {"save", "killed"},
         UNCHANGED <<opened, file_id, filelog, blocklog>>
  PROVE  NumberInv'
  BY DEF NumberInv, Finds

\* save_file adds the record the last blocks lead to.
LEMMA RecordKeepsNumbers ==
  ASSUME Types, NumberInv, SaveFile, pc # "killed", UNCHANGED <<opened, blocklog>>
  PROVE  NumberInv'
<1> SUFFICES ASSUME opened
             PROVE  NumberInv'
  BY DEF NumberInv
<1> DEFINE r == [file_id |-> file_id + 1, size |-> size, name |-> path]
<1>1. file_id' = file_id + 1 /\ filelog' = Append(filelog, r)
  BY DEF SaveFile
<1>2. /\ Len(filelog') = Len(filelog) + 1
      /\ filelog'[Len(filelog) + 1] = r
      /\ \A k \in DOMAIN filelog : k \in DOMAIN filelog' /\ filelog'[k] = filelog[k]
      /\ DOMAIN filelog' = 1 .. Len(filelog) + 1 /\ DOMAIN filelog = 1 .. Len(filelog)
  <2> DEFINE R == [file_id : Nat, size : Nat, name : Paths]
  <2>1. filelog \in Seq(R) /\ r \in R
    BY DEF Types
  <2> HIDE DEF R, r
  <2> QED BY <1>1, <2>1
<1>3. \A k \in DOMAIN filelog' : filelog'[k].file_id = k
  <2>1. file_id = Len(filelog) /\ Len(filelog) \in Nat /\ r.file_id = file_id + 1
    BY DEF NumberInv, Types
  <2>2. \A k \in DOMAIN filelog : filelog[k].file_id = k
    BY DEF NumberInv
  <2> HIDE DEF r
  <2> QED BY <1>2, <2>1, <2>2
<1>4. \A k \in DOMAIN blocklog' : Finds(blocklog[k])'
  <2> TAKE k \in DOMAIN blocklog'
  <2>1. Finds(blocklog[k])
    BY DEF NumberInv
  <2>2. CASE blocklog[k].file_id + 1 = Len(filelog) + 1 /\ path = blocklog[k].name
    BY <1>2, <2>2 DEF Finds, Types
  <2>3. CASE blocklog[k].file_id + 1 \in DOMAIN filelog /\ filelog[blocklog[k].file_id + 1].name = blocklog[k].name
    BY <1>2, <2>3 DEF Finds
  <2> QED BY <2>1, <2>2, <2>3 DEF Finds
<1> QED BY <1>1, <1>2, <1>3, <1>4 DEF NumberInv

\* The blocks of the file at hand.
NewBlocks(n) == [k \in 1 .. n |-> [file_id |-> file_id, name |-> path]]

LEMMA BlocksAppended ==
  ASSUME Types, NEW n \in Nat, blocklog' = blocklog \o NewBlocks(n)
  PROVE  /\ DOMAIN blocklog' = 1 .. Len(blocklog) + n /\ Len(blocklog') = Len(blocklog) + n
         /\ DOMAIN blocklog = 1 .. Len(blocklog) /\ Len(blocklog) \in Nat
         /\ \A k \in DOMAIN blocklog : blocklog'[k] = blocklog[k]
         /\ \A k \in Len(blocklog) + 1 .. Len(blocklog) + n : blocklog'[k] = [file_id |-> file_id, name |-> path]
<1> DEFINE B == [file_id : Nat, name : Paths]
<1>1. blocklog \in Seq(B) /\ NewBlocks(n) \in Seq(B) /\ Len(NewBlocks(n)) = n
  BY DEF Types, NewBlocks
<1>2. \A k \in 1 .. n : NewBlocks(n)[k] = [file_id |-> file_id, name |-> path]
  BY DEF NewBlocks
<1> HIDE DEF B
<1>3. Len(blocklog) \in Nat /\ Len(blocklog') = Len(blocklog) + n
  BY <1>1
<1>4. DOMAIN blocklog = 1 .. Len(blocklog) /\ DOMAIN blocklog' = 1 .. Len(blocklog) + n
  BY <1>1, <1>3
<1>5. \A k \in 1 .. Len(blocklog) + n :
        blocklog'[k] = IF k <= Len(blocklog) THEN blocklog[k] ELSE NewBlocks(n)[k - Len(blocklog)]
  BY <1>1
<1> QED BY <1>2, <1>3, <1>4, <1>5

LEMMA ScanStep ==
  ASSUME Types, ScanBlocks
  PROVE  \E n \in Nat : blocklog' = blocklog \o NewBlocks(n) /\ counts' = Append(counts, n)
<1>1. (IF readable THEN 0 .. MaxBlocks ELSE {0}) \subseteq Nat
  BY ArgsAssumption
<1> QED BY <1>1 DEF ScanBlocks, NewBlocks

\* What is on disk after a kill is a first part of what was written.
LEMMA KillStep ==
  ASSUME Types, Kill
  PROVE  \E n \in flushed .. Len(blocklog) :
           /\ DOMAIN blocklog' = 1 .. n
           /\ \A k \in 1 .. n : k \in DOMAIN blocklog /\ blocklog'[k] = blocklog[k]
<1>1. PICK n \in flushed .. Len(blocklog) : blocklog' = SubSeq(blocklog, 1, n)
  BY DEF Kill
<1> DEFINE B == [file_id : Nat, name : Paths]
<1>2. blocklog \in Seq(B) /\ n \in Nat /\ n <= Len(blocklog)
  BY DEF Types
<1> HIDE DEF B
<1>3. DOMAIN SubSeq(blocklog, 1, n) = 1 .. n /\ \A k \in 1 .. n : k \in DOMAIN blocklog /\ SubSeq(blocklog, 1, n)[k] = blocklog[k]
  BY <1>2
<1> QED BY <1>1, <1>3

LEMMA StepNumberInv ==
  ASSUME Types, NumberInv, [Next]_vars
  PROVE  NumberInv'
<1> USE DEF envVars, argVars, readVars, sumVars, logVars, Leave
<1>1. CASE Change
  BY <1>1 DEF Change, NumberInv, Finds
<1>2. CASE Kill
  BY <1>2, KillStep DEF Kill, Stopped, NumberInv, Finds
<1>3. CASE NoReader \/ Retry \/ GiveUp \/ OpenDir \/ OpenFile \/ NextEntry \/ EndOfDir
  BY <1>3, NothingWritten DEF NoReader, Retry, GiveUp, OpenDir, OpenFile, NextEntry, EndOfDir, Opening
<1>4. CASE SkipSmall \/ SkipFirst \/ SkipRest \/ StartScan \/ FlushBlocks
  BY <1>4, NothingWritten DEF SkipSmall, SkipFirst, SkipRest, StartScan, FlushBlocks, CountDown
<1>5. CASE MetaOnly
  BY <1>5, RecordKeepsNumbers DEF MetaOnly, CountDown
<1>6. CASE SaveRecord
  BY <1>6, RecordKeepsNumbers DEF SaveRecord
<1>7. CASE ScanBlocks
  <2> SUFFICES ASSUME opened
               PROVE  NumberInv'
    BY <1>7 DEF ScanBlocks, NumberInv
  <2>1. PICK n \in Nat : blocklog' = blocklog \o NewBlocks(n)
    BY <1>7, ScanStep
  <2>2. ASSUME NEW k \in DOMAIN blocklog'
        PROVE  Finds(blocklog[k])'
    <3>1. CASE k \in DOMAIN blocklog
      <4>1. Finds(blocklog[k]) /\ blocklog'[k] = blocklog[k]
        BY <1>7, <2>1, <3>1, BlocksAppended DEF NumberInv, ScanBlocks
      <4> QED BY <1>7, <4>1 DEF Finds, ScanBlocks
    <3>2. CASE k \in Len(blocklog) + 1 .. Len(blocklog) + n
      <4>1. blocklog'[k] = [file_id |-> file_id, name |-> path] /\ file_id = Len(filelog)
        BY <1>7, <2>1, <3>2, BlocksAppended DEF NumberInv, ScanBlocks
      <4> QED BY <1>7, <4>1 DEF Finds, ScanBlocks
    <3> QED BY <2>1, <3>1, <3>2, BlocksAppended
  <2> QED BY <1>7, <2>2 DEF NumberInv, ScanBlocks
<1>8. CASE UNCHANGED vars
  BY <1>8 DEF vars, NumberInv, Finds
<1> QED
  BY <1>1, <1>2, <1>3, <1>4, <1>5, <1>6, <1>7, <1>8 DEF Next, Walk

\* For every tree and every change to it, under every combination of limits,
\* with entries that are retried and given up, and after a kill: the number of
\* a block leads to the record of its file, or to none, never to another's.
THEOREM BlocksFindFiles == Spec => []BlocksFindTheirFile
<1>1. Init => Types /\ NumberInv
  BY InitTypes, InitNumberInv
<1>2. Types /\ NumberInv /\ [Next]_vars => (Types /\ NumberInv)'
  BY StepTypes, StepNumberInv
<1>3. Types /\ NumberInv => BlocksFindTheirFile
  BY DEF NumberInv, Finds, BlocksFindTheirFile
<1> QED BY <1>1, <1>2, <1>3, PTL DEF Spec

-----------------------------------------------------------------------------
(* Blocks on disk *)

\* While the run goes on no record lacks blocks, and those not on disk yet are
\* of the file at hand.
CountInv ==
  opened /\ ~args.meta_only =>
    /\ pc # "killed" => Len(counts) = Len(filelog) + (IF pc = "save" THEN 1 ELSE 0)
    /\ pc # "killed" => \A n \in DOMAIN counts : Cardinality(BlocksOf(n)) = counts[n]
    /\ pc # "killed" => \A k \in DOMAIN blocklog :
                          k > flushed => pc \in {"save", "flush"} /\ blocklog[k].file_id = Len(counts) - 1
    /\ pc = "killed" => \A n \in DOMAIN filelog : n < Len(filelog) => Cardinality(BlocksOf(n)) = counts[n]

LEMMA InitCountInv == Init => CountInv
<1>1. Init => DOMAIN counts = {} /\ DOMAIN blocklog = {} /\ Len(counts) = 0 /\ Len(filelog) = 0 /\ pc = "open"
  BY DEF Init
<1> QED BY <1>1 DEF CountInv

\* The steps that write no log keep the counts.
LEMMA NothingCounted ==
  ASSUME Types, CountInv, pc \notin {"save", "flush", "killed"}, pc' \notin {"save", "killed"},
         UNCHANGED <<args, opened, filelog, blocklog, flushed, counts>>
  PROVE  CountInv'
<1>1. \A n : BlocksOf(n)' = BlocksOf(n)
  BY DEF BlocksOf
<1> QED BY <1>1 DEF CountInv

LEMMA ScanKeepsCounts ==
  ASSUME Types, NumberInv, CountInv, ScanBlocks
  PROVE  CountInv'
<1> SUFFICES ASSUME opened, ~args.meta_only
             PROVE  CountInv'
  BY DEF CountInv, ScanBlocks, argVars
<1> DEFINE L == Len(blocklog)
           F == Len(filelog)
<1>1. PICK n \in Nat : blocklog' = blocklog \o NewBlocks(n) /\ counts' = Append(counts, n)
  BY ScanStep
<1>2. /\ pc = "scan" /\ pc' = "save" /\ flushed' = flushed /\ filelog' = filelog
      /\ L \in Nat /\ F \in Nat /\ flushed \in Nat /\ flushed <= L
  BY DEF ScanBlocks, sumVars, Types
<1>3. /\ DOMAIN blocklog = 1 .. L /\ DOMAIN blocklog' = 1 .. L + n
      /\ \A k \in 1 .. L : blocklog'[k] = blocklog[k]
      /\ \A k \in L + 1 .. L + n : blocklog'[k] = [file_id |-> file_id, name |-> path]
  BY <1>1, BlocksAppended
<1>4. file_id = F /\ Len(counts) = F
  BY <1>2 DEF NumberInv, CountInv
<1>5. /\ Len(counts') = F + 1 /\ DOMAIN counts' = 1 .. F + 1 /\ DOMAIN counts = 1 .. F
      /\ counts'[F + 1] = n /\ \A m \in 1 .. F : counts'[m] = counts[m]
  BY <1>1, <1>2, <1>4 DEF Types
<1>6. \A k \in 1 .. L : k <= flushed
  BY <1>2, <1>3 DEF CountInv
<1>7. \A k \in 1 .. L : blocklog[k].file_id \in Nat /\ blocklog[k].file_id + 1 <= F
  <2>1. \A k \in 1 .. L : blocklog[k].file_id \in Nat
    <3>1. \A k \in DOMAIN blocklog : blocklog[k] \in [file_id : Nat, name : Paths]
      <4> DEFINE B == [file_id : Nat, name : Paths]
      <4>1. blocklog \in Seq(B)
        BY DEF Types
      <4> HIDE DEF B
      <4>2. \A k \in DOMAIN blocklog : blocklog[k] \in B
        BY <4>1
      <4> QED BY <4>2 DEF B
    <3> QED BY <1>3, <3>1
  <2>2. \A k \in 1 .. L : blocklog[k].file_id + 1 \in DOMAIN filelog
    BY <1>2, <1>3 DEF NumberInv, Finds
  <2>3. DOMAIN filelog = 1 .. F
    BY DEF Types
  <2> QED BY <2>1, <2>2, <2>3
<1>8. ASSUME NEW m \in 1 .. F
      PROVE  Cardinality(BlocksOf(m)') = counts'[m]
  <2>1. \A k \in L + 1 .. L + n : blocklog'[k].file_id = F
    BY <1>3, <1>4
  <2>2. BlocksOf(m)' = BlocksOf(m)
    <3>1. F # m - 1
      BY <1>2
    <3>5. \A k \in 1 .. L + n : k \in 1 .. L \/ k \in L + 1 .. L + n
      <4> HIDE DEF L, F
      <4> QED BY <1>2
    <3>2. 1 .. L \subseteq 1 .. L + n
      BY <1>2
    <3>3. BlocksOf(m) = {k \in 1 .. L : blocklog[k].file_id = m - 1}
      BY <1>3 DEF BlocksOf
    <3>4. BlocksOf(m)' = {k \in 1 .. L + n : blocklog'[k].file_id = m - 1}
      BY <1>3 DEF BlocksOf
    <3> HIDE DEF L, F
    <3> QED BY <1>3, <2>1, <3>1, <3>2, <3>3, <3>4, <3>5
  <2> QED BY <1>2, <1>5, <2>2 DEF CountInv
<1>9. Cardinality(BlocksOf(F + 1)') = n
  <2>1. BlocksOf(F + 1)' = L + 1 .. L + n
    <3>1. /\ \A k \in 1 .. L : blocklog'[k].file_id # F
          /\ \A k \in L + 1 .. L + n : blocklog'[k].file_id = F
      BY <1>2, <1>3, <1>4, <1>7
    <3>2. /\ \A k \in 1 .. L + n : k \in 1 .. L \/ k \in L + 1 .. L + n
          /\ L + 1 .. L + n \subseteq 1 .. L + n
      BY <1>2
    <3>3. BlocksOf(F + 1)' = {k \in 1 .. L + n : blocklog'[k].file_id = F}
      BY <1>2, <1>3 DEF BlocksOf
    <3> HIDE DEF L, F
    <3> QED BY <3>1, <3>2, <3>3
  <2>2. Cardinality(L + 1 .. L + n) = n
    BY <1>2, FS_Interval
  <2> QED BY <2>1, <2>2
<1>10. \A m \in DOMAIN counts' : Cardinality(BlocksOf(m)') = counts'[m]
  BY <1>2, <1>5, <1>8, <1>9
<1>11. \A k \in DOMAIN blocklog' : k > flushed => blocklog'[k].file_id = Len(counts') - 1
  BY <1>2, <1>3, <1>4, <1>5, <1>6
<1> QED BY <1>2, <1>5, <1>10, <1>11 DEF CountInv

LEMMA SaveKeepsCounts ==
  ASSUME Types, CountInv, SaveRecord
  PROVE  CountInv'
<1> SUFFICES ASSUME opened, ~args.meta_only
             PROVE  CountInv'
  BY DEF CountInv, SaveRecord, argVars
<1>1. /\ pc = "save" /\ pc' = "flush"
      /\ UNCHANGED <<blocklog, flushed, counts>>
  BY DEF SaveRecord, logVars
<1>2. Len(filelog') = Len(filelog) + 1 /\ Len(filelog) \in Nat
  BY DEF SaveRecord, SaveFile, Types
<1>3. \A n : BlocksOf(n)' = BlocksOf(n)
  BY <1>1 DEF BlocksOf
<1> QED BY <1>1, <1>2, <1>3 DEF CountInv

LEMMA FlushKeepsCounts ==
  ASSUME Types, CountInv, FlushBlocks
  PROVE  CountInv'
<1>1. /\ pc = "flush" /\ pc' \in {"done", "dir"} /\ flushed' = Len(blocklog)
      /\ UNCHANGED <<args, opened, filelog, blocklog, counts>>
  BY AfterScanType DEF FlushBlocks, Leave, argVars, sumVars
<1>2. \A n : BlocksOf(n)' = BlocksOf(n)
  BY <1>1 DEF BlocksOf
<1>3. \A k \in DOMAIN blocklog' : ~(k > flushed')
  BY <1>1 DEF Types
<1> QED BY <1>1, <1>2, <1>3 DEF CountInv

\* What a kill loses is of one file, the one at hand.
LEMMA KillKeepsCounts ==
  ASSUME Types, CountInv, Kill
  PROVE  CountInv'
<1> SUFFICES ASSUME opened, ~args.meta_only
             PROVE  CountInv'
  BY DEF CountInv, Kill, argVars
<1>1. PICK n \in flushed .. Len(blocklog) :
        DOMAIN blocklog' = 1 .. n /\ \A k \in 1 .. n : k \in DOMAIN blocklog /\ blocklog'[k] = blocklog[k]
  BY KillStep
<1>2. /\ pc # "killed" /\ pc' = "killed"
      /\ UNCHANGED <<filelog, counts>>
  BY DEF Kill, Stopped, sumVars
<1>3. /\ Len(counts) \in Nat /\ Len(filelog) \in Nat /\ Len(filelog) <= Len(counts)
      /\ DOMAIN filelog = 1 .. Len(filelog) /\ DOMAIN counts = 1 .. Len(counts)
  BY <1>2 DEF CountInv, Types
<1>4. ASSUME NEW m \in DOMAIN filelog, m < Len(filelog)
      PROVE  Cardinality(BlocksOf(m)') = counts[m]
  <2>0. m \in Nat /\ m # Len(counts) /\ m \in DOMAIN counts
    BY <1>3, <1>4
  <2>1. ASSUME NEW k \in DOMAIN blocklog, blocklog[k].file_id = m - 1
        PROVE  k \in 1 .. n
    <3>1. DOMAIN blocklog = 1 .. Len(blocklog) /\ Len(blocklog) \in Nat /\ flushed \in Nat
      BY DEF Types
    <3>2. k > flushed => blocklog[k].file_id = Len(counts) - 1
      BY <1>2, <2>1 DEF CountInv
    <3>3. ~(k > flushed)
      BY <1>3, <2>0, <2>1, <3>1, <3>2
    <3> QED BY <3>1, <3>3
  <2>2. BlocksOf(m)' = BlocksOf(m)
    BY <1>1, <2>1 DEF BlocksOf
  <2> QED BY <1>2, <2>0, <2>2 DEF CountInv
<1> QED BY <1>2, <1>4 DEF CountInv

LEMMA StepCountInv ==
  ASSUME Types, NumberInv, CountInv, [Next]_vars
  PROVE  CountInv'
<1> USE DEF envVars, argVars, readVars, sumVars, logVars, Leave
<1>1. CASE UNCHANGED <<args, opened, pc, filelog, blocklog, flushed, counts>>
  <2>1. \A n : BlocksOf(n)' = BlocksOf(n)
    BY <1>1 DEF BlocksOf
  <2> QED BY <1>1, <2>1 DEF CountInv
<1>2. CASE Kill
  BY <1>2, KillKeepsCounts
<1>3. CASE NoReader \/ GiveUp \/ OpenDir \/ OpenFile \/ NextEntry \/ EndOfDir
  BY <1>3, NothingCounted, AfterScanType DEF NoReader, GiveUp, OpenDir, OpenFile, NextEntry, EndOfDir, Opening
<1>4. CASE SkipSmall \/ SkipFirst \/ SkipRest \/ StartScan
  BY <1>4, NothingCounted, AfterScanType DEF SkipSmall, SkipFirst, SkipRest, StartScan, CountDown
<1>5. CASE MetaOnly
  BY <1>5 DEF MetaOnly, CountInv
<1>6. CASE ScanBlocks
  BY <1>6, ScanKeepsCounts
<1>7. CASE SaveRecord
  BY <1>7, SaveKeepsCounts
<1>8. CASE FlushBlocks
  BY <1>8, FlushKeepsCounts
<1>9. CASE Change \/ Retry \/ UNCHANGED vars
  BY <1>1, <1>9 DEF Change, Retry, vars
<1> QED
  BY <1>2, <1>3, <1>4, <1>5, <1>6, <1>7, <1>8, <1>9 DEF Next, Walk

\* The record of a file is flushed before its blocks are; so a run killed at
\* any point, however much of what was buffered gets to disk, leaves at most
\* the last record with blocks missing, and a run that ends leaves none.
THEOREM OnlyTheLastFileIsHurt == Spec => []OnlyTheLastLacksBlocks
<1>1. Init => Types /\ NumberInv /\ CountInv
  BY InitTypes, InitNumberInv, InitCountInv
<1>2. Types /\ NumberInv /\ CountInv /\ [Next]_vars => (Types /\ NumberInv /\ CountInv)'
  BY StepTypes, StepNumberInv, StepCountInv
<1>3. Types /\ CountInv => OnlyTheLastLacksBlocks
  <2> SUFFICES ASSUME Types, CountInv, opened, ~args.meta_only,
                      NEW n \in DOMAIN filelog, n < Len(filelog) \/ pc = "done"
               PROVE  Cardinality(BlocksOf(n)) = counts[n]
    BY DEF OnlyTheLastLacksBlocks
  <2>1. CASE pc = "killed"
    BY <2>1 DEF CountInv
  <2>2. CASE pc # "killed"
    <3>1. n \in DOMAIN counts
      BY <2>2 DEF CountInv, Types
    <3> QED BY <2>2, <3>1 DEF CountInv
  <2> QED BY <2>1, <2>2
<1> QED BY <1>1, <1>2, <1>3, PTL DEF Spec


-----------------------------------------------------------------------------
(* Limits *)

Outcomes == {"no reader", "given up", "small", "skipped", "over", "saved"}

Met == [name : Paths, outcome : Outcomes]

WalkTypes ==
  /\ args \in Args /\ changes \in Nat
  /\ met \in Seq(Met)
  /\ scan_skip \in Int /\ total_files \in Nat

LEMMA ArgsTypes ==
  ASSUME NEW a \in Args
  PROVE  a.scan_skip \in Int /\ a.scan_count \in Nat /\ a.slash \in BOOLEAN
  BY ArgsAssumption

LEMMA InitWalkTypes == Init => WalkTypes
  BY ArgsTypes, EmptySeq DEF Init, WalkTypes

LEMMA LeaveTypes ==
  ASSUME Types, WalkTypes, NEW outcome \in Outcomes
  PROVE  Append(met, [name |-> path, outcome |-> outcome]) \in Seq(Met)
<1>1. [name |-> path, outcome |-> outcome] \in Met
  BY DEF Met, Types
<1> HIDE DEF Met
<1> QED BY <1>1 DEF WalkTypes

LEMMA StepWalkTypes ==
  ASSUME Types, WalkTypes, [Next]_vars
  PROVE  WalkTypes'
<1> USE DEF envVars, argVars, readVars, sumVars, logVars, CountDown
<1>1. args' = args
  BY DEF Next, Walk, vars, Change, Kill, NoReader, Retry, GiveUp, OpenDir, OpenFile, NextEntry, EndOfDir,
         SkipSmall, SkipFirst, SkipRest, MetaOnly, StartScan, ScanBlocks, SaveRecord, FlushBlocks
<1>2. changes' \in {changes, changes + 1}
  BY DEF Next, Walk, vars, Change, Kill, NoReader, Retry, GiveUp, OpenDir, OpenFile, NextEntry, EndOfDir,
         SkipSmall, SkipFirst, SkipRest, MetaOnly, StartScan, ScanBlocks, SaveRecord, FlushBlocks
<1>3. scan_skip' \in {scan_skip, scan_skip - 1}
  BY DEF Next, Walk, vars, Change, Kill, NoReader, Retry, GiveUp, OpenDir, OpenFile, NextEntry, EndOfDir,
         SkipSmall, SkipFirst, SkipRest, MetaOnly, StartScan, ScanBlocks, SaveRecord, FlushBlocks
<1>4. total_files' \in {total_files, total_files + 1}
  BY DEF Next, Walk, vars, Change, Kill, NoReader, Retry, GiveUp, OpenDir, OpenFile, NextEntry, EndOfDir,
         SkipSmall, SkipFirst, SkipRest, MetaOnly, StartScan, ScanBlocks, SaveRecord, FlushBlocks, SaveFile
<1>5. \/ met' = met
      \/ Leave("no reader") \/ Leave("given up") \/ Leave("small")
      \/ Leave("skipped") \/ Leave("over") \/ Leave("saved")
  BY DEF Next, Walk, vars, Change, Kill, NoReader, Retry, GiveUp, OpenDir, OpenFile, NextEntry, EndOfDir,
         SkipSmall, SkipFirst, SkipRest, MetaOnly, StartScan, ScanBlocks, SaveRecord, FlushBlocks
<1>6. met' \in Seq(Met)
  <2>1. ASSUME NEW outcome \in Outcomes, Leave(outcome) PROVE met' \in Seq(Met)
    BY <2>1, LeaveTypes DEF Leave
  <2> QED BY <1>5, <2>1 DEF WalkTypes, Outcomes
<1> QED BY <1>1, <1>2, <1>3, <1>4, <1>6 DEF WalkTypes

\* How many of the first n files that are large enough are saved.
SavedOf(n) ==
  IF n <= ToSkip THEN 0
  ELSE IF args.scan_count = 0 \/ n <= ToSkip + args.scan_count THEN n - ToSkip
  ELSE args.scan_count

\* Has the file at hand passed all limits?
Chosen == pc \in {"scan", "save", "flush"}

\* scan_skip and total_files count what the outcomes say, and the file at hand.
LimitInv ==
  /\ LimitsAreKept
  /\ pc # "killed" =>
       LET n == LargeUpTo(Len(met))
       IN  /\ scan_skip = args.scan_skip - (IF Chosen THEN n + 1 ELSE n)
           /\ total_files = SavedOf(IF pc = "flush" THEN n + 1 ELSE n)
           /\ Chosen => Outcome(n + 1) = "saved"

LEMMA LargeType ==
  ASSUME NEW k \in Nat
  PROVE  LargeUpTo(k) \in Nat
<1>1. IsFiniteSet(1 .. k)
  BY FS_Interval
<1>2. IsFiniteSet({j \in 1 .. k : met[j].outcome \in {"skipped", "saved", "over"}})
  BY <1>1, FS_Subset
<1> QED BY <1>2, FS_CardinalityType DEF LargeUpTo

\* Another path is dealt with.
LEMMA LargeGrows ==
  ASSUME Types, WalkTypes, NEW outcome \in Outcomes, Leave(outcome)
  PROVE  /\ \A k \in 1 .. Len(met) : LargeUpTo(k)' = LargeUpTo(k)
         /\ LargeUpTo(Len(met))' =
              LargeUpTo(Len(met)) + (IF outcome \in {"skipped", "saved", "over"} THEN 1 ELSE 0)
<1> DEFINE m == [name |-> path, outcome |-> outcome]
           n == Len(met)
           O == {"skipped", "saved", "over"}
           I(k) == {j \in 1 .. k : met[j].outcome \in O}
           J(k) == {j \in 1 .. k : met'[j].outcome \in O}
<1>1. n \in Nat /\ Len(met') = n + 1 /\ met'[n + 1].outcome = outcome
  BY DEF Leave, WalkTypes
<1>2. \A j \in 1 .. n : met'[j] = met[j]
  BY DEF Leave, WalkTypes
<1>3. \A k \in 1 .. n : LargeUpTo(k)' = LargeUpTo(k)
  <2> TAKE k \in 1 .. n
  <2>1. \A j \in 1 .. k : j \in 1 .. n
    BY <1>1
  <2>2. I(k) = J(k)
    BY <1>2, <2>1
  <2> QED BY <2>2 DEF LargeUpTo
<1>4. J(n + 1) = I(n) \union (IF outcome \in O THEN {n + 1} ELSE {})
  <2>1. 1 .. n + 1 = (1 .. n) \union {n + 1}
    BY <1>1
  <2>2. I(n) = {j \in 1 .. n : met'[j].outcome \in O}
    BY <1>2
  <2> HIDE DEF O, n
  <2> QED BY <1>1, <2>1, <2>2
<1>5. IsFiniteSet(I(n)) /\ n + 1 \notin I(n)
  <2>1. IsFiniteSet(1 .. n) /\ I(n) \subseteq 1 .. n /\ n + 1 \notin 1 .. n
    BY <1>1, FS_Interval
  <2> HIDE DEF I
  <2> QED BY <2>1, FS_Subset
<1>6. Cardinality(J(n + 1)) = Cardinality(I(n)) + (IF outcome \in O THEN 1 ELSE 0)
  <2> HIDE DEF I, J, O, n
  <2>1. CASE outcome \in O
    <3>1. J(n + 1) = I(n) \union {n + 1}
      BY <1>4, <2>1
    <3> QED BY <1>5, <2>1, <3>1, FS_AddElement
  <2>2. CASE outcome \notin O
    <3>1. J(n + 1) = I(n) /\ Cardinality(I(n)) \in Nat
      BY <1>4, <1>5, <2>2, FS_CardinalityType
    <3> QED BY <2>2, <3>1
  <2> QED BY <2>1, <2>2
<1>7. LargeUpTo(Len(met)) = Cardinality(I(n)) /\ LargeUpTo(Len(met))' = Cardinality(J(n + 1))
  BY <1>1 DEF LargeUpTo
<1> HIDE DEF I, J
<1> QED BY <1>1, <1>3, <1>6, <1>7

LEMMA ToSkipType == WalkTypes => ToSkip \in Nat /\ args.scan_skip <= ToSkip /\ args.scan_count \in Nat /\ args.scan_skip \in Int
  BY ArgsTypes DEF WalkTypes, ToSkip

LEMMA LeaveKeepsLimits ==
  ASSUME Types, WalkTypes, LimitsAreKept, NEW outcome \in Outcomes, Leave(outcome), UNCHANGED args,
         outcome \in {"skipped", "saved", "over"} => outcome = Outcome(LargeUpTo(Len(met)) + 1)
  PROVE  LimitsAreKept'
<1>1. \A n : Outcome(n)' = Outcome(n)
  BY DEF Outcome, ToSkip
<1>2. /\ Len(met) \in Nat /\ Len(met') = Len(met) + 1 /\ met'[Len(met) + 1].outcome = outcome
      /\ \A j \in 1 .. Len(met) : met'[j] = met[j]
      /\ DOMAIN met = 1 .. Len(met) /\ DOMAIN met' = 1 .. Len(met) + 1
  BY DEF Leave, WalkTypes
<1> SUFFICES ASSUME NEW k \in DOMAIN met', met'[k].outcome \in {"skipped", "saved", "over"}
             PROVE  met'[k].outcome = Outcome(LargeUpTo(k)')
  BY <1>1 DEF LimitsAreKept
<1>3. CASE k \in 1 .. Len(met)
  <2>1. LargeUpTo(k)' = LargeUpTo(k)
    BY <1>3, LargeGrows
  <2> QED BY <1>2, <1>3, <2>1 DEF LimitsAreKept
<1>4. CASE k = Len(met) + 1
  <2>1. LargeUpTo(k)' = LargeUpTo(Len(met)) + 1
    <3>1. k = Len(met') /\ LargeUpTo(Len(met))' = LargeUpTo(Len(met)) + 1
      BY <1>2, <1>4, LargeGrows
    <3> QED BY <3>1
  <2> QED BY <1>2, <1>4, <2>1
<1> QED BY <1>2, <1>3, <1>4


\* What the counters tell of the next file that is large enough.
LEMMA NextOutcome ==
  ASSUME WalkTypes, NEW n \in Nat
  PROVE  /\ args.scan_skip - n > 0 => Outcome(n + 1) = "skipped" /\ SavedOf(n + 1) = SavedOf(n)
         /\ args.scan_skip - n <= 0 /\ args.scan_count > 0 /\ SavedOf(n) >= args.scan_count =>
              Outcome(n + 1) = "over" /\ SavedOf(n + 1) = SavedOf(n)
         /\ args.scan_skip - n <= 0 /\ ~(args.scan_count > 0 /\ SavedOf(n) >= args.scan_count) =>
              Outcome(n + 1) = "saved"
         /\ Outcome(n + 1) = "saved" => SavedOf(n + 1) = SavedOf(n) + 1
  BY ToSkipType DEF Outcome, SavedOf, ToSkip

LEMMA InitLimitInv == Init => LimitInv
<1> SUFFICES ASSUME Init PROVE LimitInv
  OBVIOUS
<1>1. Len(met) = 0 /\ DOMAIN met = {} /\ WalkTypes
  BY InitWalkTypes, EmptySeq DEF Init
<1>2. LargeUpTo(0) = 0
  <2>1. {j \in 1 .. 0 : met[j].outcome \in {"skipped", "saved", "over"}} = {}
    OBVIOUS
  <2> QED BY <2>1, FS_EmptySet DEF LargeUpTo
<1>3. scan_skip = args.scan_skip /\ total_files = 0 /\ pc = "open" /\ args.scan_skip \in Int
  BY <1>1, ArgsTypes DEF Init, WalkTypes
<1>4. SavedOf(0) = 0
  BY <1>1, ToSkipType DEF SavedOf
<1> QED BY <1>1, <1>2, <1>3, <1>4 DEF LimitInv, LimitsAreKept, Chosen

\* The steps that deal with no path and count nothing.
LEMMA LimitsUnchanged ==
  ASSUME LimitInv, UNCHANGED <<args, met>>,
         pc' # "killed" => /\ UNCHANGED <<scan_skip, total_files>> /\ pc # "killed"
                           /\ (Chosen <=> Chosen') /\ (pc = "flush" <=> pc' = "flush")
  PROVE  LimitInv'
<1>1. \A n : LargeUpTo(n)' = LargeUpTo(n) /\ SavedOf(n)' = SavedOf(n) /\ Outcome(n)' = Outcome(n)
  BY DEF LargeUpTo, SavedOf, Outcome, ToSkip
<1>2. LargeUpTo(Len(met))' = LargeUpTo(Len(met))
  BY DEF LargeUpTo
<1>3. LimitsAreKept'
  BY <1>1 DEF LimitInv, LimitsAreKept
<1>4. CASE pc' = "killed"
  BY <1>3, <1>4 DEF LimitInv
<1>5. CASE pc' # "killed"
  <2> DEFINE n == LargeUpTo(Len(met))
  <2>1. /\ scan_skip = args.scan_skip - (IF Chosen THEN n + 1 ELSE n)
        /\ total_files = SavedOf(IF pc = "flush" THEN n + 1 ELSE n)
        /\ Chosen => Outcome(n + 1) = "saved"
    BY <1>5 DEF LimitInv
  <2>2. n' = n
    BY <1>2
  <2> HIDE DEF n
  <2>3. /\ scan_skip' = args'.scan_skip - (IF Chosen' THEN n' + 1 ELSE n')
        /\ total_files' = SavedOf(IF pc = "flush" THEN n + 1 ELSE n)'
        /\ Chosen' => Outcome(n + 1)' = "saved"
    BY <1>1, <1>5, <2>1, <2>2
  <2> QED BY <1>3, <1>5, <2>3 DEF LimitInv, n
<1> QED BY <1>4, <1>5


\* LimitInv of a state where n files were large enough.
Counted(n) ==
  /\ scan_skip = args.scan_skip - (IF Chosen THEN n + 1 ELSE n)
  /\ total_files = SavedOf(IF pc = "flush" THEN n + 1 ELSE n)
  /\ Chosen => Outcome(n + 1) = "saved"

\* A step that deals with a path: the counters need only be right after it.
LEMMA LimitsAfterLeave ==
  ASSUME Types, WalkTypes, LimitInv, pc # "killed", NEW outcome \in Outcomes, Leave(outcome), UNCHANGED args,
         NEW n \in Nat, n = LargeUpTo(Len(met)),
         outcome \in {"skipped", "saved", "over"} =>
           /\ outcome = Outcome(n + 1)
           /\ scan_skip' = args.scan_skip - (n + 1) /\ total_files' = SavedOf(n + 1),
         outcome \notin {"skipped", "saved", "over"} =>
           scan_skip' = args.scan_skip - n /\ total_files' = SavedOf(n)
  PROVE  LimitInv'
<1>1. LimitsAreKept'
  BY LeaveKeepsLimits DEF LimitInv
<1>2. pc' \in {"done", "dir"}
  BY AfterScanType DEF Leave
<1>3. \A k : SavedOf(k)' = SavedOf(k)
  BY DEF SavedOf, ToSkip
<1>4. LargeUpTo(Len(met))' = n + (IF outcome \in {"skipped", "saved", "over"} THEN 1 ELSE 0)
  BY LargeGrows
<1>5. PICK m \in Nat : m = LargeUpTo(Len(met))'
  BY <1>4
<1>6. scan_skip' = args'.scan_skip - m /\ total_files' = SavedOf(m)'
  BY <1>3, <1>4, <1>5
<1> QED BY <1>1, <1>2, <1>5, <1>6 DEF LimitInv, Chosen

LEMMA StepLimitInv ==
  ASSUME Types, WalkTypes, LimitInv, [Next]_vars
  PROVE  LimitInv'
<1> USE DEF envVars, argVars, readVars, sumVars, logVars
<1>1. CASE Kill \/ UNCHANGED vars
  BY <1>1, LimitsUnchanged DEF Kill, vars, Chosen, Stopped
<1>2. CASE Change \/ Retry
  BY <1>2, LimitsUnchanged DEF Change, Retry, Opening, Chosen, Stopped
<1>3. CASE OpenDir \/ OpenFile \/ NextEntry \/ EndOfDir
  BY <1>3, LimitsUnchanged DEF OpenDir, OpenFile, NextEntry, EndOfDir, Opening, Chosen
<1>4. CASE ScanBlocks
  BY <1>4, LimitsUnchanged DEF ScanBlocks, Chosen
<1>5. PICK n \in Nat : n = LargeUpTo(Len(met))
  BY LargeType DEF WalkTypes
<1>6. pc # "killed" => Counted(n)
  BY <1>5 DEF LimitInv, Counted
<1>7. args.scan_skip \in Int /\ args.scan_count \in Nat
  BY ArgsTypes DEF WalkTypes
<1>8. CASE NoReader \/ GiveUp \/ SkipSmall
  <2>1. /\ Leave("no reader") \/ Leave("given up") \/ Leave("small")
        /\ UNCHANGED <<args, scan_skip, total_files>>
        /\ pc \in {"open", "file"}
    BY <1>8 DEF NoReader, GiveUp, SkipSmall, Opening
  <2>2. scan_skip = args.scan_skip - n /\ total_files = SavedOf(n)
    BY <1>6, <2>1 DEF Counted, Chosen
  <2> QED BY <1>5, <2>1, <2>2, LimitsAfterLeave DEF Outcomes
<1>9. ASSUME CountDown
      PROVE  /\ pc = "file" /\ scan_skip' = args.scan_skip - (n + 1)
             /\ scan_skip = args.scan_skip - n /\ total_files = SavedOf(n)
  BY <1>6, <1>7, <1>9 DEF Counted, Chosen, CountDown
<1>10. CASE SkipFirst
  <2>1. CountDown /\ scan_skip > 0 /\ Leave("skipped") /\ UNCHANGED <<args, total_files>>
    BY <1>10 DEF SkipFirst
  <2>2. Outcome(n + 1) = "skipped" /\ SavedOf(n + 1) = SavedOf(n)
    BY <1>9, <2>1, NextOutcome
  <2> QED BY <1>5, <1>9, <2>1, <2>2, LimitsAfterLeave DEF Outcomes
<1>11. CASE SkipRest
  <2>1. CountDown /\ scan_skip <= 0 /\ Enough /\ Leave("over") /\ UNCHANGED <<args, total_files>>
    BY <1>11 DEF SkipRest
  <2>2. Outcome(n + 1) = "over" /\ SavedOf(n + 1) = SavedOf(n)
    BY <1>9, <2>1, NextOutcome DEF Enough
  <2> QED BY <1>5, <1>9, <2>1, <2>2, LimitsAfterLeave DEF Outcomes
<1>12. ASSUME CountDown, scan_skip <= 0, ~Enough
       PROVE  Outcome(n + 1) = "saved" /\ SavedOf(n + 1) = SavedOf(n) + 1
  BY <1>9, <1>12, NextOutcome DEF Enough
<1>13. CASE MetaOnly
  <2>1. CountDown /\ scan_skip <= 0 /\ ~Enough /\ Leave("saved") /\ args' = args /\ total_files' = total_files + 1
    BY <1>13 DEF MetaOnly, SaveFile
  <2>2. total_files' = SavedOf(n + 1) /\ Outcome(n + 1) = "saved" /\ scan_skip' = args.scan_skip - (n + 1)
    BY <1>9, <1>12, <2>1
  <2> QED BY <1>5, <1>9, <2>1, <2>2, LimitsAfterLeave DEF Outcomes
<1>14. CASE FlushBlocks
  <2>1. /\ pc = "flush" /\ Leave("saved")
        /\ UNCHANGED <<args, scan_skip, total_files>>
    BY <1>14 DEF FlushBlocks
  <2>2. scan_skip = args.scan_skip - (n + 1) /\ total_files = SavedOf(n + 1) /\ Outcome(n + 1) = "saved"
    BY <1>6, <2>1 DEF Counted, Chosen
  <2> QED BY <1>5, <2>1, <2>2, LimitsAfterLeave DEF Outcomes
<1>15. ASSUME UNCHANGED <<args, met>>, Counted(n)', pc # "killed"
       PROVE  LimitInv'
  <2>1. \A k : LargeUpTo(k)' = LargeUpTo(k) /\ Outcome(k)' = Outcome(k)
    BY <1>15 DEF LargeUpTo, Outcome, ToSkip
  <2>2. LimitsAreKept'
    BY <1>15, <2>1 DEF LimitInv, LimitsAreKept
  <2>3. LargeUpTo(Len(met))' = n
    BY <1>5, <1>15 DEF LargeUpTo
  <2> QED BY <1>15, <2>2, <2>3 DEF LimitInv, Counted
<1>16. CASE StartScan
  <2>1. /\ CountDown /\ scan_skip <= 0 /\ ~Enough /\ pc' = "scan"
        /\ UNCHANGED <<args, met, total_files>>
    BY <1>16 DEF StartScan
  <2>2. Counted(n)'
    BY <1>9, <1>12, <2>1 DEF Counted, Chosen, Outcome, SavedOf, ToSkip
  <2> QED BY <1>9, <1>15, <2>1, <2>2
<1>17. CASE SaveRecord
  <2>1. /\ pc = "save" /\ pc' = "flush" /\ total_files' = total_files + 1
        /\ UNCHANGED <<args, met, scan_skip>>
    BY <1>17 DEF SaveRecord, SaveFile
  <2>2. /\ scan_skip = args.scan_skip - (n + 1) /\ total_files = SavedOf(n) /\ Outcome(n + 1) = "saved"
        /\ SavedOf(n + 1) = SavedOf(n) + 1
    BY <1>6, <2>1, NextOutcome DEF Counted, Chosen
  <2>3. Counted(n)'
    BY <2>1, <2>2 DEF Counted, Chosen, Outcome, SavedOf, ToSkip
  <2> QED BY <1>15, <2>1, <2>3
<1> QED
  BY <1>1, <1>2, <1>3, <1>4, <1>8, <1>10, <1>11, <1>13, <1>14, <1>16, <1>17 DEF Next, Walk

\* For every tree, every change to it and every combination of the options:
\* scan_skip, which is counted down below zero, and total_files, which is
\* counted before the last flush, let through exactly the files they should.
THEOREM LimitsKept == Spec => []LimitsAreKept
<1>1. Init => Types /\ WalkTypes /\ LimitInv
  BY InitTypes, InitWalkTypes, InitLimitInv
<1>2. Types /\ WalkTypes /\ LimitInv /\ [Next]_vars => (Types /\ WalkTypes /\ LimitInv)'
  BY StepTypes, StepWalkTypes, StepLimitInv
<1>3. LimitInv => LimitsAreKept
  BY DEF LimitInv
<1> QED BY <1>1, <1>2, <1>3, PTL DEF Spec


-----------------------------------------------------------------------------
(* Each path once *)

Names == UNION {Range(p) : p \in Paths}

\* Is q at or below p?
Above(p, q) == \A k \in DOMAIN p : k \in DOMAIN q /\ p[k] = q[k]

LEMMA PathsAreSeqs ==
  /\ \A p \in Paths : p \in Seq(Names) /\ Len(p) \in Nat /\ DOMAIN p = 1 .. Len(p)
  /\ \A p \in Paths : \A n \in 0 .. Len(p) : SubSeq(p, 1, n) \in Paths
<1>1. ASSUME NEW p \in Paths PROVE p \in Seq(Names)
  <2>1. Range(p) \subseteq Names /\ p \in Seq(Range(p))
    BY PathsAssumption DEF Names
  <2> QED BY <2>1
<1> QED BY <1>1, PathsAssumption

\* The first part of a path.
LEMMA PartOfPath ==
  ASSUME NEW q \in Paths, NEW n \in 0 .. Len(q)
  PROVE  /\ SubSeq(q, 1, n) \in Paths /\ Len(SubSeq(q, 1, n)) = n /\ DOMAIN SubSeq(q, 1, n) = 1 .. n
         /\ \A k \in 1 .. n : SubSeq(q, 1, n)[k] = q[k]
         /\ Above(SubSeq(q, 1, n), q)
<1>1. q \in Seq(Names) /\ Len(q) \in Nat /\ SubSeq(q, 1, n) \in Paths /\ DOMAIN q = 1 .. Len(q)
  BY PathsAreSeqs
<1>2. Len(SubSeq(q, 1, n)) = n /\ DOMAIN SubSeq(q, 1, n) = 1 .. n
  BY <1>1
<1>3. \A k \in 1 .. n : SubSeq(q, 1, n)[k] = q[k] /\ k \in DOMAIN q
  BY <1>1
<1> QED BY <1>1, <1>2, <1>3 DEF Above

LEMMA AboveIsPart ==
  ASSUME NEW p \in Paths, NEW q \in Paths, Above(p, q)
  PROVE  Len(p) \in 0 .. Len(q) /\ SubSeq(q, 1, Len(p)) = p /\ (p # q => Len(p) < Len(q))
<1>1. /\ p \in Seq(Names) /\ q \in Seq(Names) /\ Len(p) \in Nat /\ Len(q) \in Nat
      /\ DOMAIN p = 1 .. Len(p) /\ DOMAIN q = 1 .. Len(q)
  BY PathsAreSeqs
<1>2. Len(p) <= Len(q)
  <2>1. CASE Len(p) = 0
    BY <1>1, <2>1
  <2>2. CASE Len(p) # 0
    <3>1. Len(p) \in DOMAIN p
      BY <1>1, <2>2
    <3>2. Len(p) \in DOMAIN q
      BY <3>1 DEF Above
    <3> QED BY <1>1, <3>2
  <2> QED BY <2>1, <2>2
<1>3. SubSeq(q, 1, Len(p)) = p
  <2>1. SubSeq(q, 1, Len(p)) \in Seq(Names)
    BY <1>1, <1>2, PartOfPath, PathsAreSeqs
  <2>2. /\ Len(SubSeq(q, 1, Len(p))) = Len(p)
        /\ \A k \in 1 .. Len(p) : SubSeq(q, 1, Len(p))[k] = p[k]
    BY <1>1, <1>2, PartOfPath DEF Above
  <2> QED BY <1>1, <2>1, <2>2, SeqEqual
<1>4. SubSeq(q, 1, Len(q)) = q
  BY <1>1
<1> QED BY <1>1, <1>2, <1>3, <1>4

LEMMA AboveIsOrder ==
  ASSUME NEW p \in Paths, NEW q \in Paths
  PROVE  /\ Above(p, p)
         /\ Above(p, q) /\ Above(q, p) => p = q
         /\ \A r \in Paths : Above(p, q) /\ Above(q, r) => Above(p, r)
<1>1. ASSUME Above(p, q), Above(q, p) PROVE p = q
  <2>1. ~(Len(p) < Len(q)) \/ ~(Len(q) < Len(p))
    BY PathsAreSeqs
  <2> QED BY <1>1, <2>1, AboveIsPart
<1> QED BY <1>1 DEF Above

Child(c, p) == c # <<>> /\ Front(c) = p

LEMMA ChildIs ==
  ASSUME NEW p \in Paths, NEW c \in Paths, Child(c, p)
  PROVE  Len(c) = Len(p) + 1 /\ Above(p, c) /\ p # c
<1>1. /\ c \in Seq(Names) /\ Len(p) \in Nat /\ Len(c) \in Nat
      /\ DOMAIN p = 1 .. Len(p) /\ DOMAIN c = 1 .. Len(c)
  BY PathsAreSeqs
<1>2. Len(c) >= 1
  BY <1>1 DEF Child
<1>3. p = SubSeq(c, 1, Len(c) - 1)
  BY DEF Child, Front
<1>4. Len(c) - 1 \in 0 .. Len(c)
  BY <1>1, <1>2
<1>5. Len(p) = Len(c) - 1 /\ Above(p, c)
  BY <1>3, <1>4, PartOfPath
<1> QED BY <1>1, <1>5

\* What is above a child is above the parent, or is the child.
LEMMA AboveChild ==
  ASSUME NEW p \in Paths, NEW c \in Paths, Child(c, p), NEW r \in Paths, Above(r, c)
  PROVE  r = c \/ Above(r, p)
<1>1. Len(c) = Len(p) + 1 /\ Above(p, c) /\ Len(p) \in Nat /\ Len(r) \in Nat
  BY ChildIs, PathsAreSeqs
<1>2. ASSUME r # c PROVE Above(r, p)
  <2>1. Len(r) < Len(c)
    BY <1>2, AboveIsPart
  <2>2. /\ DOMAIN r = 1 .. Len(r) /\ DOMAIN p = 1 .. Len(p)
        /\ Len(r) <= Len(p)
    BY <1>1, <2>1, PathsAreSeqs
  <2>3. \A k \in DOMAIN r : k \in DOMAIN p /\ p[k] = c[k]
    BY <1>1, <2>2 DEF Above
  <2> QED BY <2>3 DEF Above
<1> QED BY <1>2

\* Between a path and one below it is a child of it.
LEMMA ChildTowards ==
  ASSUME NEW p \in Paths, NEW q \in Paths, Above(p, q), p # q
  PROVE  \E n \in 1 .. Len(q) : /\ n = Len(p) + 1 /\ SubSeq(q, 1, n) \in Paths
                                /\ Child(SubSeq(q, 1, n), p) /\ Above(SubSeq(q, 1, n), q)
<1>1. /\ q \in Seq(Names) /\ Len(p) \in Nat /\ Len(q) \in Nat /\ Len(p) < Len(q)
      /\ SubSeq(q, 1, Len(p)) = p
  BY PathsAreSeqs, AboveIsPart
<1>2. Len(p) + 1 \in 1 .. Len(q) /\ Len(p) + 1 \in 0 .. Len(q)
  BY <1>1
<1> DEFINE c == SubSeq(q, 1, Len(p) + 1)
<1>3. c \in Paths /\ Len(c) = Len(p) + 1 /\ Above(c, q)
  BY <1>2, PartOfPath
<1>4. Front(c) = SubSeq(c, 1, Len(p))
  BY <1>1, <1>3 DEF Front
<1>5. SubSeq(c, 1, Len(p)) = p
  <2>1. Above(p, c)
    <3>1. \A k \in DOMAIN p : k \in 1 .. Len(p) + 1 /\ k \in DOMAIN q /\ p[k] = q[k]
      BY <1>1, PathsAreSeqs DEF Above
    <3>2. DOMAIN c = 1 .. Len(p) + 1 /\ \A k \in 1 .. Len(p) + 1 : c[k] = q[k]
      BY <1>2, PartOfPath
    <3> HIDE DEF c
    <3> QED BY <3>1, <3>2 DEF Above
  <2> HIDE DEF c
  <2> QED BY <1>3, <2>1, AboveIsPart
<1>6. c # <<>>
  <2> HIDE DEF c
  <2> QED BY <1>1, <1>3, EmptySeq
<1> QED BY <1>2, <1>3, <1>4, <1>5, <1>6 DEF Child


\* Entry e of level i waits at place j.
Waits(i, j, e) == i \in DOMAIN stack /\ j \in DOMAIN stack[i] /\ stack[i][j] = e

\* Is the path at hand neither entered nor left yet?
Active == pc \in {"open", "file", "scan", "save", "flush"}

Alone(p) == \A i, j, e : Waits(i, j, e) => ~Above(p, e.name) /\ ~Above(e.name, p)

NotMet(p) == \A k \in DOMAIN met : ~Above(p, met[k].name)

WaitingApart ==
  \A i, j, e, m, n, f : Waits(i, j, e) /\ Waits(m, n, f) /\ Above(e.name, f.name) => i = m /\ j = n

MetOnce == \A j, k \in DOMAIN met : met[j].name = met[k].name => j = k

\* Of what is still to be visited nothing is below anything else, and nothing
\* below it has been met.
OnceInv ==
  /\ MetOnce
  /\ pc # "killed" =>
       /\ WaitingApart
       /\ \A i, j, e : Waits(i, j, e) => NotMet(e.name)
       /\ Active => Alone(path) /\ NotMet(path)

LEMMA WaitingType ==
  ASSUME Types, NEW i, NEW j, NEW e, Waits(i, j, e)
  PROVE  e \in Entry /\ e.name \in Paths /\ i \in 1 .. Len(stack) /\ j \in Nat \ {0}
<1>1. i \in DOMAIN stack /\ j \in DOMAIN stack[i] /\ stack[i][j] = e
  BY DEF Waits
<1>2. stack[i] \in Seq(Entry) /\ DOMAIN stack = 1 .. Len(stack)
  <2> DEFINE E == Seq(Entry)
  <2>1. stack \in Seq(E)
    BY DEF Types
  <2> HIDE DEF E
  <2>2. stack[i] \in E /\ DOMAIN stack = 1 .. Len(stack)
    BY <1>1, <2>1
  <2> QED BY <2>2 DEF E
<1>3. e \in Entry /\ j \in Nat \ {0}
  BY <1>1, <1>2
<1> QED BY <1>1, <1>2, <1>3 DEF Entry

\* What waits while a new path is taken up: the same, but for that path.
LEMMA WaitingAfterNext ==
  ASSUME Types, NextEntry
  PROVE  \E l \in Nat \ {0} : \E first \in Entry :
           /\ Waits(l, 1, first) /\ path' = first.name /\ slash' = first.slash
           /\ \A i, j, e : Waits(i, j, e)' => Waits(i, IF i = l THEN j + 1 ELSE j, e) /\ j \in Nat \ {0}
           /\ \A i, j, e : Waits(i, j, e) => e = first \/ \E k : Waits(i, k, e)'
<1> DEFINE E == Seq(Entry)
           l == Len(stack)
           top == Last(stack)
<1>1. stack \in Seq(E) /\ stack # <<>> /\ top # <<>>
  BY DEF NextEntry, Types
<1>2. l \in Nat \ {0} /\ DOMAIN stack = 1 .. l /\ top = stack[l] /\ top \in E
  <2> HIDE DEF E
  <2> QED BY <1>1 DEF Last
<1>3. /\ Len(top) \in Nat \ {0} /\ DOMAIN top = 1 .. Len(top)
      /\ Tail(top) \in E /\ DOMAIN Tail(top) = 1 .. Len(top) - 1
      /\ \A j \in 1 .. Len(top) - 1 : Tail(top)[j] = top[j + 1]
      /\ Head(top) = top[1] /\ top[1] \in Entry
  BY <1>1, <1>2
<1>4. /\ DOMAIN stack' = 1 .. l /\ stack'[l] = Tail(top)
      /\ \A i \in 1 .. l - 1 : stack'[i] = stack[i]
  <2>1. stack' = Append(Front(stack), Tail(top))
    BY DEF NextEntry
  <2>2. Front(stack) \in Seq(E) /\ Len(Front(stack)) = l - 1 /\ \A i \in 1 .. l - 1 : Front(stack)[i] = stack[i]
    <3> HIDE DEF E
    <3> QED BY <1>1, <1>2 DEF Front
  <2> HIDE DEF E, top, l
  <2> QED BY <1>2, <1>3, <2>1, <2>2
<1>5. Waits(l, 1, top[1]) /\ path' = top[1].name /\ slash' = top[1].slash
  BY <1>2, <1>3 DEF NextEntry, Waits
<1> HIDE DEF E, l, top
<1>6. ASSUME NEW i, NEW j, NEW e, Waits(i, j, e)'
      PROVE  Waits(i, IF i = l THEN j + 1 ELSE j, e) /\ j \in Nat \ {0}
  <2>1. i \in DOMAIN stack' /\ j \in DOMAIN stack'[i] /\ stack'[i][j] = e
    BY <1>6 DEF Waits
  <2>2. CASE i = l
    <3>1. j \in 1 .. Len(top) - 1 /\ e = top[j + 1]
      BY <1>3, <1>4, <2>1, <2>2
    <3>2. j + 1 \in DOMAIN stack[l] /\ stack[l][j + 1] = e /\ l \in DOMAIN stack /\ j \in Nat \ {0}
      BY <1>2, <1>3, <3>1
    <3> QED BY <2>2, <3>2 DEF Waits
  <2>3. CASE i # l
    <3>1. i \in 1 .. l - 1 /\ i \in DOMAIN stack
      BY <1>2, <1>4, <2>1, <2>3
    <3>2. Waits(i, j, e)
      BY <1>4, <2>1, <3>1 DEF Waits
    <3> QED BY <2>3, <3>2, WaitingType
  <2> QED BY <2>2, <2>3
<1>7. ASSUME NEW i, NEW j, NEW e, Waits(i, j, e)
      PROVE  e = top[1] \/ \E k : Waits(i, k, e)'
  <2>1. i \in DOMAIN stack /\ j \in DOMAIN stack[i] /\ stack[i][j] = e
    BY <1>7 DEF Waits
  <2>2. CASE i = l /\ j # 1
    <3>1. j \in 1 .. Len(top) /\ e = top[j]
      BY <1>2, <1>3, <2>1, <2>2
    <3>2. j - 1 \in 1 .. Len(top) - 1 /\ Tail(top)[j - 1] = top[(j - 1) + 1] /\ (j - 1) + 1 = j
      BY <1>3, <2>2, <3>1
    <3>3. l \in DOMAIN stack' /\ j - 1 \in DOMAIN stack'[l] /\ stack'[l][j - 1] = e
      BY <1>2, <1>3, <1>4, <3>1, <3>2
    <3> QED BY <2>2, <3>3 DEF Waits
  <2>3. CASE i # l
    <3>1. i \in 1 .. l - 1 /\ i \in DOMAIN stack'
      BY <1>2, <1>4, <2>1, <2>3
    <3>2. Waits(i, j, e)'
      BY <1>4, <2>1, <3>1 DEF Waits
    <3> QED BY <3>2
  <2>4. CASE i = l /\ j = 1
    BY <1>2, <2>1, <2>4
  <2> QED BY <2>2, <2>3, <2>4
<1> QED BY <1>2, <1>3, <1>5, <1>6, <1>7

\* What waits after the end of a directory.
LEMMA WaitingAfterEnd ==
  ASSUME Types, EndOfDir
  PROVE  \A i, j, e : Waits(i, j, e)' <=> Waits(i, j, e)
<1> DEFINE E == Seq(Entry)
           l == Len(stack)
<1>1. stack \in Seq(E) /\ stack # <<>> /\ stack[Len(stack)] = <<>> /\ stack' = Front(stack)
  BY DEF EndOfDir, Types, Last
<1> HIDE DEF E
<1>2. /\ l \in Nat \ {0} /\ DOMAIN stack = 1 .. l /\ DOMAIN stack' = 1 .. l - 1
      /\ \A i \in 1 .. l - 1 : stack'[i] = stack[i] /\ i \in DOMAIN stack
  BY <1>1 DEF Front
<1>3. \A i \in 1 .. l : i \in 1 .. l - 1 \/ i = l
  <2> HIDE DEF l
  <2> QED BY <1>2
<1>4. DOMAIN stack[l] = {}
  BY <1>1
<1> QED BY <1>2, <1>3, <1>4 DEF Waits


\* What waits when a directory was entered: the same, and its entries.
LEMMA WaitingAfterOpen ==
  ASSUME Types, OpenDir
  PROVE  \E l \in Nat \ {0} : \E entities \in SetToSeqs(Entries(path)) :
           /\ \A i, j, e : Waits(i, j, e) => i # l
           /\ \A i, j, e : Waits(i, j, e)' <=>
                \/ Waits(i, j, e)
                \/ i = l /\ j \in DOMAIN entities /\ entities[j] = e
<1> DEFINE E == Seq(Entry)
           n == Len(stack)
<1>1. PICK entities \in SetToSeqs(Entries(path)) : stack' = Append(stack, entities)
  BY DEF OpenDir
<1>2. entities \in E
  <2>1. entities \in Seq(Entries(path))
    BY EntriesType, SetToSeqsType
  <2> QED BY <2>1, EntriesType
<1>3. stack \in Seq(E)
  BY DEF Types
<1> HIDE DEF E
<1>4. /\ n \in Nat /\ DOMAIN stack = 1 .. n /\ DOMAIN stack' = 1 .. n + 1
      /\ stack'[n + 1] = entities /\ \A i \in 1 .. n : stack'[i] = stack[i]
  BY <1>1, <1>2, <1>3
<1> HIDE DEF n
<1>5. /\ \A i \in 1 .. n : i # n + 1 /\ i \in 1 .. n + 1
      /\ \A i \in 1 .. n + 1 : i \in 1 .. n \/ i = n + 1
      /\ n + 1 \in 1 .. n + 1 /\ n + 1 \in Nat \ {0}
  BY <1>4
<1>6. \A i, j, e : Waits(i, j, e) => i # n + 1
  BY <1>4, <1>5 DEF Waits
<1>7. ASSUME NEW i, NEW j, NEW e
      PROVE  Waits(i, j, e)' <=> Waits(i, j, e) \/ (i = n + 1 /\ j \in DOMAIN entities /\ entities[j] = e)
  BY <1>4, <1>5 DEF Waits
<1> QED BY <1>5, <1>6, <1>7

\* An entry read from a directory is a child of it.
LEMMA EntriesAre ==
  ASSUME Types, NEW e
  PROVE  e \in Entries(path) <=>
           \E q \in Paths : /\ Child(q, path) /\ fs[q].kind # "absent"
                            /\ e = [name |-> q, slash |-> args.ft = "PANGU" /\ fs[q].kind \in {"dir", "locked"}]
  BY DEF Entries, Child

\* A child of a path that is alone and of nothing met is so, too.
LEMMA ChildrenAreApart ==
  ASSUME Types, WalkTypes, Alone(path), NotMet(path), NEW c \in Paths, Child(c, path)
  PROVE  /\ Alone(c) /\ NotMet(c)
         /\ \A d \in Paths : Child(d, path) /\ Above(c, d) => c = d
<1>1. path \in Paths /\ Above(path, c) /\ path # c
  BY ChildIs DEF Types
<1>2. ASSUME NEW i, NEW j, NEW e, Waits(i, j, e)
      PROVE  ~Above(c, e.name) /\ ~Above(e.name, c)
  <2>1. e.name \in Paths /\ ~Above(path, e.name) /\ ~Above(e.name, path)
    BY <1>2, WaitingType DEF Alone
  <2>2. ~Above(c, e.name)
    BY <1>1, <2>1, AboveIsOrder
  <2>3. e.name # c
    BY <1>1, <2>1
  <2> QED BY <1>1, <2>1, <2>2, <2>3, AboveChild
<1>3. ASSUME NEW k \in DOMAIN met
      PROVE  ~Above(c, met[k].name)
  <2>1. met[k] \in Met
    BY DEF WalkTypes
  <2>2. met[k].name \in Paths
    BY <2>1 DEF Met
  <2> QED BY <1>1, <2>2, AboveIsOrder DEF NotMet
<1>4. ASSUME NEW d \in Paths, Child(d, path), Above(c, d)
      PROVE  c = d
  <2>1. Above(c, path) => c = path
    BY <1>1, AboveIsOrder
  <2> QED BY <1>1, <1>4, <2>1, AboveChild
<1> QED BY <1>2, <1>3, <1>4 DEF Alone, NotMet


LEMMA InitOnceInv == Init => OnceInv
<1>1. Init => DOMAIN stack = {} /\ DOMAIN met = {}
  BY DEF Init
<1> QED BY <1>1 DEF OnceInv, MetOnce, WaitingApart, Waits, Alone, NotMet

LEMMA OnceUnchanged ==
  ASSUME OnceInv, UNCHANGED <<met, stack, path>>, pc' # "killed" => pc # "killed" /\ (Active' => Active)
  PROVE  OnceInv'
<1>1. \A i, j, e : Waits(i, j, e)' <=> Waits(i, j, e)
  BY DEF Waits
<1>2. \A p : NotMet(p)' <=> NotMet(p)
  BY DEF NotMet
<1>3. Alone(path)' <=> Alone(path)
  BY <1>1 DEF Alone
<1>4. NotMet(path)' <=> NotMet(path)
  BY DEF NotMet
<1>5. MetOnce'
  BY DEF OnceInv, MetOnce
<1>6. pc' # "killed" => WaitingApart'
  BY <1>1 DEF OnceInv, WaitingApart
<1> QED BY <1>1, <1>2, <1>3, <1>4, <1>5, <1>6 DEF OnceInv

LEMMA OnceAfterEnd ==
  ASSUME Types, OnceInv, EndOfDir
  PROVE  OnceInv'
<1>1. \A i, j, e : Waits(i, j, e)' <=> Waits(i, j, e)
  BY WaitingAfterEnd
<1>2. pc = "dir" /\ pc' \in {"done", "dir"} /\ UNCHANGED met
  BY DEF EndOfDir
<1>3. \A p : NotMet(p)' <=> NotMet(p)
  BY <1>2 DEF NotMet
<1>4. MetOnce' /\ WaitingApart'
  BY <1>1, <1>2 DEF OnceInv, MetOnce, WaitingApart
<1> QED BY <1>1, <1>2, <1>3, <1>4 DEF OnceInv, Active

LEMMA OnceAfterNext ==
  ASSUME Types, OnceInv, NextEntry
  PROVE  OnceInv'
<1>1. pc = "dir" /\ pc' = "open" /\ UNCHANGED met
  BY DEF NextEntry
<1>2. PICK l \in Nat \ {0} : \E first \in Entry :
           /\ Waits(l, 1, first) /\ path' = first.name
           /\ \A i, j, e : Waits(i, j, e)' => Waits(i, IF i = l THEN j + 1 ELSE j, e) /\ j \in Nat \ {0}
  BY WaitingAfterNext
<1>3. PICK first \in Entry :
           /\ Waits(l, 1, first) /\ path' = first.name
           /\ \A i, j, e : Waits(i, j, e)' => Waits(i, IF i = l THEN j + 1 ELSE j, e) /\ j \in Nat \ {0}
  BY <1>2
<1>4. \A p : NotMet(p)' <=> NotMet(p)
  BY <1>1 DEF NotMet
<1>5. MetOnce'
  BY <1>1 DEF OnceInv, MetOnce
<1>6. WaitingApart /\ \A i, j, e : Waits(i, j, e) => NotMet(e.name)
  BY <1>1 DEF OnceInv
<1>7. ASSUME NEW i, NEW j, NEW e, NEW m, NEW n, NEW f,
             Waits(i, j, e)', Waits(m, n, f)', Above(e.name, f.name)
      PROVE  i = m /\ j = n
  <2>1. /\ Waits(i, IF i = l THEN j + 1 ELSE j, e) /\ Waits(m, IF m = l THEN n + 1 ELSE n, f)
        /\ j \in Nat /\ n \in Nat
    BY <1>3, <1>7
  <2>2. i = m /\ (IF i = l THEN j + 1 ELSE j) = (IF m = l THEN n + 1 ELSE n)
    BY <1>6, <1>7, <2>1 DEF WaitingApart
  <2> QED BY <2>1, <2>2
<1>8. ASSUME NEW i, NEW j, NEW e, Waits(i, j, e)'
      PROVE  ~Above(first.name, e.name) /\ ~Above(e.name, first.name)
  <2>1. Waits(i, IF i = l THEN j + 1 ELSE j, e) /\ j \in Nat \ {0} /\ Waits(l, 1, first)
    BY <1>3, <1>8
  <2>2. ~(i = l /\ (IF i = l THEN j + 1 ELSE j) = 1)
    BY <2>1
  <2> QED BY <1>6, <2>1, <2>2 DEF WaitingApart
<1>9. Alone(path)'
  BY <1>3, <1>8 DEF Alone
<1>10. NotMet(path)'
  <2>1. NotMet(first.name)
    BY <1>3, <1>6
  <2> QED BY <1>1, <1>3, <2>1 DEF NotMet
<1>11. \A i, j, e : Waits(i, j, e)' => NotMet(e.name)'
  BY <1>3, <1>4, <1>6
<1>12. WaitingApart'
  BY <1>7 DEF WaitingApart
<1> QED BY <1>1, <1>5, <1>9, <1>10, <1>11, <1>12 DEF OnceInv

LEMMA OnceAfterOpen ==
  ASSUME Types, WalkTypes, OnceInv, OpenDir
  PROVE  OnceInv'
<1>1. pc = "open" /\ pc' = "dir" /\ UNCHANGED <<met, path>>
  BY DEF OpenDir, Opening, readVars
<1>2. PICK l \in Nat, entities \in SetToSeqs(Entries(path)) :
           /\ \A i, j, e : Waits(i, j, e) => i # l
           /\ \A i, j, e : Waits(i, j, e)' <=>
                \/ Waits(i, j, e)
                \/ i = l /\ j \in DOMAIN entities /\ entities[j] = e
  BY WaitingAfterOpen
<1>3. /\ WaitingApart /\ Alone(path) /\ NotMet(path) /\ MetOnce
      /\ \A i, j, e : Waits(i, j, e) => NotMet(e.name)
  BY <1>1 DEF OnceInv, Active
<1>4. ASSUME NEW j \in DOMAIN entities
      PROVE  /\ entities[j].name \in Paths /\ Child(entities[j].name, path)
             /\ Alone(entities[j].name) /\ NotMet(entities[j].name)
  <2>1. entities[j] \in Entries(path)
    BY EntriesType, SetToSeqsRange
  <2>2. entities[j].name \in Paths /\ Child(entities[j].name, path)
    BY <2>1, EntriesAre
  <2> QED BY <1>3, <2>2, ChildrenAreApart
<1>5. ASSUME NEW j \in DOMAIN entities, NEW k \in DOMAIN entities, Above(entities[j].name, entities[k].name)
      PROVE  j = k
  <2>1. entities[j].name = entities[k].name
    BY <1>3, <1>4, <1>5, ChildrenAreApart
  <2>2. entities[j] \in Entries(path) /\ entities[k] \in Entries(path)
    BY EntriesType, SetToSeqsRange
  <2>3. entities[j] = entities[k]
    BY <2>1, <2>2 DEF Entries
  <2> QED BY <2>3, EntriesType, SetToSeqsRange
<1>6. ASSUME NEW i, NEW j, NEW e, NEW m, NEW n, NEW f,
             Waits(i, j, e)', Waits(m, n, f)', Above(e.name, f.name)
      PROVE  i = m /\ j = n
  <2>1. CASE Waits(i, j, e) /\ Waits(m, n, f)
    BY <1>3, <1>6, <2>1 DEF WaitingApart
  <2>2. CASE Waits(i, j, e) /\ m = l /\ n \in DOMAIN entities /\ entities[n] = f
    BY <1>4, <1>6, <2>2 DEF Alone
  <2>3. CASE Waits(m, n, f) /\ i = l /\ j \in DOMAIN entities /\ entities[j] = e
    BY <1>4, <1>6, <2>3 DEF Alone
  <2>4. CASE i = l /\ m = l /\ j \in DOMAIN entities /\ n \in DOMAIN entities /\ entities[j] = e /\ entities[n] = f
    BY <1>5, <1>6, <2>4
  <2> QED BY <1>2, <1>6, <2>1, <2>2, <2>3, <2>4
<1>7. \A p : NotMet(p)' <=> NotMet(p)
  BY <1>1 DEF NotMet
<1>8. \A i, j, e : Waits(i, j, e)' => NotMet(e.name)'
  BY <1>2, <1>3, <1>4, <1>7
<1>9. MetOnce' /\ WaitingApart'
  BY <1>1, <1>3, <1>6 DEF MetOnce, WaitingApart
<1> QED BY <1>1, <1>8, <1>9 DEF OnceInv, Active

LEMMA OnceAfterLeave ==
  ASSUME Types, WalkTypes, OnceInv, Active, NEW outcome \in Outcomes, Leave(outcome), UNCHANGED stack
  PROVE  OnceInv'
<1>1. /\ pc' \in {"done", "dir"} /\ pc # "killed"
      /\ DOMAIN met = 1 .. Len(met) /\ DOMAIN met' = 1 .. Len(met) + 1 /\ Len(met) \in Nat
      /\ met'[Len(met) + 1].name = path /\ \A k \in 1 .. Len(met) : met'[k] = met[k]
  BY AfterScanType DEF Leave, WalkTypes, Active
<1>2. /\ WaitingApart /\ Alone(path) /\ NotMet(path) /\ MetOnce
      /\ \A i, j, e : Waits(i, j, e) => NotMet(e.name)
  BY <1>1 DEF OnceInv
<1>3. \A i, j, e : Waits(i, j, e)' <=> Waits(i, j, e)
  BY DEF Waits
<1>4. \A k \in DOMAIN met' : k \in DOMAIN met \/ k = Len(met) + 1
  BY <1>1
<1>5. \A k \in DOMAIN met : met[k].name # path
  BY <1>2, AboveIsOrder DEF NotMet, Types
<1>6. MetOnce'
  BY <1>1, <1>2, <1>4, <1>5 DEF MetOnce
<1>7. ASSUME NEW i, NEW j, NEW e, Waits(i, j, e)
      PROVE  NotMet(e.name)'
  BY <1>1, <1>2, <1>4, <1>7 DEF NotMet, Alone
<1>8. WaitingApart'
  BY <1>2, <1>3 DEF WaitingApart
<1> QED BY <1>1, <1>3, <1>6, <1>7, <1>8 DEF OnceInv, Active

LEMMA StepOnceInv ==
  ASSUME Types, WalkTypes, OnceInv, [Next]_vars
  PROVE  OnceInv'
<1> USE DEF envVars, argVars, readVars, sumVars, logVars
<1>1. CASE Kill \/ Change \/ UNCHANGED vars
  BY <1>1, OnceUnchanged DEF Kill, Change, vars, Active, Stopped
<1>2. CASE Retry \/ OpenFile
  BY <1>2, OnceUnchanged DEF Retry, OpenFile, Opening, Active
<1>3. CASE StartScan \/ ScanBlocks \/ SaveRecord
  BY <1>3, OnceUnchanged DEF StartScan, ScanBlocks, SaveRecord, CountDown, Active
<1>4. CASE OpenDir \/ NextEntry \/ EndOfDir
  BY <1>4, OnceAfterOpen, OnceAfterNext, OnceAfterEnd
<1>5. CASE NoReader \/ GiveUp \/ SkipSmall \/ SkipFirst \/ SkipRest \/ MetaOnly \/ FlushBlocks
  <2>1. /\ Active /\ UNCHANGED stack
        /\ \/ Leave("no reader") \/ Leave("given up") \/ Leave("small")
           \/ Leave("skipped") \/ Leave("over") \/ Leave("saved")
    BY <1>5 DEF NoReader, GiveUp, SkipSmall, SkipFirst, SkipRest, MetaOnly, FlushBlocks, CountDown, Opening, Active
  <2> QED BY <2>1, OnceAfterLeave DEF Outcomes
<1> QED BY <1>1, <1>2, <1>3, <1>4, <1>5 DEF Next, Walk


-----------------------------------------------------------------------------
(* No path forgotten *)

\* Every ancestor is a directory, and there is something.
Reached(p) == fs[p].kind # "absent" /\ \A n \in 0 .. Len(p) - 1 : fs[SubSeq(p, 1, n)].kind = "dir"

\* Does the name p with or without '/' say what is there?
Fits(p, sl) == args.ft = "PANGU" => sl = (fs[p].kind \in {"dir", "locked"})

\* Is path q visited, or below something that will be?
Covered(q) ==
  \/ \E k \in DOMAIN met : met[k].name = q
  \/ Active /\ Above(path, q)
  \/ \E i, j, e : Waits(i, j, e) /\ Above(e.name, q)

\* While nothing changes, what is met is as it should be and all the rest will be.
NoneLost ==
  /\ \A i, j, e : Waits(i, j, e) => Reached(e.name) /\ Fits(e.name, e.slash)
  /\ Active => Reached(path) /\ Fits(path, slash)
  /\ pc \in {"file", "scan", "save", "flush"} => fs[path].kind = "file"
  /\ \A k \in DOMAIN met : met[k].name \in Leaves
  /\ \A q \in Leaves : Covered(q)
  /\ pc = "done" => stack = <<>>

Undisturbed == changes = 0 /\ args.ft \in Readers /\ ArgumentFits

NoneLostInv == Undisturbed /\ pc # "killed" => NoneLost

LEMMA LeavesAre == \A p : p \in Leaves <=> p \in Paths /\ Reached(p) /\ fs[p].kind # "dir"
  BY DEF Leaves, Reached

\* What is above a path that is reached, but is not the path, is a directory.
LEMMA AboveReached ==
  ASSUME NEW p \in Paths, NEW q \in Paths, Reached(q), Above(p, q), p # q
  PROVE  fs[p].kind = "dir"
<1>1. Len(p) \in 0 .. Len(q) /\ SubSeq(q, 1, Len(p)) = p /\ Len(p) < Len(q) /\ Len(q) \in Nat
  BY AboveIsPart, PathsAreSeqs
<1>2. Len(p) \in 0 .. Len(q) - 1
  BY <1>1
<1> QED BY <1>1, <1>2 DEF Reached

LEMMA InitNoneLost == Init => NoneLostInv
<1> SUFFICES ASSUME Init, Undisturbed PROVE NoneLost
  BY DEF NoneLostInv
<1>1. /\ path = <<>> /\ slash = args.slash /\ pc = "open" /\ stack = <<>>
      /\ DOMAIN stack = {} /\ DOMAIN met = {} /\ Len(path) = 0 /\ DOMAIN path = {}
  BY DEF Init
<1>2. Reached(path)
  BY <1>1 DEF Reached, Undisturbed, ArgumentFits
<1>3. Fits(path, slash)
  BY <1>1 DEF Fits, Undisturbed, ArgumentFits
<1>4. \A q : Covered(q)
  BY <1>1 DEF Covered, Above, Active
<1> QED BY <1>1, <1>2, <1>3, <1>4 DEF NoneLost, Waits

\* The parts that only look at the file system.
LEMMA SameFiles ==
  ASSUME UNCHANGED <<fs, args>>
  PROVE  /\ \A p : Reached(p)' <=> Reached(p)
         /\ \A p, sl : Fits(p, sl)' <=> Fits(p, sl)
         /\ Leaves' = Leaves /\ (ArgumentFits' <=> ArgumentFits)
<1>1. \A p : Reached(p)' <=> Reached(p)
  BY DEF Reached
<1>2. \A p, sl : Fits(p, sl)' <=> Fits(p, sl)
  BY DEF Fits
<1>3. Leaves' = Leaves
  BY DEF Leaves
<1>4. ArgumentFits' <=> ArgumentFits
  BY DEF ArgumentFits
<1> QED BY <1>1, <1>2, <1>3, <1>4

LEMMA NoneLostUnchanged ==
  ASSUME NoneLost, UNCHANGED <<fs, args, met, stack, path, slash>>,
         Active, Active', pc' \in {"file", "scan", "save", "flush"} => fs[path].kind = "file"
  PROVE  NoneLost'
<1>1. \A i, j, e : Waits(i, j, e)' <=> Waits(i, j, e)
  BY DEF Waits
<1>2. \A q : Covered(q)' <=> Covered(q)
  BY <1>1 DEF Covered
<1>3. Reached(path)' /\ Fits(path, slash)'
  BY DEF Reached, Fits, NoneLost
<1>4. \A i, j, e : Waits(i, j, e)' => Reached(e.name)' /\ Fits(e.name, e.slash)'
  BY <1>1, SameFiles DEF NoneLost
<1>5. \A q \in Leaves' : Covered(q)'
  BY <1>2, SameFiles DEF NoneLost
<1>6. \A k \in DOMAIN met' : met'[k].name \in Leaves'
  BY SameFiles DEF NoneLost
<1>7. pc' # "done"
  BY DEF Active
<1> QED BY <1>3, <1>4, <1>5, <1>6, <1>7 DEF NoneLost

LEMMA NoneLostAfterEnd ==
  ASSUME Types, NoneLost, EndOfDir
  PROVE  NoneLost'
<1>1. /\ pc = "dir" /\ pc' \in {"done", "dir"} /\ UNCHANGED <<fs, args, met>>
      /\ pc' = "done" => stack' = <<>>
  BY DEF EndOfDir, envVars, argVars
<1>2. \A i, j, e : Waits(i, j, e)' <=> Waits(i, j, e)
  BY WaitingAfterEnd
<1>3. \A q : Covered(q)' <=> Covered(q)
  BY <1>1, <1>2 DEF Covered, Active
<1>4. \A i, j, e : Waits(i, j, e)' => Reached(e.name)' /\ Fits(e.name, e.slash)'
  BY <1>1, <1>2, SameFiles DEF NoneLost
<1>5. \A q \in Leaves' : Covered(q)'
  BY <1>1, <1>3, SameFiles DEF NoneLost
<1>6. \A k \in DOMAIN met' : met'[k].name \in Leaves'
  BY <1>1, SameFiles DEF NoneLost
<1> QED BY <1>1, <1>4, <1>5, <1>6 DEF NoneLost, Active

LEMMA NoneLostAfterNext ==
  ASSUME Types, NoneLost, NextEntry
  PROVE  NoneLost'
<1>1. pc = "dir" /\ pc' = "open" /\ UNCHANGED <<fs, args, met>>
  BY DEF NextEntry, envVars, argVars
<1>2. PICK l \in Nat \ {0} : \E first \in Entry :
           /\ Waits(l, 1, first) /\ path' = first.name /\ slash' = first.slash
           /\ \A i, j, e : Waits(i, j, e)' => Waits(i, IF i = l THEN j + 1 ELSE j, e) /\ j \in Nat \ {0}
           /\ \A i, j, e : Waits(i, j, e) => e = first \/ \E k : Waits(i, k, e)'
  BY WaitingAfterNext
<1>3. PICK first \in Entry :
           /\ Waits(l, 1, first) /\ path' = first.name /\ slash' = first.slash
           /\ \A i, j, e : Waits(i, j, e)' => Waits(i, IF i = l THEN j + 1 ELSE j, e) /\ j \in Nat \ {0}
           /\ \A i, j, e : Waits(i, j, e) => e = first \/ \E k : Waits(i, k, e)'
  BY <1>2
<1>4. \A i, j, e : Waits(i, j, e)' => Reached(e.name)' /\ Fits(e.name, e.slash)'
  BY <1>1, <1>3, SameFiles DEF NoneLost
<1>5. Reached(path)' /\ Fits(path, slash)'
  <2>1. Reached(first.name) /\ Fits(first.name, first.slash)
    BY <1>3 DEF NoneLost
  <2> QED BY <1>1, <1>3, <2>1 DEF Reached, Fits
<1>6. ASSUME NEW q \in Leaves
      PROVE  Covered(q)'
  <2>1. Covered(q) /\ ~Active /\ Active'
    BY <1>1 DEF NoneLost, Active
  <2>2. CASE \E k \in DOMAIN met : met[k].name = q
    BY <1>1, <2>2 DEF Covered
  <2>3. CASE \E i, j, e : Waits(i, j, e) /\ Above(e.name, q)
    <3>1. PICK i, j, e : Waits(i, j, e) /\ Above(e.name, q)
      BY <2>3
    <3>2. e = first \/ \E k : Waits(i, k, e)'
      BY <1>3, <3>1
    <3> QED BY <1>3, <2>1, <3>1, <3>2 DEF Covered
  <2> QED BY <2>1, <2>2, <2>3 DEF Covered
<1>7. \A k \in DOMAIN met' : met'[k].name \in Leaves'
  BY <1>1, SameFiles DEF NoneLost
<1>8. \A q \in Leaves' : Covered(q)'
  BY <1>1, <1>6, SameFiles
<1> QED BY <1>1, <1>4, <1>5, <1>7, <1>8 DEF NoneLost


LEMMA ReachedIs ==
  ASSUME NEW p \in Paths
  PROVE  Reached(p) <=> /\ fs[p].kind # "absent"
                        /\ \A r \in Paths : Above(r, p) /\ r # p => fs[r].kind = "dir"
<1>1. ASSUME fs[p].kind # "absent", \A r \in Paths : Above(r, p) /\ r # p => fs[r].kind = "dir",
             NEW n \in 0 .. Len(p) - 1
      PROVE  fs[SubSeq(p, 1, n)].kind = "dir"
  <2>1. Len(p) \in Nat /\ n \in 0 .. Len(p) /\ n # Len(p)
    BY PathsAreSeqs
  <2>2. SubSeq(p, 1, n) \in Paths /\ Above(SubSeq(p, 1, n), p) /\ SubSeq(p, 1, n) # p
    BY <2>1, PartOfPath
  <2> QED BY <1>1, <2>2
<1> QED BY <1>1, AboveReached DEF Reached

LEMMA NoneLostAfterOpen ==
  ASSUME Types, NoneLost, OpenDir
  PROVE  NoneLost'
<1>1. /\ pc = "open" /\ pc' = "dir" /\ fs[path].kind = "dir" /\ path \in Paths
      /\ UNCHANGED <<fs, args, met, path>>
  BY DEF OpenDir, Opening, IsDir, envVars, argVars, readVars, Types
<1>2. PICK l \in Nat, entities \in SetToSeqs(Entries(path)) :
           \A i, j, e : Waits(i, j, e)' <=>
              \/ Waits(i, j, e)
              \/ i = l /\ j \in DOMAIN entities /\ entities[j] = e
  BY WaitingAfterOpen
<1>3. ASSUME NEW j \in DOMAIN entities
      PROVE  Reached(entities[j].name) /\ Fits(entities[j].name, entities[j].slash)
  <2>1. entities[j] \in Entries(path)
    BY EntriesType, SetToSeqsRange
  <2>2. PICK c \in Paths : /\ Child(c, path) /\ fs[c].kind # "absent"
                           /\ entities[j] = [name |-> c, slash |-> args.ft = "PANGU" /\ fs[c].kind \in {"dir", "locked"}]
    BY <2>1, EntriesAre
  <2>3. ASSUME NEW r \in Paths, Above(r, c), r # c
        PROVE  fs[r].kind = "dir"
    <3>1. Above(r, path)
      BY <1>1, <2>2, <2>3, AboveChild
    <3>2. Reached(path)
      BY <1>1 DEF NoneLost, Active
    <3> QED BY <1>1, <3>1, <3>2, AboveReached
  <2>4. Reached(c)
    BY <2>2, <2>3, ReachedIs
  <2>5. Fits(c, args.ft = "PANGU" /\ fs[c].kind \in {"dir", "locked"})
    BY DEF Fits
  <2> QED BY <2>2, <2>4, <2>5
<1>4. \A i, j, e : Waits(i, j, e)' => Reached(e.name) /\ Fits(e.name, e.slash)
  BY <1>2, <1>3 DEF NoneLost
<1>5. ASSUME NEW q \in Leaves
      PROVE  Covered(q)'
  <2>1. Covered(q) /\ Active /\ ~Active'
    BY <1>1 DEF NoneLost, Active
  <2>2. CASE \E k \in DOMAIN met : met[k].name = q
    BY <1>1, <2>2 DEF Covered
  <2>3. CASE \E i, j, e : Waits(i, j, e) /\ Above(e.name, q)
    BY <1>2, <2>3 DEF Covered
  <2>4. CASE Above(path, q)
    <3>1. q \in Paths /\ Reached(q) /\ fs[q].kind # "dir" /\ path # q
      BY <1>1, LeavesAre
    <3>2. PICK n \in 1 .. Len(q) : SubSeq(q, 1, n) \in Paths /\ Child(SubSeq(q, 1, n), path) /\ Above(SubSeq(q, 1, n), q)
      BY <1>1, <2>4, <3>1, ChildTowards
    <3>3. PICK c \in Paths : Child(c, path) /\ Above(c, q)
      BY <3>2
    <3>4. fs[c].kind # "absent"
      BY <3>1, <3>3, ReachedIs
    <3>5. PICK e \in Entries(path) : e.name = c
      <4> DEFINE d == [name |-> c, slash |-> args.ft = "PANGU" /\ fs[c].kind \in {"dir", "locked"}]
      <4>1. d \in Entries(path)
        BY <3>3, <3>4, EntriesAre
      <4>2. d.name = c
        OBVIOUS
      <4> QED BY <4>1, <4>2
    <3>6. PICK j \in DOMAIN entities : entities[j] = e
      BY EntriesType, SetToSeqsRange
    <3>7. Waits(l, j, e)'
      BY <1>2, <3>6
    <3> QED BY <3>3, <3>5, <3>7 DEF Covered
  <2> QED BY <2>1, <2>2, <2>3, <2>4 DEF Covered
<1>6. \A i, j, e : Waits(i, j, e)' => Reached(e.name)' /\ Fits(e.name, e.slash)'
  BY <1>1, <1>4, SameFiles
<1>7. \A q \in Leaves' : Covered(q)'
  BY <1>1, <1>5, SameFiles
<1>8. \A k \in DOMAIN met' : met'[k].name \in Leaves'
  BY <1>1, SameFiles DEF NoneLost
<1> QED BY <1>1, <1>6, <1>7, <1>8 DEF NoneLost, Active

LEMMA NoneLostAfterLeave ==
  ASSUME Types, WalkTypes, NoneLost, Active, NEW outcome \in Outcomes, Leave(outcome),
         UNCHANGED <<fs, args, stack, path>>, fs[path].kind # "dir"
  PROVE  NoneLost'
<1>1. /\ pc' \in {"done", "dir"} /\ (pc' = "done" => stack = <<>>)
      /\ DOMAIN met = 1 .. Len(met) /\ DOMAIN met' = 1 .. Len(met) + 1 /\ Len(met) \in Nat
      /\ met'[Len(met) + 1].name = path /\ \A k \in 1 .. Len(met) : met'[k] = met[k]
  BY DEF Leave, AfterScan, WalkTypes
<1>2. /\ \A k \in DOMAIN met' : k \in DOMAIN met \/ k = Len(met) + 1
      /\ \A k \in DOMAIN met : k \in DOMAIN met'
      /\ Len(met) + 1 \in DOMAIN met'
  BY <1>1
<1>3. \A i, j, e : Waits(i, j, e)' <=> Waits(i, j, e)
  BY DEF Waits
<1>4. path \in Paths /\ Reached(path) /\ path \in Leaves
  BY LeavesAre DEF NoneLost, Types
<1>5. \A k \in DOMAIN met' : met'[k].name \in Leaves
  BY <1>1, <1>2, <1>4 DEF NoneLost
<1>6. ASSUME NEW q \in Leaves
      PROVE  Covered(q)'
  <2>1. Covered(q)
    BY DEF NoneLost
  <2>2. CASE \E k \in DOMAIN met : met[k].name = q
    BY <1>1, <1>2, <2>2 DEF Covered
  <2>3. CASE \E i, j, e : Waits(i, j, e) /\ Above(e.name, q)
    BY <1>3, <2>3 DEF Covered
  <2>4. CASE Above(path, q)
    <3>1. path = q
      BY <1>4, <2>4, LeavesAre, AboveReached
    <3> QED BY <1>1, <1>2, <3>1 DEF Covered
  <2> QED BY <2>1, <2>2, <2>3, <2>4 DEF Covered
<1>7. \A i, j, e : Waits(i, j, e)' => Reached(e.name)' /\ Fits(e.name, e.slash)'
  BY <1>3, SameFiles DEF NoneLost
<1>8. \A q \in Leaves' : Covered(q)'
  BY <1>6, SameFiles
<1>9. \A k \in DOMAIN met' : met'[k].name \in Leaves'
  BY <1>5, SameFiles
<1> QED BY <1>1, <1>7, <1>8, <1>9 DEF NoneLost, Active

LEMMA StepNoneLost ==
  ASSUME Types, WalkTypes, NoneLostInv, [Next]_vars
  PROVE  NoneLostInv'
<1> SUFFICES ASSUME Undisturbed', pc' # "killed" PROVE NoneLost'
  BY DEF NoneLostInv
<1> USE DEF envVars, argVars, readVars, sumVars, logVars
<1>1. CASE Change
  <2>1. changes' # 0
    BY <1>1 DEF Change, WalkTypes
  <2> QED BY <2>1 DEF Undisturbed
<1>2. CASE Kill
  BY <1>2 DEF Kill
<1>3. CASE UNCHANGED vars
  <2>1. NoneLost
    BY <1>3 DEF vars, NoneLostInv, Undisturbed, ArgumentFits
  <2>2. /\ \A i, j, e : Waits(i, j, e)' <=> Waits(i, j, e)
        /\ UNCHANGED <<fs, args, met, stack, path, slash, pc>>
    BY <1>3 DEF vars, Waits
  <2>3. \A q : Covered(q)' <=> Covered(q)
    BY <2>2 DEF Covered, Active
  <2>4. \A i, j, e : Waits(i, j, e)' => Reached(e.name)' /\ Fits(e.name, e.slash)'
    BY <2>1, <2>2, SameFiles DEF NoneLost
  <2>5. \A q \in Leaves' : Covered(q)'
    BY <2>1, <2>2, <2>3, SameFiles DEF NoneLost
  <2>6. \A k \in DOMAIN met' : met'[k].name \in Leaves'
    BY <2>1, <2>2, SameFiles DEF NoneLost
  <2>7. Active' => Reached(path)' /\ Fits(path, slash)'
    BY <2>1, <2>2 DEF NoneLost, Reached, Fits, Active
  <2>8. pc' \in {"file", "scan", "save", "flush"} => fs'[path'].kind = "file"
    BY <2>1, <2>2 DEF NoneLost
  <2>9. pc' = "done" => stack' = <<>>
    BY <2>1, <2>2 DEF NoneLost
  <2> QED BY <2>4, <2>5, <2>6, <2>7, <2>8, <2>9, Zenon DEF NoneLost
<1>4. CASE Walk
  <2>1. pc # "killed" /\ UNCHANGED <<fs, changes, args>>
    BY <1>4 DEF Walk, NoReader, Retry, GiveUp, OpenDir, OpenFile, NextEntry, EndOfDir, Opening, CountDown,
                SkipSmall, SkipFirst, SkipRest, MetaOnly, StartScan, ScanBlocks, SaveRecord, FlushBlocks
  <2>2. NoneLost /\ args.ft \in Readers
    <3>1. ArgumentFits' <=> ArgumentFits
      BY <2>1, SameFiles
    <3> QED BY <2>1, <3>1 DEF NoneLostInv, Undisturbed
  <2>3. CASE OpenDir \/ NextEntry \/ EndOfDir
    BY <2>2, <2>3, NoneLostAfterOpen, NoneLostAfterNext, NoneLostAfterEnd
  <2>4. CASE Retry \/ OpenFile
    BY <2>1, <2>2, <2>4, NoneLostUnchanged DEF Retry, OpenFile, Opening, IsFile, Active
  <2>5. CASE StartScan \/ ScanBlocks \/ SaveRecord
    <3>1. /\ UNCHANGED <<stack, path, slash, met>> /\ Active /\ Active'
          /\ pc \in {"file", "scan", "save", "flush"}
      BY <2>5 DEF StartScan, ScanBlocks, SaveRecord, CountDown, Active
    <3>2. fs[path].kind = "file"
      BY <2>2, <3>1 DEF NoneLost
    <3> QED BY <2>1, <2>2, <3>1, <3>2, NoneLostUnchanged
  <2>6. CASE NoReader
    BY <2>2, <2>6 DEF NoReader
  <2>7. CASE GiveUp \/ SkipSmall \/ SkipFirst \/ SkipRest \/ MetaOnly \/ FlushBlocks
    <3>1. /\ Active /\ UNCHANGED <<stack, path>>
          /\ \/ Leave("given up") \/ Leave("small") \/ Leave("skipped") \/ Leave("over") \/ Leave("saved")
      BY <2>7 DEF GiveUp, SkipSmall, SkipFirst, SkipRest, MetaOnly, FlushBlocks, CountDown, Opening, Active
    <3>2. fs[path].kind # "dir"
      <4>1. CASE GiveUp
        <5>1. ~IsDir /\ Fits(path, slash)
          BY <2>2, <3>1, <4>1 DEF GiveUp, CannotOpen, NoneLost
        <5>2. CASE args.ft = "PANGU"
          <6>1. slash = (fs[path].kind \in {"dir", "locked"})
            BY <5>1, <5>2, Zenon DEF Fits
          <6>2. ~(fs[path].kind = "dir" /\ slash)
            BY <5>1 DEF IsDir
          <6>3. fs[path].kind = "dir" => fs[path].kind \in {"dir", "locked"}
            OBVIOUS
          <6> QED BY <6>1, <6>2, <6>3, Zenon
        <5>3. CASE args.ft # "PANGU"
          BY <5>1, <5>3 DEF IsDir
        <5> QED BY <5>2, <5>3
      <4>2. CASE ~GiveUp
        BY <2>2, <2>7, <4>2 DEF SkipSmall, SkipFirst, SkipRest, MetaOnly, FlushBlocks, CountDown, NoneLost
      <4> QED BY <4>1, <4>2
    <3> QED BY <2>1, <2>2, <3>1, <3>2, NoneLostAfterLeave DEF Outcomes
  <2> QED BY <1>4, <2>3, <2>4, <2>5, <2>6, <2>7 DEF Walk
<1> QED BY <1>1, <1>2, <1>3, <1>4 DEF Next

\* Whatever others change while the walk goes on, also when a directory is
\* replaced that was or will be entered, no path is dealt with twice; and if
\* they change nothing, a walk that ends has dealt with exactly the paths that
\* are there and no directories: retries, skips and the end of a directory on
\* the stack lose none.
THEOREM EveryPathOnce == Spec => []EachPathOnce
<1>1. Init => Types /\ WalkTypes /\ OnceInv /\ NoneLostInv
  BY InitTypes, InitWalkTypes, InitOnceInv, InitNoneLost
<1>2. Types /\ WalkTypes /\ OnceInv /\ NoneLostInv /\ [Next]_vars => (Types /\ WalkTypes /\ OnceInv /\ NoneLostInv)'
  BY StepTypes, StepWalkTypes, StepOnceInv, StepNoneLost
<1>3. OnceInv /\ NoneLostInv => EachPathOnce
  <2> SUFFICES ASSUME OnceInv, NoneLostInv, pc = "done", Undisturbed
               PROVE  {met[k].name : k \in DOMAIN met} = Leaves
    BY DEF OnceInv, MetOnce, EachPathOnce, Undisturbed
  <2>1. NoneLost /\ stack = <<>> /\ DOMAIN stack = {}
    BY DEF NoneLostInv, NoneLost
  <2>2. \A q \in Leaves : \E k \in DOMAIN met : met[k].name = q
    BY <2>1 DEF NoneLost, Covered, Active, Waits
  <2> QED BY <2>1, <2>2 DEF NoneLost
<1> QED BY <1>1, <1>2, <1>3, PTL DEF Spec

=============================================================================
