---------------------------- MODULE CdsGenProofs ----------------------------
(***************************************************************************)
(* For inputs, thresholds and numbers of buckets of any kind, over any     *)
(* number of runs, failures and kills: a directory ./cdstmp that lacks a   *)
(* ranking is never completed and never made anew; the CDS of a complete   *)
(* one holds a most frequent share of each bucket; of a damaged one every  *)
(* ranking on disk is right, but for the last one there, which may be cut  *)
(* short.                                                                  *)
(***************************************************************************)
EXTENDS CdsGen, DataTheorems

\* The rankings of the buckets before this one are there, and at the end all.
RankedSoFar ==
  /\ bucket \in Nat /\ DOMAIN merged \subseteq Buckets
  /\ pc \in {"idle", "prepare", "reuse", "split", "merge", "save", "done", "failed", "killed"}
  /\ pc \in {"prepare", "split"} => bucket = 0
  /\ pc \in {"merge", "reuse", "save"} => bucket \in Buckets /\ 0 .. bucket - 1 \subseteq DOMAIN merged
  /\ pc = "save" => bucket \in DOMAIN merged
  /\ pc = "done" => DOMAIN merged = Buckets /\ bucket = NumBuckets

\* What a run that fails or is killed may leave.
Leftover == dir /\ DOMAIN merged # Buckets /\ pc \in {"idle", "reuse", "failed", "killed"}

LEMMA ZeroIsABucket == 0 \in Buckets /\ NumBuckets \in Nat
  BY BucketsAssumption DEF Buckets

LEMMA InitRanked == Init => RankedSoFar
  BY DEF Init, RankedSoFar

\* A bucket whose ranking is there is done with.
LEMMA BucketDone ==
  ASSUME RankedSoFar, bucket \in Buckets, bucket \in DOMAIN merged, 0 .. bucket - 1 \subseteq DOMAIN merged,
         NEW phase \in {"merge", "reuse"}, NextBucket(phase), UNCHANGED merged
  PROVE  RankedSoFar'
<1>1. bucket \in Nat /\ bucket < NumBuckets /\ bucket' = bucket + 1
  BY ZeroIsABucket DEF Buckets, NextBucket
<1>2. 0 .. bucket' - 1 \subseteq DOMAIN merged
  BY <1>1
<1>3. CASE bucket + 1 = NumBuckets
  <2>1. DOMAIN merged' = Buckets
    <3>1. Buckets \subseteq DOMAIN merged
      BY <1>1, <1>2, <1>3 DEF Buckets
    <3> QED BY <3>1 DEF RankedSoFar
  <2> QED BY <1>1, <1>3, <2>1 DEF NextBucket, RankedSoFar
<1>4. CASE bucket + 1 # NumBuckets
  <2>1. bucket' \in Buckets
    BY <1>1, <1>4, ZeroIsABucket DEF Buckets
  <2> QED BY <1>1, <1>2, <1>4, <2>1 DEF NextBucket, RankedSoFar
<1> QED BY <1>3, <1>4

LEMMA StepRanked ==
  ASSUME RankedSoFar, [Next]_vars
  PROVE  RankedSoFar'
<1> USE DEF runVars
<1>1. CASE Start
  BY <1>1, ZeroIsABucket DEF Start, RankedSoFar
<1>2. CASE CannotStart \/ Prepare \/ CannotPrepare \/ SplitInput \/ CannotRead \/ CannotReuse
  BY <1>2 DEF CannotStart, Prepare, CannotPrepare, SplitInput, CannotRead, CannotReuse, RankedSoFar
<1>3. CASE EndOfList
  BY <1>3, ZeroIsABucket DEF EndOfList, RankedSoFar
<1>4. CASE MergeBucket
  <2>1. DOMAIN merged' = DOMAIN merged \union {bucket} /\ pc = "merge"
    BY <1>4 DEF MergeBucket
  <2> QED BY <1>4, <2>1 DEF MergeBucket, RankedSoFar
<1>5. CASE SaveCds
  BY <1>5, BucketDone DEF SaveCds, RankedSoFar
<1>6. CASE ReuseBucket
  BY <1>6, BucketDone DEF ReuseBucket, RankedSoFar
<1>7. CASE Crash
  <2>1. DOMAIN merged' = DOMAIN merged
    BY <1>7 DEF Crash
  <2> QED BY <1>7, <2>1 DEF Crash, RankedSoFar
<1>8. CASE UNCHANGED vars
  BY <1>8 DEF vars, RankedSoFar
<1> QED
  BY <1>1, <1>2, <1>3, <1>4, <1>5, <1>6, <1>7, <1>8 DEF Next

LEMMA StepLeftover ==
  ASSUME RankedSoFar, Leftover, [Next]_vars
  PROVE  Leftover'
<1> USE DEF runVars
<1>1. CASE Start
  BY <1>1 DEF Start, Leftover
<1>2. CASE Prepare \/ CannotPrepare \/ SplitInput \/ CannotRead \/ EndOfList \/ MergeBucket \/ SaveCds
  BY <1>2 DEF Prepare, CannotPrepare, SplitInput, CannotRead, EndOfList, MergeBucket, SaveCds, Leftover
<1>3. CASE CannotStart \/ CannotReuse
  BY <1>3 DEF CannotStart, CannotReuse, Leftover
<1>4. CASE ReuseBucket
  <2>1. bucket + 1 # NumBuckets
    <3>1. bucket \in Buckets /\ bucket \in DOMAIN merged /\ 0 .. bucket - 1 \subseteq DOMAIN merged
      BY <1>4 DEF ReuseBucket, RankedSoFar
    <3>2. bucket + 1 = NumBuckets => Buckets \subseteq DOMAIN merged
      BY <3>1, ZeroIsABucket DEF Buckets
    <3> QED BY <3>2 DEF RankedSoFar, Leftover
  <2> QED BY <1>4, <2>1 DEF ReuseBucket, NextBucket, Leftover
<1>5. CASE Crash
  <2>1. DOMAIN merged' = DOMAIN merged
    BY <1>5 DEF Crash
  <2> QED BY <1>5, <2>1 DEF Crash, Leftover
<1>6. CASE UNCHANGED vars
  BY <1>6 DEF vars, Leftover
<1> QED
  BY <1>1, <1>2, <1>3, <1>4, <1>5, <1>6 DEF Next

\* Once a run has stopped and a ranking is missing from the directory, no
\* later run completes: each finds the directory, copies what is there, and
\* fails at the first ranking that is not.
THEOREM LeftoversStay == Spec => LeftoversAreForever
<1>1. Init => RankedSoFar
  BY InitRanked
<1>2. RankedSoFar /\ [Next]_vars => RankedSoFar'
  BY StepRanked
<1>3. RankedSoFar /\ Leftover /\ [Next]_vars => Leftover'
  BY StepLeftover
<1>4. RankedSoFar /\ (Stopped /\ dir /\ DOMAIN merged # Buckets) => Leftover
  BY DEF RankedSoFar, Stopped, Leftover
<1>5. Leftover => pc # "done"
  BY DEF Leftover
<1> QED BY <1>1, <1>2, <1>3, <1>4, <1>5, PTL DEF Spec, LeftoversAreForever

-----------------------------------------------------------------------------
(* New blocks *)

\* Is the block one of those that bucket b takes?
Goes(blk, b) == IsNew(blk) /\ FirstByte[blk.cksum] = b

Rows(row, s, b) ==
  /\ row[0] = <<>>
  /\ \A k \in 1 .. Len(s) : row[k] = IF Goes(s[k], b) THEN Append(row[k - 1], s[k]) ELSE row[k - 1]
  /\ NewBlocks(s, b) = row[Len(s)]

\* The fold of NewBlocks, record by record.
LEMMA NewBlocksRows ==
  ASSUME NEW bkt, NEW s \in Seq(Block)
  PROVE  \E row \in [0 .. Len(s) -> Seq(Block)] : Rows(row, s, bkt)
<1> DEFINE n == Len(s)
           Kept(a, k) == IF Goes(s[k], bkt) THEN Append(a, s[k]) ELSE a
           it == CHOOSE g : g = [t \in SUBSET DOMAIN s |->
                                   IF t = {} THEN <<>> ELSE Kept(g[t \ {Max(t)}], Max(t))]
<1>1. n \in Nat /\ DOMAIN s = 1 .. n /\ \A k \in 1 .. n : s[k] \in Block
  OBVIOUS
<1>2. NewBlocks(s, bkt) = it[DOMAIN s]
  BY DEF NewBlocks, FoldLeft, MapThenFoldSet, Goes
<1>3. \A a \in Seq(Block), k \in 1 .. n : Kept(a, k) \in Seq(Block)
  BY <1>1
<1>4. PICK op \in [Seq(Block) \X (1 .. n) -> Seq(Block)] :
        \A a \in Seq(Block), k \in 1 .. n : op[<<a, k>>] = Kept(a, k)
  <2> DEFINE f == [p \in Seq(Block) \X (1 .. n) |-> Kept(p[1], p[2])]
  <2> HIDE DEF Kept, n
  <2>1. f \in [Seq(Block) \X (1 .. n) -> Seq(Block)]
    BY <1>3
  <2>2. \A a \in Seq(Block), k \in 1 .. n : f[<<a, k>>] = Kept(a, k)
    OBVIOUS
  <2> HIDE DEF f
  <2> QED BY <2>1, <2>2
<1>5. PICK h \in [SUBSET (1 .. n) -> Seq(Block)] : IsFold(h, <<>>, op, n)
  <2>1. <<>> \in Seq(Block)
    OBVIOUS
  <2> HIDE DEF n
  <2> QED BY <1>1, <2>1, FoldExists, Zenon
<1>6. h = [t \in SUBSET DOMAIN s |-> IF t = {} THEN <<>> ELSE Kept(h[t \ {Max(t)}], Max(t))]
  <2>1. ASSUME NEW t \in SUBSET (1 .. n), t # {}
        PROVE  h[t] = Kept(h[t \ {Max(t)}], Max(t))
    <3>1. Max(t) \in 1 .. n
      BY <1>1, <2>1, MaxOfSubset
    <3>2. h[t \ {Max(t)}] \in Seq(Block)
      OBVIOUS
    <3> HIDE DEF n, Kept
    <3> QED BY <1>4, <1>5, <2>1, <3>1, <3>2 DEF IsFold
  <2> HIDE DEF n, Kept
  <2> QED BY <1>1, <1>5, <2>1 DEF IsFold
<1>7. it = [t \in SUBSET DOMAIN s |-> IF t = {} THEN <<>> ELSE Kept(it[t \ {Max(t)}], Max(t))]
  <2> HIDE DEF Kept
  <2> QED BY <1>6, Zenon
<1> HIDE DEF it, Kept
<1>8. it[{}] = <<>>
  BY <1>1, <1>7
<1>9. \A k \in 1 .. n : it[1 .. k] = Kept(it[1 .. (k - 1)], k)
  <2> SUFFICES ASSUME NEW k \in 1 .. n PROVE it[1 .. k] = Kept(it[1 .. (k - 1)], k)
    OBVIOUS
  <2>1. (1 .. k) \in SUBSET DOMAIN s /\ 1 .. k # {}
    <3>1. \A j \in 1 .. k : j \in 1 .. n
      BY <1>1
    <3>2. k \in 1 .. k
      BY <1>1
    <3> HIDE DEF n
    <3> QED BY <1>1, <3>1, <3>2
  <2>2. Max(1 .. k) = k /\ (1 .. k) \ {Max(1 .. k)} = 1 .. (k - 1)
    BY <1>1, MaxOfUpTo
  <2>3. it[1 .. k] = Kept(it[(1 .. k) \ {Max(1 .. k)}], Max(1 .. k))
    BY <1>7, <2>1
  <2> QED BY <2>2, <2>3
<1> DEFINE Typed == {k \in 0 .. n : it[1 .. k] \in Seq(Block)}
<1>10. \A k \in 0 .. n : k \in Typed
  <2>1. 0 \in Typed
    <3>1. 1 .. 0 = {} /\ 0 \in 0 .. n
      BY <1>1
    <3> HIDE DEF n
    <3>2. it[1 .. 0] = <<>>
      BY <1>8, <3>1, Zenon
    <3>3. it[1 .. 0] \in Seq(Block)
      BY <3>2, EmptySeq
    <3> QED BY <3>1, <3>3
  <2>2. ASSUME NEW k \in 0 .. n - 1, k \in Typed PROVE k + 1 \in Typed
    <3>1. k + 1 \in 1 .. n /\ (k + 1) - 1 = k
      BY <1>1
    <3> QED BY <1>3, <1>9, <2>2, <3>1
  <2> HIDE DEF Typed
  <2> QED BY <1>1, <2>1, <2>2, UpToIsInductive
<1> DEFINE row == [k \in 0 .. n |-> it[1 .. k]]
<1>11. row \in [0 .. n -> Seq(Block)] /\ row[0] = <<>> /\ row[n] = it[DOMAIN s]
  BY <1>1, <1>8, <1>10
<1>12. \A k \in 1 .. n : row[k] = Kept(row[k - 1], k)
  BY <1>1, <1>9
<1> HIDE DEF row
<1> QED BY <1>2, <1>11, <1>12 DEF Kept, Rows

LEMMA NewBlocksOfAppend ==
  ASSUME NEW bkt
  PROVE  /\ NewBlocks(<<>>, bkt) = <<>>
         /\ \A s \in Seq(Block) : NewBlocks(s, bkt) \in Seq(Block)
         /\ \A s \in Seq(Block), blk \in Block :
              NewBlocks(Append(s, blk), bkt) =
                IF Goes(blk, bkt) THEN Append(NewBlocks(s, bkt), blk) ELSE NewBlocks(s, bkt)
<1>1. NewBlocks(<<>>, bkt) = <<>>
  <2>1. <<>> \in Seq(Block) /\ Len(<<>>) = 0
    BY EmptySeq
  <2>2. PICK none \in Seq(Block) : none = <<>> /\ Len(none) = 0
    BY <2>1
  <2>3. PICK row : Rows(row, none, bkt)
    BY NewBlocksRows
  <2> QED BY <2>2, <2>3 DEF Rows
<1>2. \A s \in Seq(Block) : NewBlocks(s, bkt) \in Seq(Block)
  <2> SUFFICES ASSUME NEW s \in Seq(Block) PROVE NewBlocks(s, bkt) \in Seq(Block)
    OBVIOUS
  <2>1. PICK row \in [0 .. Len(s) -> Seq(Block)] : NewBlocks(s, bkt) = row[Len(s)]
    BY NewBlocksRows DEF Rows
  <2>2. Len(s) \in 0 .. Len(s)
    BY LenProperties
  <2> QED BY <2>1, <2>2
<1>3. ASSUME NEW s \in Seq(Block), NEW blk \in Block
      PROVE  NewBlocks(Append(s, blk), bkt) =
               IF Goes(blk, bkt) THEN Append(NewBlocks(s, bkt), blk) ELSE NewBlocks(s, bkt)
  <2> DEFINE r == Append(s, blk)
             n == Len(s)
  <2>1. /\ r \in Seq(Block) /\ Len(r) = n + 1 /\ n \in Nat /\ r[n + 1] = blk
        /\ \A k \in 1 .. n : r[k] = s[k]
    OBVIOUS
  <2>2. PICK f \in [0 .. n -> Seq(Block)] : Rows(f, s, bkt)
    BY NewBlocksRows
  <2> HIDE DEF r, n
  <2>3. PICK g \in [0 .. n + 1 -> Seq(Block)] : Rows(g, r, bkt)
    BY <2>1, NewBlocksRows
  <2>4. f[n] = g[n]
    <3>1. \A k \in 1 .. n : f[k - 1] = g[k - 1] => f[k] = g[k]
      <4>1. \A k \in 1 .. n : k \in 1 .. n + 1
        BY <2>1
      <4> QED BY <2>1, <2>2, <2>3, <4>1 DEF Rows, n
    <3>2. n \in Nat /\ f[0] = g[0]
      BY <2>1, <2>2, <2>3 DEF Rows
    <3> QED BY <3>1, <3>2, RowsAgree, Zenon
  <2>5. n + 1 \in 1 .. n + 1 /\ (n + 1) - 1 = n
    BY <2>1
  <2>6. g[n + 1] = IF Goes(blk, bkt) THEN Append(g[n], blk) ELSE g[n]
    BY <2>1, <2>3, <2>5 DEF Rows
  <2>7. NewBlocks(r, bkt) = g[n + 1]
    BY <2>1, <2>3 DEF Rows
  <2> QED BY <2>2, <2>4, <2>6, <2>7 DEF r, n, Rows
<1> QED BY <1>1, <1>2, <1>3

-----------------------------------------------------------------------------
(* Numbers of blocks *)

\* How many entries of s are in T.
NumIn(s, T) == Cardinality({k \in DOMAIN s : s[k] \in T})

LEMMA NumInType ==
  ASSUME NEW S, NEW s \in Seq(S), NEW T
  PROVE  /\ NumIn(s, T) \in Nat
         /\ NumIn(s, T) = 0 <=> \A k \in DOMAIN s : s[k] \notin T
<1> DEFINE I == {k \in DOMAIN s : s[k] \in T}
<1>1. IsFiniteSet(I)
  <2>1. IsFiniteSet(DOMAIN s)
    BY FS_Interval
  <2> QED BY <2>1, FS_Subset
<1>2. Cardinality(I) \in Nat /\ (Cardinality(I) = 0 <=> I = {})
  <2> HIDE DEF I
  <2> QED BY <1>1, FS_CardinalityType, FS_EmptySet
<1> QED BY <1>2 DEF NumIn

LEMMA NumInOfAppend ==
  ASSUME NEW S, NEW s \in Seq(S), NEW e \in S, NEW T
  PROVE  /\ NumIn(<<>>, T) = 0
         /\ NumIn(Append(s, e), T) = NumIn(s, T) + (IF e \in T THEN 1 ELSE 0)
<1> DEFINE r == Append(s, e)
           n == Len(s)
           I == {k \in DOMAIN s : s[k] \in T}
           J == {k \in DOMAIN r : r[k] \in T}
<1>1. n \in Nat /\ DOMAIN s = 1 .. n /\ DOMAIN r = 1 .. n + 1 /\ r[n + 1] = e /\ \A k \in 1 .. n : r[k] = s[k]
  OBVIOUS
<1>2. IsFiniteSet(I) /\ n + 1 \notin I
  <2>1. IsFiniteSet(1 .. n) /\ I \subseteq 1 .. n /\ n + 1 \notin 1 .. n
    BY <1>1, FS_Interval
  <2> HIDE DEF I, n
  <2> QED BY <2>1, FS_Subset
<1>3. J = IF e \in T THEN I \union {n + 1} ELSE I
  <2>1. 1 .. n + 1 = (1 .. n) \union {n + 1} /\ n + 1 \notin 1 .. n
    BY <1>1
  <2> HIDE DEF r, n
  <2> QED BY <1>1, <2>1
<1>4. Cardinality(J) = Cardinality(I) + (IF e \in T THEN 1 ELSE 0)
  <2> HIDE DEF I, J, n
  <2>1. CASE e \in T
    BY <1>2, <1>3, <2>1, FS_AddElement
  <2>2. CASE e \notin T
    BY <1>2, <1>3, <2>2, FS_CardinalityType
  <2> QED BY <2>1, <2>2
<1>5. NumIn(<<>>, T) = 0
  <2>1. {k \in DOMAIN <<>> : <<>>[k] \in T} = {}
    BY EmptySeq
  <2> QED BY <2>1, FS_EmptySet DEF NumIn
<1> QED BY <1>4, <1>5 DEF NumIn

LEMMA NumInOfConcat ==
  ASSUME NEW S, NEW s \in Seq(S), NEW T
  PROVE  \A t \in Seq(S) : NumIn(s \o t, T) = NumIn(s, T) + NumIn(t, T)
<1> DEFINE P == {t \in Seq(S) : NumIn(s \o t, T) = NumIn(s, T) + NumIn(t, T)}
<1>1. <<>> \in P
  <2>1. s \o <<>> = s /\ <<>> \in Seq(S)
    BY EmptySeq, ConcatEmptySeq
  <2>2. NumIn(<<>>, T) = 0 /\ NumIn(s, T) \in Nat
    <3>1. {k \in DOMAIN <<>> : <<>>[k] \in T} = {}
      BY EmptySeq
    <3> QED BY <3>1, FS_EmptySet, NumInType DEF NumIn
  <2> QED BY <2>1, <2>2
<1>2. ASSUME NEW t \in Seq(S), NEW e \in S, t \in P
      PROVE  Append(t, e) \in P
  <2>1. s \o Append(t, e) = Append(s \o t, e) /\ s \o t \in Seq(S)
    BY AppendIsConcat, ConcatAssociative, ConcatProperties
  <2>2. NumIn(s \o Append(t, e), T) = NumIn(s \o t, T) + (IF e \in T THEN 1 ELSE 0)
    <3>1. PICK q \in Seq(S) : q = s \o t
      BY <2>1
    <3>2. NumIn(Append(q, e), T) = NumIn(q, T) + (IF e \in T THEN 1 ELSE 0)
      BY NumInOfAppend
    <3> QED BY <2>1, <3>1, <3>2
  <2>3. NumIn(Append(t, e), T) = NumIn(t, T) + (IF e \in T THEN 1 ELSE 0)
    BY NumInOfAppend
  <2>4. NumIn(s, T) \in Nat /\ NumIn(t, T) \in Nat /\ Append(t, e) \in Seq(S)
    BY NumInType
  <2> QED BY <1>2, <2>2, <2>3, <2>4
<1> HIDE DEF P
<1>3. \A t \in Seq(S) : t \in P
  BY <1>1, <1>2, SeqIsInductive
<1> QED BY <1>3 DEF P

\* The new blocks of a content, in a trace; all its blocks, in a bucket.
NewOf(c) == {blk \in Block : blk.cksum = c /\ blk.file_id = 0}
AllOf(c) == {blk \in Block : blk.cksum = c}

\* A bucket takes the new blocks of its contents, and nothing else.
LEMMA NewBlocksCount ==
  ASSUME NEW b, NEW c
  PROVE  \A trace \in Seq(Block) :
           NumIn(NewBlocks(trace, b), AllOf(c)) = IF FirstByte[c] = b THEN NumIn(trace, NewOf(c)) ELSE 0
<1> DEFINE Right(trace) ==
             NumIn(NewBlocks(trace, b), AllOf(c)) = IF FirstByte[c] = b THEN NumIn(trace, NewOf(c)) ELSE 0
           P == {trace \in Seq(Block) : Right(trace)}
<1>1. <<>> \in P
  <2>1. \A T : NumIn(<<>>, T) = 0
    <3>1. \A T : {k \in DOMAIN <<>> : <<>>[k] \in T} = {}
      BY EmptySeq
    <3> QED BY <3>1, FS_EmptySet DEF NumIn
  <2> QED BY <2>1, EmptySeq, NewBlocksOfAppend
<1>2. ASSUME NEW t \in Seq(Block), NEW blk \in Block, t \in P
      PROVE  Append(t, blk) \in P
  <2>1. PICK part \in Seq(Block) : part = NewBlocks(t, b)
    BY NewBlocksOfAppend
  <2>2. NewBlocks(Append(t, blk), b) = IF Goes(blk, b) THEN Append(part, blk) ELSE part
    BY <2>1, NewBlocksOfAppend
  <2>3. NumIn(Append(part, blk), AllOf(c)) = NumIn(part, AllOf(c)) + (IF blk.cksum = c THEN 1 ELSE 0)
    <3>1. blk \in AllOf(c) <=> blk.cksum = c
      BY DEF AllOf
    <3> QED BY <3>1, NumInOfAppend
  <2>4. NumIn(Append(t, blk), NewOf(c)) = NumIn(t, NewOf(c)) + (IF IsNew(blk) /\ blk.cksum = c THEN 1 ELSE 0)
    <3>1. blk \in NewOf(c) <=> IsNew(blk) /\ blk.cksum = c
      BY DEF NewOf, IsNew
    <3> QED BY <3>1, NumInOfAppend
  <2>5. NumIn(part, AllOf(c)) \in Nat /\ NumIn(t, NewOf(c)) \in Nat /\ Append(t, blk) \in Seq(Block)
    BY NumInType
  <2>6. NumIn(part, AllOf(c)) = IF FirstByte[c] = b THEN NumIn(t, NewOf(c)) ELSE 0
    BY <1>2, <2>1
  <2>7. Right(Append(t, blk))
    <3>1. CASE Goes(blk, b)
      BY <2>2, <2>3, <2>4, <2>5, <2>6, <3>1 DEF Goes
    <3>2. CASE ~Goes(blk, b)
      BY <2>2, <2>4, <2>5, <2>6, <3>2 DEF Goes
    <3> QED BY <3>1, <3>2
  <2> QED BY <2>5, <2>7
<1> HIDE DEF P
<1>3. \A t \in Seq(Block) : t \in P
  BY <1>1, <1>2, SeqIsInductive
<1> QED BY <1>3 DEF P

-----------------------------------------------------------------------------
(* Copies *)

Input == Seq(Block) \union {Unreadable, End}

\* The new blocks of a content in the first n inputs.
CopySet(inputs, n, c) ==
  {p \in UNION {{i} \X DOMAIN inputs[i] : i \in 1 .. n} :
     inputs[p[1]][p[2]].cksum = c /\ inputs[p[1]][p[2]].file_id = 0}

LEMMA NoCopies == \A inputs, c : CopySet(inputs, 0, c) = {}
  BY DEF CopySet

LEMMA CopySetGrows ==
  ASSUME NEW inputs \in Seq(Input), NEW n \in Nat, n + 1 <= Len(inputs), inputs[n + 1] \in Seq(Block), NEW c,
         IsFiniteSet(CopySet(inputs, n, c))
  PROVE  /\ IsFiniteSet(CopySet(inputs, n + 1, c))
         /\ Cardinality(CopySet(inputs, n + 1, c)) =
              Cardinality(CopySet(inputs, n, c)) + NumIn(inputs[n + 1], NewOf(c))
<1> DEFINE t == inputs[n + 1]
           K == {k \in DOMAIN t : t[k].cksum = c /\ t[k].file_id = 0}
           A == CopySet(inputs, n, c)
           B == {n + 1} \X K
<1>1. K = {k \in DOMAIN t : t[k] \in NewOf(c)}
  <2>1. \A k \in DOMAIN t : t[k] \in Block
    OBVIOUS
  <2> HIDE DEF t
  <2> QED BY <2>1 DEF NewOf
<1>2. IsFiniteSet(K) /\ Cardinality(K) = NumIn(t, NewOf(c))
  <2>1. IsFiniteSet(DOMAIN t)
    <3>1. PICK q \in Seq(Block) : q = t
      OBVIOUS
    <3>2. DOMAIN q = 1 .. Len(q) /\ Len(q) \in Nat
      OBVIOUS
    <3>3. IsFiniteSet(1 .. Len(q))
      BY <3>2, FS_Interval
    <3> QED BY <3>1, <3>2, <3>3
  <2>2. K \subseteq DOMAIN t
    OBVIOUS
  <2>3. IsFiniteSet(K)
    <3> HIDE DEF K
    <3> QED BY <2>1, <2>2, FS_Subset
  <2> QED BY <1>1, <2>3 DEF NumIn
<1>3. CopySet(inputs, n + 1, c) = A \union B
  <2>1. 1 .. n + 1 = (1 .. n) \union {n + 1}
    OBVIOUS
  <2>2. UNION {{i} \X DOMAIN inputs[i] : i \in 1 .. n + 1} =
          (UNION {{i} \X DOMAIN inputs[i] : i \in 1 .. n}) \union ({n + 1} \X DOMAIN t)
    BY <2>1
  <2>3. B = {p \in {n + 1} \X DOMAIN t : inputs[p[1]][p[2]].cksum = c /\ inputs[p[1]][p[2]].file_id = 0}
    OBVIOUS
  <2> QED BY <2>2, <2>3 DEF CopySet
<1>4. A \intersect B = {}
  <2>1. \A p \in A : p[1] \in 1 .. n
    BY DEF CopySet
  <2>2. \A p \in B : p[1] = n + 1
    OBVIOUS
  <2>3. n + 1 \notin 1 .. n
    OBVIOUS
  <2> HIDE DEF A, B
  <2> QED BY <2>1, <2>2, <2>3
<1>5. IsFiniteSet(B) /\ Cardinality(B) = Cardinality(K)
  <2>1. IsFiniteSet({n + 1}) /\ Cardinality({n + 1}) = 1
    BY FS_Singleton
  <2> HIDE DEF K
  <2>2. IsFiniteSet(B) /\ Cardinality(B) = 1 * Cardinality(K) /\ Cardinality(K) \in Nat
    BY <1>2, <2>1, FS_Product, FS_CardinalityType
  <2> QED BY <2>2
<1>6. IsFiniteSet(A \union B) /\ Cardinality(A \union B) = Cardinality(A) + Cardinality(B)
  <2> HIDE DEF A, B
  <2>1. /\ IsFiniteSet(A \union B)
        /\ Cardinality(A \union B) = Cardinality(A) + Cardinality(B) - Cardinality(A \intersect B)
    BY <1>5, FS_Union DEF A
  <2>2. Cardinality(A \intersect B) = 0 /\ Cardinality(A) \in Nat /\ Cardinality(B) \in Nat
    BY <1>4, <1>5, FS_EmptySet, FS_CardinalityType DEF A
  <2> QED BY <2>1, <2>2
<1> HIDE DEF A, B, K
<1> QED BY <1>2, <1>3, <1>5, <1>6 DEF A

\* If the input after the first n is no trace, or there is none, these are all.
LEMMA CopiesAre ==
  ASSUME NEW inputs \in Seq(Input), NEW n \in Nat, n <= Len(inputs),
         \A j \in 1 .. n : inputs[j] \notin {End, Unreadable},
         n = Len(inputs) \/ inputs[n + 1] \in {End, Unreadable}, NEW c
  PROVE  Copies(inputs, c) = Cardinality(CopySet(inputs, n, c))
<1>1. Read(inputs) = 1 .. n
  <2>1. PICK L \in Nat : L = Len(inputs) /\ DOMAIN inputs = 1 .. L
    OBVIOUS
  <2>2. n <= L /\ (n = L \/ inputs[n + 1] \in {End, Unreadable})
    BY <2>1
  <2>3. ASSUME NEW i \in 1 .. n PROVE i \in Read(inputs)
    <3>1. i \in 1 .. L /\ \A j \in 1 .. i : j \in 1 .. n
      BY <2>2
    <3>2. \A j \in 1 .. i : inputs[j] \notin {End, Unreadable}
      BY <3>1
    <3> QED BY <2>1, <3>1, <3>2 DEF Read
  <2>4. ASSUME NEW i \in Read(inputs) PROVE i \in 1 .. n
    <3>1. i \in 1 .. L /\ \A j \in 1 .. i : inputs[j] \notin {End, Unreadable}
      BY <2>1 DEF Read
    <3>2. n + 1 \in 1 .. i => n = L
      BY <2>2, <3>1
    <3> QED BY <2>2, <3>1, <3>2
  <2> QED BY <2>3, <2>4
<1> QED BY <1>1 DEF Copies, CopySet

-----------------------------------------------------------------------------
(* The inductive invariant *)

\* IsTopOf, of a sequence of records and a threshold.
TopIn(s, th, inputs, b) ==
  LET part == {k \in DOMAIN s : FirstByte[s[k].cksum] = b}
      kept == {s[k].cksum : k \in part}
  IN  /\ Cardinality(kept) = Cardinality(part)
      /\ Cardinality(part) = (Cardinality(Contents(inputs, b)) * th) \div Unit
      /\ kept \subseteq Contents(inputs, b)
      /\ \A k \in part : s[k].count = Copies(inputs, s[k].cksum)
      /\ \A c \in kept, d \in Contents(inputs, b) \ kept : Copies(inputs, c) >= Copies(inputs, d)

\* Records of bucket b only.
InBucket(s, b) == s \in Seq(Record) /\ \A k \in DOMAIN s : FirstByte[s[k].cksum] = b

Data ==
  /\ dir \in BOOLEAN /\ reuse \in BOOLEAN
  /\ list \in Seq(Input)
  /\ threshold \in 0 .. Unit
  /\ raw \in [Buckets -> Seq(Block)]
  /\ cds \in Seq(Record)
  /\ merged = [b \in DOMAIN merged |-> merged[b]]
  /\ \A b \in DOMAIN merged : InBucket(merged[b], b)

\* A directory is made at most once, and the run that makes it ranks its own
\* list, bucket by bucket.
Origin ==
  /\ ~dir => DOMAIN merged = {}
  /\ pc = "prepare" => ~dir /\ ~reuse
  /\ pc \in {"split", "merge", "save"} => dir /\ ~reuse /\ source = list
  /\ pc = "reuse" => reuse
  /\ pc = "done" /\ ~reuse => source = list
  /\ pc = "split" => DOMAIN merged = {}
  /\ pc = "merge" => DOMAIN merged = 0 .. bucket - 1
  /\ pc = "save" => DOMAIN merged = 0 .. bucket

\* r holds as many blocks of each content as bucket b should get of it.
Holds(r, b, copies) == \A c \in Cksum : NumIn(r, AllOf(c)) = IF FirstByte[c] = b THEN copies[c] ELSE 0

CopiesUpTo(inputs, n) == [c \in Cksum |-> Cardinality(CopySet(inputs, n, c))]
CopiesOf(inputs) == [c \in Cksum |-> Copies(inputs, c)]

\* n of the inputs are split: the others are to follow, the buckets are buf.
SplitAt(inputs, n, others, buf) ==
  /\ others = SubSeq(inputs, n + 1, Len(inputs))
  /\ \A j \in 1 .. n : inputs[j] \notin {End, Unreadable}
  /\ \A c \in Cksum : IsFiniteSet(CopySet(inputs, n, c))
  /\ \A b \in Buckets : Holds(buf[b], b, CopiesUpTo(inputs, n))

Splitting ==
  /\ pc \in {"prepare", "split"} => \E n \in 0 .. Len(list) : SplitAt(list, n, rest, raw)
  /\ pc \in {"merge", "save"} => \A b \in Buckets : Holds(raw[b], b, CopiesOf(list))

\* A ranking is right, unless it is the last one there and cut short.
Rankings ==
  \A b \in DOMAIN merged :
    \/ IsRanking(merged[b], source, b)
    \/ /\ pc \notin {"merge", "save"} /\ ~(pc = "done" /\ ~reuse)
       /\ \A x \in DOMAIN merged : x <= b

Running == {"prepare", "split", "merge", "save", "reuse", "done"}

\* The CDS has the top of every ranking copied so far.
Written ==
  pc \in Running =>
    /\ \A k \in DOMAIN cds : FirstByte[cds[k].cksum] < bucket
    /\ \A b \in 0 .. bucket - 1 :
         b \in DOMAIN merged /\ (IsRanking(merged[b], source, b) => TopIn(cds, threshold, source, b))

GenInv == Data /\ Origin /\ Splitting /\ Rankings /\ Written

-----------------------------------------------------------------------------
(* Rankings *)

LEMMA ContentsFinite == \A inputs, b : Contents(inputs, b) \subseteq Cksum /\ IsFiniteSet(Contents(inputs, b))
<1> SUFFICES ASSUME NEW inputs, NEW b
             PROVE  Contents(inputs, b) \subseteq Cksum /\ IsFiniteSet(Contents(inputs, b))
  OBVIOUS
<1>1. Contents(inputs, b) \subseteq Cksum
  BY DEF Contents
<1> QED BY <1>1, ListsAssumption, FS_Subset

\* The contents that bucket b holds are those that the inputs have new blocks of.
LEMMA HeldContents ==
  ASSUME NEW r \in Seq(Block), NEW b \in Buckets, NEW inputs, Holds(r, b, CopiesOf(inputs))
  PROVE  /\ {r[k].cksum : k \in DOMAIN r} = Contents(inputs, b)
         /\ \A c \in Contents(inputs, b) : NumIn(r, AllOf(c)) = Copies(inputs, c) /\ Copies(inputs, c) \in Nat
<1>1. \A k \in DOMAIN r : r[k] \in Block /\ r[k].cksum \in Cksum
  <2>1. \A k \in DOMAIN r : r[k] \in Block
    OBVIOUS
  <2> QED BY <2>1 DEF Block
<1>2. \A c \in Cksum : NumIn(r, AllOf(c)) = IF FirstByte[c] = b THEN Copies(inputs, c) ELSE 0
  BY DEF Holds, CopiesOf
<1>3. \A c \in Cksum : NumIn(r, AllOf(c)) \in Nat /\ (NumIn(r, AllOf(c)) = 0 <=> \A k \in DOMAIN r : r[k].cksum # c)
  <2> SUFFICES ASSUME NEW c \in Cksum
               PROVE  /\ NumIn(r, AllOf(c)) \in Nat
                      /\ NumIn(r, AllOf(c)) = 0 <=> \A k \in DOMAIN r : r[k].cksum # c
    OBVIOUS
  <2>1. \A k \in DOMAIN r : r[k] \in AllOf(c) <=> r[k].cksum = c
    BY <1>1 DEF AllOf
  <2> QED BY <2>1, NumInType
<1>4. ASSUME NEW c \in Cksum
      PROVE  c \in Contents(inputs, b) <=> \E k \in DOMAIN r : r[k].cksum = c
  <2>1. CASE FirstByte[c] = b
    <3>1. Copies(inputs, c) \in Nat /\ (Copies(inputs, c) = 0 <=> \A k \in DOMAIN r : r[k].cksum # c)
      BY <1>2, <1>3, <2>1
    <3>2. c \in Contents(inputs, b) <=> Copies(inputs, c) # 0
      BY <2>1, <3>1 DEF Contents
    <3> QED BY <3>1, <3>2, Zenon
  <2>2. CASE FirstByte[c] # b
    <3>1. \A k \in DOMAIN r : r[k].cksum # c
      BY <1>2, <1>3, <2>2
    <3> QED BY <2>2, <3>1 DEF Contents
  <2> QED BY <2>1, <2>2
<1>5. \A c \in Contents(inputs, b) : c \in Cksum /\ FirstByte[c] = b
  BY DEF Contents
<1> QED BY <1>1, <1>2, <1>3, <1>4, <1>5

\* Ranking what a bucket holds gives the ranking that the inputs call for.
LEMMA RankingOfHeld ==
  ASSUME NEW r \in Seq(Block), NEW b \in Buckets, NEW inputs, Holds(r, b, CopiesOf(inputs)),
         NEW m \in SetToSeqs(Counted(r)), ByCount(m)
  PROVE  IsRanking(m, inputs, b) /\ InBucket(m, b)
<1> DEFINE C == Contents(inputs, b)
           rec(c) == [cksum |-> c, count |-> Copies(inputs, c)]
<1>1. C = {r[k].cksum : k \in DOMAIN r} /\ \A c \in C : NumIn(r, AllOf(c)) = Copies(inputs, c) /\ Copies(inputs, c) \in Nat
  BY HeldContents
<1>2. C \subseteq Cksum /\ IsFiniteSet(C) /\ \A c \in C : FirstByte[c] = b
  BY ContentsFinite DEF Contents
<1>3. \A k \in DOMAIN r : r[k] \in Block /\ r[k].cksum \in C
  BY <1>1
<1>4. \A c \in C : NumberOf(r, c) = Copies(inputs, c)
  <2> SUFFICES ASSUME NEW c \in C PROVE NumberOf(r, c) = Copies(inputs, c)
    OBVIOUS
  <2>1. \A k \in DOMAIN r : r[k] \in AllOf(c) <=> r[k].cksum = c
    BY <1>3 DEF AllOf
  <2>2. NumberOf(r, c) = NumIn(r, AllOf(c))
    BY <2>1 DEF NumberOf, NumIn
  <2> QED BY <1>1, <2>2
<1> HIDE DEF C
<1>5. Counted(r) = {rec(c) : c \in C}
  <2>1. ASSUME NEW e \in Counted(r) PROVE e \in {rec(c) : c \in C}
    <3>1. PICK blk \in Range(r) : e = [cksum |-> blk.cksum, count |-> NumberOf(r, blk.cksum)]
      BY DEF Counted
    <3>2. PICK k \in DOMAIN r : blk = r[k]
      BY DEF Range
    <3>3. blk.cksum \in C
      BY <1>3, <3>2
    <3> QED BY <1>4, <3>1, <3>3
  <2>2. ASSUME NEW c \in C PROVE rec(c) \in Counted(r)
    <3>1. PICK k \in DOMAIN r : r[k].cksum = c
      BY <1>1 DEF C
    <3>2. r[k] \in Range(r)
      BY DEF Range
    <3>3. NumberOf(r, c) = Copies(inputs, c)
      BY <1>4
    <3> QED BY <3>1, <3>2, <3>3 DEF Counted
  <2> QED BY <2>1, <2>2
<1>6. IsFiniteSet(Counted(r)) /\ Cardinality(Counted(r)) = Cardinality(C)
  <2> DEFINE f == [c \in C |-> rec(c)]
  <2>1. f \in Injection(C, Counted(r)) /\ f \in Surjection(C, Counted(r))
    <3>1. f \in [C -> Counted(r)]
      BY <1>5
    <3>2. \A c, d \in C : f[c] = f[d] => c = d
      OBVIOUS
    <3>3. \A e \in Counted(r) : \E c \in C : f[c] = e
      BY <1>5
    <3> HIDE DEF f
    <3> QED BY <3>1, <3>2, <3>3 DEF Injection, IsInjective, Surjection
  <2> HIDE DEF f
  <2>2. ExistsBijection(C, Counted(r))
    BY <2>1 DEF ExistsBijection, Bijection
  <2> QED BY <1>2, <2>2, FS_Bijection
<1>7. m \in Seq(Counted(r)) /\ \A e \in Counted(r) : \E j \in DOMAIN m : m[j] = e
  BY <1>6, SetToSeqsType, SetToSeqsRange
<1>8. Len(m) = Cardinality(C)
  <2>1. m \in [1 .. Cardinality(Counted(r)) -> Counted(r)] /\ Cardinality(Counted(r)) \in Nat
    BY <1>6, FS_CardinalityType DEF SetToSeqs
  <2>2. DOMAIN m = 1 .. Len(m) /\ Len(m) \in Nat
    BY <1>7
  <2> QED BY <1>6, <2>1, <2>2
<1>9. \A i \in DOMAIN m : m[i] = rec(m[i].cksum) /\ m[i].cksum \in C
  <2>1. \A i \in DOMAIN m : m[i] \in Counted(r)
    BY <1>7
  <2> QED BY <1>5, <2>1
<1>10. {m[i].cksum : i \in DOMAIN m} = C
  <2>1. \A c \in C : \E j \in DOMAIN m : m[j] = rec(c)
    BY <1>5, <1>7
  <2>2. \A c \in C : \E j \in DOMAIN m : m[j].cksum = c
    BY <2>1
  <2> QED BY <1>9, <2>2
<1>11. \A i \in DOMAIN m : m[i] \in Record /\ m[i].count = Copies(inputs, m[i].cksum)
  <2> SUFFICES ASSUME NEW i \in DOMAIN m PROVE m[i] \in Record /\ m[i].count = Copies(inputs, m[i].cksum)
    OBVIOUS
  <2>1. PICK c \in C : m[i] = rec(c)
    BY <1>9
  <2>2. c \in Cksum /\ Copies(inputs, c) \in Nat
    BY <1>1, <1>2
  <2> QED BY <2>1, <2>2 DEF Record
<1>12. InBucket(m, b)
  <2>1. m \in Seq(Record)
    BY <1>7, <1>11
  <2> QED BY <1>2, <1>9, <2>1 DEF InBucket
<1>13. IsRanking(m, inputs, b)
  BY <1>8, <1>10, <1>11 DEF IsRanking, ByCount, C
<1> QED BY <1>12, <1>13


-----------------------------------------------------------------------------
(* The top of a ranking *)

\* A share of a ranking is no more than the ranking.
LEMMA ShareFits == \A n \in Nat, th \in 0 .. Unit : (n * th) \div Unit \in 0 .. n
<1> SUFFICES ASSUME NEW n \in Nat, NEW th \in 0 .. Unit PROVE (n * th) \div Unit \in 0 .. n
  OBVIOUS
<1>1. Unit \in Nat /\ Unit > 0 /\ th \in Nat /\ th <= Unit
  BY ThresholdsAssumption
<1> DEFINE q == (n * th) \div Unit
<1>2. PICK a \in Nat : a = n * th
  BY <1>1
<1>3. PICK z \in Nat : z = n * Unit /\ a <= z
  BY <1>1, <1>2
<1>4. PICK k \in Nat : k = a \div Unit /\ Unit * k <= a
  <2>1. a \div Unit \in Nat /\ Unit * (a \div Unit) <= a
    BY <1>1
  <2> QED BY <2>1
<1>5. k <= n
  <2> SUFFICES ASSUME k > n PROVE FALSE
    BY <1>4
  <2>1. Unit * k > Unit * n
    BY <1>1
  <2>2. Unit * n = n * Unit
    BY <1>1
  <2>3. Unit * k \in Int /\ Unit * n \in Int
    BY <1>1
  <2> QED BY <1>3, <1>4, <2>1, <2>2, <2>3
<1> QED BY <1>2, <1>4, <1>5

\* A sequence after another.
Joined(q, s, t, n, l) ==
  /\ q = s \o t /\ n = Len(s) /\ l = Len(t)
  /\ DOMAIN s = 1 .. n /\ DOMAIN t = 1 .. l /\ DOMAIN q = 1 .. n + l
  /\ \A k \in 1 .. n : q[k] = s[k]
  /\ \A k \in n + 1 .. n + l : q[k] = t[k - n] /\ k - n \in 1 .. l

LEMMA JoinedExists ==
  ASSUME NEW S, NEW s \in Seq(S), NEW t \in Seq(S)
  PROVE  \E q \in Seq(S), n \in Nat, l \in Nat : Joined(q, s, t, n, l)
<1>1. PICK n \in Nat, l \in Nat : n = Len(s) /\ l = Len(t) /\ DOMAIN s = 1 .. n /\ DOMAIN t = 1 .. l
  OBVIOUS
<1>2. PICK q \in Seq(S) : q = s \o t
  BY ConcatProperties
<1>3. Len(q) = n + l /\ \A k \in 1 .. n + l : q[k] = IF k <= n THEN s[k] ELSE t[k - n]
  BY <1>1, <1>2, ConcatProperties
<1>4. DOMAIN q = 1 .. n + l
  BY <1>3
<1>5. \A k \in 1 .. n : k \in 1 .. n + l /\ k <= n
  OBVIOUS
<1>6. \A k \in n + 1 .. n + l : k \in 1 .. n + l /\ ~(k <= n) /\ k - n \in 1 .. l
  OBVIOUS
<1>7. Joined(q, s, t, n, l)
  BY <1>1, <1>2, <1>3, <1>4, <1>5, <1>6 DEF Joined
<1> QED BY <1>7

\* The records of a bucket are where they were when records of others follow.
LEMMA TopOfLonger ==
  ASSUME NEW s \in Seq(Record), NEW t \in Seq(Record), NEW th, NEW inputs, NEW b,
         \A k \in DOMAIN t : FirstByte[t[k].cksum] # b, TopIn(s, th, inputs, b)
  PROVE  TopIn(s \o t, th, inputs, b)
<1>1. PICK q \in Seq(Record), n \in Nat, l \in Nat : Joined(q, s, t, n, l)
  BY JoinedExists
<1> DEFINE part == {k \in DOMAIN s : FirstByte[s[k].cksum] = b}
<1>2. {k \in DOMAIN q : FirstByte[q[k].cksum] = b} = part
  <2>1. \A k \in n + 1 .. n + l : FirstByte[q[k].cksum] # b
    <3>1. \A i \in 1 .. l : FirstByte[t[i].cksum] # b
      BY <1>1 DEF Joined
    <3>2. \A k \in n + 1 .. n + l : q[k] = t[k - n] /\ k - n \in 1 .. l
      BY <1>1, Zenon DEF Joined
    <3> QED BY <3>1, <3>2, Zenon
  <2>2. \A k \in 1 .. n + l : k \in 1 .. n \/ k \in n + 1 .. n + l
    OBVIOUS
  <2>3. \A k \in 1 .. n : k \in 1 .. n + l
    OBVIOUS
  <2> QED BY <1>1, <2>1, <2>2, <2>3 DEF Joined
<1>3. \A k \in part : q[k] = s[k]
  BY <1>1 DEF Joined
<1>4. {q[k].cksum : k \in part} = {s[k].cksum : k \in part}
  BY <1>3
<1>5. TopIn(q, th, inputs, b)
  <2>1. \A k \in part : s[k].count = Copies(inputs, s[k].cksum)
    BY DEF TopIn
  <2>2. \A k \in part : q[k].count = Copies(inputs, q[k].cksum)
    BY <1>3, <2>1
  <2> QED BY <1>2, <1>4, <2>2 DEF TopIn
<1> QED BY <1>1, <1>5 DEF Joined

\* The start of a ranking has the most frequent contents of its bucket.
LEMMA TopOfRanking ==
  ASSUME NEW s \in Seq(Record), NEW b, NEW m, InBucket(m, b), NEW inputs, IsRanking(m, inputs, b),
         NEW th \in 0 .. Unit, \A k \in DOMAIN s : FirstByte[s[k].cksum] # b
  PROVE  TopIn(s \o SubSeq(m, 1, (Len(m) * th) \div Unit), th, inputs, b)
<1>1. PICK L \in Nat : L = Len(m) /\ DOMAIN m = 1 .. L /\ m \in Seq(Record)
  BY DEF InBucket
<1>2. PICK h \in 0 .. L : h = (L * th) \div Unit
  BY ShareFits
<1>3. PICK t \in Seq(Record) : t = SubSeq(m, 1, h) /\ Len(t) = h /\ \A i \in 1 .. h : t[i] = m[i] /\ i \in 1 .. L
  <2>1. \A i \in 1 .. h : i \in 1 .. L
    BY <1>2
  <2>2. SubSeq(m, 1, h) \in Seq(Record) /\ Len(SubSeq(m, 1, h)) = h /\ \A i \in 1 .. h : SubSeq(m, 1, h)[i] = m[i]
    <3>1. 1 \in 1 .. L + 1 /\ h \in 1 - 1 .. L
      BY <1>2
    <3>2. \A i \in 1 .. h : m[i] \in Record
      BY <1>1, <2>1
    <3> QED BY <1>1, <1>2, <2>1, <3>1, <3>2
  <2> QED BY <2>1, <2>2
<1>4. PICK q \in Seq(Record), n \in Nat :
        /\ q = s \o t
        /\ DOMAIN s = 1 .. n /\ DOMAIN q = 1 .. n + h
        /\ \A k \in 1 .. n : q[k] = s[k]
        /\ \A k \in n + 1 .. n + h : q[k] = t[k - n] /\ k - n \in 1 .. h
  <2>1. PICK q \in Seq(Record), n \in Nat, l \in Nat : Joined(q, s, t, n, l)
    BY JoinedExists
  <2>2. l = h
    BY <1>3, <2>1 DEF Joined
  <2>3. /\ q = s \o t
        /\ DOMAIN s = 1 .. n /\ DOMAIN q = 1 .. n + h
        /\ \A k \in 1 .. n : q[k] = s[k]
        /\ \A k \in n + 1 .. n + h : q[k] = t[k - n] /\ k - n \in 1 .. h
    BY <2>1, <2>2, Zenon DEF Joined
  <2> QED BY <2>3
<1> DEFINE C == Contents(inputs, b)
           part == {k \in DOMAIN q : FirstByte[q[k].cksum] = b}
           kept == {q[k].cksum : k \in part}
<1>5. /\ L = Cardinality(C)
      /\ {m[i].cksum : i \in 1 .. L} = C
      /\ \A i \in 1 .. L : m[i].count = Copies(inputs, m[i].cksum) /\ FirstByte[m[i].cksum] = b
      /\ \A i, j \in 1 .. L : i < j => m[i].count >= m[j].count
  BY <1>1 DEF IsRanking, InBucket
<1> HIDE DEF C
<1>6. part = n + 1 .. n + h /\ \A k \in part : k - n \in 1 .. h /\ k - n \in 1 .. L /\ q[k] = m[k - n]
  <2>1. \A k \in n + 1 .. n + h : k - n \in 1 .. h /\ k - n \in 1 .. L /\ q[k] = m[k - n] /\ k \in 1 .. n + h
    BY <1>2, <1>3, <1>4
  <2>2. \A k \in 1 .. n : FirstByte[q[k].cksum] # b
    BY <1>4
  <2>3. \A k \in n + 1 .. n + h : FirstByte[q[k].cksum] = b
    <3>1. \A i \in 1 .. L : FirstByte[m[i].cksum] = b
      BY <1>5
    <3> QED BY <2>1, <3>1, Zenon
  <2>4. \A k \in 1 .. n + h : k \in 1 .. n \/ k \in n + 1 .. n + h
    BY <1>2
  <2> QED BY <1>4, <2>1, <2>2, <2>3, <2>4
<1> HIDE DEF part
<1>7. \A i \in 1 .. h : n + i \in part /\ q[n + i] = m[i]
  BY <1>2, <1>3, <1>4, <1>6
<1>8. \A i, j \in 1 .. L : m[i].cksum = m[j].cksum => i = j
  <2> DEFINE f == [i \in 1 .. L |-> m[i].cksum]
  <2>1. f \in Surjection(1 .. L, C)
    <3>1. f \in [1 .. L -> C] /\ \A c \in C : \E i \in 1 .. L : f[i] = c
      BY <1>5
    <3> HIDE DEF f
    <3> QED BY <3>1 DEF Surjection
  <2>2. IsFiniteSet(1 .. L) /\ Cardinality(1 .. L) = L
    BY FS_Interval
  <2> HIDE DEF f
  <2>3. f \in Injection(1 .. L, C)
    BY <1>5, <2>1, <2>2, FS_Surjection
  <2>4. \A i, j \in 1 .. L : f[i] = f[j] => i = j
    BY <2>3 DEF Injection, IsInjective
  <2> QED BY <2>4 DEF f
<1>9. IsFiniteSet(part) /\ Cardinality(part) = h
  <2>1. Cardinality(n + 1 .. n + h) = h /\ IsFiniteSet(n + 1 .. n + h)
    <3>1. n + 1 \in Int /\ n + h \in Int
      BY <1>2
    <3>2. IsFiniteSet(n + 1 .. n + h) /\ Cardinality(n + 1 .. n + h) = IF n + 1 > n + h THEN 0 ELSE (n + h) - (n + 1) + 1
      BY <3>1, FS_Interval
    <3> QED BY <1>2, <3>2
  <2> QED BY <1>6, <2>1
<1>10. Cardinality(kept) = Cardinality(part)
  <2> DEFINE f == [k \in part |-> q[k].cksum]
  <2>1. f \in Surjection(part, kept)
    <3>1. f \in [part -> kept] /\ \A c \in kept : \E k \in part : f[k] = c
      OBVIOUS
    <3> HIDE DEF f, kept
    <3> QED BY <3>1 DEF Surjection
  <2>2. f \in Injection(part, kept)
    <3>1. \A k, l \in part : q[k].cksum = q[l].cksum => k - n = l - n
      BY <1>6, <1>8
    <3>2. \A k, l \in part : k \in Int /\ l \in Int
      BY <1>6
    <3>3. \A k, l \in part : q[k].cksum = q[l].cksum => k = l
      BY <3>1, <3>2
    <3>4. f \in [part -> kept] /\ \A k, l \in part : f[k] = f[l] => k = l
      BY <3>3
    <3> HIDE DEF f, kept
    <3> QED BY <3>4 DEF Injection, IsInjective
  <2> HIDE DEF f, kept
  <2> QED BY <1>9, <2>1, <2>2, FS_Surjection
<1>11. kept \subseteq C
  <2>1. \A i \in 1 .. L : m[i].cksum \in C
    BY <1>5
  <2>2. \A k \in part : q[k].cksum \in C
    BY <1>6, <2>1
  <2> QED BY <2>2
<1>12. \A k \in part : q[k].count = Copies(inputs, q[k].cksum)
  BY <1>5, <1>6
<1>13. ASSUME NEW c \in kept, NEW d \in C \ kept PROVE Copies(inputs, c) >= Copies(inputs, d)
  <2>1. PICK k \in part : c = q[k].cksum
    OBVIOUS
  <2>2. PICK i \in 1 .. h : i = k - n /\ m[i].cksum = c /\ i \in 1 .. L
    BY <1>6, <2>1
  <2>3. PICK j \in 1 .. L : m[j].cksum = d
    BY <1>5
  <2>4. j \notin 1 .. h
    <3>1. j \in 1 .. h => d \in kept
      BY <1>7, <2>3
    <3> QED BY <3>1
  <2>5. i < j
    BY <1>2, <2>4
  <2> QED BY <1>5, <2>2, <2>3, <2>5
<1>14. TopIn(q, th, inputs, b)
  <2>1. Cardinality(part) = (Cardinality(C) * th) \div Unit
    BY <1>2, <1>5, <1>9
  <2> QED BY <1>10, <1>11, <1>12, <1>13, <2>1 DEF TopIn, part, C
<1> QED BY <1>1, <1>2, <1>3, <1>4, <1>14


-----------------------------------------------------------------------------
(* The steps *)

LEMMA CutFits ==
  ASSUME NEW S, NEW s \in Seq(S), NEW h \in 0 .. Len(s)
  PROVE  /\ SubSeq(s, 1, h) \in Seq(S) /\ DOMAIN SubSeq(s, 1, h) = 1 .. h
         /\ \A i \in 1 .. h : SubSeq(s, 1, h)[i] = s[i] /\ i \in DOMAIN s
<1>1. PICK L \in Nat : L = Len(s) /\ DOMAIN s = 1 .. L /\ h \in 0 .. L
  OBVIOUS
<1>2. \A i \in 1 .. h : i \in 1 .. L
  BY <1>1
<1>3. \A i \in 1 .. h : s[i] \in S
  BY <1>1, <1>2
<1>4. SubSeq(s, 1, h) \in Seq(S) /\ Len(SubSeq(s, 1, h)) = h /\ \A i \in 1 .. h : SubSeq(s, 1, h)[i] = s[i]
  BY <1>1, <1>3, SubSeqProperties
<1> QED BY <1>1, <1>2, <1>4

LEMMA CutInBucket ==
  ASSUME NEW s, NEW b, InBucket(s, b), NEW h \in 0 .. Len(s)
  PROVE  InBucket(SubSeq(s, 1, h), b)
<1>1. s \in Seq(Record) /\ \A k \in DOMAIN s : FirstByte[s[k].cksum] = b
  BY DEF InBucket
<1>2. PICK t : t = SubSeq(s, 1, h) /\ t \in Seq(Record) /\ \A i \in DOMAIN t : t[i] = s[i] /\ i \in DOMAIN s
  <2>1. /\ SubSeq(s, 1, h) \in Seq(Record) /\ DOMAIN SubSeq(s, 1, h) = 1 .. h
        /\ \A i \in 1 .. h : SubSeq(s, 1, h)[i] = s[i] /\ i \in DOMAIN s
    BY <1>1, CutFits
  <2> QED BY <2>1
<1> QED BY <1>1, <1>2 DEF InBucket

LEMMA RestIs ==
  ASSUME NEW S, NEW s \in Seq(S), NEW n \in 0 .. Len(s), NEW r, r = SubSeq(s, n + 1, Len(s))
  PROVE  /\ r = <<>> => n = Len(s)
         /\ r # <<>> => n + 1 \in 1 .. Len(s) /\ Head(r) = s[n + 1] /\ Tail(r) = SubSeq(s, n + 2, Len(s))
<1>1. PICK L \in Nat : L = Len(s) /\ DOMAIN s = 1 .. L /\ n \in 0 .. L
  OBVIOUS
<1>2. CASE n = L
  <2>1. r = <<>>
    <3>1. n + 1 \in Int /\ L \in Int /\ L < n + 1
      BY <1>1, <1>2
    <3>2. SubSeq(s, n + 1, L) = <<>>
      BY <3>1, SubSeqEmpty
    <3> QED BY <1>1, <3>2
  <2> QED BY <1>1, <1>2, <2>1
<1>3. CASE n # L
  <2>1. n + 1 \in 1 .. L /\ L \in n + 1 .. L /\ (n + 1) + 1 = n + 2
    BY <1>1, <1>3
  <2>2. Head(r) = s[n + 1] /\ Tail(r) = SubSeq(s, n + 2, L)
    BY <1>1, <2>1, HeadTailOfSubSeq
  <2>3. r # <<>>
    <3>1. \A i \in n + 1 .. L : s[i] \in S
      BY <1>1
    <3>2. Len(SubSeq(s, n + 1, L)) = IF n + 1 <= L THEN L - (n + 1) + 1 ELSE 0
      BY <1>1, <3>1, SubSeqProperties
    <3>3. Len(r) # 0
      BY <1>1, <2>1, <3>2
    <3>4. Len(<<>>) = 0
      BY EmptySeq
    <3> QED BY <3>3, <3>4, Zenon
  <2> QED BY <1>1, <2>1, <2>2, <2>3
<1> QED BY <1>2, <1>3

\* What a phase that saves a bucket adds to the CDS.
LEMMA Saved ==
  ASSUME Data, bucket \in DOMAIN merged
  PROVE  \E t, L : /\ L = Len(merged[bucket]) /\ L \in Nat
                   /\ t = SubSeq(merged[bucket], 1, Share(L)) /\ Share(L) = (L * threshold) \div Unit
                   /\ InBucket(t, bucket) /\ t \in Seq(Record) /\ cds \o t \in Seq(Record)
<1>1. InBucket(merged[bucket], bucket) /\ threshold \in 0 .. Unit /\ cds \in Seq(Record)
  BY DEF Data
<1>2. PICK m \in Seq(Record), L \in Nat : m = merged[bucket] /\ L = Len(m)
  BY <1>1 DEF InBucket
<1>3. Share(L) \in 0 .. L
  BY <1>1, ShareFits DEF Share
<1>4. InBucket(SubSeq(m, 1, Share(L)), bucket)
  BY <1>1, <1>2, <1>3, CutInBucket
<1>5. PICK t : t = SubSeq(m, 1, Share(L)) /\ InBucket(t, bucket) /\ t \in Seq(Record)
  BY <1>4 DEF InBucket
<1>6. cds \o t \in Seq(Record)
  BY <1>1, <1>5, ConcatProperties
<1> QED BY <1>2, <1>5, <1>6 DEF Share

\* What a kill leaves of a sequence.
LEMMA KilledFits ==
  ASSUME NEW s, NEW b, InBucket(s, b), NEW k \in Nat
  PROVE  InBucket(SubSeq(s, 1, Min({k, Len(s)})), b)
<1>1. PICK L \in Nat : L = Len(s)
  BY DEF InBucket
<1>2. Min({k, L}) \in {k, L} /\ \A n \in {k, L} : Min({k, L}) <= n
  BY MinOfNat
<1>3. Min({k, L}) \in 0 .. L
  BY <1>1, <1>2
<1> QED BY <1>1, <1>3, CutInBucket

LEMMA ListsAreInputs == Lists \subseteq Seq(Input) /\ <<>> \in Seq(Input)
  BY ListsAssumption DEF Input

LEMMA InitGen == Init => GenInv
<1> SUFFICES ASSUME Init PROVE GenInv
  OBVIOUS
<1> USE DEF Init
<1>1. Data
  <2>1. raw \in [Buckets -> Seq(Block)] /\ cds \in Seq(Record)
    OBVIOUS
  <2>2. threshold \in 0 .. Unit
    BY ThresholdsAssumption
  <2>3. DOMAIN merged = {} /\ merged = [b \in DOMAIN merged |-> merged[b]]
    OBVIOUS
  <2> QED BY <2>1, <2>2, <2>3, ListsAreInputs DEF Data
<1>2. Origin /\ Splitting /\ Rankings
  BY DEF Origin, Splitting, Rankings
<1>3. Written
  BY DEF Written, Running
<1> QED BY <1>1, <1>2, <1>3 DEF GenInv

LEMMA StepData ==
  ASSUME GenInv, RankedSoFar, [Next]_vars
  PROVE  Data'
<1> USE DEF runVars
<1>0. Data /\ Origin /\ Splitting
  BY DEF GenInv
<1>1. CASE Start
  <2>1. list' \in Seq(Input)
    BY <1>1, ListsAreInputs DEF Start
  <2>2. threshold' \in 0 .. Unit
    BY <1>1, ThresholdsAssumption DEF Start
  <2>3. raw' \in [Buckets -> Seq(Block)] /\ cds' \in Seq(Record)
    BY <1>1 DEF Start
  <2>4. UNCHANGED <<dir, merged>> /\ reuse' = dir
    BY <1>1 DEF Start
  <2> QED BY <1>0, <2>1, <2>2, <2>3, <2>4 DEF Data
<1>2. CASE CannotStart \/ Prepare \/ CannotPrepare \/ CannotRead \/ EndOfList \/ CannotReuse
  <2>1. UNCHANGED <<list, threshold, reuse, raw, cds, merged>> /\ dir' \in BOOLEAN
    BY <1>0, <1>2 DEF CannotStart, Prepare, CannotPrepare, CannotRead, EndOfList, CannotReuse, Data
  <2> QED BY <1>0, <2>1 DEF Data
<1>3. CASE SplitInput
  <2>1. PICK n \in 0 .. Len(list) : SplitAt(list, n, rest, raw)
    BY <1>0, <1>3 DEF SplitInput, Splitting
  <2>2. Head(rest) \in Seq(Block)
    <3>1. list \in Seq(Input) /\ rest = SubSeq(list, n + 1, Len(list)) /\ rest # <<>>
      BY <1>0, <1>3, <2>1 DEF SplitInput, SplitAt, Data
    <3>2. n + 1 \in 1 .. Len(list) /\ Head(rest) = list[n + 1]
      BY <3>1, RestIs
    <3>3. Head(rest) \in Input
      BY <3>1, <3>2
    <3> QED BY <1>3, <3>3 DEF SplitInput, Input
  <2>3. \A b \in Buckets : raw[b] \o NewBlocks(Head(rest), b) \in Seq(Block)
    <3> SUFFICES ASSUME NEW b \in Buckets PROVE raw[b] \o NewBlocks(Head(rest), b) \in Seq(Block)
      OBVIOUS
    <3>1. raw[b] \in Seq(Block) /\ NewBlocks(Head(rest), b) \in Seq(Block)
      BY <1>0, <2>2, NewBlocksOfAppend DEF Data
    <3> QED BY <3>1, ConcatProperties
  <2>4. raw' \in [Buckets -> Seq(Block)]
    BY <1>3, <2>3 DEF SplitInput
  <2> QED BY <1>0, <1>3, <2>4 DEF SplitInput, Data
<1>4. CASE MergeBucket
  <2>1. PICK m \in SetToSeqs(Counted(raw[bucket])) :
          ByCount(m) /\ merged' = [b \in DOMAIN merged \union {bucket} |-> IF b = bucket THEN m ELSE merged[b]]
    BY <1>4 DEF MergeBucket
  <2>2. bucket \in Buckets /\ raw[bucket] \in Seq(Block) /\ Holds(raw[bucket], bucket, CopiesOf(list))
    BY <1>0, <1>4 DEF MergeBucket, RankedSoFar, Splitting, Data
  <2>3. InBucket(m, bucket)
    BY <2>1, <2>2, RankingOfHeld
  <2>4. \A b \in DOMAIN merged' : InBucket(merged'[b], b)
    BY <1>0, <2>1, <2>3 DEF Data
  <2>5. merged' = [b \in DOMAIN merged' |-> merged'[b]]
    BY <2>1
  <2>6. UNCHANGED <<dir, reuse, list, threshold, raw, cds>>
    BY <1>4 DEF MergeBucket
  <2> QED BY <1>0, <2>4, <2>5, <2>6 DEF Data
<1>5. CASE SaveCds \/ ReuseBucket
  <2>1. /\ bucket \in DOMAIN merged
        /\ cds' = cds \o SubSeq(merged[bucket], 1, Share(Len(merged[bucket])))
        /\ UNCHANGED <<dir, reuse, list, threshold, raw, merged>>
    BY <1>5 DEF SaveCds, ReuseBucket, RankedSoFar
  <2>2. cds' \in Seq(Record)
    BY <1>0, <2>1, Saved
  <2> QED BY <1>0, <2>1, <2>2 DEF Data
<1>6. CASE Crash
  <2>1. cds' \in Seq(Record)
    <3>1. PICK h \in 0 .. Len(cds) : cds' = SubSeq(cds, 1, h)
      BY <1>6 DEF Crash, Prefixes
    <3> QED BY <1>0, <3>1, CutFits DEF Data
  <2>2. PICK kept \in [OpenFiles -> 0 .. Cardinality(Cksum)] :
          merged' = [b \in DOMAIN merged |-> IF b \in OpenFiles
                                               THEN SubSeq(merged[b], 1, Min({kept[b], Len(merged[b])}))
                                               ELSE merged[b]]
    BY <1>6 DEF Crash
  <2>3. \A b \in DOMAIN merged : InBucket(merged'[b], b)
    <3> SUFFICES ASSUME NEW b \in DOMAIN merged PROVE InBucket(merged'[b], b)
      OBVIOUS
    <3>1. InBucket(merged[b], b)
      BY <1>0 DEF Data
    <3>2. CASE b \in OpenFiles
      <4>1. kept[b] \in Nat
        BY <3>2, ListsAssumption, FS_CardinalityType
      <4>2. merged'[b] = SubSeq(merged[b], 1, Min({kept[b], Len(merged[b])}))
        BY <2>2, <3>2, Zenon
      <4> QED BY <3>1, <4>1, <4>2, KilledFits
    <3>3. CASE b \notin OpenFiles
      BY <2>2, <3>1, <3>3
    <3> QED BY <3>2, <3>3
  <2>4. DOMAIN merged' = DOMAIN merged /\ merged' = [b \in DOMAIN merged' |-> merged'[b]]
    BY <2>2
  <2>5. UNCHANGED <<dir, reuse, list, threshold, raw>>
    BY <1>6 DEF Crash
  <2> QED BY <1>0, <2>1, <2>3, <2>4, <2>5 DEF Data
<1>7. CASE UNCHANGED vars
  BY <1>0, <1>7 DEF vars, Data
<1> QED
  BY <1>1, <1>2, <1>3, <1>4, <1>5, <1>6, <1>7 DEF Next

LEMMA StepOrigin ==
  ASSUME GenInv, RankedSoFar, [Next]_vars
  PROVE  Origin'
<1> USE DEF runVars
<1>0. Data /\ Origin
  BY DEF GenInv
<1>1. CASE Start
  <2>1. CASE dir
    BY <1>0, <1>1, <2>1 DEF Start, Origin
  <2>2. CASE ~dir
    BY <1>0, <1>1, <2>2 DEF Start, Origin, Data
  <2> QED BY <2>1, <2>2
<1>2. CASE Prepare \/ CannotPrepare
  BY <1>0, <1>2 DEF Prepare, CannotPrepare, Origin
<1>3. CASE CannotStart \/ SplitInput \/ CannotRead \/ CannotReuse
  <2>1. UNCHANGED <<dir, reuse, list, source, bucket, merged>> /\ (pc' = pc \/ pc' = "failed")
    BY <1>3 DEF CannotStart, SplitInput, CannotRead, CannotReuse
  <2> QED BY <1>0, <2>1 DEF Origin
<1>4. CASE EndOfList
  <2>1. bucket = 0 /\ 0 .. bucket - 1 = {}
    BY <1>4 DEF EndOfList, RankedSoFar
  <2> QED BY <1>0, <1>4, <2>1 DEF EndOfList, Origin
<1>5. CASE MergeBucket
  <2>1. DOMAIN merged' = 0 .. bucket
    <3>1. DOMAIN merged' = DOMAIN merged \union {bucket} /\ DOMAIN merged = 0 .. bucket - 1 /\ bucket \in Nat
      BY <1>0, <1>5 DEF MergeBucket, Origin, RankedSoFar
    <3> QED BY <3>1
  <2> QED BY <1>0, <1>5, <2>1 DEF MergeBucket, Origin
<1>6. CASE SaveCds
  <2>1. DOMAIN merged = 0 .. bucket' - 1
    <3>1. DOMAIN merged = 0 .. bucket /\ bucket \in Nat /\ bucket' = bucket + 1
      BY <1>0, <1>6 DEF SaveCds, NextBucket, Origin, RankedSoFar
    <3> QED BY <3>1
  <2>2. pc' \in {"merge", "done"}
    BY <1>6 DEF SaveCds, NextBucket
  <2> QED BY <1>0, <1>6, <2>1, <2>2 DEF SaveCds, Origin
<1>7. CASE ReuseBucket
  <2>1. pc' \in {"reuse", "done"}
    BY <1>7 DEF ReuseBucket, NextBucket
  <2> QED BY <1>0, <1>7, <2>1 DEF ReuseBucket, Origin
<1>8. CASE Crash
  <2>1. DOMAIN merged' = DOMAIN merged
    BY <1>8 DEF Crash
  <2> QED BY <1>0, <1>8, <2>1 DEF Crash, Origin
<1>9. CASE UNCHANGED vars
  BY <1>0, <1>9 DEF vars, Origin
<1> QED
  BY <1>1, <1>2, <1>3, <1>4, <1>5, <1>6, <1>7, <1>8, <1>9 DEF Next

\* Nothing is split yet.
LEMMA SplitNone ==
  ASSUME NEW inputs \in Seq(Input)
  PROVE  SplitAt(inputs, 0, inputs, [b \in Buckets |-> <<>>]) /\ 0 \in 0 .. Len(inputs)
<1>1. SubSeq(inputs, 1, Len(inputs)) = inputs
  BY SubSeqFull
<1>2. \A c \in Cksum : CopySet(inputs, 0, c) = {}
  BY NoCopies
<1>3. \A c \in Cksum : IsFiniteSet(CopySet(inputs, 0, c)) /\ CopiesUpTo(inputs, 0)[c] = 0
  BY <1>2, FS_EmptySet DEF CopiesUpTo
<1>4. \A T : NumIn(<<>>, T) = 0
  <2>1. \A T : {k \in DOMAIN <<>> : <<>>[k] \in T} = {}
    BY EmptySeq
  <2> QED BY <2>1, FS_EmptySet DEF NumIn
<1>5. \A b \in Buckets : Holds(<<>>, b, CopiesUpTo(inputs, 0))
  BY <1>3, <1>4 DEF Holds
<1>6. 0 \in 0 .. Len(inputs) /\ 0 + 1 = 1 /\ 1 .. 0 = {}
  BY LenProperties
<1> QED BY <1>1, <1>3, <1>5, <1>6 DEF SplitAt

\* One more input is split.
LEMMA SplitMore ==
  ASSUME NEW inputs \in Seq(Input), NEW n \in 0 .. Len(inputs), NEW buf \in [Buckets -> Seq(Block)],
         NEW others, SplitAt(inputs, n, others, buf), others # <<>>, Head(others) \notin {Unreadable, End}
  PROVE  /\ n + 1 \in 0 .. Len(inputs)
         /\ SplitAt(inputs, n + 1, Tail(others), [b \in Buckets |-> buf[b] \o NewBlocks(Head(others), b)])
<1> DEFINE more == [b \in Buckets |-> buf[b] \o NewBlocks(Head(others), b)]
<1>1. n \in Nat /\ n + 1 \in 1 .. Len(inputs) /\ Head(others) = inputs[n + 1] /\ Tail(others) = SubSeq(inputs, n + 2, Len(inputs))
  <2>1. others = SubSeq(inputs, n + 1, Len(inputs)) /\ n \in Nat
    BY LenProperties DEF SplitAt
  <2> QED BY <2>1, RestIs
<1>2. PICK t \in Seq(Block) : t = Head(others)
  <2>1. inputs[n + 1] \in Input
    BY <1>1
  <2> QED BY <1>1, <2>1 DEF Input
<1>3. \A j \in 1 .. n + 1 : inputs[j] \notin {End, Unreadable}
  <2>1. \A j \in 1 .. n : inputs[j] \notin {End, Unreadable}
    BY DEF SplitAt
  <2>2. \A j \in 1 .. n + 1 : j \in 1 .. n \/ j = n + 1
    BY <1>1
  <2>3. inputs[n + 1] \notin {End, Unreadable}
    BY <1>1
  <2> QED BY <2>1, <2>2, <2>3
<1>4. \A c \in Cksum : /\ IsFiniteSet(CopySet(inputs, n + 1, c))
                       /\ CopiesUpTo(inputs, n + 1)[c] = CopiesUpTo(inputs, n)[c] + NumIn(t, NewOf(c))
                       /\ CopiesUpTo(inputs, n)[c] \in Nat /\ NumIn(t, NewOf(c)) \in Nat
  <2> SUFFICES ASSUME NEW c \in Cksum
               PROVE  /\ IsFiniteSet(CopySet(inputs, n + 1, c))
                      /\ CopiesUpTo(inputs, n + 1)[c] = CopiesUpTo(inputs, n)[c] + NumIn(t, NewOf(c))
                      /\ CopiesUpTo(inputs, n)[c] \in Nat /\ NumIn(t, NewOf(c)) \in Nat
    OBVIOUS
  <2>1. IsFiniteSet(CopySet(inputs, n, c)) /\ inputs[n + 1] \in Seq(Block) /\ n + 1 <= Len(inputs)
    BY <1>1, <1>2 DEF SplitAt
  <2>2. /\ IsFiniteSet(CopySet(inputs, n + 1, c))
        /\ Cardinality(CopySet(inputs, n + 1, c)) = Cardinality(CopySet(inputs, n, c)) + NumIn(inputs[n + 1], NewOf(c))
    BY <1>1, <2>1, CopySetGrows
  <2>3. NumIn(t, NewOf(c)) \in Nat /\ Cardinality(CopySet(inputs, n, c)) \in Nat
    BY <2>1, NumInType, FS_CardinalityType
  <2> QED BY <1>1, <1>2, <2>2, <2>3 DEF CopiesUpTo
<1>5. ASSUME NEW b \in Buckets PROVE Holds(more[b], b, CopiesUpTo(inputs, n + 1))
  <2>1. PICK p \in Seq(Block), q \in Seq(Block) : p = buf[b] /\ q = NewBlocks(t, b)
    BY NewBlocksOfAppend
  <2>2. more[b] = p \o q
    BY <1>2, <2>1
  <2>3. Holds(p, b, CopiesUpTo(inputs, n))
    BY <2>1 DEF SplitAt
  <2>4. ASSUME NEW c \in Cksum
        PROVE  NumIn(p \o q, AllOf(c)) = IF FirstByte[c] = b THEN CopiesUpTo(inputs, n + 1)[c] ELSE 0
    <3>1. NumIn(p \o q, AllOf(c)) = NumIn(p, AllOf(c)) + NumIn(q, AllOf(c))
      BY NumInOfConcat
    <3>2. NumIn(q, AllOf(c)) = IF FirstByte[c] = b THEN NumIn(t, NewOf(c)) ELSE 0
      BY <2>1, NewBlocksCount
    <3>3. NumIn(p, AllOf(c)) = IF FirstByte[c] = b THEN CopiesUpTo(inputs, n)[c] ELSE 0
      BY <2>3 DEF Holds
    <3> QED BY <1>4, <3>1, <3>2, <3>3
  <2> QED BY <2>2, <2>4 DEF Holds
<1>6. SplitAt(inputs, n + 1, Tail(others), more)
  <2>1. (n + 1) + 1 = n + 2
    BY <1>1
  <2> HIDE DEF more
  <2> QED BY <1>1, <1>3, <1>4, <1>5, <2>1 DEF SplitAt
<1>7. n + 1 \in 0 .. Len(inputs)
  BY <1>1
<1> QED BY <1>6, <1>7

\* All inputs up to the end of the list are split.
LEMMA SplitAll ==
  ASSUME NEW inputs \in Seq(Input), NEW n \in 0 .. Len(inputs), NEW buf,
         NEW others, SplitAt(inputs, n, others, buf), others # <<>> => Head(others) = End
  PROVE  \A b \in Buckets : Holds(buf[b], b, CopiesOf(inputs))
<1>1. /\ n \in Nat /\ n <= Len(inputs)
      /\ \A j \in 1 .. n : inputs[j] \notin {End, Unreadable}
      /\ n = Len(inputs) \/ inputs[n + 1] \in {End, Unreadable}
  <2>1. others = SubSeq(inputs, n + 1, Len(inputs)) /\ n \in Nat /\ n <= Len(inputs)
    BY LenProperties DEF SplitAt
  <2>2. n = Len(inputs) \/ inputs[n + 1] = End
    BY <2>1, RestIs
  <2> QED BY <2>1, <2>2 DEF SplitAt
<1>2. \A c \in Cksum : CopiesOf(inputs)[c] = CopiesUpTo(inputs, n)[c]
  BY <1>1, CopiesAre DEF CopiesOf, CopiesUpTo
<1> QED BY <1>2 DEF SplitAt, Holds

LEMMA StepSplitting ==
  ASSUME GenInv, RankedSoFar, [Next]_vars
  PROVE  Splitting'
<1> USE DEF runVars
<1>0. Splitting /\ list \in Seq(Input) /\ raw \in [Buckets -> Seq(Block)]
  BY DEF GenInv, Data
<1>1. CASE Start
  <2>1. list' \in Seq(Input) /\ rest' = list' /\ raw' = [b \in Buckets |-> <<>>] /\ pc' \in {"reuse", "prepare"}
    BY <1>1, ListsAreInputs DEF Start
  <2>2. PICK i \in Seq(Input) : i = list'
    BY <2>1
  <2>3. SplitAt(i, 0, i, [b \in Buckets |-> <<>>]) /\ 0 \in 0 .. Len(i)
    BY SplitNone
  <2> QED BY <2>1, <2>2, <2>3 DEF Splitting
<1>2. CASE CannotStart \/ Prepare \/ CannotPrepare \/ CannotRead \/ CannotReuse
  BY <1>0, <1>2 DEF CannotStart, Prepare, CannotPrepare, CannotRead, CannotReuse, Splitting
<1>3. CASE SplitInput
  <2>1. PICK n \in 0 .. Len(list) : SplitAt(list, n, rest, raw)
    BY <1>0, <1>3 DEF SplitInput, Splitting
  <2>2. /\ pc' = "split" /\ list' = list /\ rest' = Tail(rest)
        /\ rest # <<>> /\ Head(rest) \notin {Unreadable, End}
        /\ raw' = [b \in Buckets |-> raw[b] \o NewBlocks(Head(rest), b)]
    BY <1>3 DEF SplitInput
  <2>3. /\ n + 1 \in 0 .. Len(list)
        /\ SplitAt(list, n + 1, Tail(rest), [b \in Buckets |-> raw[b] \o NewBlocks(Head(rest), b)])
    BY <1>0, <2>1, <2>2, SplitMore
  <2>4. \E k \in 0 .. Len(list') : SplitAt(list', k, rest', raw')
    BY <2>2, <2>3
  <2> QED BY <2>2, <2>4 DEF Splitting
<1>4. CASE EndOfList
  <2>1. PICK n \in 0 .. Len(list) : SplitAt(list, n, rest, raw)
    BY <1>0, <1>4 DEF EndOfList, Splitting
  <2>2. \A b \in Buckets : Holds(raw[b], b, CopiesOf(list))
    BY <1>0, <1>4, <2>1, SplitAll DEF EndOfList
  <2> QED BY <1>4, <2>2 DEF EndOfList, Splitting
<1>5. CASE MergeBucket
  BY <1>0, <1>5 DEF MergeBucket, Splitting
<1>6. CASE SaveCds \/ ReuseBucket
  <2>1. UNCHANGED <<list, rest, raw>> /\ (pc' = "merge" => pc = "save") /\ pc' \in {"merge", "reuse", "done"}
    BY <1>6 DEF SaveCds, ReuseBucket, NextBucket
  <2> QED BY <1>0, <2>1 DEF Splitting
<1>7. CASE Crash
  BY <1>7 DEF Crash, Splitting
<1>8. CASE UNCHANGED vars
  BY <1>0, <1>8 DEF vars, Splitting
<1> QED
  BY <1>1, <1>2, <1>3, <1>4, <1>5, <1>6, <1>7, <1>8 DEF Next

LEMMA StepRankings ==
  ASSUME GenInv, RankedSoFar, [Next]_vars
  PROVE  Rankings'
<1> USE DEF runVars
<1>0. Data /\ Origin /\ Splitting /\ Rankings
  BY DEF GenInv
<1>1. CASE Start
  <2>1. pc' \in {"reuse", "prepare"} /\ UNCHANGED <<merged, source>>
    BY <1>1 DEF Start
  <2>2. pc \notin {"merge", "save"}
    BY <1>1 DEF Start, Stopped
  <2> QED BY <1>0, <2>1, <2>2 DEF Rankings
<1>2. CASE Prepare \/ CannotPrepare \/ SplitInput \/ CannotRead \/ EndOfList
  <2>1. DOMAIN merged = {} /\ UNCHANGED merged
    BY <1>0, <1>2 DEF Prepare, CannotPrepare, SplitInput, CannotRead, EndOfList, Origin
  <2> QED BY <2>1 DEF Rankings
<1>3. CASE CannotStart \/ CannotReuse
  BY <1>0, <1>3 DEF CannotStart, CannotReuse, Stopped, Rankings
<1>4. CASE MergeBucket
  <2>1. PICK m \in SetToSeqs(Counted(raw[bucket])) :
          ByCount(m) /\ merged' = [b \in DOMAIN merged \union {bucket} |-> IF b = bucket THEN m ELSE merged[b]]
    BY <1>4 DEF MergeBucket
  <2>2. bucket \in Buckets /\ raw[bucket] \in Seq(Block) /\ Holds(raw[bucket], bucket, CopiesOf(list)) /\ source = list
    BY <1>0, <1>4 DEF MergeBucket, RankedSoFar, Splitting, Data, Origin
  <2>3. IsRanking(m, list, bucket)
    BY <2>1, <2>2, RankingOfHeld
  <2>4. \A b \in DOMAIN merged : IsRanking(merged[b], source, b)
    BY <1>0, <1>4 DEF MergeBucket, Rankings
  <2>5. source' = source
    BY <1>4 DEF MergeBucket
  <2>6. ASSUME NEW b \in DOMAIN merged' PROVE IsRanking(merged'[b], source', b)
    <3>1. CASE b = bucket
      <4>1. merged'[b] = m
        BY <2>1, <3>1
      <4> QED BY <2>2, <2>3, <2>5, <3>1, <4>1
    <3>2. CASE b # bucket
      <4>1. b \in DOMAIN merged /\ merged'[b] = merged[b]
        BY <2>1, <3>2
      <4> QED BY <2>4, <2>5, <4>1
    <3> QED BY <3>1, <3>2
  <2> QED BY <2>6 DEF Rankings
<1>5. CASE SaveCds
  <2>1. \A b \in DOMAIN merged : IsRanking(merged[b], source, b)
    BY <1>0, <1>5 DEF SaveCds, Rankings
  <2>2. UNCHANGED <<merged, source>>
    BY <1>5 DEF SaveCds
  <2> QED BY <2>1, <2>2 DEF Rankings
<1>6. CASE ReuseBucket
  <2>1. reuse /\ reuse' = reuse /\ UNCHANGED <<merged, source>> /\ pc' \in {"reuse", "done"}
    BY <1>0, <1>6 DEF ReuseBucket, NextBucket, Origin
  <2> QED BY <1>0, <2>1 DEF Rankings
<1>7. CASE Crash
  <2>1. PICK kept \in [OpenFiles -> 0 .. Cardinality(Cksum)] :
          merged' = [b \in DOMAIN merged |-> IF b \in OpenFiles
                                               THEN SubSeq(merged[b], 1, Min({kept[b], Len(merged[b])}))
                                               ELSE merged[b]]
    BY <1>7 DEF Crash
  <2>2. DOMAIN merged' = DOMAIN merged /\ source' = source /\ pc' = "killed" /\ pc # "done"
    BY <1>7, <2>1 DEF Crash, Stopped
  <2>3. CASE pc = "save"
    <3>1. DOMAIN merged = 0 .. bucket /\ bucket \in Nat
      BY <1>0, <2>3 DEF Origin, RankedSoFar
    <3>2. \A x \in DOMAIN merged : x <= bucket
      BY <3>1
    <3>3. \A b \in DOMAIN merged : b # bucket => merged'[b] = merged[b]
      BY <2>1, <2>3 DEF OpenFiles
    <3>4. \A b \in DOMAIN merged : IsRanking(merged[b], source, b)
      BY <1>0, <2>3 DEF Rankings
    <3> QED BY <2>2, <3>2, <3>3, <3>4 DEF Rankings
  <2>4. CASE pc # "save"
    <3>1. \A b \in DOMAIN merged : merged'[b] = merged[b]
      BY <2>1, <2>4 DEF OpenFiles
    <3> QED BY <1>0, <2>2, <3>1 DEF Rankings
  <2> QED BY <2>3, <2>4
<1>8. CASE UNCHANGED vars
  BY <1>0, <1>8 DEF vars, Rankings
<1> QED
  BY <1>1, <1>2, <1>3, <1>4, <1>5, <1>6, <1>7, <1>8 DEF Next

\* A bucket is saved.
LEMMA SaveWritten ==
  ASSUME GenInv, RankedSoFar, pc \in Running, bucket \in Buckets, bucket \in DOMAIN merged,
         cds' = cds \o SubSeq(merged[bucket], 1, Share(Len(merged[bucket]))), bucket' = bucket + 1,
         UNCHANGED <<threshold, merged, source>>
  PROVE  Written'
<1>0. Data /\ Written
  BY DEF GenInv
<1>1. PICK B \in Nat, m \in Seq(Record), s \in Seq(Record), th \in 0 .. Unit :
        B = bucket /\ m = merged[bucket] /\ s = cds /\ th = threshold
  BY <1>0 DEF Data, RankedSoFar, InBucket
<1> PICK I : I = source
  OBVIOUS
<1>2. PICK t \in Seq(Record), L \in Nat :
        /\ L = Len(m) /\ t = SubSeq(m, 1, (L * th) \div Unit)
        /\ InBucket(t, B) /\ s \o t \in Seq(Record) /\ cds' = s \o t
  BY <1>0, <1>1, Saved
<1>3. InBucket(m, B)
  BY <1>0, <1>1 DEF Data
<1>4. /\ \A k \in DOMAIN s : FirstByte[s[k].cksum] < B
      /\ \A b \in 0 .. B - 1 : b \in DOMAIN merged /\ (IsRanking(merged[b], I, b) => TopIn(s, th, I, b))
  BY <1>0, <1>1 DEF Written
<1>5. PICK q \in Seq(Record), n \in Nat, l \in Nat : Joined(q, s, t, n, l)
  BY JoinedExists
<1>6. ASSUME NEW k \in DOMAIN q PROVE FirstByte[q[k].cksum] < B + 1
  <2>1. CASE k \in 1 .. n
    <3>1. k \in DOMAIN s /\ q[k] = s[k]
      BY <1>5, <2>1 DEF Joined
    <3>2. s[k] \in Record
      BY <3>1
    <3>3. FirstByte[s[k].cksum] \in Nat
      BY <3>2, BucketsAssumption DEF Record, Buckets
    <3> QED BY <1>4, <3>1, <3>3
  <2>2. CASE k \in n + 1 .. n + l
    <3>1. k - n \in DOMAIN t /\ q[k] = t[k - n]
      BY <1>5, <2>2, Zenon DEF Joined
    <3>2. FirstByte[t[k - n].cksum] = B
      BY <1>2, <3>1 DEF InBucket
    <3> QED BY <3>1, <3>2
  <2>3. k \in 1 .. n \/ k \in n + 1 .. n + l
    BY <1>5 DEF Joined
  <2> QED BY <2>1, <2>2, <2>3
<1>7. ASSUME NEW b \in 0 .. B
      PROVE  b \in DOMAIN merged /\ (IsRanking(merged[b], I, b) => TopIn(s \o t, th, I, b))
  <2>1. CASE b = B
    <3>1. \A k \in DOMAIN s : FirstByte[s[k].cksum] # B
      <4>1. \A k \in DOMAIN s : s[k] \in Record
        OBVIOUS
      <4>2. \A k \in DOMAIN s : FirstByte[s[k].cksum] \in Nat
        BY <4>1, BucketsAssumption DEF Record, Buckets
      <4> QED BY <1>4, <4>2
    <3>2. IsRanking(m, I, B) => TopIn(s \o t, th, I, B)
      BY <1>2, <1>3, <3>1, TopOfRanking
    <3> QED BY <1>1, <2>1, <3>2
  <2>2. CASE b # B
    <3>1. b \in 0 .. B - 1
      BY <2>2
    <3>2. \A k \in DOMAIN t : FirstByte[t[k].cksum] # b
      BY <1>2, <2>2 DEF InBucket
    <3>3. TopIn(s, th, I, b) => TopIn(s \o t, th, I, b)
      BY <3>2, TopOfLonger
    <3> QED BY <1>4, <3>1, <3>3
  <2> QED BY <2>1, <2>2
<1>8. cds' = q /\ bucket' = B + 1 /\ 0 .. bucket' - 1 = 0 .. B /\ threshold' = th /\ source' = I /\ merged' = merged
  <2>1. bucket' = B + 1 /\ 0 .. (B + 1) - 1 = 0 .. B
    BY <1>1
  <2> QED BY <1>1, <1>2, <1>5, <2>1 DEF Joined
<1>9. q = s \o t
  BY <1>5 DEF Joined
<1> QED BY <1>6, <1>7, <1>8, <1>9 DEF Written

LEMMA StepWritten ==
  ASSUME GenInv, RankedSoFar, [Next]_vars
  PROVE  Written'
<1> USE DEF runVars
<1>0. Written
  BY DEF GenInv
<1>1. CASE Start
  <2>1. cds' = <<>> /\ bucket' = 0
    BY <1>1 DEF Start
  <2>2. DOMAIN cds' = {} /\ 0 .. bucket' - 1 = {}
    BY <2>1
  <2> QED BY <2>2 DEF Written
<1>2. CASE Prepare
  <2>1. UNCHANGED <<cds, bucket>> /\ bucket = 0 /\ 0 .. bucket - 1 = {} /\ pc \in Running
    BY <1>2 DEF Prepare, RankedSoFar, Running
  <2> QED BY <1>0, <2>1 DEF Written
<1>3. CASE CannotStart \/ CannotPrepare \/ CannotRead \/ CannotReuse \/ Crash
  BY <1>3 DEF CannotStart, CannotPrepare, CannotRead, CannotReuse, Crash, Written, Running
<1>4. CASE SplitInput \/ EndOfList
  <2>1. UNCHANGED <<cds, bucket, merged, source, threshold>> /\ pc \in Running
    BY <1>4 DEF SplitInput, EndOfList, Running
  <2> QED BY <1>0, <2>1 DEF Written
<1>5. CASE MergeBucket
  <2>1. UNCHANGED <<cds, bucket, source, threshold>> /\ pc \in Running /\ bucket \in Nat
    BY <1>5 DEF MergeBucket, Running, RankedSoFar
  <2>2. \A b \in DOMAIN merged : b \in DOMAIN merged' /\ (b # bucket => merged'[b] = merged[b])
    BY <1>5 DEF MergeBucket
  <2>3. \A b \in 0 .. bucket - 1 : b # bucket
    BY <2>1
  <2> QED BY <1>0, <2>1, <2>2, <2>3 DEF Written
<1>6. CASE SaveCds
  BY <1>6, SaveWritten DEF SaveCds, NextBucket, RankedSoFar, Running
<1>7. CASE ReuseBucket
  BY <1>7, SaveWritten DEF ReuseBucket, NextBucket, RankedSoFar, Running
<1>8. CASE UNCHANGED vars
  BY <1>0, <1>8 DEF vars, Written
<1> QED
  BY <1>1, <1>2, <1>3, <1>4, <1>5, <1>6, <1>7, <1>8 DEF Next

LEMMA StepGen ==
  ASSUME GenInv, RankedSoFar, [Next]_vars
  PROVE  GenInv'
BY StepData, StepOrigin, StepSplitting, StepRankings, StepWritten DEF GenInv

LEMMA SpecGen == Spec => [](GenInv /\ RankedSoFar)
<1>1. Init => GenInv /\ RankedSoFar
  BY InitGen, InitRanked
<1>2. GenInv /\ RankedSoFar /\ [Next]_vars => (GenInv /\ RankedSoFar)'
  BY StepGen, StepRanked
<1> QED BY <1>1, <1>2, PTL DEF Spec

LEMMA TopIsTopOf == \A inputs, b : TopIn(cds, threshold, inputs, b) => IsTopOf(inputs, b)
  BY DEF TopIn, IsTopOf

\* A run that made the rankings itself writes the most frequent blocks of its
\* own inputs: each bucket of the CDS is the part of the bucket's contents that
\* the threshold says, with the right counts, and none left out is more frequent.
THEOREM GeneratedTop == Spec => []GeneratedIsTop
<1>1. GenInv /\ RankedSoFar => GeneratedIsTop
  <2> SUFFICES ASSUME GenInv, RankedSoFar, ~reuse, pc \in {"merge", "save", "done"}, NEW b \in 0 .. bucket - 1
               PROVE  IsTopOf(list, b)
    BY DEF GeneratedIsTop
  <2>1. source = list
    BY DEF GenInv, Origin
  <2>2. b \in DOMAIN merged /\ (IsRanking(merged[b], source, b) => TopIn(cds, threshold, source, b))
    BY DEF GenInv, Written, Running
  <2>3. IsRanking(merged[b], source, b)
    BY <2>2 DEF GenInv, Rankings
  <2> QED BY <2>1, <2>2, <2>3, TopIsTopOf
<1> QED BY <1>1, SpecGen, PTL

\* However many runs are killed and run again, a ranking on disk is the right
\* one for the inputs the directory was made from, but for the last one there;
\* so a CDS copied from the rankings is right but for its last bucket.
THEOREM DamageConfined == Spec => []DamageIsConfined
<1>1. GenInv /\ RankedSoFar => DamageIsConfined
  <2> SUFFICES ASSUME GenInv, RankedSoFar PROVE DamageIsConfined
    OBVIOUS
  <2>1. \A b \in DOMAIN merged : \/ IsRanking(merged[b], source, b)
                                 \/ pc \notin {"merge", "save"} /\ \A x \in DOMAIN merged : x <= b
    BY DEF GenInv, Rankings
  <2>2. ASSUME pc = "done", NEW b \in 0 .. NumBuckets - 2 PROVE IsTopOf(source, b)
    <3>1. DOMAIN merged = Buckets /\ b \in Buckets /\ NumBuckets - 1 \in Buckets /\ ~(NumBuckets - 1 <= b)
      BY <2>2, ZeroIsABucket, BucketsAssumption DEF RankedSoFar, Buckets
    <3>2. IsRanking(merged[b], source, b)
      BY <2>1, <3>1
    <3>3. bucket = NumBuckets
      BY <2>2 DEF RankedSoFar
    <3>4. IsRanking(merged[b], source, b) => TopIn(cds, threshold, source, b)
      BY <2>2, <3>1, <3>3 DEF GenInv, Written, Running, Buckets
    <3> QED BY <3>2, <3>4, TopIsTopOf
  <2> QED BY <2>1, <2>2 DEF DamageIsConfined
<1> QED BY <1>1, SpecGen, PTL

=============================================================================
