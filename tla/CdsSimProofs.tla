---------------------------- MODULE CdsSimProofs ----------------------------
(***************************************************************************)
(* The snapshot simulator, for snapshots, parents and CDS files of any     *)
(* length and any number of runs and kills.                                *)
(***************************************************************************)
EXTENDS SimAnalysis, DataTheorems

-----------------------------------------------------------------------------
(* Folds over a trace *)

\* The fold of NonEmpty, record by record.
LEMMA NonEmptyRows ==
  ASSUME NEW s \in Seq(Block)
  PROVE  \E row \in [0 .. Len(s) -> Seq(Block)] :
           /\ row[0] = <<>>
           /\ \A k \in 1 .. Len(s) :
                row[k] = IF s[k].size = 0 THEN row[k - 1] ELSE Append(row[k - 1], s[k])
           /\ NonEmpty(s) = row[Len(s)]
<1> DEFINE n == Len(s)
           Kept(a, k) == IF s[k].size = 0 THEN a ELSE Append(a, s[k])
           it == CHOOSE g : g = [t \in SUBSET DOMAIN s |->
                                   IF t = {} THEN <<>> ELSE Kept(g[t \ {Max(t)}], Max(t))]
<1>1. n \in Nat /\ DOMAIN s = 1 .. n /\ \A k \in 1 .. n : s[k] \in Block
  OBVIOUS
<1>2. NonEmpty(s) = it[DOMAIN s]
  BY DEF NonEmpty, FoldLeft, MapThenFoldSet
<1>3. \A a \in Seq(Block), k \in 1 .. n : Kept(a, k) \in Seq(Block)
  BY <1>1
<1>4. PICK op \in [Seq(Block) \X (1 .. n) -> Seq(Block)] :
        \A a \in Seq(Block), k \in 1 .. n : op[<<a, k>>] = Kept(a, k)
  <2> DEFINE f == [p \in Seq(Block) \X (1 .. n) |-> Kept(p[1], p[2])]
  <2> HIDE DEF Kept, n
  <2>1. f \in [Seq(Block) \X (1 .. n) -> Seq(Block)]
    BY <1>3
  <2>2. \A a \in Seq(Block), k \in 1 .. n : f[<<a, k>>] = Kept(a, k)
    OBVIOUS
  <2> HIDE DEF f
  <2> QED BY <2>1, <2>2
<1>5. PICK h \in [SUBSET (1 .. n) -> Seq(Block)] : IsFold(h, <<>>, op, n)
  <2>1. <<>> \in Seq(Block)
    OBVIOUS
  <2> HIDE DEF n
  <2> QED BY <1>1, <2>1, FoldExists, Zenon
<1>6. h = [t \in SUBSET DOMAIN s |-> IF t = {} THEN <<>> ELSE Kept(h[t \ {Max(t)}], Max(t))]
  <2>1. ASSUME NEW t \in SUBSET (1 .. n), t # {}
        PROVE  h[t] = Kept(h[t \ {Max(t)}], Max(t))
    <3>1. Max(t) \in 1 .. n
      BY <1>1, <2>1, MaxOfSubset
    <3>2. h[t \ {Max(t)}] \in Seq(Block)
      OBVIOUS
    <3> HIDE DEF n, Kept
    <3> QED BY <1>4, <1>5, <2>1, <3>1, <3>2 DEF IsFold
  <2> HIDE DEF n, Kept
  <2> QED BY <1>1, <1>5, <2>1 DEF IsFold
<1>7. it = [t \in SUBSET DOMAIN s |-> IF t = {} THEN <<>> ELSE Kept(it[t \ {Max(t)}], Max(t))]
  <2> HIDE DEF Kept
  <2> QED BY <1>6, Zenon
<1> HIDE DEF it, Kept
<1>8. it[{}] = <<>>
  BY <1>1, <1>7
<1>9. \A k \in 1 .. n : it[1 .. k] = Kept(it[1 .. (k - 1)], k)
  <2> SUFFICES ASSUME NEW k \in 1 .. n PROVE it[1 .. k] = Kept(it[1 .. (k - 1)], k)
    OBVIOUS
  <2>1. (1 .. k) \in SUBSET DOMAIN s /\ 1 .. k # {}
    <3>1. \A j \in 1 .. k : j \in 1 .. n
      BY <1>1
    <3>2. k \in 1 .. k
      BY <1>1
    <3> HIDE DEF n
    <3> QED BY <1>1, <3>1, <3>2
  <2>2. Max(1 .. k) = k /\ (1 .. k) \ {Max(1 .. k)} = 1 .. (k - 1)
    BY <1>1, MaxOfUpTo
  <2>3. it[1 .. k] = Kept(it[(1 .. k) \ {Max(1 .. k)}], Max(1 .. k))
    BY <1>7, <2>1
  <2> QED BY <2>2, <2>3
<1> DEFINE Typed == {k \in 0 .. n : it[1 .. k] \in Seq(Block)}
<1>10. \A k \in 0 .. n : k \in Typed
  <2>1. 0 \in Typed
    <3>1. 1 .. 0 = {} /\ 0 \in 0 .. n
      BY <1>1
    <3> HIDE DEF n
    <3>2. it[1 .. 0] = <<>>
      BY <1>8, <3>1, Zenon
    <3>3. it[1 .. 0] \in Seq(Block)
      BY <3>2, EmptySeq
    <3> QED BY <3>1, <3>3
  <2>2. ASSUME NEW k \in 0 .. n - 1, k \in Typed PROVE k + 1 \in Typed
    <3>1. k + 1 \in 1 .. n /\ (k + 1) - 1 = k
      BY <1>1
    <3>2. it[1 .. (k + 1)] = Kept(it[1 .. k], k + 1)
      BY <1>9, <3>1
    <3>3. it[1 .. k] \in Seq(Block)
      BY <2>2
    <3>4. it[1 .. (k + 1)] \in Seq(Block)
      BY <1>3, <3>1, <3>2, <3>3
    <3>5. k + 1 \in 0 .. n
      BY <1>1
    <3> QED BY <3>4, <3>5
  <2> HIDE DEF Typed
  <2> QED BY <1>1, <2>1, <2>2, UpToIsInductive
<1> DEFINE row == [k \in 0 .. n |-> it[1 .. k]]
<1>11. row \in [0 .. n -> Seq(Block)] /\ row[0] = <<>> /\ row[n] = it[DOMAIN s]
  BY <1>1, <1>8, <1>10
<1>12. \A k \in 1 .. n : row[k] = Kept(row[k - 1], k)
  BY <1>1, <1>9
<1> HIDE DEF row
<1> QED BY <1>2, <1>11, <1>12 DEF Kept

\* The fold of TotalSize, record by record.
LEMMA TotalSizeRows ==
  ASSUME NEW s \in Seq(Block)
  PROVE  \E row \in [0 .. Len(s) -> Nat] :
           /\ row[0] = 0
           /\ \A k \in 1 .. Len(s) : row[k] = row[k - 1] + s[k].size
           /\ TotalSize(s) = row[Len(s)]
<1> DEFINE n == Len(s)
           Plus(a, k) == a + s[k].size
           it == CHOOSE g : g = [t \in SUBSET DOMAIN s |->
                                   IF t = {} THEN 0 ELSE Plus(g[t \ {Max(t)}], Max(t))]
<1>1. n \in Nat /\ DOMAIN s = 1 .. n /\ \A k \in 1 .. n : s[k] \in Block
  OBVIOUS
<1>2. TotalSize(s) = it[DOMAIN s]
  BY DEF TotalSize, FoldLeft, MapThenFoldSet
<1>3. \A a \in Nat, k \in 1 .. n : Plus(a, k) \in Nat
  <2>1. \A k \in 1 .. n : s[k].size \in Nat
    BY <1>1 DEF Block
  <2> HIDE DEF n
  <2> QED BY <2>1
<1>4. PICK op \in [Nat \X (1 .. n) -> Nat] :
        \A a \in Nat, k \in 1 .. n : op[<<a, k>>] = Plus(a, k)
  <2> DEFINE f == [p \in Nat \X (1 .. n) |-> Plus(p[1], p[2])]
  <2> HIDE DEF Plus, n
  <2>1. f \in [Nat \X (1 .. n) -> Nat]
    BY <1>3
  <2>2. \A a \in Nat, k \in 1 .. n : f[<<a, k>>] = Plus(a, k)
    OBVIOUS
  <2> HIDE DEF f
  <2> QED BY <2>1, <2>2
<1>5. PICK h \in [SUBSET (1 .. n) -> Nat] : IsFold(h, 0, op, n)
  <2>1. 0 \in Nat
    OBVIOUS
  <2> HIDE DEF n
  <2> QED BY <1>1, <2>1, FoldExists, Zenon
<1>6. h = [t \in SUBSET DOMAIN s |-> IF t = {} THEN 0 ELSE Plus(h[t \ {Max(t)}], Max(t))]
  <2>1. ASSUME NEW t \in SUBSET (1 .. n), t # {}
        PROVE  h[t] = Plus(h[t \ {Max(t)}], Max(t))
    <3>1. Max(t) \in 1 .. n
      BY <1>1, <2>1, MaxOfSubset
    <3>2. h[t \ {Max(t)}] \in Nat
      OBVIOUS
    <3> HIDE DEF n, Plus
    <3> QED BY <1>4, <1>5, <2>1, <3>1, <3>2 DEF IsFold
  <2> HIDE DEF n, Plus
  <2> QED BY <1>1, <1>5, <2>1 DEF IsFold
<1>7. it = [t \in SUBSET DOMAIN s |-> IF t = {} THEN 0 ELSE Plus(it[t \ {Max(t)}], Max(t))]
  <2> HIDE DEF Plus
  <2> QED BY <1>6, Zenon
<1> HIDE DEF it, Plus
<1>8. it[{}] = 0
  BY <1>1, <1>7
<1>9. \A k \in 1 .. n : it[1 .. k] = Plus(it[1 .. (k - 1)], k)
  <2> SUFFICES ASSUME NEW k \in 1 .. n PROVE it[1 .. k] = Plus(it[1 .. (k - 1)], k)
    OBVIOUS
  <2>1. (1 .. k) \in SUBSET DOMAIN s /\ 1 .. k # {}
    <3>1. \A j \in 1 .. k : j \in 1 .. n
      BY <1>1
    <3>2. k \in 1 .. k
      BY <1>1
    <3> HIDE DEF n
    <3> QED BY <1>1, <3>1, <3>2
  <2>2. Max(1 .. k) = k /\ (1 .. k) \ {Max(1 .. k)} = 1 .. (k - 1)
    BY <1>1, MaxOfUpTo
  <2>3. it[1 .. k] = Plus(it[(1 .. k) \ {Max(1 .. k)}], Max(1 .. k))
    BY <1>7, <2>1
  <2> QED BY <2>2, <2>3
<1> DEFINE Typed == {k \in 0 .. n : it[1 .. k] \in Nat}
<1>10. \A k \in 0 .. n : k \in Typed
  <2>1. 0 \in Typed
    <3>1. 1 .. 0 = {} /\ 0 \in 0 .. n
      BY <1>1
    <3> HIDE DEF n
    <3>2. it[1 .. 0] = 0
      BY <1>8, <3>1, Zenon
    <3>3. it[1 .. 0] \in Nat
      BY <3>2
    <3> QED BY <3>1, <3>3
  <2>2. ASSUME NEW k \in 0 .. n - 1, k \in Typed PROVE k + 1 \in Typed
    <3>1. k + 1 \in 1 .. n /\ (k + 1) - 1 = k
      BY <1>1
    <3>2. it[1 .. (k + 1)] = Plus(it[1 .. k], k + 1)
      BY <1>9, <3>1
    <3>3. it[1 .. k] \in Nat
      BY <2>2
    <3>4. it[1 .. (k + 1)] \in Nat
      BY <1>3, <3>1, <3>2, <3>3
    <3>5. k + 1 \in 0 .. n
      BY <1>1
    <3> QED BY <3>4, <3>5
  <2> HIDE DEF Typed
  <2> QED BY <1>1, <2>1, <2>2, UpToIsInductive
<1> DEFINE row == [k \in 0 .. n |-> it[1 .. k]]
<1>11. row \in [0 .. n -> Nat] /\ row[0] = 0 /\ row[n] = it[DOMAIN s]
  BY <1>1, <1>8, <1>10
<1>12. \A k \in 1 .. n : row[k] = Plus(row[k - 1], k)
  BY <1>1, <1>9
<1> HIDE DEF row
<1> QED BY <1>2, <1>11, <1>12 DEF Plus

LEMMA NonEmptyOfAppend ==
  /\ NonEmpty(<<>>) = <<>>
  /\ \A s \in Seq(Block) : NonEmpty(s) \in Seq(Block)
  /\ \A s \in Seq(Block), b \in Block :
       NonEmpty(Append(s, b)) = IF b.size = 0 THEN NonEmpty(s) ELSE Append(NonEmpty(s), b)
<1>1. NonEmpty(<<>>) = <<>>
  <2>1. <<>> \in Seq(Block) /\ Len(<<>>) = 0
    BY EmptySeq
  <2> QED BY <2>1, NonEmptyRows
<1>2. \A s \in Seq(Block) : NonEmpty(s) \in Seq(Block)
  <2> SUFFICES ASSUME NEW s \in Seq(Block) PROVE NonEmpty(s) \in Seq(Block)
    OBVIOUS
  <2>1. PICK row \in [0 .. Len(s) -> Seq(Block)] : NonEmpty(s) = row[Len(s)]
    BY NonEmptyRows
  <2>2. Len(s) \in 0 .. Len(s)
    BY LenProperties
  <2> QED BY <2>1, <2>2
<1>3. ASSUME NEW s \in Seq(Block), NEW b \in Block
      PROVE  NonEmpty(Append(s, b)) = IF b.size = 0 THEN NonEmpty(s) ELSE Append(NonEmpty(s), b)
  <2> DEFINE r == Append(s, b)
             n == Len(s)
  <2>1. /\ r \in Seq(Block) /\ Len(r) = n + 1 /\ n \in Nat /\ r[n + 1] = b
        /\ \A k \in 1 .. n : r[k] = s[k]
    OBVIOUS
  <2>2. PICK f :
          /\ f[0] = <<>> /\ NonEmpty(s) = f[n]
          /\ \A k \in 1 .. n : f[k] = IF s[k].size = 0 THEN f[k - 1] ELSE Append(f[k - 1], s[k])
    BY NonEmptyRows
  <2> HIDE DEF r, n
  <2>3. PICK g :
          /\ g[0] = <<>> /\ NonEmpty(r) = g[Len(r)]
          /\ \A k \in 1 .. Len(r) : g[k] = IF r[k].size = 0 THEN g[k - 1] ELSE Append(g[k - 1], r[k])
    BY <2>1, NonEmptyRows
  <2>4. f[n] = g[n]
    <3>1. \A k \in 1 .. n : f[k - 1] = g[k - 1] => f[k] = g[k]
      <4>1. \A k \in 1 .. n : k \in 1 .. n + 1
        BY <2>1
      <4> QED BY <2>1, <2>2, <2>3, <4>1
    <3>2. n \in Nat /\ f[0] = g[0]
      BY <2>1, <2>2, <2>3
    <3> QED BY <3>1, <3>2, RowsAgree, Zenon
  <2>5. n + 1 \in 1 .. n + 1 /\ (n + 1) - 1 = n
    BY <2>1
  <2>6. g[n + 1] = IF b.size = 0 THEN g[n] ELSE Append(g[n], b)
    BY <2>1, <2>3, <2>5
  <2>7. NonEmpty(r) = g[n + 1]
    BY <2>1, <2>3
  <2> QED BY <2>2, <2>4, <2>6, <2>7 DEF r
<1> QED BY <1>1, <1>2, <1>3

LEMMA TotalSizeOfAppend ==
  /\ TotalSize(<<>>) = 0
  /\ \A s \in Seq(Block) : TotalSize(s) \in Nat
  /\ \A s \in Seq(Block), b \in Block : TotalSize(Append(s, b)) = TotalSize(s) + b.size
<1>1. TotalSize(<<>>) = 0
  <2>1. <<>> \in Seq(Block) /\ Len(<<>>) = 0
    BY EmptySeq
  <2> QED BY <2>1, TotalSizeRows
<1>2. \A s \in Seq(Block) : TotalSize(s) \in Nat
  <2> SUFFICES ASSUME NEW s \in Seq(Block) PROVE TotalSize(s) \in Nat
    OBVIOUS
  <2>1. PICK row \in [0 .. Len(s) -> Nat] : TotalSize(s) = row[Len(s)]
    BY TotalSizeRows
  <2>2. Len(s) \in 0 .. Len(s)
    BY LenProperties
  <2> QED BY <2>1, <2>2
<1>3. ASSUME NEW s \in Seq(Block), NEW b \in Block
      PROVE  TotalSize(Append(s, b)) = TotalSize(s) + b.size
  <2> DEFINE r == Append(s, b)
             n == Len(s)
  <2>1. /\ r \in Seq(Block) /\ Len(r) = n + 1 /\ n \in Nat /\ r[n + 1] = b
        /\ \A k \in 1 .. n : r[k] = s[k]
    OBVIOUS
  <2>2. PICK f :
          /\ f[0] = 0 /\ TotalSize(s) = f[n]
          /\ \A k \in 1 .. n : f[k] = f[k - 1] + s[k].size
    BY TotalSizeRows
  <2> HIDE DEF r, n
  <2>3. PICK g :
          /\ g[0] = 0 /\ TotalSize(r) = g[Len(r)]
          /\ \A k \in 1 .. Len(r) : g[k] = g[k - 1] + r[k].size
    BY <2>1, TotalSizeRows
  <2>4. f[n] = g[n]
    <3>1. \A k \in 1 .. n : f[k - 1] = g[k - 1] => f[k] = g[k]
      <4>1. \A k \in 1 .. n : k \in 1 .. n + 1
        BY <2>1
      <4> QED BY <2>1, <2>2, <2>3, <4>1
    <3>2. n \in Nat /\ f[0] = g[0]
      BY <2>1, <2>2, <2>3
    <3> QED BY <3>1, <3>2, RowsAgree, Zenon
  <2>5. n + 1 \in 1 .. n + 1 /\ (n + 1) - 1 = n
    BY <2>1
  <2>6. TotalSize(r) = g[n] + b.size
    BY <2>1, <2>3, <2>5
  <2> QED BY <2>2, <2>4, <2>6 DEF r
<1> QED BY <1>1, <1>2, <1>3

-----------------------------------------------------------------------------
(* Segments *)

\* Leaving out the empty records commutes with concatenation.
LEMMA NonEmptyOfConcat ==
  ASSUME NEW s \in Seq(Block), NEW t \in Seq(Block)
  PROVE  NonEmpty(s \o t) = NonEmpty(s) \o NonEmpty(t)
<1> DEFINE P == {u \in Seq(Block) : NonEmpty(s \o u) = NonEmpty(s) \o NonEmpty(u)}
<1>1. <<>> \in P
  <2>1. s \o <<>> = s /\ NonEmpty(s) \o <<>> = NonEmpty(s)
    BY NonEmptyOfAppend, ConcatEmptySeq
  <2> QED BY <2>1, NonEmptyOfAppend, EmptySeq
<1>2. ASSUME NEW u \in Seq(Block), NEW b \in Block, u \in P PROVE Append(u, b) \in P
  <2>1. s \o Append(u, b) = Append(s \o u, b) /\ s \o u \in Seq(Block) /\ Append(u, b) \in Seq(Block)
    OBVIOUS
  <2>2. NonEmpty(s) \in Seq(Block) /\ NonEmpty(u) \in Seq(Block)
    BY NonEmptyOfAppend
  <2>3. NonEmpty(s) \o Append(NonEmpty(u), b) = Append(NonEmpty(s) \o NonEmpty(u), b)
    BY <2>2
  <2>4. NonEmpty(s \o u) = NonEmpty(s) \o NonEmpty(u)
    BY <1>2
  <2> QED BY <2>1, <2>3, <2>4, NonEmptyOfAppend
<1>3. \A u \in Seq(Block) : u \in P
  <2> HIDE DEF P
  <2> QED BY <1>1, <1>2, SeqIsInductive
<1> QED BY <1>3

\* Nothing but empty records has no size.
LEMMA NothingHasNoSize ==
  ASSUME NEW s \in Seq(Block), NonEmpty(s) = <<>>
  PROVE  TotalSize(s) = 0
<1> DEFINE P == {u \in Seq(Block) : NonEmpty(u) = <<>> => TotalSize(u) = 0}
<1>1. <<>> \in P
  BY NonEmptyOfAppend, TotalSizeOfAppend, EmptySeq
<1>2. ASSUME NEW u \in Seq(Block), NEW b \in Block, u \in P PROVE Append(u, b) \in P
  <2>1. Append(u, b) \in Seq(Block) /\ b.size \in Nat
    BY DEF Block
  <2>2. NonEmpty(u) \in Seq(Block) /\ Append(NonEmpty(u), b) # <<>>
    <3>1. NonEmpty(u) \in Seq(Block)
      BY NonEmptyOfAppend
    <3> QED BY <3>1, AppendProperties
  <2>3. NonEmpty(Append(u, b)) = <<>> => b.size = 0 /\ NonEmpty(u) = <<>>
    BY <2>2, NonEmptyOfAppend
  <2>4. TotalSize(Append(u, b)) = TotalSize(u) + b.size
    BY TotalSizeOfAppend
  <2> QED BY <1>2, <2>1, <2>3, <2>4
<1>3. \A u \in Seq(Block) : u \in P
  <2> HIDE DEF P
  <2> QED BY <1>1, <1>2, SeqIsInductive
<1> QED BY <1>3

LEMMA SegmentLenRange ==
  ASSUME NEW t \in Seq(Block)
  PROVE  /\ SegmentLen(t) \in 0 .. Len(t)
         /\ SegmentLen(t) # Len(t) => TotalSize(SubSeq(t, 1, SegmentLen(t))) >= FIX_SEGMENT_SIZE
         /\ t # <<>> => SegmentLen(t) # 0
<1> DEFINE T == RecordsToSize(t) \union {Len(t)}
<1>1. Len(t) \in Nat /\ T \in SUBSET Nat /\ T # {}
  BY DEF RecordsToSize
<1>2. SegmentLen(t) \in T
  <2>1. SegmentLen(t) = Min(T)
    BY DEF SegmentLen
  <2> HIDE DEF T
  <2> QED BY <1>1, <2>1, MinOfNat
<1>3. SegmentLen(t) # Len(t) =>
        /\ SegmentLen(t) \in 1 .. Len(t)
        /\ TotalSize(SubSeq(t, 1, SegmentLen(t))) >= FIX_SEGMENT_SIZE
  BY <1>2 DEF RecordsToSize
<1> QED BY <1>1, <1>3

\* A segment and what is after it are the trace.
LEMMA SegmentAndAfter ==
  ASSUME NEW t \in Seq(Block)
  PROVE  /\ SubSeq(t, 1, SegmentLen(t)) \in Seq(Block)
         /\ AfterSegment(t) \in Seq(Block)
         /\ t = SubSeq(t, 1, SegmentLen(t)) \o AfterSegment(t)
<1>1. SegmentLen(t) \in 0 .. Len(t)
  BY SegmentLenRange
<1>2. PICK k \in 0 .. Len(t) : k = SegmentLen(t)
  BY <1>1
<1>3. 1 \in 1 .. Len(t) + 1 /\ k \in 0 .. Len(t) /\ Len(t) \in k .. Len(t) /\ 1 - 1 = 0
  BY LenProperties
<1>4. SubSeq(t, 1, k) \o SubSeq(t, k + 1, Len(t)) = SubSeq(t, 1, Len(t))
  BY <1>3, ConcatAdjacentSubSeq
<1>5. SubSeq(t, 1, Len(t)) = t
  BY SubSeqFull
<1>6. SubSeq(t, 1, k) \in Seq(Block) /\ SubSeq(t, k + 1, Len(t)) \in Seq(Block)
  BY <1>3
<1> QED BY <1>2, <1>4, <1>5, <1>6 DEF AfterSegment

LEMMA Retagged ==
  ASSUME NEW b \in Block, NEW bits \in SUBSET Nat, NEW r, r = [b EXCEPT !.file_id = bits]
  PROVE  /\ r \in Block
         /\ r.file_id = bits /\ r.cksum = b.cksum /\ r.size = b.size /\ r.offset = b.offset
         /\ [r EXCEPT !.file_id = {}] = [b EXCEPT !.file_id = {}]
<1>1. b = [cksum |-> b.cksum, size |-> b.size, offset |-> b.offset, file_id |-> b.file_id]
  BY DEF Block
<1>2. b.cksum \in Int /\ b.size \in Nat /\ b.offset \in Nat
  BY DEF Block
<1>3. r = [cksum |-> b.cksum, size |-> b.size, offset |-> b.offset, file_id |-> bits]
  BY <1>1
<1> QED BY <1>1, <1>2, <1>3 DEF Block

LEMMA UntaggedIs ==
  ASSUME NEW s \in Seq(Block)
  PROVE  /\ Untagged(s) \in Seq(Block) /\ Len(Untagged(s)) = Len(s)
         /\ \A k \in 1 .. Len(s) : Untagged(s)[k] = [s[k] EXCEPT !.file_id = {}]
         /\ Untagged(Untagged(s)) = Untagged(s)
<1>1. \A k \in 1 .. Len(s) : [s[k] EXCEPT !.file_id = {}] \in Block
  <2>1. \A k \in 1 .. Len(s) : s[k] \in Block
    OBVIOUS
  <2> QED BY <2>1, Retagged
<1>2. Untagged(s) = [k \in 1 .. Len(s) |-> [s[k] EXCEPT !.file_id = {}]]
  BY DEF Untagged
<1>3. /\ Untagged(s) \in Seq(Block) /\ Len(Untagged(s)) = Len(s)
      /\ \A k \in 1 .. Len(s) : Untagged(s)[k] = [s[k] EXCEPT !.file_id = {}]
  BY <1>1, <1>2
<1>4. \A k \in 1 .. Len(s) : [[s[k] EXCEPT !.file_id = {}] EXCEPT !.file_id = {}] = [s[k] EXCEPT !.file_id = {}]
  OBVIOUS
<1>5. Untagged(Untagged(s)) = [k \in 1 .. Len(s) |-> [Untagged(s)[k] EXCEPT !.file_id = {}]]
  BY <1>3 DEF Untagged
<1>6. Untagged(Untagged(s)) = Untagged(s)
  BY <1>2, <1>3, <1>4, <1>5
<1> QED BY <1>3, <1>6

LEMMA UntaggedOfConcat ==
  ASSUME NEW s \in Seq(Block), NEW t \in Seq(Block)
  PROVE  Untagged(s \o t) = Untagged(s) \o Untagged(t)
<1>1. s \o t \in Seq(Block)
  BY ConcatProperties
<1>2. /\ Untagged(s) \in Seq(Block) /\ Len(Untagged(s)) = Len(s)
      /\ Untagged(t) \in Seq(Block) /\ Len(Untagged(t)) = Len(t)
      /\ Untagged(s \o t) \in Seq(Block) /\ Len(Untagged(s \o t)) = Len(s \o t)
  BY <1>1, UntaggedIs
<1>3. Len(s \o t) = Len(s) + Len(t) /\ Len(Untagged(s) \o Untagged(t)) = Len(s) + Len(t)
  BY <1>2, ConcatProperties
<1>4. \A k \in 1 .. Len(s) + Len(t) : Untagged(s \o t)[k] = (Untagged(s) \o Untagged(t))[k]
  <2> SUFFICES ASSUME NEW k \in 1 .. Len(s) + Len(t)
               PROVE  Untagged(s \o t)[k] = (Untagged(s) \o Untagged(t))[k]
    OBVIOUS
  <2>1. Untagged(s \o t)[k] = [(s \o t)[k] EXCEPT !.file_id = {}]
    BY <1>1, <1>3, UntaggedIs
  <2>2. CASE k <= Len(s)
    <3>1. k \in 1 .. Len(s) /\ (s \o t)[k] = s[k]
      BY <2>2, ConcatProperties, LenProperties
    <3>2. (Untagged(s) \o Untagged(t))[k] = Untagged(s)[k]
      BY <1>2, <2>2, ConcatProperties, LenProperties
    <3> QED BY <2>1, <3>1, <3>2, UntaggedIs
  <2>3. CASE ~(k <= Len(s))
    <3>1. k - Len(s) \in 1 .. Len(t) /\ (s \o t)[k] = t[k - Len(s)]
      BY <2>3, ConcatProperties, LenProperties
    <3>2. (Untagged(s) \o Untagged(t))[k] = Untagged(t)[k - Len(s)]
      BY <1>2, <2>3, ConcatProperties, LenProperties
    <3> QED BY <2>1, <3>1, <3>2, UntaggedIs
  <2> QED BY <2>2, <2>3
<1>5. Untagged(s) \o Untagged(t) \in Seq(Block)
  BY <1>2, ConcatProperties
<1> QED BY <1>2, <1>3, <1>4, <1>5, SeqEqual

\* The blocks of a trace are those of its next segment and of what is after.
LEMMA NextSegment ==
  ASSUME NEW t \in Seq(Block)
  PROVE  /\ SegmentBlocks(t) \in Seq(Block)
         /\ AfterSegment(t) \in Seq(Block)
         /\ Untagged(NonEmpty(t)) = Untagged(SegmentBlocks(t)) \o Untagged(NonEmpty(AfterSegment(t)))
         /\ SegmentBlocks(t) = <<>> => NonEmpty(t) = <<>>
<1> DEFINE seg == SubSeq(t, 1, SegmentLen(t))
           after == AfterSegment(t)
<1>1. seg \in Seq(Block) /\ after \in Seq(Block) /\ t = seg \o after
  BY SegmentAndAfter
<1>2. SegmentBlocks(t) = Untagged(NonEmpty(seg))
  BY DEF SegmentBlocks
<1>3. SegmentLen(t) \in 0 .. Len(t) /\ (SegmentLen(t) # Len(t) => TotalSize(seg) >= FIX_SEGMENT_SIZE)
  BY SegmentLenRange
<1> HIDE DEF seg, after
<1>4. NonEmpty(seg) \in Seq(Block) /\ NonEmpty(after) \in Seq(Block)
  BY <1>1, NonEmptyOfAppend
<1>5. NonEmpty(t) = NonEmpty(seg) \o NonEmpty(after)
  BY <1>1, NonEmptyOfConcat
<1>6. Untagged(NonEmpty(t)) = Untagged(NonEmpty(seg)) \o Untagged(NonEmpty(after))
  BY <1>4, <1>5, UntaggedOfConcat
<1>7. SegmentBlocks(t) \in Seq(Block) /\ Untagged(SegmentBlocks(t)) = Untagged(NonEmpty(seg))
  BY <1>2, <1>4, UntaggedIs
<1>8. ASSUME SegmentBlocks(t) = <<>> PROVE NonEmpty(t) = <<>>
  <2>1. NonEmpty(seg) = <<>>
    <3>1. Len(NonEmpty(seg)) = Len(<<>>)
      BY <1>2, <1>4, <1>8, UntaggedIs
    <3> QED BY <1>4, <3>1, EmptySeq
  <2>2. TotalSize(seg) = 0
    BY <1>1, <2>1, NothingHasNoSize
  <2>3. SegmentLen(t) = Len(t)
    BY <1>3, <2>2, SegmentSizeAssumption
  <2>4. seg = t
    BY <2>3, SubSeqFull DEF seg
  <2> QED BY <2>1, <2>4
<1> QED BY <1>1, <1>6, <1>7, <1>8 DEF after

-----------------------------------------------------------------------------
(* Tags *)

\* r is s but for its tags.
IsRetagged(r, s) ==
  /\ r = [k \in 1 .. Len(s) |-> r[k]]
  /\ \A k \in 1 .. Len(s) : \E bits \in SUBSET Nat : r[k] = [s[k] EXCEPT !.file_id = bits]

LEMMA RetaggedSeq ==
  ASSUME NEW s \in Seq(Block), NEW r, IsRetagged(r, s)
  PROVE  /\ r \in Seq(Block) /\ Len(r) = Len(s) /\ DOMAIN r = 1 .. Len(s)
         /\ Untagged(r) = Untagged(s)
         /\ \A k \in 1 .. Len(s) : r[k].cksum = s[k].cksum
<1>1. \A k \in 1 .. Len(s) :
        /\ r[k] \in Block
        /\ r[k].cksum = s[k].cksum
        /\ [r[k] EXCEPT !.file_id = {}] = [s[k] EXCEPT !.file_id = {}]
  <2> SUFFICES ASSUME NEW k \in 1 .. Len(s)
               PROVE  /\ r[k] \in Block
                      /\ r[k].cksum = s[k].cksum
                      /\ [r[k] EXCEPT !.file_id = {}] = [s[k] EXCEPT !.file_id = {}]
    OBVIOUS
  <2>1. s[k] \in Block
    OBVIOUS
  <2>2. PICK bits \in SUBSET Nat : r[k] = [s[k] EXCEPT !.file_id = bits]
    BY DEF IsRetagged
  <2>3. PICK b \in Block : b = s[k]
    BY <2>1
  <2>4. PICK q : q = r[k]
    OBVIOUS
  <2>5. q = [b EXCEPT !.file_id = bits]
    BY <2>2, <2>3, <2>4
  <2>6. q \in Block /\ q.cksum = b.cksum /\ [q EXCEPT !.file_id = {}] = [b EXCEPT !.file_id = {}]
    <3>1. b = [cksum |-> b.cksum, size |-> b.size, offset |-> b.offset, file_id |-> b.file_id]
      BY DEF Block
    <3>2. b.cksum \in Int /\ b.size \in Nat /\ b.offset \in Nat
      BY DEF Block
    <3>3. q = [cksum |-> b.cksum, size |-> b.size, offset |-> b.offset, file_id |-> bits]
      BY <2>5, <3>1
    <3>4. q \in Block /\ q.cksum = b.cksum
      BY <3>2, <3>3 DEF Block
    <3>5. [q EXCEPT !.file_id = {}] = [b EXCEPT !.file_id = {}]
      BY ONLY <2>5
    <3> QED BY <3>4, <3>5
  <2> QED BY <2>3, <2>4, <2>6
<1>2. r \in Seq(Block) /\ Len(r) = Len(s) /\ DOMAIN r = 1 .. Len(s)
  <2>1. Len(s) \in Nat /\ r \in [1 .. Len(s) -> Block]
    BY <1>1, LenProperties DEF IsRetagged
  <2> QED BY <2>1
<1>3. Untagged(r) = Untagged(s)
  <2>1. Untagged(r) = [k \in 1 .. Len(s) |-> [r[k] EXCEPT !.file_id = {}]]
    BY <1>2 DEF Untagged
  <2>2. Untagged(s) = [k \in 1 .. Len(s) |-> [s[k] EXCEPT !.file_id = {}]]
    BY DEF Untagged
  <2> QED BY <1>1, <2>1, <2>2
<1> QED BY <1>1, <1>2, <1>3

LEMMA TaggedIsRetagged ==
  ASSUME NEW b \in Block, NEW bits \in SUBSET Nat
  PROVE  /\ Tagged(b, bits) = [b EXCEPT !.file_id = b.file_id \union bits]
         /\ b.file_id \union bits \in SUBSET Nat
         /\ b = [b EXCEPT !.file_id = b.file_id]
  BY DEF Tagged, Block

LEMMA TagsAreSets ==
  /\ IN_PARENT \in SUBSET Nat /\ IN_DIRTY_SEG \in SUBSET Nat /\ IN_CDS \in SUBSET Nat
  /\ IN_CDS_CACHE \in SUBSET Nat /\ {} \in SUBSET Nat
  BY DEF IN_PARENT, IN_DIRTY_SEG, IN_CDS, IN_CDS_CACHE

LEMMA TagParentRetags ==
  ASSUME current_seg \in Seq(Block), TagParent
  PROVE  IsRetagged(current_seg', current_seg)
<1>1. \A k \in 1 .. Len(current_seg) : current_seg[k] \in Block
  OBVIOUS
<1>2. current_seg' = [k \in 1 .. Len(current_seg) |-> Tagged(current_seg[k], IN_PARENT)]
  BY DEF TagParent
<1> QED BY <1>1, <1>2, TaggedIsRetagged, TagsAreSets DEF IsRetagged

LEMMA TagDirtyRetags ==
  ASSUME current_seg \in Seq(Block), TagDirty
  PROVE  IsRetagged(current_seg', current_seg)
<1>1. \A k \in 1 .. Len(current_seg) : current_seg[k] \in Block
  OBVIOUS
<1>2. current_seg' = [k \in 1 .. Len(current_seg) |->
                        IF InParentSeg(current_seg[k]) THEN Tagged(current_seg[k], IN_DIRTY_SEG)
                                                       ELSE current_seg[k]]
  BY DEF TagDirty
<1>3. \A k \in 1 .. Len(current_seg) : current_seg[k].file_id \in SUBSET Nat
  BY <1>1 DEF Block
<1> QED BY <1>1, <1>2, <1>3, TaggedIsRetagged, TagsAreSets DEF IsRetagged

LEMMA TagNextRetags ==
  ASSUME current_seg \in Seq(Block), i \in Nat \ {0}, NEW bits \in SUBSET Nat, TagNext(bits)
  PROVE  IsRetagged(current_seg', current_seg)
<1>1. \A k \in 1 .. Len(current_seg) : current_seg[k] \in Block
  OBVIOUS
<1>2. current_seg' = [k \in 1 .. Len(current_seg) |->
                        IF k = i THEN Tagged(current_seg[k], bits) ELSE current_seg[k]]
  <2>1. current_seg \in [1 .. Len(current_seg) -> Block]
    BY LenProperties
  <2>2. current_seg' = [current_seg EXCEPT ![i] = Tagged(current_seg[i], bits)]
    BY DEF TagNext
  <2> QED BY <2>1, <2>2
<1>3. \A k \in 1 .. Len(current_seg) : current_seg[k].file_id \in SUBSET Nat
  BY <1>1 DEF Block
<1> QED BY <1>1, <1>2, <1>3, TaggedIsRetagged DEF IsRetagged

-----------------------------------------------------------------------------
(* Nothing is lost *)

SnapshotTypes ==
  /\ snapshot \in Seq(Block) /\ parent \in Seq(Block) \union {NoParent} /\ cds \in Seq(Block)
  /\ current_input \in Seq(Block) /\ parent_input \in Seq(Block)
  /\ current_seg \in Seq(Block) /\ parent_seg \in Seq(Block)
  /\ i \in Nat \ {0}
  /\ output \in Seq(Block)

LEMMA NothingIsASeq == <<>> \in Seq(Block)
  BY EmptySeq

LEMMA OpenTypes ==
  ASSUME Open
  PROVE  SnapshotTypes'
<1>1. Traces \subseteq Seq(Block) /\ Parents \subseteq Seq(Block) /\ CdsFiles \subseteq Seq(Block)
  BY InputsAssumption
<1>2. parent' \in Seq(Block) \union {NoParent} /\ parent_input' \in Seq(Block)
  BY <1>1, NothingIsASeq DEF Open
<1> QED BY <1>1, <1>2, NothingIsASeq DEF Open, SnapshotTypes

LEMMA LoadTypes ==
  ASSUME SnapshotTypes, LoadSegments
  PROVE  SnapshotTypes'
<1>1. /\ SegmentBlocks(current_input) \in Seq(Block) /\ AfterSegment(current_input) \in Seq(Block)
      /\ SegmentBlocks(parent_input) \in Seq(Block) /\ AfterSegment(parent_input) \in Seq(Block)
  BY NextSegment DEF SnapshotTypes
<1>2. parent_seg' \in Seq(Block) /\ parent_input' \in Seq(Block)
  BY <1>1 DEF LoadSegments, NextParentSeg, SnapshotTypes
<1> QED BY <1>1, <1>2 DEF LoadSegments, SnapshotTypes, argVars

LEMMA RetagTypes ==
  ASSUME SnapshotTypes, IsRetagged(current_seg', current_seg), i' \in {i, i + 1},
         UNCHANGED <<inVars, parent_seg, output>>
  PROVE  SnapshotTypes'
<1>1. current_seg' \in Seq(Block)
  BY RetaggedSeq DEF SnapshotTypes
<1>2. i' \in Nat \ {0}
  BY DEF SnapshotTypes
<1> QED BY <1>1, <1>2 DEF SnapshotTypes, inVars, argVars

\* The steps that retag.
RetagStep ==
  /\ \/ pc = "tag" /\ pc' = "cds" /\ i' = i
     \/ pc = "cds" /\ pc' = "cds" /\ i' = i + 1
  /\ IsRetagged(current_seg', current_seg)
  /\ UNCHANGED <<inVars, parent_seg, output>>

LEMMA TagsRetag ==
  ASSUME SnapshotTypes, TagParent \/ TagDirty \/ SearchCds \/ WithoutParent
  PROVE  RetagStep
<1>1. CASE TagParent
  BY <1>1, TagParentRetags DEF SnapshotTypes, RetagStep, TagParent
<1>2. CASE TagDirty
  BY <1>2, TagDirtyRetags DEF SnapshotTypes, RetagStep, TagDirty
<1>3. CASE SearchCds
  <2>1. PICK bits \in SUBSET Nat : TagNext(bits)
    BY <1>3, TagsAreSets DEF SearchCds
  <2> QED BY <2>1, TagNextRetags DEF SnapshotTypes, RetagStep, TagNext
<1>4. CASE WithoutParent
  <2>1. \A k \in 1 .. Len(current_seg) : current_seg[k] \in Block
    BY DEF SnapshotTypes
  <2>2. current_seg = [k \in 1 .. Len(current_seg) |-> current_seg[k]]
    BY DEF SnapshotTypes
  <2>3. \A k \in 1 .. Len(current_seg) : current_seg[k].file_id \in SUBSET Nat
    BY <2>1 DEF Block
  <2>4. IsRetagged(current_seg, current_seg)
    BY <2>1, <2>2, <2>3, TaggedIsRetagged DEF IsRetagged
  <2>5. current_seg' = current_seg
    BY <1>4 DEF WithoutParent
  <2> QED BY <1>4, <2>4, <2>5 DEF RetagStep, WithoutParent
<1> QED BY <1>1, <1>2, <1>3, <1>4

LEMMA WriteTypes ==
  ASSUME SnapshotTypes, WriteSegment
  PROVE  SnapshotTypes'
<1>1. output \o current_seg \in Seq(Block)
  BY ConcatProperties DEF SnapshotTypes
<1> QED BY <1>1 DEF SnapshotTypes, WriteSegment, inVars, argVars

LEMMA EndTypes ==
  ASSUME SnapshotTypes, NEW phase, EndOfSnapshot(phase)
  PROVE  SnapshotTypes'
  BY NothingIsASeq DEF SnapshotTypes, EndOfSnapshot, inVars, argVars

LEMMA KillTypes ==
  ASSUME SnapshotTypes, Kill
  PROVE  SnapshotTypes'
<1>1. PICK n \in 0 .. Len(output) : output' = SubSeq(output, 1, n)
  BY DEF Kill, Prefixes
<1>2. output \in Seq(Block)
  BY DEF SnapshotTypes
<1>3. output' \in Seq(Block)
  BY <1>1, <1>2
<1> QED BY <1>3 DEF SnapshotTypes, Kill, inVars, argVars

LEMMA TypesInit == Init => SnapshotTypes
  BY NothingIsASeq DEF Init, SnapshotTypes

LEMMA TypesStep ==
  ASSUME SnapshotTypes, [Next]_vars
  PROVE  SnapshotTypes'
<1>1. CASE TagParent \/ TagDirty \/ SearchCds \/ WithoutParent
  <2>1. RetagStep
    BY <1>1, TagsRetag
  <2> QED BY <2>1, RetagTypes DEF RetagStep
<1>2. CASE EndOfSnapshot("close")
  BY <1>2, EndTypes
<1>3. CASE Close
  BY <1>3 DEF Close, SnapshotTypes, inVars, argVars
<1>4. CASE UNCHANGED vars
  BY <1>4 DEF vars, snapshotVars, SnapshotTypes, inVars, argVars
<1> QED BY <1>1, <1>2, <1>3, <1>4, OpenTypes, LoadTypes, WriteTypes, KillTypes DEF Next

\* What a run still has to write: the segment at hand and what is left of the
\* snapshot.
AtHand == IF pc \in {"tag", "cds"} THEN Untagged(current_seg) ELSE <<>>

OutputInv ==
  /\ SnapshotTypes
  /\ OutputIsSnapshot
  /\ pc = "close" => current_input = <<>>

LEMMA UntaggedNothing == Untagged(<<>>) = <<>> /\ NonEmpty(<<>>) = <<>>
<1>1. Untagged(<<>>) \in Seq(Block) /\ Len(Untagged(<<>>)) = 0
  BY NothingIsASeq, UntaggedIs, EmptySeq
<1> QED BY <1>1, EmptySeq, NonEmptyOfAppend

LEMMA PartTypes ==
  ASSUME SnapshotTypes
  PROVE  /\ Untagged(output) \in Seq(Block) /\ AtHand \in Seq(Block)
         /\ Untagged(current_seg) \in Seq(Block)
         /\ NonEmpty(current_input) \in Seq(Block)
         /\ Untagged(NonEmpty(current_input)) \in Seq(Block)
<1>1. /\ output \in Seq(Block) /\ current_seg \in Seq(Block) /\ current_input \in Seq(Block)
  BY DEF SnapshotTypes
<1>2. NonEmpty(current_input) \in Seq(Block)
  BY <1>1, NonEmptyOfAppend
<1>3. /\ Untagged(output) \in Seq(Block) /\ Untagged(current_seg) \in Seq(Block)
      /\ Untagged(NonEmpty(current_input)) \in Seq(Block)
  BY <1>1, <1>2, UntaggedIs
<1> QED BY <1>2, <1>3, NothingIsASeq DEF AtHand

Regroups(s, u, v) == (s \o u) \o v = s \o (u \o v)

LEMMA ThreeParts ==
  ASSUME NEW s \in Seq(Block), NEW u \in Seq(Block), NEW v \in Seq(Block)
  PROVE  Regroups(s, u, v)
<1>1. (s \o u) \o v = s \o (u \o v)
  BY ConcatAssociative, SMTT(40)
<1> QED BY <1>1 DEF Regroups

LEMMA EqualTraces ==
  ASSUME NEW s \in Seq(Block), NEW u \in Seq(Block), Len(s) = Len(u), \A k \in 1 .. Len(s) : s[k] = u[k]
  PROVE  s = u
  BY SeqEqual

LEMMA OutputStep ==
  ASSUME OutputInv, [Next]_vars
  PROVE  OutputInv'
<1> DEFINE W == Untagged(output)
           R == Untagged(NonEmpty(current_input))
<1>1. SnapshotTypes /\ SnapshotTypes'
  BY TypesStep DEF OutputInv
<1>2. W \in Seq(Block) /\ AtHand \in Seq(Block) /\ R \in Seq(Block) /\ Untagged(current_seg) \in Seq(Block)
  BY <1>1, PartTypes
<1>3. ~Stopped => Untagged(NonEmpty(snapshot)) = W \o AtHand \o R
  BY DEF OutputInv, OutputIsSnapshot, AtHand
<1>4. CASE Open
  <2>1. NonEmpty(snapshot') \in Seq(Block)
    BY <1>1, NonEmptyOfAppend DEF SnapshotTypes
  <2>2. Untagged(NonEmpty(snapshot')) \in Seq(Block)
    BY <2>1, UntaggedIs
  <2>3. Untagged(NonEmpty(snapshot')) = <<>> \o <<>> \o Untagged(NonEmpty(snapshot'))
    <3>1. <<>> \o <<>> = <<>>
      BY NothingIsASeq, ConcatEmptySeq
    <3> QED BY <2>2, <3>1, ConcatEmptySeq
  <2>4. /\ pc' = "load" /\ output' = <<>> /\ current_input' = snapshot'
    BY <1>4 DEF Open
  <2> QED BY <1>1, <2>3, <2>4, UntaggedNothing DEF OutputInv, OutputIsSnapshot
<1>5. CASE LoadSegments
  <2> DEFINE S == Untagged(SegmentBlocks(current_input))
             A == Untagged(NonEmpty(AfterSegment(current_input)))
  <2>1. /\ SegmentBlocks(current_input) \in Seq(Block) /\ AfterSegment(current_input) \in Seq(Block)
        /\ R = S \o A
    BY <1>1, NextSegment DEF SnapshotTypes
  <2>2. S \in Seq(Block) /\ A \in Seq(Block)
    BY <2>1, UntaggedIs, NonEmptyOfAppend
  <2>3. /\ pc = "load" /\ pc' = "tag" /\ output' = output /\ snapshot' = snapshot
        /\ current_seg' = SegmentBlocks(current_input) /\ current_input' = AfterSegment(current_input)
    BY <1>5 DEF LoadSegments, argVars
  <2>4. Untagged(NonEmpty(snapshot)) = W \o R
    BY <1>2, <1>3, <2>3, ConcatEmptySeq DEF Stopped, AtHand
  <2> HIDE DEF W, R, S, A
  <2>5. W \o R = (W \o S) \o A
    <3>1. (W \o S) \o A = W \o (S \o A)
      <4>1. Regroups(W, S, A)
        BY <1>2, <2>2, ThreeParts
      <4> QED BY <4>1 DEF Regroups
    <3> QED BY <2>1, <3>1
  <2>6. Untagged(NonEmpty(snapshot)) = W \o S \o A
    BY <2>4, <2>5
  <2>7. W = Untagged(output') /\ S = Untagged(current_seg') /\ A = Untagged(NonEmpty(current_input'))
    BY <2>3 DEF W, S, A
  <2>8. Untagged(NonEmpty(snapshot')) = Untagged(output') \o Untagged(current_seg') \o Untagged(NonEmpty(current_input'))
    BY <2>3, <2>6, <2>7
  <2> QED BY <1>1, <2>3, <2>8 DEF OutputInv, OutputIsSnapshot, Stopped
<1>6. CASE TagParent \/ TagDirty \/ SearchCds \/ WithoutParent
  <2>1. RetagStep
    BY <1>1, <1>6, TagsRetag
  <2>2. Untagged(current_seg') = Untagged(current_seg)
    BY <1>1, <2>1, RetaggedSeq DEF SnapshotTypes, RetagStep
  <2>3. /\ pc \in {"tag", "cds"} /\ pc' \in {"tag", "cds"}
        /\ output' = output /\ snapshot' = snapshot /\ current_input' = current_input
    BY <2>1 DEF RetagStep, inVars, argVars
  <2> HIDE DEF W, R
  <2>4. Untagged(NonEmpty(snapshot)) = W \o Untagged(current_seg) \o R
    BY <1>3, <2>3 DEF Stopped, AtHand
  <2> QED BY <1>1, <2>2, <2>3, <2>4 DEF OutputInv, OutputIsSnapshot, W, R
<1>7. CASE WriteSegment
  <2>1. /\ pc = "cds" /\ pc' = "load" /\ output' = output \o current_seg
        /\ snapshot' = snapshot /\ current_input' = current_input
    BY <1>7 DEF WriteSegment, inVars, argVars
  <2>2. Untagged(output') = W \o Untagged(current_seg)
    BY <1>1, <2>1, UntaggedOfConcat DEF SnapshotTypes
  <2>3. Untagged(output') \o <<>> = Untagged(output')
    BY <1>2, <2>2, ConcatProperties, ConcatEmptySeq
  <2>4. Untagged(NonEmpty(snapshot)) = W \o Untagged(current_seg) \o R
    BY <1>3, <2>1 DEF Stopped, AtHand
  <2> QED BY <1>1, <2>1, <2>2, <2>3, <2>4 DEF OutputInv, OutputIsSnapshot
<1>8. CASE EndOfSnapshot("close")
  <2>1. /\ pc = "load" /\ pc' = "close" /\ output' = output /\ snapshot' = snapshot
        /\ SegmentBlocks(current_input) = <<>> /\ current_input' = <<>>
    BY <1>8 DEF EndOfSnapshot, argVars
  <2>2. NonEmpty(current_input) = <<>>
    BY <1>1, <2>1, NextSegment DEF SnapshotTypes
  <2>3. R = <<>> /\ Untagged(NonEmpty(current_input')) = <<>>
    BY <2>1, <2>2, UntaggedNothing
  <2>4. Untagged(NonEmpty(snapshot)) = W \o <<>> \o <<>>
    BY <1>3, <2>1, <2>3 DEF Stopped, AtHand
  <2> QED BY <1>1, <2>1, <2>3, <2>4 DEF OutputInv, OutputIsSnapshot
<1>9. CASE Close
  <2>1. pc = "close" /\ pc' = "done" /\ output' = output /\ snapshot' = snapshot
    BY <1>9 DEF Close, inVars, argVars
  <2>2. R = <<>>
    BY <2>1, UntaggedNothing DEF OutputInv
  <2>3. Untagged(NonEmpty(snapshot)) = W \o <<>> \o <<>>
    BY <1>3, <2>1, <2>2 DEF Stopped, AtHand
  <2>4. Untagged(NonEmpty(snapshot)) = W
    BY <1>2, <2>3, ConcatEmptySeq
  <2> QED BY <1>1, <2>1, <2>4 DEF OutputInv, OutputIsSnapshot, Stopped
<1>10. CASE Kill
  <2>1. pc' = "killed"
    BY <1>10 DEF Kill
  <2> QED BY <1>1, <2>1 DEF OutputInv, OutputIsSnapshot, Stopped
<1>11. CASE UNCHANGED vars
  BY <1>1, <1>11 DEF OutputInv, OutputIsSnapshot, Stopped, vars, snapshotVars, inVars, argVars
<1> QED BY <1>4, <1>5, <1>6, <1>7, <1>8, <1>9, <1>10, <1>11 DEF Next

\* For snapshots of any records, of size zero too, and of any length: what a
\* run of dedup_cds_sim.cpp has written, has at hand and has not read is the
\* snapshot, block by block and in order; and the whole of it is in the
\* output of a run that has ended.
THEOREM NothingIsLost == Spec => []OutputIsSnapshot
<1>1. Init => OutputInv
  BY TypesInit DEF Init, OutputInv, OutputIsSnapshot, Stopped
<1>2. OutputInv /\ [Next]_vars => OutputInv'
  BY OutputStep
<1>3. OutputInv => OutputIsSnapshot
  BY DEF OutputInv
<1> QED BY <1>1, <1>2, <1>3, PTL DEF Spec

-----------------------------------------------------------------------------
(* The search *)

\* What the recursion of BinarySearch looks like from outside: at the n
\* records from first + 1 on, it returns where it would put c.
LowerOf(blocks, c, lower) ==
  lower = [n \in 0 .. Len(blocks) |->
             [first \in Nat |->
                LET half == n \div 2
                IN  IF n = 0 THEN first
                    ELSE IF blocks[first + half + 1].cksum < c
                           THEN lower[n - half - 1][first + half + 1]
                           ELSE lower[half][first]]]

LEMMA HalfIsLess ==
  ASSUME NEW n \in Nat \ {0}
  PROVE  n \div 2 \in 0 .. n - 1 /\ n - (n \div 2) - 1 \in 0 .. n - 1
  OBVIOUS

LEMMA LowerExists ==
  ASSUME NEW blocks \in Seq(Block), NEW c
  PROVE  \E lower \in [0 .. Len(blocks) -> [Nat -> Nat]] : LowerOf(blocks, c, lower)
<1> DEFINE S == 0 .. Len(blocks)
           T == [Nat -> Nat]
           At(g, n, first) ==
             LET half == n \div 2
             IN  IF n = 0 THEN first
                 ELSE IF blocks[first + half + 1].cksum < c
                        THEN g[n - half - 1][first + half + 1]
                        ELSE g[half][first]
           step == [gn \in [S -> T] \X S |-> [first \in Nat |-> At(gn[1], gn[2], first)]]
           same == [n \in S |-> n]
<1>1. Len(blocks) \in Nat
  BY LenProperties
<1>2. \A n \in S : n # 0 => n \div 2 \in S /\ n - (n \div 2) - 1 \in S
                           /\ n \div 2 < n /\ n - (n \div 2) - 1 < n
  <2> SUFFICES ASSUME NEW n \in S, n # 0
               PROVE  n \div 2 \in S /\ n - (n \div 2) - 1 \in S
                        /\ n \div 2 < n /\ n - (n \div 2) - 1 < n
    OBVIOUS
  <2>1. n \in Nat \ {0} /\ n <= Len(blocks)
    BY <1>1
  <2>2. n \div 2 \in 0 .. n - 1 /\ n - (n \div 2) - 1 \in 0 .. n - 1
    BY <2>1, HalfIsLess
  <2> DEFINE h == n \div 2
  <2> HIDE DEF h
  <2>3. h \in 0 .. n - 1 /\ n - h - 1 \in 0 .. n - 1
    BY <2>2 DEF h
  <2>4. h \in S /\ n - h - 1 \in S /\ h < n /\ n - h - 1 < n
    BY <1>1, <2>1, <2>3
  <2> QED BY <2>4 DEF h
<1>3. \A g \in [S -> T], n \in S, first \in Nat : At(g, n, first) \in Nat
  <2> SUFFICES ASSUME NEW g \in [S -> T], NEW n \in S, NEW first \in Nat
               PROVE  At(g, n, first) \in Nat
    OBVIOUS
  <2>1. \A k \in S, f \in Nat : g[k][f] \in Nat
    OBVIOUS
  <2>2. ASSUME n # 0 PROVE At(g, n, first) \in Nat
    <3> DEFINE half == n \div 2
    <3>1. half \in S /\ n - half - 1 \in S /\ half \in Nat
      BY <1>1, <1>2, <2>2
    <3>2. At(g, n, first) = IF blocks[first + half + 1].cksum < c
                              THEN g[n - half - 1][first + half + 1] ELSE g[half][first]
      BY <2>2
    <3> HIDE DEF half, At, S, T
    <3>3. first + half + 1 \in Nat
      BY <3>1
    <3> QED BY <2>1, <3>1, <3>2, <3>3
  <2> QED BY <2>2
<1>4. \A g \in [S -> T], n \in S : step[<<g, n>>] = [first \in Nat |-> At(g, n, first)]
  <2> HIDE DEF S, T, At
  <2> QED OBVIOUS
<1>5. step \in [[S -> T] \X S -> T]
  <2>1. \A gn \in [S -> T] \X S : gn[1] \in [S -> T] /\ gn[2] \in S
    OBVIOUS
  <2>2. \A g \in [S -> T], n \in S : [first \in Nat |-> At(g, n, first)] \in T
    BY <1>3
  <2> HIDE DEF S, T, At
  <2> QED BY <2>1, <2>2
<1>6. PICK m \in [S -> Nat] : \A n \in S : m[n] = n
  <2>1. same \in [S -> Nat]
    BY <1>1
  <2> QED BY <2>1
<1>7. PICK H \in [[S -> T] \X S -> T] : \A g \in [S -> T], n \in S : H[<<g, n>>] = [first \in Nat |-> At(g, n, first)]
  <2> HIDE DEF S, T, At, step
  <2> QED BY <1>4, <1>5
<1>8. DependsBelow(H, S, T, m)
  <2> SUFFICES ASSUME NEW g \in [S -> T], NEW h \in [S -> T], NEW n \in S,
                      \A y \in S : m[y] < m[n] => g[y] = h[y]
               PROVE  H[<<g, n>>] = H[<<h, n>>]
    <3> HIDE DEF S, T, At, step
    <3> QED BY DEF DependsBelow
  <2>1. n # 0 => g[n \div 2] = h[n \div 2] /\ g[n - (n \div 2) - 1] = h[n - (n \div 2) - 1]
    <3> HIDE DEF S, T, At, step
    <3> QED BY <1>2, <1>6
  <2>2. \A first \in Nat : At(g, n, first) = At(h, n, first)
    BY <2>1
  <2> HIDE DEF S, T, At, step
  <2>3. [first \in Nat |-> At(g, n, first)] = [first \in Nat |-> At(h, n, first)]
    BY <2>2
  <2>4. H[<<g, n>>] = [first \in Nat |-> At(g, n, first)]
    BY <1>7, Zenon
  <2>5. H[<<h, n>>] = [first \in Nat |-> At(h, n, first)]
    BY <1>7, Zenon
  <2> QED BY <2>3, <2>4, <2>5, Zenon
<1>9. [S -> T] # {}
  <2>1. [n \in S |-> [first \in Nat |-> first]] \in [S -> T]
    OBVIOUS
  <2> QED BY <2>1
<1>10. PICK lower \in [S -> T] : Solves(lower, H, S)
  <2> HIDE DEF S, T, At, step
  <2> QED BY <1>8, <1>9, RecursionExists, Zenon
<1>11. lower = [n \in S |-> [first \in Nat |-> At(lower, n, first)]]
  <2> HIDE DEF S, T, At, step
  <2> QED BY <1>7, <1>10 DEF Solves
<1> QED BY <1>10, <1>11 DEF LowerOf

\* Where the search ends is a natural number.
LEMMA LowerTypes ==
  ASSUME NEW blocks \in Seq(Block), NEW c, NEW lower, LowerOf(blocks, c, lower)
  PROVE  lower[Len(blocks)][0] \in Nat
<1> DEFINE S == 0 .. Len(blocks)
           V == [Nat -> Nat]
           P(n) == lower[n] \in V
           At(n, first) ==
             LET half == n \div 2
             IN  IF n = 0 THEN first
                 ELSE IF blocks[first + half + 1].cksum < c
                        THEN lower[n - half - 1][first + half + 1]
                        ELSE lower[half][first]
<1>1. Len(blocks) \in Nat
  BY LenProperties
<1>2. lower = [n \in S |-> [first \in Nat |-> At(n, first)]]
  BY DEF LowerOf
<1>3. ASSUME NEW n \in S, \A k \in S : k < n => P(k)
      PROVE  P(n)
  <2>1. lower[n] = [first \in Nat |-> At(n, first)]
    <3> HIDE DEF At, S
    <3> QED BY <1>2
  <2>2. ASSUME NEW first \in Nat PROVE At(n, first) \in Nat
    <3>1. CASE n = 0
      BY <3>1
    <3>2. CASE n # 0
      <4> DEFINE half == n \div 2
      <4>1. n \in Nat \ {0} /\ n <= Len(blocks)
        BY <1>1, <3>2
      <4>2. half \in 0 .. n - 1 /\ n - half - 1 \in 0 .. n - 1
        BY <4>1, HalfIsLess
      <4> HIDE DEF half
      <4>3. half \in S /\ n - half - 1 \in S /\ half < n /\ n - half - 1 < n /\ half \in Nat
        BY <1>1, <4>1, <4>2
      <4>4. lower[half] \in V /\ lower[n - half - 1] \in V
        BY <1>3, <4>3
      <4>5. first \in Nat /\ first + half + 1 \in Nat
        BY <4>3, <2>2
      <4>6. lower[half][first] \in Nat /\ lower[n - half - 1][first + half + 1] \in Nat
        BY <4>4, <4>5
      <4>7. At(n, first) = IF blocks[first + half + 1].cksum < c
                             THEN lower[n - half - 1][first + half + 1] ELSE lower[half][first]
        BY <3>2 DEF half
      <4> HIDE DEF At
      <4> QED BY <4>6, <4>7
    <3> QED BY <3>1, <3>2
  <2> HIDE DEF At
  <2> QED BY <2>1, <2>2
<1>4. \A n \in S : P(n)
  <2> DEFINE U == {n \in Nat : n <= Len(blocks) => P(n)}
  <2> HIDE DEF P
  <2>1. ASSUME NEW n \in Nat, \A k \in Nat : k < n => k \in U
        PROVE  n \in U
    <3>1. ASSUME n <= Len(blocks) PROVE P(n)
      <4>1. n \in S /\ \A k \in S : k < n => P(k)
        BY <1>1, <2>1, <3>1
      <4> QED BY <1>3, <4>1
    <3> QED BY <3>1
  <2> HIDE DEF U
  <2>2. \A n \in Nat : n \in U
    BY <2>1, NatIsWellOrdered
  <2> QED BY <1>1, <2>2 DEF U
<1> QED BY <1>1, <1>4

\* Whatever the order of the records, what is found is there.
LEMMA BinarySearchIsSound ==
  ASSUME NEW blocks \in Seq(Block), NEW c, BinarySearch(blocks, c)
  PROVE  c \in Contents(blocks)
<1> DEFINE lower == CHOOSE l : LowerOf(blocks, c, l)
           at == lower[Len(blocks)][0] + 1
<1>1. at <= Len(blocks) /\ blocks[at].cksum = c
  BY DEF BinarySearch, LowerOf
<1>2. LowerOf(blocks, c, lower)
  BY LowerExists
<1>3. at \in Nat \ {0}
  <2> HIDE DEF lower
  <2> QED BY <1>2, LowerTypes
<1> HIDE DEF at
<1>4. at \in DOMAIN blocks
  BY <1>1, <1>3, LenProperties
<1> HIDE DEF lower
<1>5. \E k \in DOMAIN blocks : blocks[k].cksum = c
  BY <1>1, <1>4
<1>6. Contents(blocks) = {blocks[k].cksum : k \in DOMAIN blocks}
  BY DEF Contents
<1> QED BY <1>5, <1>6, Zenon

\* p parts the n records from first + 1 on into those less than c and the
\* others.
Parts(blocks, c, p, first, n) ==
  /\ p \in first .. first + n
  /\ \A j \in first + 1 .. p : blocks[j].cksum < c
  /\ \A j \in p + 1 .. first + n : blocks[j].cksum >= c

\* One round of the search: h records before the one it looks at.
LEMMA SearchRound ==
  ASSUME NEW blocks \in Seq(Block), NEW c \in Int, Sorted(blocks),
         NEW n \in Nat, NEW h \in 0 .. n - 1, NEW first \in Nat, first + n <= Len(blocks), NEW p
  PROVE  /\ blocks[first + h + 1].cksum < c /\ Parts(blocks, c, p, first + h + 1, n - h - 1)
              => Parts(blocks, c, p, first, n)
         /\ ~(blocks[first + h + 1].cksum < c) /\ Parts(blocks, c, p, first, h)
              => Parts(blocks, c, p, first, n)
<1> DEFINE m == first + h + 1
           key == [j \in 1 .. Len(blocks) |-> blocks[j].cksum]
<1>1. Len(blocks) \in Nat /\ DOMAIN blocks = 1 .. Len(blocks)
  BY LenProperties
<1>2. key \in [1 .. Len(blocks) -> Int]
  <2>1. \A j \in 1 .. Len(blocks) : blocks[j] \in Block
    OBVIOUS
  <2> QED BY <2>1 DEF Block
<1>3. \A j \in 1 .. Len(blocks) : key[j] = blocks[j].cksum
  OBVIOUS
<1>4. \A j, k \in 1 .. Len(blocks) : j < k => key[j] <= key[k]
  BY <1>1, <1>3 DEF Sorted
<1> HIDE DEF key
<1>5. /\ m \in first + 1 .. first + n /\ m \in 1 .. Len(blocks)
      /\ m + (n - h - 1) = first + n
      /\ \A j \in first + 1 .. first + n : j \in 1 .. Len(blocks)
  BY <1>1
<1> HIDE DEF m
<1>6. ASSUME blocks[m].cksum < c, Parts(blocks, c, p, m, n - h - 1)
      PROVE  Parts(blocks, c, p, first, n)
  <2>1. /\ p \in m .. first + n
        /\ \A j \in m + 1 .. p : blocks[j].cksum < c
        /\ \A j \in p + 1 .. first + n : blocks[j].cksum >= c
    BY <1>5, <1>6 DEF Parts
  <2>2. ASSUME NEW j \in first + 1 .. p PROVE blocks[j].cksum < c
    <3>1. j \in 1 .. Len(blocks) /\ j \in Int /\ m \in Int /\ p \in Int
      BY <1>5, <2>1
    <3>2. CASE j > m
      BY <2>1, <3>1, <3>2
    <3>3. CASE j = m
      BY <1>6, <3>3
    <3>4. CASE j < m
      <4>1. key[j] <= key[m] /\ key[j] \in Int /\ key[m] \in Int
        BY <1>2, <1>4, <1>5, <3>1, <3>4
      <4>2. key[m] < c
        BY <1>3, <1>5, <1>6
      <4> QED BY <1>3, <3>1, <4>1, <4>2
    <3> QED BY <3>1, <3>2, <3>3, <3>4
  <2>3. p \in first .. first + n
    BY <1>5, <2>1
  <2> QED BY <2>1, <2>2, <2>3 DEF Parts
<1>7. ASSUME ~(blocks[m].cksum < c), Parts(blocks, c, p, first, h)
      PROVE  Parts(blocks, c, p, first, n)
  <2>1. /\ p \in first .. first + h
        /\ \A j \in first + 1 .. p : blocks[j].cksum < c
        /\ \A j \in p + 1 .. first + h : blocks[j].cksum >= c
    BY <1>7 DEF Parts
  <2>2. ASSUME NEW j \in p + 1 .. first + n PROVE blocks[j].cksum >= c
    <3>1. j \in 1 .. Len(blocks) /\ j \in Int /\ m \in Int /\ p \in Int /\ m = first + h + 1
      BY <1>5, <2>1 DEF m
    <3>2. CASE j < m
      BY <2>1, <3>1, <3>2
    <3>3. key[m] >= c /\ key[m] \in Int
      BY <1>2, <1>3, <1>5, <1>7
    <3>4. CASE j = m
      BY <1>3, <3>1, <3>3, <3>4
    <3>5. CASE j > m
      <4>1. key[m] <= key[j] /\ key[j] \in Int
        BY <1>2, <1>4, <1>5, <3>1, <3>5
      <4> QED BY <1>3, <3>1, <3>3, <4>1
    <3> QED BY <3>1, <3>2, <3>4, <3>5
  <2>3. p \in first .. first + n
    BY <2>1
  <2> QED BY <2>1, <2>2, <2>3 DEF Parts
<1> QED BY <1>6, <1>7 DEF m

LEMMA LowerParts ==
  ASSUME NEW blocks \in Seq(Block), NEW c \in Int, Sorted(blocks), NEW lower, LowerOf(blocks, c, lower)
  PROVE  Parts(blocks, c, lower[Len(blocks)][0], 0, Len(blocks))
<1> DEFINE S == 0 .. Len(blocks)
           P(n) == \A first \in Nat : first + n <= Len(blocks) => Parts(blocks, c, lower[n][first], first, n)
           At(n, first) ==
             LET half == n \div 2
             IN  IF n = 0 THEN first
                 ELSE IF blocks[first + half + 1].cksum < c
                        THEN lower[n - half - 1][first + half + 1]
                        ELSE lower[half][first]
<1>1. Len(blocks) \in Nat
  BY LenProperties
<1>2. lower = [n \in S |-> [first \in Nat |-> At(n, first)]]
  BY DEF LowerOf
<1>3. ASSUME NEW n \in S, \A k \in S : k < n => P(k), NEW first \in Nat, first + n <= Len(blocks)
      PROVE  Parts(blocks, c, lower[n][first], first, n)
  <2>1. lower[n][first] = At(n, first)
    <3> HIDE DEF At, S
    <3> QED BY <1>2
  <2>2. CASE n = 0
    <3>1. lower[n][first] = first
      BY <2>1, <2>2
    <3> QED BY <2>2, <3>1 DEF Parts
  <2>3. CASE n # 0
    <3> DEFINE half == n \div 2
    <3>1. n \in Nat \ {0} /\ n <= Len(blocks)
      BY <1>1, <2>3
    <3>2. half \in 0 .. n - 1
      BY <3>1, HalfIsLess
    <3>3. At(n, first) = IF blocks[first + half + 1].cksum < c
                           THEN lower[n - half - 1][first + half + 1] ELSE lower[half][first]
      BY <2>3
    <3> HIDE DEF half, At
    <3>4. /\ half \in S /\ n - half - 1 \in S /\ half < n /\ n - half - 1 < n
          /\ first + half + 1 \in Nat /\ first + half <= Len(blocks)
          /\ first + half + 1 + (n - half - 1) <= Len(blocks)
      BY <1>1, <1>3, <3>1, <3>2
    <3>5. CASE blocks[first + half + 1].cksum < c
      <4>1. PICK p : p = lower[n - half - 1][first + half + 1]
        OBVIOUS
      <4>2. P(n - half - 1)
        BY <1>3, <3>4
      <4>3. Parts(blocks, c, p, first + half + 1, n - half - 1)
        BY <3>4, <4>1, <4>2
      <4>4. Parts(blocks, c, p, first, n)
        BY <1>3, <3>1, <3>2, <3>5, <4>3, SearchRound
      <4> QED BY <2>1, <3>3, <3>5, <4>1, <4>4
    <3>6. CASE ~(blocks[first + half + 1].cksum < c)
      <4>1. PICK p : p = lower[half][first]
        OBVIOUS
      <4>2. P(half)
        BY <1>3, <3>4
      <4>3. Parts(blocks, c, p, first, half)
        BY <3>4, <4>1, <4>2
      <4>4. Parts(blocks, c, p, first, n)
        BY <1>3, <3>1, <3>2, <3>6, <4>3, SearchRound
      <4> QED BY <2>1, <3>3, <3>6, <4>1, <4>4
    <3> QED BY <3>5, <3>6
  <2> QED BY <2>2, <2>3
<1>4. \A n \in S : P(n)
  <2> DEFINE U == {n \in Nat : n <= Len(blocks) => P(n)}
  <2>1. ASSUME NEW n \in Nat, \A k \in Nat : k < n => k \in U
        PROVE  n \in U
    <3>1. ASSUME n <= Len(blocks) PROVE P(n)
      <4> HIDE DEF P
      <4>1. n \in S /\ \A k \in S : k < n => P(k)
        BY <1>1, <2>1, <3>1
      <4> USE DEF P
      <4> QED BY <1>3, <4>1
    <3> HIDE DEF P
    <3> QED BY <3>1
  <2> HIDE DEF U, P
  <2>2. \A n \in Nat : n \in U
    BY <2>1, NatIsWellOrdered
  <2> QED BY <1>1, <2>2 DEF U
<1>5. Len(blocks) \in S /\ 0 \in Nat /\ 0 + Len(blocks) <= Len(blocks)
  BY <1>1
<1> QED BY <1>4, <1>5

\* In a sorted vector, what is there is found.
LEMMA BinarySearchIsComplete ==
  ASSUME NEW blocks \in Seq(Block), Sorted(blocks), NEW c \in Int, c \in Contents(blocks)
  PROVE  BinarySearch(blocks, c)
<1> DEFINE lower == CHOOSE l : LowerOf(blocks, c, l)
<1>1. LowerOf(blocks, c, lower)
  BY LowerExists
<1>2. BinarySearch(blocks, c) =
        (lower[Len(blocks)][0] + 1 <= Len(blocks) /\ blocks[lower[Len(blocks)][0] + 1].cksum = c)
  BY DEF BinarySearch, LowerOf
<1> HIDE DEF lower
<1>3. PICK p : p = lower[Len(blocks)][0] /\ Parts(blocks, c, p, 0, Len(blocks))
  BY <1>1, LowerParts
<1>4. PICK j \in 1 .. Len(blocks) : blocks[j].cksum = c
  BY LenProperties DEF Contents
<1>5. Len(blocks) \in Nat /\ p \in 0 .. Len(blocks)
  BY <1>3, LenProperties DEF Parts
<1>6. \A k \in 1 .. p : blocks[k].cksum < c
  BY <1>3 DEF Parts
<1>7. ~(j \in 1 .. p)
  BY <1>4, <1>6
<1>8. p + 1 <= j /\ p + 1 \in 1 .. Len(blocks)
  BY <1>5, <1>7
<1>9. blocks[p + 1].cksum >= c
  BY <1>3, <1>5, <1>8 DEF Parts
<1>10. PICK x \in Int, y \in Int : x = blocks[p + 1].cksum /\ y = blocks[j].cksum /\ x <= y
  <2>1. blocks[p + 1] \in Block /\ blocks[j] \in Block
    BY <1>8
  <2>2. blocks[p + 1].cksum \in Int /\ blocks[j].cksum \in Int
    BY <2>1 DEF Block
  <2>3. p + 1 < j => blocks[p + 1].cksum <= blocks[j].cksum
    BY <1>8, LenProperties DEF Sorted
  <2>4. p + 1 = j \/ p + 1 < j
    BY <1>5, <1>8
  <2> QED BY <2>2, <2>3, <2>4
<1>11. blocks[p + 1].cksum = c
  BY <1>4, <1>9, <1>10
<1>12. p + 1 <= Len(blocks)
  BY <1>8, LenProperties
<1> QED BY <1>2, <1>3, <1>11, <1>12, Zenon

-----------------------------------------------------------------------------
(* The tags *)

LEMMA ContentsOfConcat ==
  ASSUME NEW s \in Seq(Block), NEW t \in Seq(Block)
  PROVE  Contents(s \o t) = Contents(s) \union Contents(t)
<1>1. /\ s \o t \in Seq(Block) /\ Len(s \o t) = Len(s) + Len(t)
      /\ \A k \in 1 .. Len(s) + Len(t) : (s \o t)[k] = IF k <= Len(s) THEN s[k] ELSE t[k - Len(s)]
  BY ConcatProperties
<1>2. Len(s) \in Nat /\ Len(t) \in Nat
  BY LenProperties
<1>3. /\ \A k \in 1 .. Len(s) : k \in 1 .. Len(s) + Len(t) /\ (s \o t)[k] = s[k]
      /\ \A k \in 1 .. Len(t) : k + Len(s) \in 1 .. Len(s) + Len(t) /\ (s \o t)[k + Len(s)] = t[k]
  BY <1>1, <1>2
<1>4. \A k \in 1 .. Len(s) + Len(t) :
        \/ k \in 1 .. Len(s)
        \/ k - Len(s) \in 1 .. Len(t) /\ (s \o t)[k] = t[k - Len(s)]
  BY <1>1, <1>2
<1>5. DOMAIN s = 1 .. Len(s) /\ DOMAIN t = 1 .. Len(t) /\ DOMAIN (s \o t) = 1 .. Len(s) + Len(t)
  BY <1>1, LenProperties
<1> DEFINE st == s \o t
<1> HIDE DEF st
<1>6. Contents(st) \subseteq Contents(s) \union Contents(t)
  BY <1>4, <1>5 DEF Contents, st
<1>7. Contents(s) \subseteq Contents(st)
  <2> SUFFICES ASSUME NEW k \in 1 .. Len(s) PROVE s[k].cksum \in Contents(st)
    BY <1>5 DEF Contents
  <2>1. k \in DOMAIN st /\ st[k] = s[k]
    BY <1>3, <1>5 DEF st
  <2> QED BY <2>1 DEF Contents
<1>8. Contents(t) \subseteq Contents(st)
  <2> SUFFICES ASSUME NEW k \in 1 .. Len(t) PROVE t[k].cksum \in Contents(st)
    BY <1>5 DEF Contents
  <2>1. k + Len(s) \in DOMAIN st /\ st[k + Len(s)] = t[k]
    BY <1>3, <1>5 DEF st
  <2> QED BY <2>1 DEF Contents
<1> QED BY <1>6, <1>7, <1>8 DEF st

\* Nothing is in a segment that is not in the trace.
LEMMA ContentsOfNonEmpty ==
  ASSUME NEW s \in Seq(Block)
  PROVE  Contents(NonEmpty(s)) \subseteq Contents(s)
<1> DEFINE P == {u \in Seq(Block) : Contents(NonEmpty(u)) \subseteq Contents(u)}
<1>1. <<>> \in P
  BY NonEmptyOfAppend, EmptySeq
<1>2. ASSUME NEW u \in Seq(Block), NEW b \in Block, u \in P PROVE Append(u, b) \in P
  <2>1. NonEmpty(u) \in Seq(Block) /\ Append(u, b) \in Seq(Block) /\ <<b>> \in Seq(Block)
    BY NonEmptyOfAppend
  <2>2. Append(u, b) = u \o <<b>> /\ Append(NonEmpty(u), b) = NonEmpty(u) \o <<b>>
    BY <2>1, AppendIsConcat
  <2>3. /\ Contents(Append(u, b)) = Contents(u) \union Contents(<<b>>)
        /\ Contents(Append(NonEmpty(u), b)) = Contents(NonEmpty(u)) \union Contents(<<b>>)
    BY <2>1, <2>2, ContentsOfConcat
  <2>4. NonEmpty(Append(u, b)) \in {NonEmpty(u), Append(NonEmpty(u), b)}
    BY NonEmptyOfAppend
  <2> QED BY <1>2, <2>1, <2>3, <2>4
<1>3. \A u \in Seq(Block) : u \in P
  <2> HIDE DEF P
  <2> QED BY <1>1, <1>2, SeqIsInductive
<1> QED BY <1>3

LEMMA NextSegmentContents ==
  ASSUME NEW t \in Seq(Block)
  PROVE  /\ Contents(SegmentBlocks(t)) \subseteq Contents(t)
         /\ Contents(AfterSegment(t)) \subseteq Contents(t)
         /\ \A k \in 1 .. Len(SegmentBlocks(t)) : SegmentBlocks(t)[k].file_id = {}
<1> DEFINE seg == SubSeq(t, 1, SegmentLen(t))
<1>1. seg \in Seq(Block) /\ AfterSegment(t) \in Seq(Block) /\ t = seg \o AfterSegment(t)
  BY SegmentAndAfter
<1>2. SegmentBlocks(t) = Untagged(NonEmpty(seg))
  BY DEF SegmentBlocks
<1> HIDE DEF seg
<1>3. NonEmpty(seg) \in Seq(Block) /\ Contents(NonEmpty(seg)) \subseteq Contents(seg)
  BY <1>1, NonEmptyOfAppend, ContentsOfNonEmpty
<1>4. Contents(t) = Contents(seg) \union Contents(AfterSegment(t))
  BY <1>1, ContentsOfConcat
<1>5. /\ SegmentBlocks(t) \in Seq(Block) /\ Len(SegmentBlocks(t)) = Len(NonEmpty(seg))
      /\ \A k \in 1 .. Len(NonEmpty(seg)) :
           SegmentBlocks(t)[k] = [NonEmpty(seg)[k] EXCEPT !.file_id = {}]
  BY <1>2, <1>3, UntaggedIs
<1>6. \A k \in 1 .. Len(NonEmpty(seg)) :
        SegmentBlocks(t)[k].file_id = {} /\ SegmentBlocks(t)[k].cksum = NonEmpty(seg)[k].cksum
  <2> SUFFICES ASSUME NEW k \in 1 .. Len(NonEmpty(seg))
               PROVE  SegmentBlocks(t)[k].file_id = {} /\ SegmentBlocks(t)[k].cksum = NonEmpty(seg)[k].cksum
    OBVIOUS
  <2>1. PICK b \in Block : b = NonEmpty(seg)[k]
    BY <1>3
  <2>2. PICK r : r = SegmentBlocks(t)[k]
    OBVIOUS
  <2>3. r = [b EXCEPT !.file_id = {}]
    BY <1>5, <2>1, <2>2
  <2>4. r.file_id = {} /\ r.cksum = b.cksum
    BY <2>3, TagsAreSets, Retagged
  <2> QED BY <2>1, <2>2, <2>4
<1>7. Contents(SegmentBlocks(t)) = Contents(NonEmpty(seg))
  BY <1>3, <1>5, <1>6 DEF Contents
<1> QED BY <1>3, <1>4, <1>5, <1>6, <1>7

\* The tags of a block claim no more than what is in the parent and the CDS.
TrueOf(blk, known, common) ==
  /\ 0 \in blk.file_id => blk.cksum \in known
  /\ 1 \in blk.file_id => blk.cksum \in common

AllTrue(blocks, known, common) == \A k \in 1 .. Len(blocks) : TrueOf(blocks[k], known, common)

TagInv ==
  /\ SnapshotTypes
  /\ AllTrue(output, Contents(ParentTrace), Contents(cds))
  /\ AllTrue(current_seg, Contents(ParentTrace), Contents(cds))
  /\ Contents(parent_seg) \union Contents(parent_input) \subseteq Contents(ParentTrace)

LEMMA AllTrueOfConcat ==
  ASSUME NEW s \in Seq(Block), NEW t \in Seq(Block), NEW known, NEW common,
         AllTrue(s, known, common), AllTrue(t, known, common)
  PROVE  AllTrue(s \o t, known, common)
<1>1. /\ s \o t \in Seq(Block) /\ Len(s \o t) = Len(s) + Len(t)
      /\ \A k \in 1 .. Len(s) + Len(t) : (s \o t)[k] = IF k <= Len(s) THEN s[k] ELSE t[k - Len(s)]
  BY ConcatProperties
<1>2. \A k \in 1 .. Len(s) + Len(t) :
        \/ k \in 1 .. Len(s) /\ (s \o t)[k] = s[k]
        \/ k - Len(s) \in 1 .. Len(t) /\ (s \o t)[k] = t[k - Len(s)]
  BY <1>1, LenProperties
<1> QED BY <1>1, <1>2 DEF AllTrue

LEMMA TrueOfTagged ==
  ASSUME NEW b \in Block, NEW bits \in SUBSET Nat, NEW known, NEW common, TrueOf(b, known, common),
         0 \in bits => b.cksum \in known, 1 \in bits => b.cksum \in common
  PROVE  TrueOf(Tagged(b, bits), known, common)
<1>1. b.file_id \union bits \in SUBSET Nat
  BY TaggedIsRetagged
<1>2. PICK r : r = Tagged(b, bits)
  OBVIOUS
<1>3. r = [b EXCEPT !.file_id = b.file_id \union bits]
  BY <1>2, TaggedIsRetagged
<1>4. r.file_id = b.file_id \union bits /\ r.cksum = b.cksum
  BY <1>1, <1>3, Retagged
<1> QED BY <1>2, <1>4 DEF TrueOf

\* Segments of the same checksum have the same contents.
LEMMA SameCksums ==
  ASSUME NEW s \in Seq(Block), NEW t \in Seq(Block), SegmentCksum(s) = SegmentCksum(t)
  PROVE  \A k \in 1 .. Len(s) : s[k].cksum \in Contents(t)
<1>1. DOMAIN s = 1 .. Len(s) /\ DOMAIN s = DOMAIN t
  BY DEF SegmentCksum
<1>2. \A k \in DOMAIN s : s[k].cksum = t[k].cksum
  <2>1. \A k \in DOMAIN s : SegmentCksum(s)[k] = s[k].cksum
    BY DEF SegmentCksum
  <2>2. \A k \in DOMAIN t : SegmentCksum(t)[k] = t[k].cksum
    BY DEF SegmentCksum
  <2> QED BY <1>1, <2>1, <2>2
<1> QED BY <1>1, <1>2 DEF Contents

LEMMA TagsStayTrue ==
  ASSUME TagInv, TagParent \/ TagDirty \/ SearchCds \/ WithoutParent
  PROVE  AllTrue(current_seg', Contents(ParentTrace), Contents(cds))
<1> DEFINE P == Contents(ParentTrace)
           C == Contents(cds)
<1>1. /\ current_seg \in Seq(Block) /\ parent_seg \in Seq(Block) /\ cds \in Seq(Block)
      /\ i \in Nat \ {0} /\ Contents(parent_seg) \subseteq P
      /\ \A k \in 1 .. Len(current_seg) : current_seg[k] \in Block /\ TrueOf(current_seg[k], P, C)
  BY DEF TagInv, SnapshotTypes, AllTrue
<1>2. RetagStep
  BY TagsRetag DEF TagInv
<1>3. current_seg' \in Seq(Block) /\ Len(current_seg') = Len(current_seg)
  BY <1>1, <1>2, RetaggedSeq DEF RetagStep
<1> HIDE DEF P, C
<1>4. CASE TagParent
  <2>1. current_seg' = [k \in 1 .. Len(current_seg) |-> Tagged(current_seg[k], IN_PARENT)]
    BY <1>1, <1>4 DEF TagParent
  <2>2. \A k \in 1 .. Len(current_seg) : current_seg[k].cksum \in P
    BY <1>1, <1>4, SameCksums DEF TagParent, SegmentUnchanged
  <2>3. 1 \notin IN_PARENT /\ IN_PARENT \in SUBSET Nat
    BY DEF IN_PARENT
  <2>4. \A k \in 1 .. Len(current_seg) : TrueOf(Tagged(current_seg[k], IN_PARENT), P, C)
    BY <1>1, <2>2, <2>3, TrueOfTagged
  <2> QED BY <1>3, <2>1, <2>4 DEF AllTrue, P, C
<1>5. CASE TagDirty
  <2>1. current_seg' = [k \in 1 .. Len(current_seg) |->
                          IF InParentSeg(current_seg[k]) THEN Tagged(current_seg[k], IN_DIRTY_SEG)
                                                         ELSE current_seg[k]]
    BY <1>1, <1>5 DEF TagDirty
  <2>2. 1 \notin IN_DIRTY_SEG /\ IN_DIRTY_SEG \in SUBSET Nat
    BY DEF IN_DIRTY_SEG
  <2>3. \A k \in 1 .. Len(current_seg) :
          InParentSeg(current_seg[k]) => TrueOf(Tagged(current_seg[k], IN_DIRTY_SEG), P, C)
    BY <1>1, <2>2, TrueOfTagged DEF InParentSeg
  <2> QED BY <1>1, <1>3, <2>1, <2>3 DEF AllTrue, P, C
<1>6. CASE SearchCds
  <2>1. i \in 1 .. Len(current_seg)
    BY <1>1, <1>6, LenProperties DEF SearchCds, TagNext
  <2>2. PICK bits : bits = IF InCds(current_seg[i]) THEN IN_CDS ELSE {}
    OBVIOUS
  <2>3. bits \in SUBSET Nat /\ 0 \notin bits /\ (1 \in bits => InCds(current_seg[i]))
    BY <2>2 DEF IN_CDS
  <2>4. current_seg' = [current_seg EXCEPT ![i] = Tagged(current_seg[i], bits)]
    BY <1>6, <2>1, <2>2 DEF SearchCds, TagNext
  <2>5. 1 \in bits => current_seg[i].cksum \in C
    BY <1>1, <2>3, BinarySearchIsSound DEF InCds, C
  <2>6. TrueOf(Tagged(current_seg[i], bits), P, C)
    BY <1>1, <2>1, <2>3, <2>5, TrueOfTagged
  <2>7. \A k \in 1 .. Len(current_seg) :
          current_seg'[k] = IF k = i THEN Tagged(current_seg[i], bits) ELSE current_seg[k]
    BY <1>1, <2>1, <2>4
  <2> QED BY <1>1, <1>3, <2>6, <2>7 DEF AllTrue, P, C
<1>7. CASE WithoutParent
  BY <1>7 DEF WithoutParent, TagInv
<1> QED BY <1>4, <1>5, <1>6, <1>7


LEMMA TagStep ==
  ASSUME TagInv, [Next]_vars
  PROVE  TagInv'
<1>1. SnapshotTypes /\ SnapshotTypes'
  BY TypesStep DEF TagInv
<1>2. \A known, common : AllTrue(<<>>, known, common)
  BY EmptySeq DEF AllTrue
<1>3. Contents(<<>>) = {}
  BY EmptySeq DEF Contents
<1>4. CASE Open
  <2>1. /\ output' = <<>> /\ current_seg' = <<>> /\ parent_seg' = <<>>
        /\ parent_input' = IF parent' = NoParent THEN <<>> ELSE parent'
    BY <1>4 DEF Open
  <2>2. parent_input' = ParentTrace'
    BY <2>1 DEF ParentTrace
  <2> QED BY <1>1, <1>2, <1>3, <2>1, <2>2 DEF TagInv
<1>5. CASE LoadSegments
  <2>1. /\ current_seg' = SegmentBlocks(current_input) /\ output' = output
        /\ \/ parent_seg' = SegmentBlocks(parent_input) /\ parent_input' = AfterSegment(parent_input)
           \/ parent_seg' = parent_seg /\ parent_input' = parent_input
        /\ parent' = parent /\ cds' = cds
    BY <1>5 DEF LoadSegments, NextParentSeg, argVars
  <2>2. AllTrue(current_seg', Contents(ParentTrace), Contents(cds))
    BY <1>1, <2>1, NextSegmentContents DEF SnapshotTypes, AllTrue, TrueOf
  <2>3. Contents(parent_seg') \union Contents(parent_input')
          \subseteq Contents(parent_seg) \union Contents(parent_input)
    BY <1>1, <2>1, NextSegmentContents DEF SnapshotTypes
  <2>4. ParentTrace' = ParentTrace
    BY <2>1 DEF ParentTrace
  <2> QED BY <1>1, <2>1, <2>2, <2>3, <2>4 DEF TagInv
<1>6. CASE TagParent \/ TagDirty \/ SearchCds \/ WithoutParent
  <2>1. RetagStep
    BY <1>1, <1>6, TagsRetag
  <2>2. /\ parent' = parent /\ cds' = cds /\ output' = output
        /\ parent_seg' = parent_seg /\ parent_input' = parent_input
    BY <2>1 DEF RetagStep, inVars, argVars
  <2>3. AllTrue(current_seg', Contents(ParentTrace), Contents(cds))
    BY <1>6, TagsStayTrue
  <2> QED BY <1>1, <2>2, <2>3 DEF TagInv, ParentTrace
<1>7. CASE WriteSegment
  <2>1. /\ output' = output \o current_seg /\ current_seg' = current_seg
        /\ parent' = parent /\ cds' = cds /\ parent_seg' = parent_seg /\ parent_input' = parent_input
    BY <1>7 DEF WriteSegment, inVars, argVars
  <2>2. AllTrue(output', Contents(ParentTrace), Contents(cds))
    BY <1>1, <2>1, AllTrueOfConcat DEF TagInv, SnapshotTypes
  <2> QED BY <1>1, <2>1, <2>2 DEF TagInv, ParentTrace
<1>8. CASE EndOfSnapshot("close")
  <2>1. /\ output' = output /\ current_seg' = <<>>
        /\ parent' = parent /\ cds' = cds /\ parent_seg' = parent_seg /\ parent_input' = parent_input
    BY <1>8 DEF EndOfSnapshot, argVars
  <2> QED BY <1>1, <1>2, <2>1 DEF TagInv, ParentTrace
<1>9. CASE Kill
  <2>1. /\ current_seg' = current_seg
        /\ parent' = parent /\ cds' = cds /\ parent_seg' = parent_seg /\ parent_input' = parent_input
    BY <1>9 DEF Kill, inVars, argVars
  <2>2. AllTrue(output', Contents(ParentTrace), Contents(cds))
    <3>1. PICK n \in 0 .. Len(output) : output' = SubSeq(output, 1, n)
      BY <1>9 DEF Kill, Prefixes
    <3>2. output \in Seq(Block) /\ AllTrue(output, Contents(ParentTrace), Contents(cds))
      BY DEF TagInv, SnapshotTypes
    <3>3. Len(output') = n /\ \A k \in 1 .. n : output'[k] = output[k] /\ k \in 1 .. Len(output)
      BY <3>1, <3>2
    <3> QED BY <3>2, <3>3 DEF AllTrue
  <2> QED BY <1>1, <2>1, <2>2 DEF TagInv, ParentTrace
<1>10. CASE Close \/ UNCHANGED vars
  <2>1. UNCHANGED <<inVars, output, current_seg, parent_seg>>
    BY <1>10 DEF Close, vars, snapshotVars
  <2> QED BY <1>1, <2>1 DEF TagInv, ParentTrace, inVars, argVars
<1> QED BY <1>4, <1>5, <1>6, <1>7, <1>8, <1>9, <1>10 DEF Next

\* For any snapshot, parent and CDS, also one that is not sorted, and after
\* any number of runs and kills: a block dedup_cds_sim.cpp has written as
\* found in the parent is in the parent, and one written as found in the CDS
\* is in the CDS.
THEOREM DuplicatesAreReal == Spec => []NoFalseDuplicates
<1>1. Init => TagInv
  <2>1. Len(<<>>) = 0 /\ Contents(<<>>) = {}
    BY EmptySeq DEF Contents
  <2> QED BY <2>1, TypesInit DEF Init, TagInv, AllTrue
<1>2. TagInv /\ [Next]_vars => TagInv'
  BY TagStep
<1>3. TagInv => NoFalseDuplicates
  <2>1. SnapshotTypes => DOMAIN output = 1 .. Len(output)
    BY DEF SnapshotTypes
  <2> QED BY <2>1 DEF TagInv, NoFalseDuplicates, AllTrue, TrueOf
<1> QED BY <1>1, <1>2, <1>3, PTL DEF Spec

-----------------------------------------------------------------------------
(* The report *)

\* The fold of OfClass, record by record.
LEMMA OfClassRows ==
  ASSUME NEW class, NEW s \in Seq(Block)
  PROVE  \E row \in [0 .. Len(s) -> Seq(Block)] :
           /\ row[0] = <<>>
           /\ \A k \in 1 .. Len(s) :
                row[k] = IF ClassOf(s[k].file_id) = class THEN Append(row[k - 1], s[k]) ELSE row[k - 1]
           /\ OfClass(s, class) = row[Len(s)]
<1> DEFINE n == Len(s)
           Kept(a, k) == IF ClassOf(s[k].file_id) = class THEN Append(a, s[k]) ELSE a
           it == CHOOSE g : g = [t \in SUBSET DOMAIN s |->
                                   IF t = {} THEN <<>> ELSE Kept(g[t \ {Max(t)}], Max(t))]
<1>1. n \in Nat /\ DOMAIN s = 1 .. n /\ \A k \in 1 .. n : s[k] \in Block
  OBVIOUS
<1>2. OfClass(s, class) = it[DOMAIN s]
  BY DEF OfClass, FoldLeft, MapThenFoldSet
<1>3. \A a \in Seq(Block), k \in 1 .. n : Kept(a, k) \in Seq(Block)
  BY <1>1
<1>4. PICK op \in [Seq(Block) \X (1 .. n) -> Seq(Block)] :
        \A a \in Seq(Block), k \in 1 .. n : op[<<a, k>>] = Kept(a, k)
  <2> DEFINE f == [p \in Seq(Block) \X (1 .. n) |-> Kept(p[1], p[2])]
  <2> HIDE DEF Kept, n
  <2>1. f \in [Seq(Block) \X (1 .. n) -> Seq(Block)]
    BY <1>3
  <2>2. \A a \in Seq(Block), k \in 1 .. n : f[<<a, k>>] = Kept(a, k)
    OBVIOUS
  <2> HIDE DEF f
  <2> QED BY <2>1, <2>2
<1>5. PICK h \in [SUBSET (1 .. n) -> Seq(Block)] : IsFold(h, <<>>, op, n)
  <2>1. <<>> \in Seq(Block)
    OBVIOUS
  <2> HIDE DEF n
  <2> QED BY <1>1, <2>1, FoldExists, Zenon
<1>6. h = [t \in SUBSET DOMAIN s |-> IF t = {} THEN <<>> ELSE Kept(h[t \ {Max(t)}], Max(t))]
  <2>1. ASSUME NEW t \in SUBSET (1 .. n), t # {}
        PROVE  h[t] = Kept(h[t \ {Max(t)}], Max(t))
    <3>1. Max(t) \in 1 .. n
      BY <1>1, <2>1, MaxOfSubset
    <3>2. h[t \ {Max(t)}] \in Seq(Block)
      OBVIOUS
    <3> HIDE DEF n, Kept
    <3> QED BY <1>4, <1>5, <2>1, <3>1, <3>2 DEF IsFold
  <2> HIDE DEF n, Kept
  <2> QED BY <1>1, <1>5, <2>1 DEF IsFold
<1>7. it = [t \in SUBSET DOMAIN s |-> IF t = {} THEN <<>> ELSE Kept(it[t \ {Max(t)}], Max(t))]
  <2> HIDE DEF Kept
  <2> QED BY <1>6, Zenon
<1> HIDE DEF it, Kept
<1>8. it[{}] = <<>>
  BY <1>1, <1>7
<1>9. \A k \in 1 .. n : it[1 .. k] = Kept(it[1 .. (k - 1)], k)
  <2> SUFFICES ASSUME NEW k \in 1 .. n PROVE it[1 .. k] = Kept(it[1 .. (k - 1)], k)
    OBVIOUS
  <2>1. (1 .. k) \in SUBSET DOMAIN s /\ 1 .. k # {}
    <3>1. \A j \in 1 .. k : j \in 1 .. n
      BY <1>1
    <3>2. k \in 1 .. k
      BY <1>1
    <3> HIDE DEF n
    <3> QED BY <1>1, <3>1, <3>2
  <2>2. Max(1 .. k) = k /\ (1 .. k) \ {Max(1 .. k)} = 1 .. (k - 1)
    BY <1>1, MaxOfUpTo
  <2>3. it[1 .. k] = Kept(it[(1 .. k) \ {Max(1 .. k)}], Max(1 .. k))
    BY <1>7, <2>1
  <2> QED BY <2>2, <2>3
<1> DEFINE Typed == {k \in 0 .. n : it[1 .. k] \in Seq(Block)}
<1>10. \A k \in 0 .. n : k \in Typed
  <2>1. 0 \in Typed
    <3>1. 1 .. 0 = {} /\ 0 \in 0 .. n
      BY <1>1
    <3> HIDE DEF n
    <3>2. it[1 .. 0] = <<>>
      BY <1>8, <3>1, Zenon
    <3>3. it[1 .. 0] \in Seq(Block)
      BY <3>2, EmptySeq
    <3> QED BY <3>1, <3>3
  <2>2. ASSUME NEW k \in 0 .. n - 1, k \in Typed PROVE k + 1 \in Typed
    <3>1. k + 1 \in 1 .. n /\ (k + 1) - 1 = k
      BY <1>1
    <3> QED BY <1>3, <1>9, <2>2, <3>1
  <2> HIDE DEF Typed
  <2> QED BY <1>1, <2>1, <2>2, UpToIsInductive
<1> DEFINE row == [k \in 0 .. n |-> it[1 .. k]]
<1>11. row \in [0 .. n -> Seq(Block)] /\ row[0] = <<>> /\ row[n] = it[DOMAIN s]
  BY <1>1, <1>8, <1>10
<1>12. \A k \in 1 .. n : row[k] = Kept(row[k - 1], k)
  BY <1>1, <1>9
<1> HIDE DEF row
<1> QED BY <1>2, <1>11, <1>12 DEF Kept

LEMMA OfClassOfAppend ==
  ASSUME NEW class
  PROVE  /\ OfClass(<<>>, class) = <<>>
         /\ \A s \in Seq(Block) : OfClass(s, class) \in Seq(Block)
         /\ \A s \in Seq(Block), b \in Block :
              OfClass(Append(s, b), class) =
                IF ClassOf(b.file_id) = class THEN Append(OfClass(s, class), b) ELSE OfClass(s, class)
<1>1. OfClass(<<>>, class) = <<>>
  <2>1. <<>> \in Seq(Block) /\ Len(<<>>) = 0
    BY EmptySeq
  <2>2. PICK none \in Seq(Block) : none = <<>> /\ Len(none) = 0
    BY <2>1
  <2>3. PICK row : row[0] = <<>> /\ OfClass(none, class) = row[Len(none)]
    BY OfClassRows
  <2> QED BY <2>2, <2>3
<1>2. \A s \in Seq(Block) : OfClass(s, class) \in Seq(Block)
  <2> SUFFICES ASSUME NEW s \in Seq(Block) PROVE OfClass(s, class) \in Seq(Block)
    OBVIOUS
  <2>1. PICK row \in [0 .. Len(s) -> Seq(Block)] : OfClass(s, class) = row[Len(s)]
    BY OfClassRows
  <2>2. Len(s) \in 0 .. Len(s)
    BY LenProperties
  <2> QED BY <2>1, <2>2
<1>3. ASSUME NEW s \in Seq(Block), NEW b \in Block
      PROVE  OfClass(Append(s, b), class) =
               IF ClassOf(b.file_id) = class THEN Append(OfClass(s, class), b) ELSE OfClass(s, class)
  <2> DEFINE r == Append(s, b)
             n == Len(s)
  <2>1. /\ r \in Seq(Block) /\ Len(r) = n + 1 /\ n \in Nat /\ r[n + 1] = b
        /\ \A k \in 1 .. n : r[k] = s[k]
    OBVIOUS
  <2>2. PICK f :
          /\ f[0] = <<>> /\ OfClass(s, class) = f[n]
          /\ \A k \in 1 .. n : f[k] = IF ClassOf(s[k].file_id) = class THEN Append(f[k - 1], s[k]) ELSE f[k - 1]
    BY OfClassRows
  <2> HIDE DEF r, n
  <2>3. PICK g :
          /\ g[0] = <<>> /\ OfClass(r, class) = g[Len(r)]
          /\ \A k \in 1 .. Len(r) : g[k] = IF ClassOf(r[k].file_id) = class THEN Append(g[k - 1], r[k]) ELSE g[k - 1]
    BY <2>1, OfClassRows
  <2>4. f[n] = g[n]
    <3>1. \A k \in 1 .. n : f[k - 1] = g[k - 1] => f[k] = g[k]
      <4>1. \A k \in 1 .. n : k \in 1 .. n + 1
        BY <2>1
      <4> QED BY <2>1, <2>2, <2>3, <4>1
    <3>2. n \in Nat /\ f[0] = g[0]
      BY <2>1, <2>2, <2>3
    <3> QED BY <3>1, <3>2, RowsAgree, Zenon
  <2>5. n + 1 \in 1 .. n + 1 /\ (n + 1) - 1 = n
    BY <2>1
  <2>6. g[n + 1] = IF ClassOf(b.file_id) = class THEN Append(g[n], b) ELSE g[n]
    BY <2>1, <2>3, <2>5
  <2>7. OfClass(r, class) = g[n + 1]
    BY <2>1, <2>3
  <2> QED BY <2>2, <2>4, <2>6, <2>7 DEF r
<1> QED BY <1>1, <1>2, <1>3


LEMMA ClassOfTypes == \A tag : ClassOf(tag) \in Classes
  BY DEF ClassOf, Classes

\* The sum of the classes grows by what one of them grows by.
LEMMA OneClassGrows ==
  ASSUME NEW f, NEW g, NEW n \in Nat, NEW class \in Classes,
         \A c \in Classes : f[c] \in Nat /\ g[c] = f[c] + (IF class = c THEN n ELSE 0)
  PROVE  g["new"] + g["L1"] + g["L2"] + g["L3"] + g["other"]
           = f["new"] + f["L1"] + f["L2"] + f["L3"] + f["other"] + n
<1>1. \A c \in {"new", "L1", "L2", "L3", "other"} :
        f[c] \in Nat /\ g[c] = f[c] + (IF class = c THEN n ELSE 0)
  BY DEF Classes
<1>2. CASE class = "new"
  BY <1>1, <1>2
<1>3. CASE class = "L1"
  BY <1>1, <1>3
<1>4. CASE class = "L2"
  BY <1>1, <1>4
<1>5. CASE class = "L3"
  BY <1>1, <1>5
<1>6. CASE class = "other"
  BY <1>1, <1>6
<1> QED BY <1>2, <1>3, <1>4, <1>5, <1>6 DEF Classes

\* Every block is counted in one class, with its size.
LEMMA ClassesAddUp ==
  ASSUME NEW s \in Seq(Block)
  PROVE  /\ Total(LAMBDA c : Report(s)[c].blocks) = Len(s)
         /\ Total(LAMBDA c : Report(s)[c].data) = TotalSize(s)
<1> DEFINE Blocks(u, c) == Len(OfClass(u, c))
           Data(u, c) == TotalSize(OfClass(u, c))
           Sum(x, y, z, v, w) == x + y + z + v + w
           P == {u \in Seq(Block) :
                   /\ Sum(Blocks(u, "new"), Blocks(u, "L1"), Blocks(u, "L2"), Blocks(u, "L3"), Blocks(u, "other"))
                        = Len(u)
                   /\ Sum(Data(u, "new"), Data(u, "L1"), Data(u, "L2"), Data(u, "L3"), Data(u, "other"))
                        = TotalSize(u)}
<1>1. <<>> \in P
  <2>1. \A c : Blocks(<<>>, c) = 0 /\ Data(<<>>, c) = 0
    BY OfClassOfAppend, TotalSizeOfAppend, EmptySeq
  <2>2. <<>> \in Seq(Block) /\ Len(<<>>) = 0 /\ TotalSize(<<>>) = 0
    BY EmptySeq, TotalSizeOfAppend
  <2> QED BY <2>1, <2>2
<1>2. ASSUME NEW u \in Seq(Block), NEW b \in Block, u \in P PROVE Append(u, b) \in P
  <2>1. /\ Append(u, b) \in Seq(Block) /\ Len(Append(u, b)) = Len(u) + 1 /\ Len(u) \in Nat
        /\ TotalSize(Append(u, b)) = TotalSize(u) + b.size /\ b.size \in Nat /\ TotalSize(u) \in Nat
    <3>1. Append(u, b) \in Seq(Block) /\ Len(Append(u, b)) = Len(u) + 1 /\ Len(u) \in Nat
      OBVIOUS
    <3>2. b.size \in Nat
      BY DEF Block
    <3>3. TotalSize(Append(u, b)) = TotalSize(u) + b.size /\ TotalSize(u) \in Nat
      BY TotalSizeOfAppend
    <3> QED BY <3>1, <3>2, <3>3
  <2>2. ASSUME NEW c
        PROVE  /\ Blocks(u, c) \in Nat /\ Data(u, c) \in Nat
               /\ Blocks(Append(u, b), c) = Blocks(u, c) + (IF ClassOf(b.file_id) = c THEN 1 ELSE 0)
               /\ Data(Append(u, b), c) = Data(u, c) + (IF ClassOf(b.file_id) = c THEN b.size ELSE 0)
    <3>1. PICK o \in Seq(Block) : o = OfClass(u, c)
      BY OfClassOfAppend
    <3>2. OfClass(Append(u, b), c) = IF ClassOf(b.file_id) = c THEN Append(o, b) ELSE o
      BY <3>1, OfClassOfAppend
    <3>3. /\ Len(o) \in Nat /\ TotalSize(o) \in Nat
          /\ Len(Append(o, b)) = Len(o) + 1 /\ TotalSize(Append(o, b)) = TotalSize(o) + b.size
      BY TotalSizeOfAppend
    <3> QED BY <2>1, <3>1, <3>2, <3>3
  <2> HIDE DEF Blocks, Data
  <2>3. ClassOf(b.file_id) \in {"new", "L1", "L2", "L3", "other"}
    BY ClassOfTypes DEF Classes
  <2>4. PICK class : class = ClassOf(b.file_id)
    OBVIOUS
  <2>5. \A c : /\ Blocks(u, c) \in Nat /\ Data(u, c) \in Nat
               /\ Blocks(Append(u, b), c) = Blocks(u, c) + (IF class = c THEN 1 ELSE 0)
               /\ Data(Append(u, b), c) = Data(u, c) + (IF class = c THEN b.size ELSE 0)
    BY <2>2, <2>4
  <2>6. class \in {"new", "L1", "L2", "L3", "other"}
    BY <2>3, <2>4
  <2> DEFINE v == Append(u, b)
             BlocksOf(w) == Sum(Blocks(w, "new"), Blocks(w, "L1"), Blocks(w, "L2"), Blocks(w, "L3"), Blocks(w, "other"))
             DataOf(w) == Sum(Data(w, "new"), Data(w, "L1"), Data(w, "L2"), Data(w, "L3"), Data(w, "other"))
  <2> HIDE DEF v
  <2>7. BlocksOf(v) = BlocksOf(u) + 1
    <3> DEFINE f == [c \in Classes |-> Blocks(u, c)]
               g == [c \in Classes |-> Blocks(v, c)]
    <3>1. \A c \in Classes : f[c] \in Nat /\ g[c] = f[c] + (IF class = c THEN 1 ELSE 0)
      BY <2>5 DEF v
    <3>2. BlocksOf(u) = f["new"] + f["L1"] + f["L2"] + f["L3"] + f["other"]
      BY DEF Classes
    <3>3. BlocksOf(v) = g["new"] + g["L1"] + g["L2"] + g["L3"] + g["other"]
      BY DEF Classes
    <3>4. class \in Classes /\ 1 \in Nat
      BY <2>1, <2>6 DEF Classes
    <3> HIDE DEF f, g
    <3>5. g["new"] + g["L1"] + g["L2"] + g["L3"] + g["other"]
            = f["new"] + f["L1"] + f["L2"] + f["L3"] + f["other"] + 1
      BY <3>1, <3>4, OneClassGrows
    <3> HIDE DEF BlocksOf, DataOf
    <3> QED BY <3>2, <3>3, <3>5
  <2>8. DataOf(v) = DataOf(u) + b.size
    <3> DEFINE f == [c \in Classes |-> Data(u, c)]
               g == [c \in Classes |-> Data(v, c)]
    <3>6. PICK n \in Nat : n = b.size
      BY <2>1
    <3>1. \A c \in Classes : f[c] \in Nat /\ g[c] = f[c] + (IF class = c THEN n ELSE 0)
      BY <2>5, <3>6 DEF v
    <3>2. DataOf(u) = f["new"] + f["L1"] + f["L2"] + f["L3"] + f["other"]
      BY DEF Classes
    <3>3. DataOf(v) = g["new"] + g["L1"] + g["L2"] + g["L3"] + g["other"]
      BY DEF Classes
    <3>4. class \in Classes
      BY <2>6 DEF Classes
    <3> HIDE DEF f, g
    <3>5. g["new"] + g["L1"] + g["L2"] + g["L3"] + g["other"]
            = f["new"] + f["L1"] + f["L2"] + f["L3"] + f["other"] + n
      BY <3>1, <3>4, OneClassGrows
    <3> HIDE DEF BlocksOf, DataOf
    <3> QED BY <3>6, <3>2, <3>3, <3>5
  <2>9. BlocksOf(u) = Len(u) /\ DataOf(u) = TotalSize(u)
    BY <1>2
  <2> HIDE DEF BlocksOf, DataOf
  <2>10. v \in Seq(Block) /\ BlocksOf(v) = Len(v) /\ DataOf(v) = TotalSize(v)
    BY <2>1, <2>7, <2>8, <2>9 DEF v
  <2> QED BY <2>10 DEF v, BlocksOf, DataOf
<1>3. \A u \in Seq(Block) : u \in P
  <2> HIDE DEF P
  <2> QED BY <1>1, <1>2, SeqIsInductive
<1>4. \A c \in Classes : Report(s)[c].blocks = Blocks(s, c) /\ Report(s)[c].data = Data(s, c)
  BY DEF Report
<1>5. {"new", "L1", "L2", "L3", "other"} = Classes
  BY DEF Classes
<1> HIDE DEF Blocks, Data
<1> QED BY <1>3, <1>4, <1>5 DEF Total


\* The checksums of the blocks of a class.
ClassContents(s, c) == {s[k].cksum : k \in {j \in 1 .. Len(s) : ClassOf(s[j].file_id) = c}}

LEMMA ContentsOfClass ==
  ASSUME NEW s \in Seq(Block), NEW c
  PROVE  /\ Contents(OfClass(s, c)) = ClassContents(s, c)
         /\ ClassContents(s, c) = {} => OfClass(s, c) = <<>>
<1> DEFINE P == {u \in Seq(Block) : /\ Contents(OfClass(u, c)) = ClassContents(u, c)
                                    /\ ClassContents(u, c) = {} => OfClass(u, c) = <<>>}
<1>1. <<>> \in P
  <2>1. <<>> \in Seq(Block) /\ Len(<<>>) = 0 /\ OfClass(<<>>, c) = <<>> /\ Contents(<<>>) = {}
    BY OfClassOfAppend, EmptySeq DEF Contents
  <2>2. ClassContents(<<>>, c) = {}
    BY <2>1 DEF ClassContents
  <2> QED BY <2>1, <2>2
<1>2. ASSUME NEW u \in Seq(Block), NEW b \in Block, u \in P PROVE Append(u, b) \in P
  <2> DEFINE v == Append(u, b)
  <2>1. /\ v \in Seq(Block) /\ Len(v) = Len(u) + 1 /\ Len(u) \in Nat /\ v[Len(u) + 1] = b
        /\ \A k \in 1 .. Len(u) : v[k] = u[k]
    OBVIOUS
  <2>2. PICK o \in Seq(Block) : o = OfClass(u, c)
    BY OfClassOfAppend
  <2>3. OfClass(v, c) = IF ClassOf(b.file_id) = c THEN Append(o, b) ELSE o
    BY <2>2, OfClassOfAppend
  <2>4. Contents(Append(o, b)) = Contents(o) \union {b.cksum} /\ Append(o, b) # <<>>
    <3>1. Append(o, b) = o \o <<b>> /\ <<b>> \in Seq(Block) /\ Append(o, b) # <<>>
      BY AppendIsConcat, AppendProperties
    <3>2. Contents(<<b>>) = {b.cksum}
      BY DEF Contents
    <3> QED BY <3>1, <3>2, ContentsOfConcat
  <2> HIDE DEF v
  <2>5. ClassContents(v, c) = ClassContents(u, c) \union (IF ClassOf(b.file_id) = c THEN {b.cksum} ELSE {})
    <3>1. {j \in 1 .. Len(v) : ClassOf(v[j].file_id) = c}
            = {j \in 1 .. Len(u) : ClassOf(u[j].file_id) = c}
                \union (IF ClassOf(b.file_id) = c THEN {Len(u) + 1} ELSE {})
      <4>1. 1 .. Len(v) = (1 .. Len(u)) \union {Len(u) + 1}
        BY <2>1
      <4> QED BY <2>1, <4>1
    <3>2. \A k \in {j \in 1 .. Len(u) : ClassOf(u[j].file_id) = c} : v[k].cksum = u[k].cksum
      BY <2>1
    <3>3. ClassContents(v, c) = {v[k].cksum : k \in {j \in 1 .. Len(u) : ClassOf(u[j].file_id) = c}}
                                  \union {v[k].cksum : k \in IF ClassOf(b.file_id) = c THEN {Len(u) + 1} ELSE {}}
      BY <3>1 DEF ClassContents
    <3>4. {v[k].cksum : k \in IF ClassOf(b.file_id) = c THEN {Len(u) + 1} ELSE {}}
            = IF ClassOf(b.file_id) = c THEN {b.cksum} ELSE {}
      BY <2>1
    <3>5. {v[k].cksum : k \in {j \in 1 .. Len(u) : ClassOf(u[j].file_id) = c}} = ClassContents(u, c)
      BY <3>2 DEF ClassContents
    <3> QED BY <3>3, <3>4, <3>5
  <2>6. Contents(o) = ClassContents(u, c) /\ (ClassContents(u, c) = {} => o = <<>>)
    BY <1>2, <2>2
  <2>7. Contents(OfClass(v, c)) = ClassContents(v, c)
    BY <2>3, <2>4, <2>5, <2>6
  <2>8. ClassContents(v, c) = {} => OfClass(v, c) = <<>>
    BY <2>3, <2>5, <2>6
  <2> QED BY <2>1, <2>7, <2>8 DEF v
<1>3. \A u \in Seq(Block) : u \in P
  <2> HIDE DEF P
  <2> QED BY <1>1, <1>2, SeqIsInductive
<1> QED BY <1>3

LEMMA ContentsOfUntagged ==
  ASSUME NEW s \in Seq(Block)
  PROVE  Contents(Untagged(s)) = Contents(s)
<1>1. Untagged(s) \in Seq(Block) /\ Len(Untagged(s)) = Len(s) /\ DOMAIN s = 1 .. Len(s)
  BY UntaggedIs
<1>2. \A k \in 1 .. Len(s) : Untagged(s)[k].cksum = s[k].cksum
  <2> SUFFICES ASSUME NEW k \in 1 .. Len(s) PROVE Untagged(s)[k].cksum = s[k].cksum
    OBVIOUS
  <2>1. PICK b, r : b = s[k] /\ b \in Block /\ r = Untagged(s)[k]
    BY <1>1
  <2>2. r = [b EXCEPT !.file_id = {}]
    BY <2>1, UntaggedIs
  <2>3. r.cksum = b.cksum
    BY <2>2 DEF Block
  <2> QED BY <2>1, <2>3
<1>3. DOMAIN Untagged(s) = 1 .. Len(s)
  BY <1>1
<1> QED BY <1>1, <1>2, <1>3 DEF Contents

\* The tags that level 1 and level 2 leave, and those level 3 makes of them.
LevelTags == {{}, IN_PARENT, IN_DIRTY_SEG}

CdsTags == LevelTags \union {tag \union IN_CDS : tag \in LevelTags}

\* At every stage of a segment its blocks have the tags of that stage.
StagedTags(final) ==
  /\ \A k \in 1 .. Len(output) : output[k].file_id \in final
  /\ pc = "tag" => i = 1 /\ \A k \in 1 .. Len(current_seg) : current_seg[k].file_id = {}
  /\ pc = "cds" => \A k \in 1 .. Len(current_seg) :
                     current_seg[k].file_id \in IF k < i THEN final ELSE LevelTags

LEMMA TaggedTag ==
  ASSUME NEW b \in Block, NEW bits
  PROVE  Tagged(b, bits).file_id = b.file_id \union bits
  BY DEF Tagged, Block

LEMMA StagedTagsOfLevel3 ==
  ASSUME SnapshotTypes, NEW final, StagedTags(final), NEW bits \in SUBSET Nat, TagNext(bits),
         \A tag \in LevelTags : tag \union bits \in final
  PROVE  StagedTags(final)'
<1>1. /\ current_seg \in Seq(Block) /\ i \in Nat \ {0} /\ i \in 1 .. Len(current_seg)
      /\ current_seg' = [current_seg EXCEPT ![i] = Tagged(current_seg[i], bits)]
      /\ pc = "cds" /\ pc' = "cds" /\ i' = i + 1 /\ output' = output
  BY LenProperties DEF SnapshotTypes, TagNext
<1>2. /\ current_seg' \in Seq(Block) /\ Len(current_seg') = Len(current_seg)
      /\ \A k \in 1 .. Len(current_seg) :
           current_seg'[k] = IF k = i THEN Tagged(current_seg[i], bits) ELSE current_seg[k]
  <2>1. IsRetagged(current_seg', current_seg)
    BY TagNextRetags DEF SnapshotTypes
  <2> QED BY <1>1, <2>1, RetaggedSeq
<1>3. current_seg[i].file_id \in LevelTags
  BY <1>1 DEF StagedTags
<1>4. Tagged(current_seg[i], bits).file_id \in final
  BY <1>1, <1>3, TaggedTag
<1>5. \A k \in 1 .. Len(current_seg) : current_seg[k].file_id \in IF k < i THEN final ELSE LevelTags
  BY <1>1 DEF StagedTags
<1>6. \A k \in 1 .. Len(current_seg) : (k < i + 1 <=> k = i \/ k < i)
  BY <1>1
<1>7. \A k \in 1 .. Len(current_seg) : current_seg'[k].file_id \in IF k < i + 1 THEN final ELSE LevelTags
  BY <1>1, <1>2, <1>4, <1>5, <1>6
<1> QED BY <1>1, <1>2, <1>7 DEF StagedTags


LEMMA StagedTagsOfSegment ==
  ASSUME SnapshotTypes, NEW final, StagedTags(final),
         TagParent \/ TagDirty \/ WithoutParent
  PROVE  StagedTags(final)'
<1>1. /\ current_seg \in Seq(Block) /\ i = i' /\ pc = "tag" /\ pc' = "cds" /\ output' = output
      /\ DOMAIN current_seg = 1 .. Len(current_seg)
      /\ \A k \in 1 .. Len(current_seg) : current_seg[k] \in Block /\ current_seg[k].file_id = {}
  BY DEF SnapshotTypes, TagParent, TagDirty, WithoutParent, StagedTags, inVars, argVars
<1>2. \A k \in 1 .. Len(current_seg) :
        /\ Tagged(current_seg[k], IN_PARENT).file_id = {} \union IN_PARENT
        /\ Tagged(current_seg[k], IN_DIRTY_SEG).file_id = {} \union IN_DIRTY_SEG
  BY <1>1, TaggedTag
<1>3. /\ Len(current_seg') = Len(current_seg)
      /\ \A k \in 1 .. Len(current_seg) :
           current_seg'[k] \in {current_seg[k], Tagged(current_seg[k], IN_PARENT), Tagged(current_seg[k], IN_DIRTY_SEG)}
  <2>1. RetagStep
    BY TagsRetag
  <2>2. Len(current_seg') = Len(current_seg)
    BY <1>1, <2>1, RetaggedSeq DEF RetagStep
  <2>3. CASE TagParent
    BY <1>1, <2>2, <2>3 DEF TagParent
  <2>4. CASE TagDirty
    BY <1>1, <2>2, <2>4 DEF TagDirty
  <2>5. CASE WithoutParent
    BY <1>1, <2>2, <2>5 DEF WithoutParent
  <2> QED BY <2>3, <2>4, <2>5
<1>4. {} \union IN_PARENT \in LevelTags /\ {} \union IN_DIRTY_SEG \in LevelTags /\ {} \in LevelTags
  BY DEF LevelTags
<1>5. \A k \in 1 .. Len(current_seg) : current_seg'[k].file_id \in LevelTags
  BY <1>1, <1>2, <1>3, <1>4
<1>6. i' = 1 /\ \A k \in 1 .. Len(current_seg) : ~(k < 1)
  BY <1>1 DEF StagedTags
<1> QED BY <1>1, <1>3, <1>5, <1>6 DEF StagedTags


LEMMA StagedTagsOfRest ==
  ASSUME SnapshotTypes, NEW final, StagedTags(final), NEW phase, phase \notin {"tag", "cds"},
         \/ Open \/ LoadSegments \/ WriteSegment \/ EndOfSnapshot(phase) \/ Close \/ Kill
         \/ UNCHANGED <<output, current_seg, i>> /\ (pc' = pc \/ pc' \notin {"tag", "cds"})
  PROVE  StagedTags(final)'
<1>1. output \in Seq(Block) /\ current_seg \in Seq(Block) /\ i \in Nat \ {0}
  BY DEF SnapshotTypes
<1>2. CASE Open
  <2>1. output' = <<>> /\ pc' = "load" /\ Len(<<>>) = 0
    BY <1>2, EmptySeq DEF Open
  <2> QED BY <2>1 DEF StagedTags
<1>3. CASE LoadSegments
  <2>1. output' = output /\ current_seg' = SegmentBlocks(current_input) /\ pc' = "tag" /\ i' = 1
    BY <1>3 DEF LoadSegments
  <2>2. \A k \in 1 .. Len(current_seg') : current_seg'[k].file_id = {}
    BY <2>1, NextSegmentContents DEF SnapshotTypes
  <2> QED BY <2>1, <2>2 DEF StagedTags
<1>4. CASE WriteSegment
  <2>1. /\ output' = output \o current_seg /\ pc' = "load" /\ pc = "cds" /\ i > Len(current_seg)
    BY <1>4 DEF WriteSegment
  <2>2. \A k \in 1 .. Len(current_seg) : k < i
    BY <1>1, <2>1, LenProperties
  <2>3. /\ Len(output \o current_seg) = Len(output) + Len(current_seg)
        /\ \A k \in 1 .. Len(output) + Len(current_seg) :
             (output \o current_seg)[k] = IF k <= Len(output) THEN output[k] ELSE current_seg[k - Len(output)]
    BY <1>1, ConcatProperties
  <2>4. \A k \in 1 .. Len(output) + Len(current_seg) :
          \/ k \in 1 .. Len(output) /\ output'[k] = output[k]
          \/ k - Len(output) \in 1 .. Len(current_seg) /\ output'[k] = current_seg[k - Len(output)]
    BY <1>1, <2>1, <2>3, LenProperties
  <2>5. \A k \in 1 .. Len(current_seg) : current_seg[k].file_id \in final
    BY <2>1, <2>2 DEF StagedTags
  <2>6. \A k \in 1 .. Len(output') : output'[k].file_id \in final
    BY <2>1, <2>3, <2>4, <2>5 DEF StagedTags
  <2> QED BY <2>1, <2>6 DEF StagedTags
<1>5. CASE EndOfSnapshot(phase)
  BY <1>5 DEF EndOfSnapshot, StagedTags
<1>6. CASE Close
  BY <1>6 DEF Close, StagedTags
<1>7. CASE Kill
  <2>1. PICK n \in 0 .. Len(output) : output' = SubSeq(output, 1, n)
    BY <1>7 DEF Kill, Prefixes
  <2>2. Len(output') = n /\ \A k \in 1 .. n : output'[k] = output[k] /\ k \in 1 .. Len(output)
    BY <1>1, <2>1
  <2>3. pc' = "killed"
    BY <1>7 DEF Kill
  <2> QED BY <2>2, <2>3 DEF StagedTags
<1>8. CASE UNCHANGED <<output, current_seg, i>> /\ (pc' = pc \/ pc' \notin {"tag", "cds"})
  BY <1>8 DEF StagedTags
<1> QED BY <1>2, <1>3, <1>4, <1>5, <1>6, <1>7, <1>8

LEMMA StagedTagsInit ==
  ASSUME Init, NEW final
  PROVE  StagedTags(final)
<1>1. output = <<>> /\ Len(<<>>) = 0 /\ pc = "idle"
  BY EmptySeq DEF Init
<1> QED BY <1>1 DEF StagedTags

LEMMA StagedTagsStep ==
  ASSUME SnapshotTypes, StagedTags(CdsTags), [Next]_vars
  PROVE  StagedTags(CdsTags)'
<1>1. CASE SearchCds
  <2>1. PICK bits \in {{}, IN_CDS} : TagNext(bits)
    BY <1>1 DEF SearchCds
  <2>2. \A tag \in LevelTags : tag \union bits \in CdsTags
    BY <2>1 DEF CdsTags
  <2> QED BY <2>1, <2>2, TagsAreSets, StagedTagsOfLevel3
<1>2. CASE TagParent \/ TagDirty \/ WithoutParent
  BY <1>2, StagedTagsOfSegment
<1>3. CASE \/ Open \/ LoadSegments \/ WriteSegment \/ EndOfSnapshot("close") \/ Close \/ Kill
           \/ UNCHANGED vars
  BY <1>3, StagedTagsOfRest DEF vars, snapshotVars
<1> QED BY <1>1, <1>2, <1>3 DEF Next

\* The classes of the tags.
LEMMA ClassesOfTags ==
  ASSUME NEW tag \in CdsTags
  PROVE  /\ ClassOf(tag) # "other"
         /\ ClassOf(tag) \in {"L1", "L2"} => 0 \in tag
         /\ ClassOf(tag) = "L3" => 1 \in tag
         /\ 3 \notin tag
  BY DEF CdsTags, LevelTags, ClassOf, IN_PARENT, IN_DIRTY_SEG, IN_CDS

\* For any traces and any CDS: what dedup_analysis says of the output of
\* dedup_cds_sim, or of a part of it a kill has left, adds up to the output;
\* what it counts for level 1 and level 2 is in the parent, what it counts for
\* level 3 is in the CDS, and what it counts as new is with them the snapshot.
THEOREM ReportTrue == Spec => []ReportIsTrue
<1> DEFINE Inv == OutputInv /\ TagInv /\ StagedTags(CdsTags)
<1>1. Init => Inv
  <2> SUFFICES ASSUME Init PROVE Inv
    OBVIOUS
  <2>1. OutputInv
    BY TypesInit DEF Init, OutputInv, OutputIsSnapshot, Stopped
  <2>2. TagInv
    <3>1. Len(<<>>) = 0 /\ Contents(<<>>) = {}
      BY EmptySeq DEF Contents
    <3> QED BY <3>1, TypesInit DEF Init, TagInv, AllTrue
  <2> QED BY <2>1, <2>2, StagedTagsInit
<1>2. Inv /\ [Next]_vars => Inv'
  <2> SUFFICES ASSUME Inv, [Next]_vars PROVE Inv'
    OBVIOUS
  <2>1. SnapshotTypes
    BY DEF TagInv
  <2>2. StagedTags(CdsTags)'
    BY <2>1, StagedTagsStep
  <2> QED BY <2>2, OutputStep, TagStep
<1>3. Inv => ReportIsTrue
  <2> SUFFICES ASSUME Inv PROVE ReportIsTrue
    OBVIOUS
  <2> DEFINE P == Contents(ParentTrace)
             C == Contents(cds)
  <2>1. /\ output \in Seq(Block) /\ DOMAIN output = 1 .. Len(output) /\ snapshot \in Seq(Block)
        /\ \A k \in 1 .. Len(output) : TrueOf(output[k], P, C) /\ output[k].file_id \in CdsTags
    BY DEF TagInv, SnapshotTypes, AllTrue, StagedTags
  <2>2. /\ Total(LAMBDA c : report[c].blocks) = Len(output)
        /\ Total(LAMBDA c : report[c].data) = TotalSize(output)
    BY <2>1, ClassesAddUp DEF report
  <2> HIDE DEF P, C
  <2>3. \A k \in 1 .. Len(output) :
          /\ ClassOf(output[k].file_id) # "other"
          /\ ClassOf(output[k].file_id) \in {"L1", "L2"} => output[k].cksum \in P
          /\ ClassOf(output[k].file_id) = "L3" => output[k].cksum \in C
    BY <2>1, ClassesOfTags DEF TrueOf
  <2>4. \A c : Contents(OfClass(output, c)) = ClassContents(output, c)
    BY <2>1, ContentsOfClass
  <2>5. OfClass(output, "other") = <<>>
    <3>1. ClassContents(output, "other") = {}
      BY <2>3 DEF ClassContents
    <3> QED BY <2>1, <3>1, ContentsOfClass
  <2>6. /\ Contents(OfClass(output, "L1")) \subseteq P
        /\ Contents(OfClass(output, "L2")) \subseteq P
        /\ Contents(OfClass(output, "L3")) \subseteq C
    BY <2>3, <2>4 DEF ClassContents
  <2>7. ASSUME pc = "done"
        PROVE  Contents(NonEmpty(snapshot)) \subseteq Contents(OfClass(output, "new")) \union P \union C
    <3>1. NonEmpty(snapshot) \in Seq(Block)
      BY <2>1, NonEmptyOfAppend
    <3>2. Untagged(output) = Untagged(NonEmpty(snapshot))
      BY <2>7 DEF OutputInv, OutputIsSnapshot
    <3>3. Contents(NonEmpty(snapshot)) = Contents(output)
      BY <2>1, <3>1, <3>2, ContentsOfUntagged
    <3>4. \A k \in 1 .. Len(output) : ClassOf(output[k].file_id) \in {"new", "L1", "L2", "L3", "other"}
      BY ClassOfTypes DEF Classes
    <3>5. \A k \in 1 .. Len(output) :
            output[k].cksum \in ClassContents(output, "new") \union P \union C
      BY <2>3, <3>4 DEF ClassContents
    <3> QED BY <2>1, <2>4, <3>3, <3>5 DEF Contents
  <2> QED BY <2>2, <2>5, <2>6, <2>7 DEF ReportIsTrue, P, C
<1> QED BY <1>1, <1>2, <1>3, PTL DEF Spec

-----------------------------------------------------------------------------
(* The blocks of a range of the disk *)

\* The fold of OfRange, record by record.
LEMMA OfRangeRows ==
  ASSUME NEW r, NEW s \in Seq(Block)
  PROVE  \E row \in [0 .. Len(s) -> Seq(Block)] :
           /\ row[0] = <<>>
           /\ \A k \in 1 .. Len(s) :
                row[k] = IF RangeOf(s[k]) = r THEN Append(row[k - 1], s[k]) ELSE row[k - 1]
           /\ OfRange(s, r) = row[Len(s)]
<1> DEFINE n == Len(s)
           Kept(a, k) == IF RangeOf(s[k]) = r THEN Append(a, s[k]) ELSE a
           it == CHOOSE g : g = [t \in SUBSET DOMAIN s |->
                                   IF t = {} THEN <<>> ELSE Kept(g[t \ {Max(t)}], Max(t))]
<1>1. n \in Nat /\ DOMAIN s = 1 .. n /\ \A k \in 1 .. n : s[k] \in Block
  OBVIOUS
<1>2. OfRange(s, r) = it[DOMAIN s]
  BY DEF OfRange, FoldLeft, MapThenFoldSet
<1>3. \A a \in Seq(Block), k \in 1 .. n : Kept(a, k) \in Seq(Block)
  BY <1>1
<1>4. PICK op \in [Seq(Block) \X (1 .. n) -> Seq(Block)] :
        \A a \in Seq(Block), k \in 1 .. n : op[<<a, k>>] = Kept(a, k)
  <2> DEFINE f == [p \in Seq(Block) \X (1 .. n) |-> Kept(p[1], p[2])]
  <2> HIDE DEF Kept, n
  <2>1. f \in [Seq(Block) \X (1 .. n) -> Seq(Block)]
    BY <1>3
  <2>2. \A a \in Seq(Block), k \in 1 .. n : f[<<a, k>>] = Kept(a, k)
    OBVIOUS
  <2> HIDE DEF f
  <2> QED BY <2>1, <2>2
<1>5. PICK h \in [SUBSET (1 .. n) -> Seq(Block)] : IsFold(h, <<>>, op, n)
  <2>1. <<>> \in Seq(Block)
    OBVIOUS
  <2> HIDE DEF n
  <2> QED BY <1>1, <2>1, FoldExists, Zenon
<1>6. h = [t \in SUBSET DOMAIN s |-> IF t = {} THEN <<>> ELSE Kept(h[t \ {Max(t)}], Max(t))]
  <2>1. ASSUME NEW t \in SUBSET (1 .. n), t # {}
        PROVE  h[t] = Kept(h[t \ {Max(t)}], Max(t))
    <3>1. Max(t) \in 1 .. n
      BY <1>1, <2>1, MaxOfSubset
    <3>2. h[t \ {Max(t)}] \in Seq(Block)
      OBVIOUS
    <3> HIDE DEF n, Kept
    <3> QED BY <1>4, <1>5, <2>1, <3>1, <3>2 DEF IsFold
  <2> HIDE DEF n, Kept
  <2> QED BY <1>1, <1>5, <2>1 DEF IsFold
<1>7. it = [t \in SUBSET DOMAIN s |-> IF t = {} THEN <<>> ELSE Kept(it[t \ {Max(t)}], Max(t))]
  <2> HIDE DEF Kept
  <2> QED BY <1>6, Zenon
<1> HIDE DEF it, Kept
<1>8. it[{}] = <<>>
  BY <1>1, <1>7
<1>9. \A k \in 1 .. n : it[1 .. k] = Kept(it[1 .. (k - 1)], k)
  <2> SUFFICES ASSUME NEW k \in 1 .. n PROVE it[1 .. k] = Kept(it[1 .. (k - 1)], k)
    OBVIOUS
  <2>1. (1 .. k) \in SUBSET DOMAIN s /\ 1 .. k # {}
    <3>1. \A j \in 1 .. k : j \in 1 .. n
      BY <1>1
    <3>2. k \in 1 .. k
      BY <1>1
    <3> HIDE DEF n
    <3> QED BY <1>1, <3>1, <3>2
  <2>2. Max(1 .. k) = k /\ (1 .. k) \ {Max(1 .. k)} = 1 .. (k - 1)
    BY <1>1, MaxOfUpTo
  <2>3. it[1 .. k] = Kept(it[(1 .. k) \ {Max(1 .. k)}], Max(1 .. k))
    BY <1>7, <2>1
  <2> QED BY <2>2, <2>3
<1> DEFINE Typed == {k \in 0 .. n : it[1 .. k] \in Seq(Block)}
<1>10. \A k \in 0 .. n : k \in Typed
  <2>1. 0 \in Typed
    <3>1. 1 .. 0 = {} /\ 0 \in 0 .. n
      BY <1>1
    <3> HIDE DEF n
    <3>2. it[1 .. 0] = <<>>
      BY <1>8, <3>1, Zenon
    <3>3. it[1 .. 0] \in Seq(Block)
      BY <3>2, EmptySeq
    <3> QED BY <3>1, <3>3
  <2>2. ASSUME NEW k \in 0 .. n - 1, k \in Typed PROVE k + 1 \in Typed
    <3>1. k + 1 \in 1 .. n /\ (k + 1) - 1 = k
      BY <1>1
    <3> QED BY <1>3, <1>9, <2>2, <3>1
  <2> HIDE DEF Typed
  <2> QED BY <1>1, <2>1, <2>2, UpToIsInductive
<1> DEFINE row == [k \in 0 .. n |-> it[1 .. k]]
<1>11. row \in [0 .. n -> Seq(Block)] /\ row[0] = <<>> /\ row[n] = it[DOMAIN s]
  BY <1>1, <1>8, <1>10
<1>12. \A k \in 1 .. n : row[k] = Kept(row[k - 1], k)
  BY <1>1, <1>9
<1> HIDE DEF row
<1> QED BY <1>2, <1>11, <1>12 DEF Kept

LEMMA OfRangeOfAppend ==
  ASSUME NEW r
  PROVE  /\ OfRange(<<>>, r) = <<>>
         /\ \A s \in Seq(Block) : OfRange(s, r) \in Seq(Block)
         /\ \A s \in Seq(Block), b \in Block :
              OfRange(Append(s, b), r) =
                IF RangeOf(b) = r THEN Append(OfRange(s, r), b) ELSE OfRange(s, r)
<1>1. OfRange(<<>>, r) = <<>>
  <2>1. <<>> \in Seq(Block) /\ Len(<<>>) = 0
    BY EmptySeq
  <2>2. PICK none \in Seq(Block) : none = <<>> /\ Len(none) = 0
    BY <2>1
  <2>3. PICK row : row[0] = <<>> /\ OfRange(none, r) = row[Len(none)]
    BY OfRangeRows
  <2> QED BY <2>2, <2>3
<1>2. \A s \in Seq(Block) : OfRange(s, r) \in Seq(Block)
  <2> SUFFICES ASSUME NEW s \in Seq(Block) PROVE OfRange(s, r) \in Seq(Block)
    OBVIOUS
  <2>1. PICK row \in [0 .. Len(s) -> Seq(Block)] : OfRange(s, r) = row[Len(s)]
    BY OfRangeRows, SMTT(40)
  <2>2. Len(s) \in 0 .. Len(s)
    BY LenProperties
  <2> QED BY <2>1, <2>2
<1>3. ASSUME NEW s \in Seq(Block), NEW b \in Block
      PROVE  OfRange(Append(s, b), r) =
               IF RangeOf(b) = r THEN Append(OfRange(s, r), b) ELSE OfRange(s, r)
  <2> DEFINE u == Append(s, b)
             n == Len(s)
  <2>1. /\ u \in Seq(Block) /\ Len(u) = n + 1 /\ n \in Nat /\ u[n + 1] = b
        /\ \A k \in 1 .. n : u[k] = s[k]
    OBVIOUS
  <2>2. PICK f :
          /\ f[0] = <<>> /\ OfRange(s, r) = f[n]
          /\ \A k \in 1 .. n : f[k] = IF RangeOf(s[k]) = r THEN Append(f[k - 1], s[k]) ELSE f[k - 1]
    BY OfRangeRows, SMTT(40)
  <2> HIDE DEF u, n
  <2>3. PICK g :
          /\ g[0] = <<>> /\ OfRange(u, r) = g[Len(u)]
          /\ \A k \in 1 .. Len(u) : g[k] = IF RangeOf(u[k]) = r THEN Append(g[k - 1], u[k]) ELSE g[k - 1]
    BY <2>1, OfRangeRows, SMTT(40)
  <2>4. f[n] = g[n]
    <3>1. \A k \in 1 .. n : f[k - 1] = g[k - 1] => f[k] = g[k]
      <4>1. \A k \in 1 .. n : k \in 1 .. n + 1
        BY <2>1
      <4> QED BY <2>1, <2>2, <2>3, <4>1
    <3>2. n \in Nat /\ f[0] = g[0]
      BY <2>1, <2>2, <2>3
    <3> QED BY <3>1, <3>2, RowsAgree, Zenon
  <2>5. n + 1 \in 1 .. n + 1 /\ (n + 1) - 1 = n
    BY <2>1
  <2>6. g[n + 1] = IF RangeOf(b) = r THEN Append(g[n], b) ELSE g[n]
    BY <2>1, <2>3, <2>5
  <2>7. OfRange(u, r) = g[n + 1]
    BY <2>1, <2>3
  <2> QED BY <2>2, <2>4, <2>6, <2>7 DEF u
<1> QED BY <1>1, <1>2, <1>3

LEMMA InRangeOfAppend ==
  ASSUME NEW r
  PROVE  /\ InRange(<<>>, r) = <<>>
         /\ \A s \in Seq(Block) : InRange(s, r) \in Seq(Block)
         /\ \A s \in Seq(Block), b \in Block :
              InRange(Append(s, b), r) =
                IF b.size # 0 /\ RangeOf(b) = r THEN Append(InRange(s, r), b) ELSE InRange(s, r)
<1>1. InRange(<<>>, r) = <<>>
  BY NonEmptyOfAppend, OfRangeOfAppend DEF InRange
<1>2. \A s \in Seq(Block) : InRange(s, r) \in Seq(Block)
  BY NonEmptyOfAppend, OfRangeOfAppend DEF InRange
<1>3. ASSUME NEW s \in Seq(Block), NEW b \in Block
      PROVE  InRange(Append(s, b), r) =
               IF b.size # 0 /\ RangeOf(b) = r THEN Append(InRange(s, r), b) ELSE InRange(s, r)
  <2>1. PICK u \in Seq(Block) : u = NonEmpty(s)
    BY NonEmptyOfAppend
  <2>2. NonEmpty(Append(s, b)) = IF b.size = 0 THEN u ELSE Append(u, b)
    BY <2>1, NonEmptyOfAppend
  <2>3. OfRange(Append(u, b), r) = IF RangeOf(b) = r THEN Append(OfRange(u, r), b) ELSE OfRange(u, r)
    BY OfRangeOfAppend
  <2>4. InRange(s, r) = OfRange(u, r) /\ InRange(Append(s, b), r) = OfRange(NonEmpty(Append(s, b)), r)
    BY <2>1 DEF InRange
  <2>5. CASE b.size = 0
    BY <2>2, <2>4, <2>5
  <2>6. CASE b.size # 0
    BY <2>2, <2>3, <2>4, <2>6
  <2> QED BY <2>5, <2>6
<1> QED BY <1>1, <1>2, <1>3

LEMMA InRangeOfConcat ==
  ASSUME NEW r, NEW s \in Seq(Block), NEW t \in Seq(Block)
  PROVE  InRange(s \o t, r) = InRange(s, r) \o InRange(t, r)
<1> DEFINE P == {u \in Seq(Block) : InRange(s \o u, r) = InRange(s, r) \o InRange(u, r)}
<1>1. <<>> \in P
  <2>1. s \o <<>> = s /\ InRange(s, r) \o <<>> = InRange(s, r)
    BY InRangeOfAppend, ConcatEmptySeq
  <2> QED BY <2>1, InRangeOfAppend, EmptySeq
<1>2. ASSUME NEW u \in Seq(Block), NEW b \in Block, u \in P PROVE Append(u, b) \in P
  <2>1. s \o Append(u, b) = Append(s \o u, b) /\ s \o u \in Seq(Block) /\ Append(u, b) \in Seq(Block)
    OBVIOUS
  <2>2. PICK x \in Seq(Block), y \in Seq(Block) : x = InRange(s, r) /\ y = InRange(u, r)
    BY InRangeOfAppend
  <2>3. x \o Append(y, b) = Append(x \o y, b)
    OBVIOUS
  <2>4. InRange(s \o u, r) = x \o y
    BY <1>2, <2>2
  <2>5. InRange(Append(s \o u, b), r) =
          IF b.size # 0 /\ RangeOf(b) = r THEN Append(x \o y, b) ELSE x \o y
    <3>1. PICK w \in Seq(Block) : w = s \o u
      BY <2>1
    <3>2. InRange(w, r) = x \o y
      BY <2>4, <3>1
    <3>3. InRange(Append(w, b), r) =
            IF b.size # 0 /\ RangeOf(b) = r THEN Append(InRange(w, r), b) ELSE InRange(w, r)
      BY InRangeOfAppend
    <3> QED BY <3>1, <3>2, <3>3, Zenon
  <2>6. InRange(Append(u, b), r) = IF b.size # 0 /\ RangeOf(b) = r THEN Append(y, b) ELSE y
    BY <2>2, InRangeOfAppend
  <2>7. InRange(s \o Append(u, b), r) = InRange(s, r) \o InRange(Append(u, b), r)
    <3>1. InRange(s \o Append(u, b), r) = InRange(Append(s \o u, b), r)
      BY <2>1
    <3>2. CASE b.size # 0 /\ RangeOf(b) = r
      BY <2>2, <2>3, <2>5, <2>6, <3>1, <3>2, Zenon
    <3>3. CASE ~(b.size # 0 /\ RangeOf(b) = r)
      BY <2>2, <2>5, <2>6, <3>1, <3>3, Zenon
    <3> QED BY <3>2, <3>3
  <2> QED BY <2>1, <2>7
<1>3. \A u \in Seq(Block) : u \in P
  <2> HIDE DEF P
  <2> QED BY <1>1, <1>2, SeqIsInductive
<1> QED BY <1>3

LEMMA TotalSizeOfConcat ==
  ASSUME NEW s \in Seq(Block), NEW t \in Seq(Block)
  PROVE  TotalSize(s \o t) = TotalSize(s) + TotalSize(t)
<1> DEFINE P == {u \in Seq(Block) : TotalSize(s \o u) = TotalSize(s) + TotalSize(u)}
<1>1. <<>> \in P
  <2>1. s \o <<>> = s /\ TotalSize(s) \in Nat /\ TotalSize(s) + 0 = TotalSize(s)
    BY TotalSizeOfAppend, ConcatEmptySeq
  <2> QED BY <2>1, TotalSizeOfAppend, EmptySeq
<1>2. ASSUME NEW u \in Seq(Block), NEW b \in Block, u \in P PROVE Append(u, b) \in P
  <2>1. s \o Append(u, b) = Append(s \o u, b) /\ s \o u \in Seq(Block) /\ Append(u, b) \in Seq(Block)
    OBVIOUS
  <2>2. b.size \in Nat /\ TotalSize(s) \in Nat /\ TotalSize(u) \in Nat
    BY TotalSizeOfAppend DEF Block
  <2>3. TotalSize(Append(s \o u, b)) = TotalSize(s \o u) + b.size
        /\ TotalSize(Append(u, b)) = TotalSize(u) + b.size
    BY <2>1, TotalSizeOfAppend
  <2>4. TotalSize(s \o u) = TotalSize(s) + TotalSize(u)
    BY <1>2
  <2>5. TotalSize(s \o Append(u, b)) = TotalSize(s) + TotalSize(Append(u, b))
    BY <2>1, <2>2, <2>3, <2>4
  <2> QED BY <2>1, <2>5
<1>3. \A u \in Seq(Block) : u \in P
  <2> HIDE DEF P
  <2> QED BY <1>1, <1>2, SeqIsInductive
<1> QED BY <1>3

AllIn(blocks, r) == \A k \in 1 .. Len(blocks) : RangeOf(blocks[k]) = r

NoneIn(blocks, r) == \A k \in 1 .. Len(blocks) : RangeOf(blocks[k]) # r

\* Of blocks that are all of a range, those in the range are all but the
\* empty ones.
LEMMA WholeRange ==
  ASSUME NEW r, NEW s \in Seq(Block), AllIn(s, r)
  PROVE  InRange(s, r) = NonEmpty(s)
<1> DEFINE P == {u \in Seq(Block) : AllIn(u, r) => InRange(u, r) = NonEmpty(u)}
<1>1. <<>> \in P
  BY InRangeOfAppend, NonEmptyOfAppend, EmptySeq
<1>2. ASSUME NEW u \in Seq(Block), NEW b \in Block, u \in P PROVE Append(u, b) \in P
  <2> SUFFICES ASSUME AllIn(Append(u, b), r) PROVE InRange(Append(u, b), r) = NonEmpty(Append(u, b))
    OBVIOUS
  <2> DEFINE v == Append(u, b)
  <2>1. /\ Len(v) = Len(u) + 1 /\ Len(u) \in Nat /\ v[Len(u) + 1] = b
        /\ \A k \in 1 .. Len(u) : v[k] = u[k]
    OBVIOUS
  <2> HIDE DEF v
  <2>2. \A k \in 1 .. Len(u) + 1 : RangeOf(v[k]) = r
    BY <2>1 DEF AllIn, v
  <2>3. \A k \in 1 .. Len(u) : k \in 1 .. Len(u) + 1
    BY <2>1
  <2>4. AllIn(u, r)
    <3>1. \A k \in 1 .. Len(u) : RangeOf(u[k]) = r
      BY <2>1, <2>2, <2>3
    <3> QED BY <3>1 DEF AllIn
  <2>5. RangeOf(b) = r
    <3>1. Len(u) + 1 \in 1 .. Len(u) + 1
      BY <2>1
    <3> QED BY <2>1, <2>2, <3>1
  <2>6. InRange(u, r) = NonEmpty(u)
    BY <1>2, <2>4
  <2>7. InRange(Append(u, b), r) = IF b.size # 0 THEN Append(InRange(u, r), b) ELSE InRange(u, r)
    BY <2>5, InRangeOfAppend
  <2>8. NonEmpty(Append(u, b)) = IF b.size = 0 THEN NonEmpty(u) ELSE Append(NonEmpty(u), b)
    BY NonEmptyOfAppend
  <2>9. CASE b.size = 0
    BY <2>6, <2>7, <2>8, <2>9
  <2>10. CASE b.size # 0
    BY <2>6, <2>7, <2>8, <2>10
  <2> QED BY <2>9, <2>10
<1>3. \A u \in Seq(Block) : u \in P
  <2> HIDE DEF P
  <2> QED BY <1>1, <1>2, SeqIsInductive
<1> QED BY <1>3

LEMMA NothingInRange ==
  ASSUME NEW r, NEW s \in Seq(Block), NoneIn(s, r)
  PROVE  InRange(s, r) = <<>>
<1> DEFINE P == {u \in Seq(Block) : NoneIn(u, r) => InRange(u, r) = <<>>}
<1>1. <<>> \in P
  BY InRangeOfAppend, EmptySeq
<1>2. ASSUME NEW u \in Seq(Block), NEW b \in Block, u \in P PROVE Append(u, b) \in P
  <2> SUFFICES ASSUME NoneIn(Append(u, b), r) PROVE InRange(Append(u, b), r) = <<>>
    OBVIOUS
  <2> DEFINE v == Append(u, b)
  <2>1. /\ Len(v) = Len(u) + 1 /\ Len(u) \in Nat /\ v[Len(u) + 1] = b
        /\ \A k \in 1 .. Len(u) : v[k] = u[k]
    OBVIOUS
  <2> HIDE DEF v
  <2>2. \A k \in 1 .. Len(u) + 1 : RangeOf(v[k]) # r
    BY <2>1 DEF NoneIn, v
  <2>3. \A k \in 1 .. Len(u) : k \in 1 .. Len(u) + 1
    BY <2>1
  <2>4. NoneIn(u, r)
    BY <2>1, <2>2, <2>3 DEF NoneIn
  <2>5. RangeOf(b) # r
    <3>1. Len(u) + 1 \in 1 .. Len(u) + 1
      BY <2>1
    <3> QED BY <2>1, <2>2, <3>1
  <2>6. InRange(u, r) = <<>>
    BY <1>2, <2>4
  <2> QED BY <2>5, <2>6, InRangeOfAppend
<1>3. \A u \in Seq(Block) : u \in P
  <2> HIDE DEF P
  <2> QED BY <1>1, <1>2, SeqIsInductive
<1> QED BY <1>3

-----------------------------------------------------------------------------
(* Segments of an aligned trace *)

\* In a contiguous trace, where a part begins.
LEMMA OffsetIs ==
  ASSUME NEW front \in Seq(Block), NEW rest \in Seq(Block), IsAligned(front \o rest),
         NEW k \in 1 .. Len(rest)
  PROVE  /\ rest[k] \in Block /\ SubSeq(rest, 1, k - 1) \in Seq(Block)
         /\ rest[k].offset = TotalSize(front) + TotalSize(SubSeq(rest, 1, k - 1))
         /\ RangeOf(rest[k]) = (rest[k].offset + rest[k].size - 1) \div FIX_SEGMENT_SIZE
<1> DEFINE t == front \o rest
           m == Len(front)
           part == SubSeq(rest, 1, k - 1)
<1>1. /\ m \in Nat /\ Len(rest) \in Nat /\ t \in Seq(Block) /\ Len(t) = m + Len(rest)
      /\ m + k \in 1 .. Len(t) /\ t[m + k] = rest[k] /\ DOMAIN t = 1 .. Len(t)
      /\ rest[k] \in Block
  BY ConcatProperties, LenProperties
<1>2. part \in Seq(Block) /\ Len(part) = k - 1 /\ \A j \in 1 .. k - 1 : part[j] = rest[j]
  OBVIOUS
<1>3. SubSeq(t, 1, m + k - 1) = front \o part
  <2>1. /\ SubSeq(t, 1, m + k - 1) \in Seq(Block) /\ Len(SubSeq(t, 1, m + k - 1)) = m + k - 1
        /\ \A j \in 1 .. m + k - 1 : SubSeq(t, 1, m + k - 1)[j] = t[j]
    <3> HIDE DEF t, m, part
    <3>1. m + k - 1 \in 0 .. Len(t)
      BY <1>1
    <3> QED BY <1>1, <3>1
  <2>2. /\ front \o part \in Seq(Block) /\ Len(front \o part) = m + k - 1
        /\ \A j \in 1 .. m + k - 1 : (front \o part)[j] = IF j <= m THEN front[j] ELSE part[j - m]
    <3>1. Len(front \o part) = m + (k - 1) /\ m + (k - 1) = m + k - 1
      BY <1>1, <1>2, ConcatProperties
    <3> QED BY <1>2, <3>1, ConcatProperties
  <2>3. \A j \in 1 .. m + k - 1 : t[j] = IF j <= m THEN front[j] ELSE rest[j - m]
    <3>1. \A j \in 1 .. m + Len(rest) : t[j] = IF j <= m THEN front[j] ELSE rest[j - m]
      BY ConcatProperties
    <3>2. \A j \in 1 .. m + k - 1 : j \in 1 .. m + Len(rest)
      BY <1>1
    <3> QED BY <3>1, <3>2
  <2>4. \A j \in 1 .. m + k - 1 : ~(j <= m) => part[j - m] = rest[j - m]
    <3>1. \A j \in 1 .. m + k - 1 : ~(j <= m) => j - m \in 1 .. k - 1
      BY <1>1
    <3> QED BY <1>2, <3>1
  <2> DEFINE a == SubSeq(t, 1, m + k - 1)
             c == front \o part
  <2>5. a \in Seq(Block) /\ c \in Seq(Block) /\ Len(a) = m + k - 1 /\ Len(c) = m + k - 1
    BY <2>1, <2>2
  <2>6. \A j \in 1 .. m + k - 1 : a[j] = c[j]
    BY <2>1, <2>2, <2>3, <2>4
  <2> HIDE DEF a, c, t, m
  <2>7. a = c
    BY <2>5, <2>6, SeqEqual
  <2> QED BY <2>7 DEF a, c
<1>4. PICK n \in DOMAIN t : n = m + k /\ t[n] = rest[k] /\ SubSeq(t, 1, n - 1) = front \o part
  <2> HIDE DEF t, m, part
  <2>1. m + k - 1 = (m + k) - 1 /\ m + k \in DOMAIN t
    BY <1>1
  <2> QED BY <1>1, <1>3, <2>1
<1>5. /\ t[n].offset = TotalSize(SubSeq(t, 1, n - 1))
      /\ t[n].offset \div FIX_SEGMENT_SIZE = (t[n].offset + t[n].size - 1) \div FIX_SEGMENT_SIZE
  <2> HIDE DEF t
  <2> QED BY Zenon DEF t, IsAligned
<1>6. TotalSize(front \o part) = TotalSize(front) + TotalSize(part)
  BY <1>2, TotalSizeOfConcat
<1> HIDE DEF t, m, part
<1>7. rest[k].offset = TotalSize(front) + TotalSize(part)
  BY <1>4, <1>5, <1>6
<1>8. rest[k].offset \div FIX_SEGMENT_SIZE = (rest[k].offset + rest[k].size - 1) \div FIX_SEGMENT_SIZE
  BY <1>4, <1>5
<1> QED BY <1>1, <1>2, <1>7, <1>8 DEF RangeOf, part

AllBelow(blocks, r) == \A k \in 1 .. Len(blocks) : RangeOf(blocks[k]) < r

\* What is left of an aligned trace when its ranges before r have been read.
AtRange(trace, rest, r) ==
  \E front \in Seq(Block) :
    /\ trace = front \o rest
    /\ AllBelow(front, r)
    /\ rest # <<>> => TotalSize(front) = r * FIX_SEGMENT_SIZE

LEMMA RangeFacts ==
  ASSUME NEW r \in Nat, NEW a \in Nat
  PROVE  /\ r * FIX_SEGMENT_SIZE \in Nat
         /\ (r + 1) * FIX_SEGMENT_SIZE = r * FIX_SEGMENT_SIZE + FIX_SEGMENT_SIZE
         /\ a < FIX_SEGMENT_SIZE => (r * FIX_SEGMENT_SIZE + a) \div FIX_SEGMENT_SIZE = r
         /\ (r * FIX_SEGMENT_SIZE + a) \div FIX_SEGMENT_SIZE >= r
  BY SegmentSizeAssumption

\* A block of which the last byte is in range r ends at its end or before.
LEMMA RangeEnds ==
  ASSUME NEW r \in Nat, NEW a \in Int, (r * FIX_SEGMENT_SIZE + a - 1) \div FIX_SEGMENT_SIZE = r
  PROVE  a <= FIX_SEGMENT_SIZE
  BY SegmentSizeAssumption

LEMMA RangeOfType == \A b \in Block : RangeOf(b) \in Nat
<1> SUFFICES ASSUME NEW b \in Block PROVE RangeOf(b) \in Nat
  OBVIOUS
<1>1. PICK x \in Nat : x = b.offset
  BY DEF Block
<1>2. x \div FIX_SEGMENT_SIZE \in Nat
  BY SegmentSizeAssumption
<1> QED BY <1>1, <1>2 DEF RangeOf

\* A segment takes no more records than it needs.
LEMMA SegmentIsShort ==
  ASSUME NEW t \in Seq(Block), NEW k \in 0 .. Len(t), k < SegmentLen(t)
  PROVE  TotalSize(SubSeq(t, 1, k)) \in Nat /\ TotalSize(SubSeq(t, 1, k)) < FIX_SEGMENT_SIZE
<1> DEFINE T == RecordsToSize(t) \union {Len(t)}
           size == TotalSize(SubSeq(t, 1, k))
<1>1. size \in Nat
  <2>1. SubSeq(t, 1, k) \in Seq(Block)
    OBVIOUS
  <2> QED BY <2>1, TotalSizeOfAppend
<1>2. CASE k = 0
  <2>1. SubSeq(t, 1, 0) = <<>>
    OBVIOUS
  <2>2. size = 0
    BY <1>2, <2>1, TotalSizeOfAppend, Zenon
  <2> HIDE DEF size
  <2>3. size < FIX_SEGMENT_SIZE
    BY <2>2, SegmentSizeAssumption
  <2> QED BY <1>1, <2>3 DEF size
<1>3. CASE k # 0
  <2>1. Len(t) \in Nat /\ T \in SUBSET Nat /\ T # {} /\ SegmentLen(t) = Min(T)
    BY DEF RecordsToSize, SegmentLen
  <2>2. \A n \in T : SegmentLen(t) <= n
    <3> HIDE DEF T
    <3> QED BY <2>1, MinOfNat
  <2>3. SegmentLen(t) \in Nat /\ k \notin T
    <3>1. SegmentLen(t) \in Nat
      BY <2>1, SegmentLenRange
    <3>2. k \in T => SegmentLen(t) <= k
      BY <2>2, Zenon
    <3> HIDE DEF T
    <3> QED BY <2>1, <3>1, <3>2
  <2>4. k \in 1 .. Len(t) /\ k \notin RecordsToSize(t)
    BY <1>3, <2>3
  <2>5. ~(size >= FIX_SEGMENT_SIZE)
    <3> HIDE DEF size
    <3> QED BY <2>4 DEF RecordsToSize, size
  <2> HIDE DEF size
  <2>6. size < FIX_SEGMENT_SIZE
    BY <1>1, <2>5, SegmentSizeAssumption
  <2> QED BY <1>1, <2>6 DEF size
<1> QED BY <1>2, <1>3

LEMMA OneMoreRecord ==
  ASSUME NEW t \in Seq(Block), NEW k \in 1 .. Len(t)
  PROVE  /\ t[k].size \in Nat
         /\ TotalSize(SubSeq(t, 1, k)) = TotalSize(SubSeq(t, 1, k - 1)) + t[k].size
<1>1. t[k] \in Block /\ SubSeq(t, 1, k - 1) \in Seq(Block)
  OBVIOUS
<1>2. SubSeq(t, 1, k) = Append(SubSeq(t, 1, k - 1), t[k])
  OBVIOUS
<1>3. t[k].size \in Nat
  BY <1>1 DEF Block
<1> QED BY <1>1, <1>2, <1>3, TotalSizeOfAppend

\* In an aligned trace read up to range r, the next segment is range r.
LEMMA SegmentInRange ==
  ASSUME NEW front \in Seq(Block), NEW rest \in Seq(Block), NEW r \in Nat,
         IsAligned(front \o rest), rest # <<>> => TotalSize(front) = r * FIX_SEGMENT_SIZE,
         NEW k \in 1 .. SegmentLen(rest)
  PROVE  RangeOf(rest[k]) = r
<1>1. SegmentLen(rest) \in 0 .. Len(rest) /\ Len(rest) \in Nat
  BY SegmentLenRange, LenProperties
<1>2. k \in 1 .. Len(rest) /\ k - 1 \in 0 .. Len(rest) /\ k - 1 < SegmentLen(rest)
  BY <1>1
<1>3. TotalSize(front) = r * FIX_SEGMENT_SIZE
  BY <1>2, EmptySeq
<1>4. PICK a \in Nat : a = TotalSize(SubSeq(rest, 1, k - 1)) /\ a < FIX_SEGMENT_SIZE
  <2>1. PICK j \in 0 .. Len(rest) : j = k - 1 /\ j < SegmentLen(rest)
    BY <1>2
  <2> QED BY <2>1, SegmentIsShort
<1>5. rest[k].offset = r * FIX_SEGMENT_SIZE + a
  BY <1>2, <1>3, <1>4, OffsetIs
<1> QED BY <1>4, <1>5, RangeFacts DEF RangeOf

\* It ends where the range ends, unless the trace ends before.
LEMMA SegmentEndsRange ==
  ASSUME NEW front \in Seq(Block), NEW rest \in Seq(Block), NEW r \in Nat,
         IsAligned(front \o rest), TotalSize(front) = r * FIX_SEGMENT_SIZE,
         SegmentLen(rest) # Len(rest)
  PROVE  TotalSize(SubSeq(rest, 1, SegmentLen(rest))) = FIX_SEGMENT_SIZE
<1>1. PICK n \in 0 .. Len(rest) : n = SegmentLen(rest)
  BY SegmentLenRange
<1>2. TotalSize(SubSeq(rest, 1, n)) >= FIX_SEGMENT_SIZE
  BY <1>1, SegmentLenRange
<1>3. Len(rest) \in Nat /\ n \in 1 .. n /\ n \in 1 .. Len(rest)
  <2>1. rest # <<>>
    BY <1>1, EmptySeq
  <2> QED BY <1>1, <2>1, SegmentLenRange, LenProperties
<1>4. RangeOf(rest[n]) = r
  BY <1>1, <1>3, SegmentInRange
<1>5. /\ rest[n].offset = r * FIX_SEGMENT_SIZE + TotalSize(SubSeq(rest, 1, n - 1))
      /\ RangeOf(rest[n]) = (rest[n].offset + rest[n].size - 1) \div FIX_SEGMENT_SIZE
      /\ SubSeq(rest, 1, n - 1) \in Seq(Block)
  BY <1>3, OffsetIs
<1>6. PICK a \in Nat, z \in Nat : a = TotalSize(SubSeq(rest, 1, n - 1)) /\ z = rest[n].size
  BY <1>3, <1>5, OneMoreRecord, TotalSizeOfAppend
<1>7. TotalSize(SubSeq(rest, 1, n)) = a + z
  BY <1>3, <1>6, OneMoreRecord
<1>8. (r * FIX_SEGMENT_SIZE + (a + z) - 1) \div FIX_SEGMENT_SIZE = r
  <2>1. PICK b \in Nat : b = r * FIX_SEGMENT_SIZE
    BY RangeFacts
  <2>2. rest[n].offset + rest[n].size - 1 = b + (a + z) - 1
    <3>1. rest[n].offset = b + a
      BY <1>5, <1>6, <2>1, Zenon
    <3>2. rest[n].size = z
      BY <1>6
    <3>3. \A x, y, u \in Nat : (u + x) + y - 1 = u + (x + y) - 1
      OBVIOUS
    <3>4. a \in Nat /\ z \in Nat /\ b \in Nat
      OBVIOUS
    <3>5. (b + a) + z - 1 = b + (a + z) - 1
      BY <3>3, <3>4
    <3> QED BY <3>1, <3>2, <3>5, Zenon
  <2> QED BY <1>4, <1>5, <2>1, <2>2
<1>9. a + z \in Int /\ a + z <= FIX_SEGMENT_SIZE
  BY <1>8, RangeEnds
<1> QED BY <1>1, <1>2, <1>7, <1>9, SegmentSizeAssumption

LEMMA AllBelowOfConcat ==
  ASSUME NEW s \in Seq(Block), NEW u \in Seq(Block), NEW r, AllBelow(s, r), AllBelow(u, r)
  PROVE  AllBelow(s \o u, r)
<1>1. /\ s \o u \in Seq(Block) /\ Len(s \o u) = Len(s) + Len(u)
      /\ \A k \in 1 .. Len(s) + Len(u) : (s \o u)[k] = IF k <= Len(s) THEN s[k] ELSE u[k - Len(s)]
  BY ConcatProperties
<1>2. \A k \in 1 .. Len(s) + Len(u) :
        \/ k \in 1 .. Len(s) /\ (s \o u)[k] = s[k]
        \/ k - Len(s) \in 1 .. Len(u) /\ (s \o u)[k] = u[k - Len(s)]
  BY <1>1, LenProperties
<1> QED BY <1>1, <1>2 DEF AllBelow

LEMMA SegmentIsRange ==
  ASSUME NEW t \in Seq(Block), NEW rest \in Seq(Block), NEW r \in Nat, IsAligned(t), AtRange(t, rest, r)
  PROVE  /\ NonEmpty(SubSeq(rest, 1, SegmentLen(rest))) = InRange(t, r)
         /\ AtRange(t, AfterSegment(rest), r + 1)
<1>1. PICK front \in Seq(Block) :
        /\ t = front \o rest
        /\ AllBelow(front, r)
        /\ rest # <<>> => TotalSize(front) = r * FIX_SEGMENT_SIZE
  BY DEF AtRange
<1>2. PICK n \in 0 .. Len(rest) : n = SegmentLen(rest)
  BY SegmentLenRange
<1>3. PICK seg \in Seq(Block), after \in Seq(Block) :
        /\ seg = SubSeq(rest, 1, n) /\ after = AfterSegment(rest) /\ rest = seg \o after
  BY <1>2, SegmentAndAfter
<1>4. Len(seg) = n /\ \A k \in 1 .. n : seg[k] = rest[k]
  BY <1>3
<1>5. \A k \in 1 .. Len(seg) : RangeOf(seg[k]) = r
  <2> SUFFICES ASSUME NEW k \in 1 .. n PROVE RangeOf(rest[k]) = r
    BY <1>4
  <2>1. IsAligned(front \o rest) /\ k \in 1 .. SegmentLen(rest)
    BY <1>1, <1>2
  <2> QED BY <1>1, <2>1, SegmentInRange
<1>6. PICK read \in Seq(Block) : read = front \o seg /\ t = read \o after
  <2>1. front \o seg \in Seq(Block)
    BY ConcatProperties
  <2>2. (front \o seg) \o after = front \o (seg \o after)
    <3>1. Regroups(front, seg, after)
      BY ThreeParts
    <3> QED BY <3>1 DEF Regroups
  <2> QED BY <1>1, <1>3, <2>1, <2>2
<1>7. after # <<>> => TotalSize(read) = (r + 1) * FIX_SEGMENT_SIZE
  <2> SUFFICES ASSUME after # <<>> PROVE TotalSize(read) = (r + 1) * FIX_SEGMENT_SIZE
    OBVIOUS
  <2>1. n # Len(rest)
    <3>1. Len(rest) = Len(seg) + Len(after) /\ Len(after) # 0 /\ Len(after) \in Nat /\ Len(seg) \in Nat
      BY <1>3, ConcatProperties, EmptySeq, LenProperties
    <3> QED BY <1>4, <3>1
  <2>2. TotalSize(front) = r * FIX_SEGMENT_SIZE
    <3>1. rest # <<>>
      BY <1>2, <2>1, EmptySeq
    <3> QED BY <1>1, <3>1
  <2>3. TotalSize(seg) = FIX_SEGMENT_SIZE
    BY <1>1, <1>2, <1>3, <2>1, <2>2, SegmentEndsRange
  <2>4. TotalSize(read) = r * FIX_SEGMENT_SIZE + FIX_SEGMENT_SIZE
    BY <1>6, <2>2, <2>3, TotalSizeOfConcat
  <2> QED BY <2>4, RangeFacts
<1>8. \A k \in 1 .. Len(after) : RangeOf(after[k]) # r
  <2> SUFFICES ASSUME NEW k \in 1 .. Len(after) PROVE RangeOf(after[k]) # r
    OBVIOUS
  <2>1. TotalSize(read) = (r + 1) * FIX_SEGMENT_SIZE
    BY <1>7, EmptySeq
  <2>2. PICK a \in Nat : a = TotalSize(SubSeq(after, 1, k - 1))
    <3>1. SubSeq(after, 1, k - 1) \in Seq(Block)
      OBVIOUS
    <3> QED BY <3>1, TotalSizeOfAppend
  <2>3. after[k].offset = (r + 1) * FIX_SEGMENT_SIZE + a
    <3>1. IsAligned(read \o after)
      BY <1>6
    <3>2. after[k].offset = TotalSize(read) + TotalSize(SubSeq(after, 1, k - 1))
      BY <3>1, OffsetIs
    <3> QED BY <2>1, <2>2, <3>2
  <2>4. PICK q \in Nat : q = r + 1
    OBVIOUS
  <2>5. RangeOf(after[k]) >= q
    BY <2>2, <2>3, <2>4, RangeFacts DEF RangeOf
  <2>6. after[k] \in Block
    OBVIOUS
  <2>7. RangeOf(after[k]) \in Nat
    BY <2>6, RangeOfType
  <2> QED BY <2>4, <2>5, <2>7
<1>9. AllBelow(read, r + 1)
  <2>1. AllBelow(seg, r + 1)
    <3>1. r < r + 1
      OBVIOUS
    <3> QED BY <1>5, <3>1, Zenon DEF AllBelow
  <2>2. AllBelow(front, r + 1)
    <3> SUFFICES ASSUME NEW k \in 1 .. Len(front) PROVE RangeOf(front[k]) < r + 1
      BY DEF AllBelow
    <3>1. RangeOf(front[k]) < r /\ front[k] \in Block
      BY <1>1 DEF AllBelow
    <3>2. RangeOf(front[k]) \in Nat
      BY <3>1, RangeOfType
    <3> QED BY <3>1, <3>2
  <2> QED BY <1>6, <2>1, <2>2, AllBelowOfConcat
<1>10. AtRange(t, after, r + 1)
  BY <1>6, <1>7, <1>9 DEF AtRange
<1>11. InRange(t, r) = NonEmpty(seg)
  <2>1. NoneIn(front, r)
    <3> SUFFICES ASSUME NEW k \in 1 .. Len(front) PROVE RangeOf(front[k]) # r
      BY DEF NoneIn
    <3>1. RangeOf(front[k]) < r /\ front[k] \in Block
      BY <1>1 DEF AllBelow
    <3>2. RangeOf(front[k]) \in Nat
      BY <3>1, RangeOfType
    <3> QED BY <3>1, <3>2
  <2>2. NoneIn(after, r) /\ AllIn(seg, r)
    BY <1>5, <1>8 DEF NoneIn, AllIn
  <2>3. InRange(front, r) = <<>> /\ InRange(after, r) = <<>> /\ InRange(seg, r) = NonEmpty(seg)
    BY <2>1, <2>2, NothingInRange, WholeRange
  <2>4. InRange(read, r) = <<>> \o NonEmpty(seg)
    <3>1. InRange(front \o seg, r) = InRange(front, r) \o InRange(seg, r)
      BY InRangeOfConcat
    <3> QED BY <1>6, <2>3, <3>1
  <2>5. InRange(t, r) = (<<>> \o NonEmpty(seg)) \o <<>>
    <3>1. InRange(read \o after, r) = InRange(read, r) \o InRange(after, r)
      BY InRangeOfConcat
    <3> QED BY <1>6, <2>3, <2>4, <3>1
  <2>6. NonEmpty(seg) \in Seq(Block)
    BY NonEmptyOfAppend
  <2> QED BY <2>5, <2>6, ConcatEmptySeq
<1> QED BY <1>2, <1>3, <1>10, <1>11

-----------------------------------------------------------------------------
(* The right tags *)

LEMMA InRangeIsInRange ==
  ASSUME NEW r, NEW s \in Seq(Block)
  PROVE  AllIn(InRange(s, r), r)
<1> DEFINE P == {u \in Seq(Block) : AllIn(InRange(u, r), r)}
<1>1. <<>> \in P
  <2>1. Len(<<>>) = 0 /\ <<>> \in Seq(Block) /\ InRange(<<>>, r) = <<>>
    BY EmptySeq, InRangeOfAppend
  <2> QED BY <2>1 DEF AllIn
<1>2. ASSUME NEW u \in Seq(Block), NEW b \in Block, u \in P PROVE Append(u, b) \in P
  <2>1. PICK x \in Seq(Block) : x = InRange(u, r) /\ AllIn(x, r)
    BY <1>2, InRangeOfAppend
  <2>2. InRange(Append(u, b), r) = IF b.size # 0 /\ RangeOf(b) = r THEN Append(x, b) ELSE x
    BY <2>1, InRangeOfAppend
  <2>3. RangeOf(b) = r => AllIn(Append(x, b), r)
    <3> DEFINE y == Append(x, b)
    <3>1. /\ Len(y) = Len(x) + 1 /\ Len(x) \in Nat /\ y[Len(x) + 1] = b
          /\ \A k \in 1 .. Len(x) : y[k] = x[k]
      OBVIOUS
    <3> HIDE DEF y
    <3>2. \A k \in 1 .. Len(y) : k \in 1 .. Len(x) \/ k = Len(x) + 1
      BY <3>1
    <3>3. RangeOf(b) = r => \A k \in 1 .. Len(y) : RangeOf(y[k]) = r
      BY <2>1, <3>1, <3>2 DEF AllIn
    <3> QED BY <3>3 DEF AllIn, y
  <2>4. AllIn(InRange(Append(u, b), r), r)
    <3>1. CASE b.size # 0 /\ RangeOf(b) = r
      BY <2>2, <2>3, <3>1
    <3>2. CASE ~(b.size # 0 /\ RangeOf(b) = r)
      BY <2>1, <2>2, <3>2
    <3> QED BY <3>1, <3>2
  <2> QED BY <2>4
<1>3. \A u \in Seq(Block) : u \in P
  <2> HIDE DEF P
  <2> QED BY <1>1, <1>2, SeqIsInductive
<1> QED BY <1>3

\* What sequences that differ in tags have in common.
LEMMA SameUntagged ==
  ASSUME NEW s \in Seq(Block), NEW u \in Seq(Block), Untagged(s) = Untagged(u)
  PROVE  /\ Len(s) = Len(u)
         /\ SegmentCksum(s) = SegmentCksum(u)
         /\ Contents(s) = Contents(u)
         /\ \A k \in 1 .. Len(s) : s[k].cksum = u[k].cksum /\ s[k].offset = u[k].offset
<1>1. Len(s) = Len(u) /\ DOMAIN s = 1 .. Len(s) /\ DOMAIN u = 1 .. Len(s)
  BY UntaggedIs
<1>2. ASSUME NEW k \in 1 .. Len(s)
      PROVE  s[k].cksum = u[k].cksum /\ s[k].offset = u[k].offset
  <2>1. PICK b \in Block, d \in Block : b = s[k] /\ d = u[k]
    BY <1>1
  <2>2. PICK r : r = Untagged(s)[k]
    OBVIOUS
  <2>3. r = [b EXCEPT !.file_id = {}]
    BY <1>1, <2>1, <2>2, UntaggedIs
  <2>4. r = [d EXCEPT !.file_id = {}]
    BY <1>1, <2>1, <2>2, UntaggedIs
  <2>5. r.cksum = b.cksum /\ r.offset = b.offset
    BY <2>3, TagsAreSets, Retagged
  <2>6. r.cksum = d.cksum /\ r.offset = d.offset
    BY <2>4, TagsAreSets, Retagged
  <2> QED BY <2>1, <2>5, <2>6
<1>3. SegmentCksum(s) = SegmentCksum(u)
  BY <1>1, <1>2 DEF SegmentCksum
<1>4. Contents(s) = Contents(u)
  BY <1>1, <1>2 DEF Contents
<1> QED BY <1>1, <1>2, <1>3, <1>4

\* The tag of levels 1 and 2, from a segment and the parent's, and of level 3.
LevelTag(seg, pseg, c) ==
  IF SegmentCksum(seg) = SegmentCksum(pseg) THEN IN_PARENT
  ELSE IF c \in Contents(pseg) THEN IN_DIRTY_SEG
  ELSE {}

CdsTag(common, c) == IF c \in Contents(common) THEN IN_CDS ELSE {}

TagOf(s, p, common, blk) ==
  LevelTag(InRange(s, RangeOf(blk)), InRange(p, RangeOf(blk)), blk.cksum) \union CdsTag(common, blk.cksum)

AllRight(blocks, s, p, common) ==
  \A k \in 1 .. Len(blocks) : blocks[k].file_id = TagOf(s, p, common, blocks[k])

\* The first n - 1 blocks of the segment have all their tags, the others
\* those of levels 1 and 2.
TagsSoFar(seg, pseg, common, n) ==
  \A k \in 1 .. Len(seg) :
    seg[k].file_id = LevelTag(seg, pseg, seg[k].cksum)
                       \union (IF k < n THEN CdsTag(common, seg[k].cksum) ELSE {})

\* Between segments: both traces have been read up to the same range.
Between(s, p, rest, prest) == \E r \in Nat : AtRange(s, rest, r) /\ AtRange(p, prest, r)

\* A segment is at hand, and the parent's: both are the same range.
AtHandIsRange(s, p, seg, pseg, rest, prest) ==
  \E r \in Nat :
    /\ AtRange(s, rest, r + 1) /\ AtRange(p, prest, r + 1)
    /\ Untagged(seg) = Untagged(InRange(s, r))
    /\ Untagged(pseg) = Untagged(InRange(p, r))

LEMMA AtTheFirstRange ==
  ASSUME NEW s \in Seq(Block), NEW p \in Seq(Block)
  PROVE  Between(s, p, s, p)
<1>1. ASSUME NEW t \in Seq(Block) PROVE AtRange(t, t, 0)
  <2>1. <<>> \in Seq(Block) /\ Len(<<>>) = 0 /\ t = <<>> \o t
    BY EmptySeq, ConcatEmptySeq
  <2>2. AllBelow(<<>>, 0)
    BY <2>1 DEF AllBelow
  <2>3. TotalSize(<<>>) = 0 * FIX_SEGMENT_SIZE
    BY TotalSizeOfAppend, SegmentSizeAssumption
  <2> QED BY <2>1, <2>2, <2>3 DEF AtRange
<1>2. AtRange(s, s, 0) /\ AtRange(p, p, 0) /\ 0 \in Nat
  BY <1>1
<1> QED BY <1>2 DEF Between

LEMMA NothingLeft ==
  SegmentBlocks(<<>>) = <<>> /\ AfterSegment(<<>>) = <<>>
<1>1. PICK none \in Seq(Block) : none = <<>> /\ Len(none) = 0
  BY EmptySeq
<1>2. SegmentLen(none) = 0
  <2>1. SegmentLen(none) \in 0 .. Len(none)
    BY SegmentLenRange
  <2> QED BY <1>1, <2>1
<1>3. SubSeq(none, 1, 0) = <<>>
  BY <1>1
<1>4. SegmentBlocks(none) = <<>>
  BY <1>2, <1>3, UntaggedNothing DEF SegmentBlocks
<1>5. AfterSegment(none) = <<>>
  BY <1>1, <1>2, <1>3 DEF AfterSegment
<1> QED BY <1>1, <1>4, <1>5

LEMMA LoadKeepsStep ==
  ASSUME NEW s \in Seq(Block), NEW p \in Seq(Block), NEW rest \in Seq(Block), NEW prest \in Seq(Block),
         IsAligned(s), IsAligned(p), Between(s, p, rest, prest)
  PROVE  AtHandIsRange(s, p, SegmentBlocks(rest), SegmentBlocks(prest), AfterSegment(rest), AfterSegment(prest))
<1>1. PICK r \in Nat : AtRange(s, rest, r) /\ AtRange(p, prest, r)
  BY DEF Between
<1>2. /\ NonEmpty(SubSeq(rest, 1, SegmentLen(rest))) = InRange(s, r)
      /\ AtRange(s, AfterSegment(rest), r + 1)
  BY <1>1, SegmentIsRange
<1>3. /\ NonEmpty(SubSeq(prest, 1, SegmentLen(prest))) = InRange(p, r)
      /\ AtRange(p, AfterSegment(prest), r + 1)
  BY <1>1, SegmentIsRange
<1>4. SegmentBlocks(rest) = Untagged(InRange(s, r)) /\ SegmentBlocks(prest) = Untagged(InRange(p, r))
  BY <1>2, <1>3 DEF SegmentBlocks
<1>5. InRange(s, r) \in Seq(Block) /\ InRange(p, r) \in Seq(Block)
  BY InRangeOfAppend
<1>6. /\ Untagged(SegmentBlocks(rest)) = Untagged(InRange(s, r))
      /\ Untagged(SegmentBlocks(prest)) = Untagged(InRange(p, r))
  BY <1>4, <1>5, UntaggedIs
<1> QED BY <1>2, <1>3, <1>6 DEF AtHandIsRange

LEMMA WriteKeepsStep ==
  ASSUME NEW s, NEW p, NEW seg, NEW pseg, NEW rest, NEW prest, AtHandIsRange(s, p, seg, pseg, rest, prest)
  PROVE  Between(s, p, rest, prest)
<1>1. PICK r \in Nat : AtRange(s, rest, r + 1) /\ AtRange(p, prest, r + 1)
  BY DEF AtHandIsRange
<1>2. PICK q \in Nat : q = r + 1
  OBVIOUS
<1> QED BY <1>1, <1>2 DEF Between

\* A segment with all its tags is tagged right.
LEMMA TaggedSegmentIsRight ==
  ASSUME NEW s \in Seq(Block), NEW p \in Seq(Block), NEW seg \in Seq(Block), NEW pseg \in Seq(Block),
         NEW rest, NEW prest, AtHandIsRange(s, p, seg, pseg, rest, prest),
         NEW common, NEW n \in Nat, n > Len(seg), TagsSoFar(seg, pseg, common, n)
  PROVE  AllRight(seg, s, p, common)
<1>1. PICK r \in Nat : /\ Untagged(seg) = Untagged(InRange(s, r))
                       /\ Untagged(pseg) = Untagged(InRange(p, r))
  BY DEF AtHandIsRange
<1>2. PICK here \in Seq(Block), there \in Seq(Block) : here = InRange(s, r) /\ there = InRange(p, r)
  BY InRangeOfAppend
<1>3. /\ Len(seg) = Len(here) /\ SegmentCksum(seg) = SegmentCksum(here)
      /\ \A k \in 1 .. Len(seg) : seg[k].offset = here[k].offset
  BY <1>1, <1>2, SameUntagged
<1>4. SegmentCksum(pseg) = SegmentCksum(there) /\ Contents(pseg) = Contents(there)
  BY <1>1, <1>2, SameUntagged
<1>5. AllIn(here, r)
  BY <1>2, InRangeIsInRange
<1> SUFFICES ASSUME NEW k \in 1 .. Len(seg) PROVE seg[k].file_id = TagOf(s, p, common, seg[k])
  BY DEF AllRight
<1>6. RangeOf(seg[k]) = r
  BY <1>3, <1>5 DEF AllIn, RangeOf
<1>7. \A c : LevelTag(seg, pseg, c) = LevelTag(here, there, c)
  BY <1>3, <1>4 DEF LevelTag
<1>8. k < n
  BY LenProperties
<1>9. seg[k].file_id = LevelTag(seg, pseg, seg[k].cksum) \union CdsTag(common, seg[k].cksum)
  BY <1>8 DEF TagsSoFar
<1>10. TagOf(s, p, common, seg[k]) = LevelTag(here, there, seg[k].cksum) \union CdsTag(common, seg[k].cksum)
  BY <1>2, <1>6 DEF TagOf
<1> QED BY <1>7, <1>9, <1>10

LEMMA AllRightOfConcat ==
  ASSUME NEW a \in Seq(Block), NEW b \in Seq(Block), NEW s, NEW p, NEW common,
         AllRight(a, s, p, common), AllRight(b, s, p, common)
  PROVE  AllRight(a \o b, s, p, common)
<1>1. /\ a \o b \in Seq(Block) /\ Len(a \o b) = Len(a) + Len(b)
      /\ \A k \in 1 .. Len(a) + Len(b) : (a \o b)[k] = IF k <= Len(a) THEN a[k] ELSE b[k - Len(a)]
  BY ConcatProperties
<1>2. \A k \in 1 .. Len(a) + Len(b) :
        \/ k \in 1 .. Len(a) /\ (a \o b)[k] = a[k]
        \/ k - Len(a) \in 1 .. Len(b) /\ (a \o b)[k] = b[k - Len(a)]
  BY <1>1, LenProperties
<1> QED BY <1>1, <1>2 DEF AllRight

Promised == IsAligned(snapshot) /\ IsAligned(ParentTrace) /\ Sorted(cds)

ParentOrNot ==
  /\ has_parent <=> parent # NoParent
  /\ ~has_parent => parent_seg = <<>> /\ parent_input = <<>>

RightInv ==
  /\ SnapshotTypes
  /\ ParentOrNot
  /\ pc = "tag" => i = 1 /\ \A k \in 1 .. Len(current_seg) : current_seg[k].file_id = {}
  /\ Promised =>
       /\ AllRight(output, snapshot, ParentTrace, cds)
       /\ pc = "load" => Between(snapshot, ParentTrace, current_input, parent_input)
       /\ pc \in {"tag", "cds"} =>
            AtHandIsRange(snapshot, ParentTrace, current_seg, parent_seg, current_input, parent_input)
       /\ pc = "cds" => TagsSoFar(current_seg, parent_seg, cds, i)

LEMMA ParentTraceType == SnapshotTypes => ParentTrace \in Seq(Block)
  BY NothingIsASeq DEF SnapshotTypes, ParentTrace

LEMMA RightOpen ==
  ASSUME RightInv, Open
  PROVE  RightInv'
<1>1. SnapshotTypes' /\ ParentTrace' \in Seq(Block)
  <2>1. SnapshotTypes'
    BY OpenTypes
  <2> QED BY <2>1, NothingIsASeq DEF SnapshotTypes, ParentTrace
<1>2. /\ pc' = "load" /\ output' = <<>> /\ current_input' = snapshot' /\ parent_seg' = <<>>
      /\ has_parent' <=> parent' # NoParent
      /\ parent_input' = IF parent' = NoParent THEN <<>> ELSE parent'
  BY DEF Open
<1>3. ParentOrNot' /\ parent_input' = ParentTrace'
  BY <1>2 DEF ParentOrNot, ParentTrace
<1>4. \A s, p, c : AllRight(<<>>, s, p, c)
  BY EmptySeq DEF AllRight
<1>5. Between(snapshot', ParentTrace', snapshot', ParentTrace')
  <2>1. PICK s \in Seq(Block), p \in Seq(Block) : s = snapshot' /\ p = ParentTrace'
    BY <1>1 DEF SnapshotTypes
  <2>2. Between(s, p, s, p)
    BY AtTheFirstRange
  <2> QED BY <2>1, <2>2
<1> QED BY <1>1, <1>2, <1>3, <1>4, <1>5 DEF RightInv

LEMMA RightLoad ==
  ASSUME RightInv, LoadSegments
  PROVE  RightInv'
<1>1. SnapshotTypes /\ SnapshotTypes' /\ ParentTrace \in Seq(Block) /\ ParentOrNot
  BY LoadTypes, ParentTraceType DEF RightInv
<1>2. /\ pc = "load" /\ pc' = "tag" /\ i' = 1 /\ output' = output /\ snapshot' = snapshot /\ cds' = cds
      /\ parent' = parent /\ has_parent' = has_parent
      /\ current_seg' = SegmentBlocks(current_input) /\ current_input' = AfterSegment(current_input)
  BY DEF LoadSegments, argVars
<1>3. /\ parent_seg' = SegmentBlocks(parent_input) /\ parent_input' = AfterSegment(parent_input)
      /\ ParentOrNot'
  <2>1. CASE has_parent
    BY <1>1, <1>2, <2>1 DEF LoadSegments, NextParentSeg, ParentOrNot
  <2>2. CASE ~has_parent
    BY <1>1, <1>2, <2>2, NothingLeft DEF LoadSegments, ParentOrNot
  <2> QED BY <2>1, <2>2
<1>4. \A k \in 1 .. Len(current_seg') : current_seg'[k].file_id = {}
  BY <1>1, <1>2, NextSegmentContents DEF SnapshotTypes
<1>5. ParentTrace' = ParentTrace /\ (Promised' => Promised)
  BY <1>2 DEF ParentTrace, Promised
<1>6. Promised =>
        AtHandIsRange(snapshot, ParentTrace, current_seg', parent_seg', current_input', parent_input')
  <2> SUFFICES ASSUME Promised
               PROVE  AtHandIsRange(snapshot, ParentTrace, current_seg', parent_seg', current_input', parent_input')
    OBVIOUS
  <2>1. PICK p \in Seq(Block) : p = ParentTrace
    BY <1>1
  <2>2. /\ IsAligned(snapshot) /\ IsAligned(p) /\ Between(snapshot, p, current_input, parent_input)
        /\ snapshot \in Seq(Block) /\ current_input \in Seq(Block) /\ parent_input \in Seq(Block)
    BY <1>1, <1>2, <2>1 DEF RightInv, Promised, SnapshotTypes
  <2>3. AtHandIsRange(snapshot, p, SegmentBlocks(current_input), SegmentBlocks(parent_input),
                      AfterSegment(current_input), AfterSegment(parent_input))
    BY <2>2, LoadKeepsStep
  <2> QED BY <1>2, <1>3, <2>1, <2>3
<1>7. Promised => AllRight(output, snapshot, ParentTrace, cds)
  BY DEF RightInv
<1> QED BY <1>1, <1>2, <1>3, <1>4, <1>5, <1>6, <1>7 DEF RightInv

LEMMA RightWrite ==
  ASSUME RightInv, WriteSegment
  PROVE  RightInv'
<1>1. SnapshotTypes /\ SnapshotTypes' /\ ParentTrace \in Seq(Block) /\ ParentOrNot
  BY WriteTypes, ParentTraceType DEF RightInv
<1>2. /\ pc = "cds" /\ pc' = "load" /\ i > Len(current_seg) /\ output' = output \o current_seg
      /\ UNCHANGED <<snapshot, cds, parent, has_parent, current_input, parent_input, parent_seg>>
  BY DEF WriteSegment, inVars, argVars
<1>3. ParentTrace' = ParentTrace /\ (Promised' => Promised) /\ ParentOrNot'
  BY <1>1, <1>2 DEF ParentTrace, Promised, ParentOrNot
<1>4. ASSUME Promised
      PROVE  /\ AllRight(output', snapshot, ParentTrace, cds)
             /\ Between(snapshot, ParentTrace, current_input, parent_input)
  <2>1. PICK p \in Seq(Block) : p = ParentTrace
    BY <1>1
  <2>2. /\ AtHandIsRange(snapshot, p, current_seg, parent_seg, current_input, parent_input)
        /\ TagsSoFar(current_seg, parent_seg, cds, i) /\ AllRight(output, snapshot, p, cds)
    BY <1>2, <1>4, <2>1 DEF RightInv
  <2>3. /\ snapshot \in Seq(Block) /\ current_seg \in Seq(Block) /\ parent_seg \in Seq(Block)
        /\ output \in Seq(Block) /\ i \in Nat
    BY <1>1 DEF SnapshotTypes
  <2>4. AllRight(current_seg, snapshot, p, cds)
    BY <1>2, <2>2, <2>3, TaggedSegmentIsRight
  <2>5. AllRight(output \o current_seg, snapshot, p, cds)
    BY <2>2, <2>3, <2>4, AllRightOfConcat
  <2>6. Between(snapshot, p, current_input, parent_input)
    BY <2>2, WriteKeepsStep
  <2> QED BY <1>2, <2>1, <2>5, <2>6
<1> QED BY <1>1, <1>2, <1>3, <1>4 DEF RightInv

\* Where nothing is tagged and nothing loaded.
LEMMA RightRest ==
  ASSUME RightInv, SnapshotTypes', pc' \notin {"load", "tag", "cds"},
         UNCHANGED <<argVars, parent_input, has_parent, parent_seg>>,
         Promised => AllRight(output', snapshot, ParentTrace, cds)
  PROVE  RightInv'
<1>1. ParentTrace' = ParentTrace /\ (Promised' => Promised) /\ ParentOrNot' /\ snapshot' = snapshot /\ cds' = cds
  BY DEF ParentTrace, Promised, ParentOrNot, argVars, RightInv
<1> QED BY <1>1 DEF RightInv

\* Nothing but checksums of the segment bears on its tags of levels 1 and 2.
LEMMA LevelTagOfRetagged ==
  ASSUME NEW s \in Seq(Block), NEW r, IsRetagged(r, s), NEW pseg
  PROVE  /\ r \in Seq(Block) /\ Len(r) = Len(s) /\ Untagged(r) = Untagged(s)
         /\ \A k \in 1 .. Len(s) : r[k].cksum = s[k].cksum
         /\ \A c : LevelTag(r, pseg, c) = LevelTag(s, pseg, c)
<1>1. /\ r \in Seq(Block) /\ Len(r) = Len(s) /\ Untagged(r) = Untagged(s)
      /\ \A k \in 1 .. Len(s) : r[k].cksum = s[k].cksum
  BY RetaggedSeq
<1>2. SegmentCksum(r) = SegmentCksum(s)
  BY <1>1, SameUntagged
<1> QED BY <1>1, <1>2 DEF LevelTag

\* Levels 1 and 2.
LEMMA LevelsTagRight ==
  ASSUME RightInv, TagParent \/ TagDirty \/ WithoutParent
  PROVE  \A k \in 1 .. Len(current_seg) :
           current_seg'[k].file_id = LevelTag(current_seg, parent_seg, current_seg[k].cksum)
<1>1. /\ current_seg \in Seq(Block) /\ DOMAIN current_seg = 1 .. Len(current_seg) /\ pc = "tag"
      /\ \A k \in 1 .. Len(current_seg) : current_seg[k] \in Block /\ current_seg[k].file_id = {}
      /\ ParentOrNot
  BY DEF RightInv, SnapshotTypes, TagParent, TagDirty, WithoutParent
<1> SUFFICES ASSUME NEW k \in 1 .. Len(current_seg)
             PROVE  current_seg'[k].file_id = LevelTag(current_seg, parent_seg, current_seg[k].cksum)
  OBVIOUS
<1>2. PICK b \in Block : b = current_seg[k] /\ b.file_id = {}
  BY <1>1
<1>3. /\ Tagged(b, IN_PARENT).file_id = {} \union IN_PARENT
      /\ Tagged(b, IN_DIRTY_SEG).file_id = {} \union IN_DIRTY_SEG
  BY <1>2, TaggedTag
<1>4. CASE TagParent
  <2>1. current_seg'[k] = Tagged(b, IN_PARENT)
    BY <1>1, <1>2, <1>4 DEF TagParent
  <2>2. LevelTag(current_seg, parent_seg, b.cksum) = IN_PARENT
    BY <1>4 DEF TagParent, SegmentUnchanged, LevelTag
  <2> QED BY <1>2, <1>3, <2>1, <2>2
<1>5. CASE TagDirty
  <2>1. current_seg'[k] = IF InParentSeg(b) THEN Tagged(b, IN_DIRTY_SEG) ELSE b
    BY <1>1, <1>2, <1>5 DEF TagDirty
  <2>2. LevelTag(current_seg, parent_seg, b.cksum) = IF InParentSeg(b) THEN IN_DIRTY_SEG ELSE {}
    BY <1>5 DEF TagDirty, SegmentUnchanged, LevelTag, InParentSeg
  <2>3. CASE InParentSeg(b)
    BY <1>2, <1>3, <2>1, <2>2, <2>3
  <2>4. CASE ~InParentSeg(b)
    BY <1>2, <2>1, <2>2, <2>4
  <2> QED BY <2>3, <2>4
<1>6. CASE WithoutParent
  <2>1. current_seg' = current_seg /\ parent_seg = <<>>
    BY <1>1, <1>6 DEF WithoutParent, ParentOrNot
  <2>2. Contents(<<>>) = {} /\ DOMAIN SegmentCksum(<<>>) = {}
    BY EmptySeq DEF Contents, SegmentCksum
  <2>3. k \in DOMAIN SegmentCksum(current_seg)
    BY <1>1 DEF SegmentCksum
  <2>4. SegmentCksum(current_seg) # SegmentCksum(<<>>)
    BY <2>2, <2>3
  <2>5. LevelTag(current_seg, parent_seg, b.cksum) = {}
    BY <2>1, <2>2, <2>4 DEF LevelTag
  <2> QED BY <1>2, <2>1, <2>5
<1> QED BY <1>4, <1>5, <1>6

\* Level 3.
LEMMA CdsTagsRight ==
  ASSUME RightInv, Promised, SearchCds
  PROVE  TagsSoFar(current_seg', parent_seg, cds, i + 1)
<1>1. /\ current_seg \in Seq(Block) /\ cds \in Seq(Block) /\ pc = "cds" /\ i \in 1 .. Len(current_seg)
      /\ Sorted(cds)
  BY LenProperties DEF RightInv, SnapshotTypes, SearchCds, TagNext, Promised
<1>2. PICK b \in Block : b = current_seg[i]
  BY <1>1
<1>3. PICK bits \in SUBSET Nat : bits = (IF InCds(b) THEN IN_CDS ELSE {}) /\ TagNext(bits)
  BY <1>1, <1>2, TagsAreSets DEF SearchCds, TagNext
<1>4. bits = CdsTag(cds, b.cksum)
  <2>1. b.cksum \in Int
    BY <1>2 DEF Block
  <2>2. InCds(b) <=> b.cksum \in Contents(cds)
    BY <1>1, <2>1, BinarySearchIsSound, BinarySearchIsComplete DEF InCds
  <2> QED BY <1>3, <2>2 DEF CdsTag
<1>5. IsRetagged(current_seg', current_seg)
  BY <1>1, <1>3, TagNextRetags
<1>6. /\ current_seg' \in Seq(Block) /\ Len(current_seg') = Len(current_seg)
      /\ \A k \in 1 .. Len(current_seg) : current_seg'[k].cksum = current_seg[k].cksum
      /\ \A c : LevelTag(current_seg', parent_seg, c) = LevelTag(current_seg, parent_seg, c)
  BY <1>1, <1>5, LevelTagOfRetagged
<1>7. \A k \in 1 .. Len(current_seg) :
        current_seg'[k] = IF k = i THEN Tagged(b, bits) ELSE current_seg[k]
  <2>1. current_seg \in [1 .. Len(current_seg) -> Block]
    BY <1>1, LenProperties
  <2>2. current_seg' = [current_seg EXCEPT ![i] = Tagged(current_seg[i], bits)]
    BY <1>3 DEF TagNext
  <2> QED BY <1>2, <2>1, <2>2
<1>8. TagsSoFar(current_seg, parent_seg, cds, i)
  BY <1>1 DEF RightInv
<1> SUFFICES ASSUME NEW k \in 1 .. Len(current_seg)
             PROVE  current_seg'[k].file_id =
                      LevelTag(current_seg, parent_seg, current_seg[k].cksum)
                        \union (IF k < i + 1 THEN CdsTag(cds, current_seg[k].cksum) ELSE {})
  BY <1>6 DEF TagsSoFar
<1>9. current_seg[k].file_id = LevelTag(current_seg, parent_seg, current_seg[k].cksum)
                                 \union (IF k < i THEN CdsTag(cds, current_seg[k].cksum) ELSE {})
  BY <1>8 DEF TagsSoFar
<1>10. CASE k = i
  <2>1. ~(k < i) /\ k < i + 1
    BY <1>1, <1>10
  <2>2. b.file_id = LevelTag(current_seg, parent_seg, b.cksum)
    BY <1>2, <1>9, <1>10, <2>1
  <2>3. current_seg'[k].file_id = b.file_id \union bits
    BY <1>7, <1>10, TaggedTag
  <2> QED BY <1>2, <1>4, <1>10, <2>1, <2>2, <2>3
<1>11. CASE k # i
  <2>1. k < i + 1 <=> k < i
    BY <1>1, <1>11
  <2> QED BY <1>7, <1>9, <1>11, <2>1
<1> QED BY <1>10, <1>11

LEMMA RightTagging ==
  ASSUME RightInv, TagParent \/ TagDirty \/ SearchCds \/ WithoutParent
  PROVE  RightInv'
<1>1. SnapshotTypes /\ ParentTrace \in Seq(Block) /\ ParentOrNot /\ RetagStep /\ pc \in {"tag", "cds"}
  BY ParentTraceType, TagsRetag DEF RightInv, RetagStep
<1>2. SnapshotTypes'
  BY <1>1, RetagTypes DEF RetagStep
<1>3. /\ output' = output /\ snapshot' = snapshot /\ cds' = cds /\ parent' = parent
      /\ current_input' = current_input /\ parent_input' = parent_input /\ parent_seg' = parent_seg
      /\ pc' = "cds"
  BY <1>1 DEF RetagStep, inVars, argVars
<1>4. has_parent' = has_parent
  BY DEF TagParent, TagDirty, SearchCds, TagNext, WithoutParent
<1>5. ParentTrace' = ParentTrace /\ (Promised' => Promised) /\ ParentOrNot'
  BY <1>1, <1>3, <1>4 DEF ParentTrace, Promised, ParentOrNot
<1>6. /\ current_seg' \in Seq(Block) /\ Len(current_seg') = Len(current_seg)
      /\ Untagged(current_seg') = Untagged(current_seg)
      /\ \A k \in 1 .. Len(current_seg) : current_seg'[k].cksum = current_seg[k].cksum
      /\ \A c : LevelTag(current_seg', parent_seg, c) = LevelTag(current_seg, parent_seg, c)
  <2>1. current_seg \in Seq(Block) /\ IsRetagged(current_seg', current_seg)
    BY <1>1 DEF RetagStep, SnapshotTypes
  <2> QED BY <2>1, LevelTagOfRetagged
<1>7. Promised =>
        AtHandIsRange(snapshot, ParentTrace, current_seg', parent_seg, current_input, parent_input)
  BY <1>1, <1>6 DEF RightInv, AtHandIsRange
<1>8. Promised => TagsSoFar(current_seg', parent_seg, cds, i')
  <2>1. CASE SearchCds
    BY <2>1, CdsTagsRight DEF SearchCds, TagNext
  <2>2. CASE TagParent \/ TagDirty \/ WithoutParent
    <3>1. i' = 1
      BY <1>1, <2>2 DEF RightInv, RetagStep, TagParent, TagDirty, WithoutParent
    <3>2. \A k \in 1 .. Len(current_seg) : ~(k < 1)
      OBVIOUS
    <3>3. \A k \in 1 .. Len(current_seg) :
            current_seg'[k].file_id = LevelTag(current_seg, parent_seg, current_seg[k].cksum)
      BY <2>2, LevelsTagRight
    <3> QED BY <1>6, <3>1, <3>2, <3>3 DEF TagsSoFar
  <2> QED BY <2>1, <2>2
<1>9. Promised => AllRight(output, snapshot, ParentTrace, cds)
  BY DEF RightInv
<1> QED BY <1>2, <1>3, <1>5, <1>7, <1>8, <1>9 DEF RightInv

LEMMA RightStep ==
  ASSUME RightInv, [Next]_vars
  PROVE  RightInv'
<1>1. SnapshotTypes'
  BY TypesStep DEF RightInv
<1>2. CASE EndOfSnapshot("close")
  <2>1. /\ pc' = "close" /\ output' = output
        /\ UNCHANGED <<argVars, parent_input, has_parent, parent_seg>>
    BY <1>2 DEF EndOfSnapshot
  <2> QED BY <1>1, <2>1, RightRest DEF RightInv
<1>3. CASE Close
  <2>1. /\ pc' = "done" /\ output' = output
        /\ UNCHANGED <<argVars, parent_input, has_parent, parent_seg>>
    BY <1>3 DEF Close, inVars
  <2> QED BY <1>1, <2>1, RightRest DEF RightInv
<1>4. CASE Kill
  <2>1. pc' = "killed" /\ UNCHANGED <<argVars, parent_input, has_parent, parent_seg>>
    BY <1>4 DEF Kill, inVars
  <2>2. PICK n \in 0 .. Len(output) : output' = SubSeq(output, 1, n)
    BY <1>4 DEF Kill, Prefixes
  <2>3. output \in Seq(Block)
    BY DEF RightInv, SnapshotTypes
  <2>4. Len(output') = n /\ \A k \in 1 .. n : output'[k] = output[k] /\ k \in 1 .. Len(output)
    BY <2>2, <2>3
  <2>5. Promised => AllRight(output', snapshot, ParentTrace, cds)
    BY <2>4 DEF RightInv, AllRight
  <2> QED BY <1>1, <2>1, <2>5, RightRest
<1>5. CASE UNCHANGED vars
  <2>1. /\ UNCHANGED <<snapshot, parent, cds, current_input, parent_input, pc, has_parent, current_seg,
                        parent_seg, i, output>>
    BY <1>5 DEF vars, snapshotVars, inVars, argVars
  <2>2. ParentTrace' = ParentTrace /\ Promised' = Promised
    BY <2>1 DEF ParentTrace, Promised
  <2> QED BY <1>1, <2>1, <2>2 DEF RightInv, ParentOrNot
<1> QED BY <1>2, <1>3, <1>4, <1>5, RightOpen, RightLoad, RightTagging, RightWrite DEF Next

\* For all snapshots, parents and CDS files of which the snapshots are scanned
\* with fixed boundaries of the segment size and the CDS is sorted, and over
\* any number of runs and kills: a block dedup_cds_sim.cpp has written carries
\* the tags that what the parent has in its 2MB of the disk, and the CDS, call
\* for, no more and no fewer.
THEOREM EveryTagIsRight == Spec => []TagsAreRight
<1>1. Init => RightInv
  <2>1. Len(<<>>) = 0 /\ <<>> \in Seq(Block)
    BY EmptySeq
  <2>2. \A s, p, c : AllRight(<<>>, s, p, c)
    BY <2>1 DEF AllRight
  <2> QED BY <2>2, TypesInit DEF Init, RightInv, ParentOrNot
<1>2. RightInv /\ [Next]_vars => RightInv'
  BY RightStep
<1>3. RightInv => TagsAreRight
  <2> SUFFICES ASSUME RightInv, Promised, NEW k \in DOMAIN output
               PROVE  output[k].file_id = RightTag(output[k])
    BY DEF TagsAreRight, Promised
  <2>1. k \in 1 .. Len(output)
    BY DEF RightInv, SnapshotTypes
  <2>2. PICK b : b = output[k]
    OBVIOUS
  <2>3. b.file_id = TagOf(snapshot, ParentTrace, cds, b)
    BY <2>1, <2>2 DEF RightInv, AllRight
  <2>4. RightTag(b) = TagOf(snapshot, ParentTrace, cds, b)
    BY DEF RightTag, TagOf, LevelTag, CdsTag
  <2> QED BY <2>2, <2>3, <2>4
<1> QED BY <1>1, <1>2, <1>3, PTL DEF Spec

-----------------------------------------------------------------------------
(* The segments of a trace *)

\* What Segments has from the k-th record on, for all k.
SegmentsFrom(t, from) ==
  from = [k \in 0 .. Len(t) |->
            LET rem == SubSeq(t, k + 1, Len(t))
            IN  IF SegmentBlocks(rem) = <<>> THEN <<>>
                ELSE <<SegmentBlocks(rem)>> \o from[k + SegmentLen(rem)]]

RestFrom(t, k) == SubSeq(t, k + 1, Len(t))

LEMMA RestIs ==
  ASSUME NEW t \in Seq(Block), NEW k \in 0 .. Len(t)
  PROVE  /\ RestFrom(t, k) \in Seq(Block) /\ Len(RestFrom(t, k)) = Len(t) - k
         /\ \A j \in 1 .. Len(t) - k : RestFrom(t, k)[j] = t[k + j]
  BY DEF RestFrom

LEMMA RestOfRest ==
  ASSUME NEW t \in Seq(Block), NEW k \in 0 .. Len(t), NEW n \in 0 .. Len(RestFrom(t, k))
  PROVE  RestFrom(RestFrom(t, k), n) = RestFrom(t, k + n)
<1>1. PICK l \in Nat : l = Len(t)
  BY LenProperties
<1>2. PICK rem \in Seq(Block) : rem = RestFrom(t, k) /\ Len(rem) = l - k /\ \A j \in 1 .. l - k : rem[j] = t[k + j]
  BY <1>1, RestIs
<1>3. k \in 0 .. l /\ n \in 0 .. l - k /\ k + n \in 0 .. l /\ l - k - n = l - (k + n)
  <2>1. k \in 0 .. l /\ n \in 0 .. l - k
    BY <1>1, <1>2
  <2> QED BY <2>1
<1>4. PICK m \in 0 .. Len(t) : m = k + n
  BY <1>1, <1>3
<1>5. PICK u \in Seq(Block) : /\ u = RestFrom(rem, n) /\ Len(u) = l - k - n
                             /\ \A j \in 1 .. l - k - n : u[j] = rem[n + j]
  <2>1. n \in 0 .. Len(rem)
    BY <1>2, <1>3
  <2>2. /\ RestFrom(rem, n) \in Seq(Block) /\ Len(RestFrom(rem, n)) = Len(rem) - n
        /\ \A j \in 1 .. Len(rem) - n : RestFrom(rem, n)[j] = rem[n + j]
    BY <2>1, RestIs
  <2> QED BY <1>2, <2>2
<1>6. PICK v \in Seq(Block) : /\ v = RestFrom(t, m) /\ Len(v) = l - m /\ \A j \in 1 .. l - m : v[j] = t[m + j]
  <2>1. /\ RestFrom(t, m) \in Seq(Block) /\ Len(RestFrom(t, m)) = Len(t) - m
        /\ \A j \in 1 .. Len(t) - m : RestFrom(t, m)[j] = t[m + j]
    BY RestIs
  <2> QED BY <1>1, <2>1
<1>7. \A j \in 1 .. l - m : n + j \in 1 .. l - k /\ k + (n + j) = m + j
  BY <1>3, <1>4
<1>8. l - k - n = l - m
  BY <1>3, <1>4
<1>9. \A j \in 1 .. l - m : u[j] = v[j]
  BY <1>2, <1>5, <1>6, <1>7, <1>8
<1>10. u = v
  BY <1>5, <1>6, <1>8, <1>9, EqualTraces
<1> QED BY <1>2, <1>4, <1>5, <1>6, <1>10

\* A segment of the rest ends in the trace, and is not empty if it has blocks.
LEMMA RestSegment ==
  ASSUME NEW t \in Seq(Block), NEW k \in 0 .. Len(t)
  PROVE  /\ RestFrom(t, k) \in Seq(Block) /\ Len(RestFrom(t, k)) = Len(t) - k
         /\ SegmentBlocks(RestFrom(t, k)) \in Seq(Block)
         /\ k + SegmentLen(RestFrom(t, k)) \in k .. Len(t)
         /\ SegmentBlocks(RestFrom(t, k)) # <<>> => k + SegmentLen(RestFrom(t, k)) > k
         /\ AfterSegment(RestFrom(t, k)) = RestFrom(t, k + SegmentLen(RestFrom(t, k)))
<1>1. PICK rem \in Seq(Block) : rem = RestFrom(t, k) /\ Len(rem) = Len(t) - k
  <2>1. RestFrom(t, k) \in Seq(Block) /\ Len(RestFrom(t, k)) = Len(t) - k
    BY DEF RestFrom
  <2> QED BY <2>1
<1>2. PICK n \in Nat : n = SegmentLen(rem) /\ n \in 0 .. Len(rem)
  BY SegmentLenRange, LenProperties
<1>3. SegmentBlocks(rem) \in Seq(Block)
  BY NextSegment
<1>4. k + n \in k .. Len(t)
  BY <1>1, <1>2, LenProperties
<1>5. ASSUME SegmentBlocks(rem) # <<>> PROVE n # 0
  <2>1. rem # <<>>
    BY <1>5, NothingLeft
  <2> QED BY <1>2, <2>1, SegmentLenRange
<1>6. AfterSegment(rem) = RestFrom(t, k + n)
  <2>1. AfterSegment(rem) = RestFrom(rem, n)
    BY <1>2 DEF AfterSegment, RestFrom
  <2>2. n \in 0 .. Len(RestFrom(t, k))
    BY <1>1, <1>2
  <2>3. RestFrom(RestFrom(t, k), n) = RestFrom(t, k + n)
    BY <2>2, RestOfRest
  <2> QED BY <1>1, <2>1, <2>3
<1> QED BY <1>1, <1>2, <1>3, <1>4, <1>5, <1>6

LEMMA SegmentsExist ==
  ASSUME NEW t \in Seq(Block)
  PROVE  \E from \in [0 .. Len(t) -> Seq(Seq(Block))] : SegmentsFrom(t, from) /\ Segments(t) = from[0]
<1> DEFINE S == 0 .. Len(t)
           T == Seq(Seq(Block))
           Rem(k) == RestFrom(t, k)
           To(k) == k + SegmentLen(Rem(k))
           At(g, k) == IF SegmentBlocks(Rem(k)) = <<>> THEN <<>> ELSE <<SegmentBlocks(Rem(k))>> \o g[To(k)]
           step == [gk \in [S -> T] \X S |-> At(gk[1], gk[2])]
           left == [k \in S |-> Len(t) - k]
<1>1. Len(t) \in Nat
  BY LenProperties
<1>2. \A k \in S : /\ SegmentBlocks(Rem(k)) \in Seq(Block) /\ To(k) \in S
                   /\ SegmentBlocks(Rem(k)) # <<>> => To(k) > k
  <2> SUFFICES ASSUME NEW k \in S
               PROVE  /\ SegmentBlocks(Rem(k)) \in Seq(Block) /\ To(k) \in S
                      /\ SegmentBlocks(Rem(k)) # <<>> => To(k) > k
    OBVIOUS
  <2>1. /\ SegmentBlocks(Rem(k)) \in Seq(Block)
        /\ To(k) \in k .. Len(t)
        /\ SegmentBlocks(Rem(k)) # <<>> => To(k) > k
    BY RestSegment
  <2> HIDE DEF To, Rem
  <2>2. To(k) \in S
    BY <1>1, <2>1
  <2> QED BY <2>1, <2>2
<1>3. \A g \in [S -> T], k \in S : At(g, k) \in T
  <2> SUFFICES ASSUME NEW g \in [S -> T], NEW k \in S PROVE At(g, k) \in T
    OBVIOUS
  <2>1. <<>> \in T
    BY EmptySeq
  <2>2. PICK seg \in Seq(Block) : seg = SegmentBlocks(Rem(k))
    BY <1>2
  <2>3. PICK rest \in T : rest = g[To(k)]
    <3>1. To(k) \in S
      BY <1>2
    <3> HIDE DEF To, S, T
    <3> QED BY <3>1
  <2>4. <<seg>> \in T
    OBVIOUS
  <2>5. <<seg>> \o rest \in T
    BY <2>4, ConcatProperties
  <2> HIDE DEF T
  <2> QED BY <2>1, <2>2, <2>3, <2>5
<1>4. \A g \in [S -> T], k \in S : step[<<g, k>>] = At(g, k)
  <2> HIDE DEF S, T, At
  <2> QED OBVIOUS
<1>5. step \in [[S -> T] \X S -> T]
  <2>1. \A gk \in [S -> T] \X S : gk[1] \in [S -> T] /\ gk[2] \in S
    OBVIOUS
  <2> HIDE DEF S, T, At
  <2> QED BY <1>3, <2>1
<1>6. PICK m \in [S -> Nat] : \A k \in S : m[k] = Len(t) - k
  <2>1. left \in [S -> Nat]
    BY <1>1
  <2> QED BY <2>1
<1>7. PICK H \in [[S -> T] \X S -> T] : \A g \in [S -> T], k \in S : H[<<g, k>>] = At(g, k)
  <2> HIDE DEF S, T, At, step
  <2> QED BY <1>4, <1>5
<1>8. DependsBelow(H, S, T, m)
  <2> SUFFICES ASSUME NEW g \in [S -> T], NEW h \in [S -> T], NEW k \in S,
                      \A y \in S : m[y] < m[k] => g[y] = h[y]
               PROVE  H[<<g, k>>] = H[<<h, k>>]
    <3> HIDE DEF S, T, At, step
    <3> QED BY DEF DependsBelow
  <2>1. SegmentBlocks(Rem(k)) # <<>> => g[To(k)] = h[To(k)]
    <3> SUFFICES ASSUME SegmentBlocks(Rem(k)) # <<>> PROVE g[To(k)] = h[To(k)]
      OBVIOUS
    <3>1. To(k) \in S /\ To(k) > k
      BY <1>2
    <3> HIDE DEF To
    <3>2. m[To(k)] < m[k]
      BY <1>1, <1>6, <3>1
    <3> HIDE DEF S, T, At
    <3> QED BY <3>1, <3>2
  <2>2. At(g, k) = At(h, k)
    <3> HIDE DEF S, T, To, Rem
    <3> QED BY <2>1
  <2> HIDE DEF S, T, At, step
  <2>3. H[<<g, k>>] = At(g, k) /\ H[<<h, k>>] = At(h, k)
    BY <1>7, Zenon
  <2> QED BY <2>2, <2>3, Zenon
<1>9. [S -> T] # {}
  <2>1. <<>> \in T
    BY EmptySeq
  <2> HIDE DEF S, T
  <2>2. [k \in S |-> <<>>] \in [S -> T]
    BY <2>1
  <2> QED BY <2>2
<1>10. PICK g \in [S -> T] : Solves(g, H, S)
  <2> HIDE DEF S, T, At, step
  <2> QED BY <1>8, <1>9, RecursionExists, Zenon
<1>11. g = [k \in S |-> At(g, k)]
  <2> HIDE DEF S, T, At, step
  <2> QED BY <1>7, <1>10 DEF Solves
<1>12. SegmentsFrom(t, g)
  BY <1>11 DEF SegmentsFrom, RestFrom
<1> DEFINE it == CHOOSE f : SegmentsFrom(t, f)
<1>13. SegmentsFrom(t, it)
  BY <1>12, Zenon
<1>14. Segments(t) = it[0]
  BY Zenon DEF Segments, SegmentsFrom
<1> HIDE DEF it
<1>15. it = [k \in S |-> At(it, k)]
  BY <1>13 DEF SegmentsFrom, RestFrom
<1>16. \A k \in S : it[k] = g[k]
  <2> DEFINE U == {n \in Nat : \A k \in S : Len(t) - k = n => it[k] = g[k]}
  <2>1. ASSUME NEW n \in Nat, \A j \in Nat : j < n => j \in U
        PROVE  n \in U
    <3> SUFFICES ASSUME NEW k \in S, Len(t) - k = n PROVE it[k] = g[k]
      OBVIOUS
    <3>1. it[k] = At(it, k) /\ g[k] = At(g, k)
      <4> HIDE DEF At, S
      <4> QED BY <1>11, <1>15
    <3>2. SegmentBlocks(Rem(k)) # <<>> => it[To(k)] = g[To(k)]
      <4> SUFFICES ASSUME SegmentBlocks(Rem(k)) # <<>> PROVE it[To(k)] = g[To(k)]
        OBVIOUS
      <4>1. To(k) \in S /\ To(k) > k
        BY <1>2
      <4> HIDE DEF To
      <4>2. PICK j \in Nat : j = Len(t) - To(k) /\ j < n
        BY <1>1, <4>1
      <4>3. j \in U
        BY <2>1, <4>2
      <4> QED BY <4>1, <4>2, <4>3
    <3>3. At(it, k) = At(g, k)
      <4> HIDE DEF To, Rem
      <4> QED BY <3>2
    <3> HIDE DEF At
    <3> QED BY <3>1, <3>3
  <2> HIDE DEF U
  <2>2. \A n \in Nat : n \in U
    BY <2>1, NatIsWellOrdered
  <2>3. \A k \in S : Len(t) - k \in Nat
    BY <1>1
  <2> QED BY <2>2, <2>3 DEF U
<1>17. it = g
  <2>1. it = [k \in S |-> it[k]] /\ g = [k \in S |-> g[k]]
    <3> HIDE DEF At, S
    <3> QED BY <1>11, <1>15
  <2> HIDE DEF S
  <2> QED BY <1>16, <2>1
<1> QED BY <1>10, <1>12, <1>14, <1>17

-----------------------------------------------------------------------------
(* Empty records do not matter to the segments *)

\* Empty records have no size.
LEMMA TotalSizeOfNonEmpty ==
  ASSUME NEW s \in Seq(Block)
  PROVE  TotalSize(NonEmpty(s)) = TotalSize(s)
<1> DEFINE P == {u \in Seq(Block) : TotalSize(NonEmpty(u)) = TotalSize(u)}
<1>1. <<>> \in P
  <2>1. NonEmpty(<<>>) = <<>>
    BY NonEmptyOfAppend, EmptySeq
  <2> QED BY <2>1, EmptySeq
<1>2. ASSUME NEW u \in Seq(Block), NEW b \in Block, u \in P PROVE Append(u, b) \in P
  <2>1. PICK v \in Seq(Block) : v = NonEmpty(u)
    BY NonEmptyOfAppend
  <2>2. b.size \in Nat /\ TotalSize(u) \in Nat /\ TotalSize(v) = TotalSize(u)
    BY <1>2, <2>1, TotalSizeOfAppend DEF Block
  <2>3. TotalSize(Append(u, b)) = TotalSize(u) + b.size /\ TotalSize(Append(v, b)) = TotalSize(v) + b.size
    BY TotalSizeOfAppend
  <2>4. NonEmpty(Append(u, b)) = IF b.size = 0 THEN v ELSE Append(v, b)
    BY <2>1, NonEmptyOfAppend
  <2>5. CASE b.size = 0
    <3>1. NonEmpty(Append(u, b)) = v
      BY <2>4, <2>5
    <3> QED BY <2>2, <2>3, <2>5, <3>1, AppendProperties
  <2>6. CASE b.size # 0
    <3>1. NonEmpty(Append(u, b)) = Append(v, b)
      BY <2>4, <2>6
    <3> QED BY <2>2, <2>3, <3>1, AppendProperties
  <2> QED BY <2>5, <2>6
<1>3. \A u \in Seq(Block) : u \in P
  <2> HIDE DEF P
  <2> QED BY <1>1, <1>2, SeqIsInductive
<1> QED BY <1>3

\* A shorter prefix of what is not empty comes from a shorter prefix.
FromShorter(s, m) == \E k \in Nat : k < Len(s) /\ NonEmpty(SubSeq(s, 1, k)) = SubSeq(NonEmpty(s), 1, m)

LEMMA PrefixOfNonEmpty ==
  ASSUME NEW s \in Seq(Block)
  PROVE  \A m \in Nat : m < Len(NonEmpty(s)) => FromShorter(s, m)
<1> DEFINE P == {u \in Seq(Block) : \A m \in Nat : m < Len(NonEmpty(u)) => FromShorter(u, m)}
<1>1. <<>> \in P
  <2>1. NonEmpty(<<>>) = <<>>
    BY NonEmptyOfAppend, EmptySeq
  <2>2. \A m \in Nat : ~(m < Len(NonEmpty(<<>>)))
    BY <2>1
  <2> QED BY <2>2, EmptySeq
<1>2. ASSUME NEW u \in Seq(Block), NEW b \in Block, u \in P PROVE Append(u, b) \in P
  <2>1. PICK v \in Seq(Block) : v = NonEmpty(u)
    BY NonEmptyOfAppend
  <2>2. PICK w \in Seq(Block) : w = Append(u, b) /\ Len(w) = Len(u) + 1
    BY AppendProperties
  <2>3. PICK x \in Seq(Block) : x = NonEmpty(w) /\ x = IF b.size = 0 THEN v ELSE Append(v, b)
    BY <2>1, <2>2, NonEmptyOfAppend
  <2> SUFFICES ASSUME NEW m \in Nat, m < Len(x) PROVE FromShorter(w, m)
    BY <2>2, <2>3
  <2>4. CASE m < Len(v)
    <3>1. PICK k \in Nat : k < Len(u) /\ NonEmpty(SubSeq(u, 1, k)) = SubSeq(v, 1, m)
      BY <1>2, <2>1, <2>4 DEF FromShorter
    <3>2. SubSeq(w, 1, k) = SubSeq(u, 1, k)
      BY <2>2, <3>1
    <3>3. SubSeq(x, 1, m) = SubSeq(v, 1, m)
      BY <2>3, <2>4
    <3>4. k < Len(w)
      BY <2>2, <3>1
    <3> QED BY <2>3, <3>1, <3>2, <3>3, <3>4 DEF FromShorter
  <2>5. CASE ~(m < Len(v))
    <3>1. m = Len(v) /\ x = Append(v, b)
      BY <2>3, <2>5, AppendProperties, LenProperties
    <3>2. SubSeq(x, 1, m) = v
      BY <3>1
    <3>3. SubSeq(w, 1, Len(u)) = u /\ Len(u) < Len(w) /\ Len(u) \in Nat
      BY <2>2
    <3> QED BY <2>1, <2>3, <3>2, <3>3 DEF FromShorter
  <2> QED BY <2>4, <2>5
<1>3. \A u \in Seq(Block) : u \in P
  <2> HIDE DEF P
  <2> QED BY <1>1, <1>2, SeqIsInductive
<1> QED BY <1>3

\* The records of the next segment, before the empty ones are left out.
SegmentRecords(t) == SubSeq(t, 1, SegmentLen(t))

\* What has the blocks of a shorter part of the front is less than a segment.
LEMMA PartOfFront ==
  ASSUME NEW t \in Seq(Block), NEW m \in Nat, m < Len(NonEmpty(SegmentRecords(t)))
  PROVE  TotalSize(SubSeq(NonEmpty(SegmentRecords(t)), 1, m)) < FIX_SEGMENT_SIZE
<1>1. PICK s \in Seq(Block) : s = SegmentRecords(t) /\ Len(s) = SegmentLen(t) /\ SegmentLen(t) \in 0 .. Len(t)
  <2>1. SegmentLen(t) \in 0 .. Len(t)
    BY SegmentLenRange
  <2>2. PICK n \in 0 .. Len(t) : n = SegmentLen(t)
    BY <2>1
  <2>3. SubSeq(t, 1, n) \in Seq(Block) /\ Len(SubSeq(t, 1, n)) = n
    OBVIOUS
  <2> QED BY <2>1, <2>2, <2>3 DEF SegmentRecords
<1>2. \A l \in Nat : l < Len(NonEmpty(s)) => FromShorter(s, l)
  BY PrefixOfNonEmpty
<1>3. PICK k \in Nat : k < Len(s) /\ NonEmpty(SubSeq(s, 1, k)) = SubSeq(NonEmpty(s), 1, m)
  BY <1>1, <1>2 DEF FromShorter
<1>4. PICK p \in Seq(Block) : p = SubSeq(s, 1, k)
  <2>1. k < Len(s)
    BY <1>3
  <2>2. SubSeq(s, 1, k) \in Seq(Block)
    BY <2>1
  <2> QED BY <2>2
<1>5. p = SubSeq(t, 1, k)
  <2>1. PICK n \in 0 .. Len(t) : n = SegmentLen(t) /\ s = SubSeq(t, 1, n)
    BY <1>1 DEF SegmentRecords
  <2>2. k < n
    BY <1>1, <1>3, <2>1
  <2> QED BY <1>4, <2>1, <2>2
<1>6. k \in 0 .. Len(t) /\ k < SegmentLen(t)
  BY <1>1, <1>3, LenProperties
<1>7. TotalSize(p) < FIX_SEGMENT_SIZE
  BY <1>5, <1>6, SegmentIsShort
<1>8. TotalSize(NonEmpty(p)) = TotalSize(p)
  BY TotalSizeOfNonEmpty
<1> QED BY <1>1, <1>3, <1>4, <1>7, <1>8

LEMMA FrontIs ==
  ASSUME NEW t \in Seq(Block)
  PROVE  /\ SegmentRecords(t) \in Seq(Block) /\ AfterSegment(t) \in Seq(Block)
         /\ NonEmpty(SegmentRecords(t)) \in Seq(Block) /\ NonEmpty(AfterSegment(t)) \in Seq(Block)
         /\ NonEmpty(t) = NonEmpty(SegmentRecords(t)) \o NonEmpty(AfterSegment(t))
         /\ SegmentBlocks(t) = Untagged(NonEmpty(SegmentRecords(t)))
         /\ NonEmpty(AfterSegment(t)) # <<>> => TotalSize(NonEmpty(SegmentRecords(t))) >= FIX_SEGMENT_SIZE
<1>1. PICK s \in Seq(Block) : s = SegmentRecords(t)
  BY SegmentAndAfter DEF SegmentRecords
<1>2. PICK a \in Seq(Block) : a = AfterSegment(t)
  BY SegmentAndAfter
<1>3. t = s \o a
  BY <1>1, <1>2, SegmentAndAfter DEF SegmentRecords
<1>4. NonEmpty(t) = NonEmpty(s) \o NonEmpty(a) /\ NonEmpty(s) \in Seq(Block) /\ NonEmpty(a) \in Seq(Block)
  BY <1>3, NonEmptyOfConcat, NonEmptyOfAppend
<1>5. SegmentBlocks(t) = Untagged(NonEmpty(s))
  BY <1>1 DEF SegmentBlocks, SegmentRecords
<1>6. ASSUME NonEmpty(a) # <<>> PROVE TotalSize(NonEmpty(s)) >= FIX_SEGMENT_SIZE
  <2>1. a # <<>>
    BY <1>6, NonEmptyOfAppend
  <2>2. SegmentLen(t) # Len(t)
    <3> SUFFICES ASSUME SegmentLen(t) = Len(t) PROVE a = <<>>
      BY <2>1
    <3>1. a = SubSeq(t, Len(t) + 1, Len(t))
      BY <1>2 DEF AfterSegment
    <3> QED BY <3>1
  <2>3. TotalSize(s) >= FIX_SEGMENT_SIZE
    BY <1>1, <2>2, SegmentLenRange DEF SegmentRecords
  <2> QED BY <2>3, TotalSizeOfNonEmpty
<1> QED BY <1>1, <1>2, <1>4, <1>5, <1>6

\* The next segment of one of two traces with the same blocks is not longer.
LEMMA FrontIsNotLonger ==
  ASSUME NEW t \in Seq(Block), NEW u \in Seq(Block), NonEmpty(t) = NonEmpty(u)
  PROVE  Len(NonEmpty(SegmentRecords(u))) <= Len(NonEmpty(SegmentRecords(t)))
<1>1. PICK p \in Seq(Block) : p = NonEmpty(SegmentRecords(t))
  BY FrontIs
<1>2. PICK q \in Seq(Block) : q = NonEmpty(SegmentRecords(u))
  BY FrontIs
<1>3. PICK a \in Seq(Block) : a = NonEmpty(AfterSegment(t))
  BY FrontIs
<1>4. PICK c \in Seq(Block) : c = NonEmpty(AfterSegment(u))
  BY FrontIs
<1>5. p \o a = q \o c
  BY <1>1, <1>2, <1>3, <1>4, FrontIs
<1> SUFFICES ASSUME Len(p) < Len(q) PROVE FALSE
  BY <1>1, <1>2, LenProperties
<1>6. a # <<>>
  <2> SUFFICES ASSUME a = <<>> PROVE FALSE
    OBVIOUS
  <2>1. Len(p \o a) = Len(p) /\ Len(q \o c) >= Len(q)
    BY ConcatProperties, LenProperties
  <2> QED BY <1>5, <2>1, LenProperties
<1>7. TotalSize(p) >= FIX_SEGMENT_SIZE
  BY <1>1, <1>3, <1>6, FrontIs
<1>8. SubSeq(q, 1, Len(p)) = p
  <2>1. \A j \in 1 .. Len(p) : p[j] = q[j]
    <3> SUFFICES ASSUME NEW j \in 1 .. Len(p) PROVE p[j] = q[j]
      OBVIOUS
    <3>1. (p \o a)[j] = p[j] /\ (q \o c)[j] = q[j]
      BY ConcatProperties, LenProperties
    <3> QED BY <1>5, <3>1
  <2> QED BY <2>1
<1>9. TotalSize(SubSeq(q, 1, Len(p))) < FIX_SEGMENT_SIZE
  <2>1. Len(p) \in Nat /\ Len(p) < Len(NonEmpty(SegmentRecords(u)))
    BY <1>2, LenProperties
  <2>2. PICK m \in Nat : m = Len(p)
    BY <2>1
  <2>3. TotalSize(SubSeq(NonEmpty(SegmentRecords(u)), 1, m)) < FIX_SEGMENT_SIZE
    BY <2>1, <2>2, PartOfFront
  <2> QED BY <1>2, <2>2, <2>3
<1>10. TotalSize(p) \in Nat
  BY TotalSizeOfAppend
<1>11. PICK n \in Nat : n = TotalSize(p)
  BY <1>10
<1>12. n >= FIX_SEGMENT_SIZE
  BY <1>7, <1>11
<1>13. n < FIX_SEGMENT_SIZE
  BY <1>8, <1>9, <1>11
<1> QED BY <1>12, <1>13, SegmentSizeAssumption

\* Traces that differ in their empty records only have the same next segment,
\* and differ in their empty records only after it.
LEMMA SameNextSegment ==
  ASSUME NEW t \in Seq(Block), NEW u \in Seq(Block), NonEmpty(t) = NonEmpty(u)
  PROVE  /\ SegmentBlocks(t) = SegmentBlocks(u)
         /\ NonEmpty(AfterSegment(t)) = NonEmpty(AfterSegment(u))
<1>1. PICK p \in Seq(Block) : p = NonEmpty(SegmentRecords(t))
  BY FrontIs
<1>2. PICK q \in Seq(Block) : q = NonEmpty(SegmentRecords(u))
  BY FrontIs
<1>3. PICK a \in Seq(Block) : a = NonEmpty(AfterSegment(t))
  BY FrontIs
<1>4. PICK c \in Seq(Block) : c = NonEmpty(AfterSegment(u))
  BY FrontIs
<1>5. p \o a = q \o c
  BY <1>1, <1>2, <1>3, <1>4, FrontIs
<1>6. Len(p) = Len(q)
  <2>1. Len(p) <= Len(q) /\ Len(q) <= Len(p)
    BY <1>1, <1>2, FrontIsNotLonger
  <2> QED BY <2>1, LenProperties
<1>7. Len(a) = Len(c)
  <2>1. Len(p \o a) = Len(p) + Len(a) /\ Len(q \o c) = Len(q) + Len(c)
    BY ConcatProperties
  <2> QED BY <1>5, <1>6, <2>1, LenProperties
<1>8. \A j \in 1 .. Len(p) : p[j] = q[j]
  <2> SUFFICES ASSUME NEW j \in 1 .. Len(p) PROVE p[j] = q[j]
    OBVIOUS
  <2>1. (p \o a)[j] = p[j] /\ (q \o c)[j] = q[j]
    BY <1>6, ConcatProperties, LenProperties
  <2> QED BY <1>5, <2>1
<1>9. \A j \in 1 .. Len(a) : a[j] = c[j]
  <2> SUFFICES ASSUME NEW j \in 1 .. Len(a) PROVE a[j] = c[j]
    OBVIOUS
  <2>1. (p \o a)[Len(p) + j] = a[j] /\ (q \o c)[Len(q) + j] = c[j]
    BY <1>7, ConcatProperties, LenProperties
  <2> QED BY <1>5, <1>6, <2>1
<1>10. p = q /\ a = c
  BY <1>6, <1>7, <1>8, <1>9, SeqEqual
<1> QED BY <1>1, <1>2, <1>3, <1>4, <1>10, FrontIs

\* And all their segments are the same.
LEMMA SameSegments ==
  ASSUME NEW t \in Seq(Block), NEW u \in Seq(Block), NonEmpty(t) = NonEmpty(u)
  PROVE  Segments(t) = Segments(u)
<1>1. PICK f \in [0 .. Len(t) -> Seq(Seq(Block))] : SegmentsFrom(t, f) /\ Segments(t) = f[0]
  BY SegmentsExist
<1>2. PICK g \in [0 .. Len(u) -> Seq(Seq(Block))] : SegmentsFrom(u, g) /\ Segments(u) = g[0]
  BY SegmentsExist
<1>3. Len(t) \in Nat /\ Len(u) \in Nat
  BY LenProperties
<1> DEFINE U == {n \in Nat : \A k \in 0 .. Len(t), l \in 0 .. Len(u) :
                   Len(t) - k = n /\ NonEmpty(RestFrom(t, k)) = NonEmpty(RestFrom(u, l)) => f[k] = g[l]}
<1>4. ASSUME NEW n \in Nat, \A j \in Nat : j < n => j \in U
      PROVE  n \in U
  <2> SUFFICES ASSUME NEW k \in 0 .. Len(t), NEW l \in 0 .. Len(u), Len(t) - k = n,
                      NonEmpty(RestFrom(t, k)) = NonEmpty(RestFrom(u, l))
               PROVE  f[k] = g[l]
    OBVIOUS
  <2>1. PICK r \in Seq(Block) : r = RestFrom(t, k)
    BY RestSegment
  <2>2. PICK s \in Seq(Block) : s = RestFrom(u, l)
    BY RestSegment
  <2>3. SegmentBlocks(r) = SegmentBlocks(s) /\ NonEmpty(AfterSegment(r)) = NonEmpty(AfterSegment(s))
    BY <2>1, <2>2, SameNextSegment
  <2>4. PICK seg \in Seq(Block) : seg = SegmentBlocks(r)
    BY NextSegment
  <2>5. f[k] = IF seg = <<>> THEN <<>> ELSE <<seg>> \o f[k + SegmentLen(r)]
    BY <1>1, <2>1, <2>4 DEF SegmentsFrom, RestFrom
  <2>6. g[l] = IF seg = <<>> THEN <<>> ELSE <<seg>> \o g[l + SegmentLen(s)]
    BY <1>2, <2>2, <2>3, <2>4 DEF SegmentsFrom, RestFrom
  <2>7. CASE seg = <<>>
    BY <2>5, <2>6, <2>7
  <2>8. CASE seg # <<>>
    <3>1. PICK k2 \in 0 .. Len(t) : k2 = k + SegmentLen(r) /\ k2 > k /\ AfterSegment(r) = RestFrom(t, k2)
      <4>1. k + SegmentLen(r) \in k .. Len(t) /\ k + SegmentLen(r) > k
            /\ AfterSegment(r) = RestFrom(t, k + SegmentLen(r))
        BY <2>1, <2>4, <2>8, RestSegment
      <4>2. k + SegmentLen(r) \in 0 .. Len(t)
        BY <1>3, <4>1
      <4> QED BY <4>1, <4>2
    <3>2. PICK l2 \in 0 .. Len(u) : l2 = l + SegmentLen(s) /\ AfterSegment(s) = RestFrom(u, l2)
      <4>1. l + SegmentLen(s) \in l .. Len(u)
            /\ AfterSegment(s) = RestFrom(u, l + SegmentLen(s))
        BY <2>2, RestSegment
      <4>2. l + SegmentLen(s) \in 0 .. Len(u)
        BY <1>3, <4>1
      <4> QED BY <4>1, <4>2
    <3>3. PICK j \in Nat : j = Len(t) - k2 /\ j < n
      BY <1>3, <3>1
    <3>4. j \in U
      BY <1>4, <3>3
    <3>5. f[k2] = g[l2]
      BY <2>3, <3>1, <3>2, <3>3, <3>4
    <3> QED BY <2>5, <2>6, <2>8, <3>1, <3>2, <3>5
  <2> QED BY <2>7, <2>8
<1>5. \A n \in Nat : n \in U
  <2> HIDE DEF U
  <2> QED BY <1>4, NatIsWellOrdered
<1>6. RestFrom(t, 0) = t /\ RestFrom(u, 0) = u
  BY SubSeqFull DEF RestFrom
<1>7. PICK n \in Nat : n = Len(t) - 0
  BY <1>3
<1>8. n \in U
  BY <1>5
<1> QED BY <1>1, <1>2, <1>3, <1>6, <1>7, <1>8

-----------------------------------------------------------------------------
(* A log that was sorted and sorted back *)

\* a[k].offset grows with k.
Rising(a) == \A j, k \in 1 .. Len(a) : j < k => a[j].offset < a[k].offset

SameBlocks(a, b) ==
  /\ \A j \in 1 .. Len(a) : \E k \in 1 .. Len(b) : a[j] = b[k]
  /\ \A k \in 1 .. Len(b) : \E j \in 1 .. Len(a) : b[k] = a[j]

\* Two rising sequences of the same blocks are equal.
LEMMA RisingAreEqual ==
  ASSUME NEW a \in Seq(Block), NEW b \in Seq(Block), Rising(a), Rising(b), SameBlocks(a, b)
  PROVE  a = b
<1>1. Len(a) \in Nat /\ Len(b) \in Nat
  BY LenProperties
<1>2. \A j \in 1 .. Len(a) : a[j].offset \in Nat
  <2>1. \A j \in 1 .. Len(a) : a[j] \in Block
    OBVIOUS
  <2> QED BY <2>1 DEF Block
<1>3. \A j \in 1 .. Len(b) : b[j].offset \in Nat
  <2>1. \A j \in 1 .. Len(b) : b[j] \in Block
    OBVIOUS
  <2> QED BY <2>1 DEF Block
<1> DEFINE U == {n \in Nat : n >= 1 /\ (n <= Len(a) \/ n <= Len(b)) =>
                              n <= Len(a) /\ n <= Len(b) /\ a[n] = b[n]}
<1>4. ASSUME NEW n \in Nat, \A j \in Nat : j < n => j \in U
      PROVE  n \in U
  <2> SUFFICES ASSUME n >= 1, n <= Len(a) \/ n <= Len(b)
               PROVE  n <= Len(a) /\ n <= Len(b) /\ a[n] = b[n]
    OBVIOUS
  <2>1. \A j \in Nat : 1 <= j /\ j < n => j <= Len(a) /\ j <= Len(b) /\ a[j] = b[j]
    <3> SUFFICES ASSUME NEW j \in Nat, 1 <= j, j < n PROVE j <= Len(a) /\ j <= Len(b) /\ a[j] = b[j]
      OBVIOUS
    <3>1. j \in U
      BY <1>4
    <3>2. j <= Len(a) \/ j <= Len(b)
      BY <1>1
    <3> QED BY <3>1, <3>2
  <2>2. ASSUME n <= Len(a)
        PROVE  \E m \in 1 .. Len(b) : a[n] = b[m] /\ n <= m
    <3>1. n \in 1 .. Len(a)
      BY <1>1, <2>2
    <3>2. PICK m \in 1 .. Len(b) : a[n] = b[m]
      BY <3>1 DEF SameBlocks
    <3>3. ~(m < n)
      <4> SUFFICES ASSUME m < n PROVE FALSE
        OBVIOUS
      <4>1. m \in 1 .. Len(a) /\ a[m] = b[m]
        BY <1>1, <2>1, <3>1
      <4>2. a[m].offset < a[n].offset
        BY <3>1, <4>1 DEF Rising
      <4> QED BY <1>2, <3>1, <3>2, <4>1, <4>2
    <3> QED BY <1>1, <3>2, <3>3
  <2>3. ASSUME n <= Len(b)
        PROVE  \E m \in 1 .. Len(a) : b[n] = a[m] /\ n <= m
    <3>1. n \in 1 .. Len(b)
      BY <1>1, <2>3
    <3>2. PICK m \in 1 .. Len(a) : b[n] = a[m]
      BY <3>1 DEF SameBlocks
    <3>3. ~(m < n)
      <4> SUFFICES ASSUME m < n PROVE FALSE
        OBVIOUS
      <4>1. m \in 1 .. Len(b) /\ a[m] = b[m]
        BY <1>1, <2>1, <3>1
      <4>2. b[m].offset < b[n].offset
        BY <3>1, <4>1 DEF Rising
      <4> QED BY <1>3, <3>1, <3>2, <4>1, <4>2
    <3> QED BY <1>1, <3>2, <3>3
  <2>4. n <= Len(a) /\ n <= Len(b)
    BY <1>1, <2>2, <2>3
  <2>5. n \in 1 .. Len(a) /\ n \in 1 .. Len(b)
    BY <1>1, <2>4
  <2>6. PICK m \in 1 .. Len(b) : a[n] = b[m] /\ n <= m
    BY <2>2, <2>4
  <2>7. PICK l \in 1 .. Len(a) : b[n] = a[l] /\ n <= l
    BY <2>3, <2>4
  <2>8. n < m => b[n].offset < b[m].offset
    BY <2>5 DEF Rising
  <2>9. n < l => a[n].offset < a[l].offset
    BY <2>5 DEF Rising
  <2>10. PICK x \in Nat, y \in Nat : x = a[n].offset /\ y = b[n].offset
    BY <1>2, <1>3, <2>5
  <2>11. ~(n < m)
    BY <2>6, <2>7, <2>8, <2>9, <2>10
  <2>12. n = m
    BY <2>5, <2>6, <2>11
  <2> QED BY <2>4, <2>6, <2>12
<1>5. \A n \in Nat : n \in U
  <2> HIDE DEF U
  <2> QED BY <1>4, NatIsWellOrdered
<1>6. \A n \in Nat : n >= 1 /\ (n <= Len(a) \/ n <= Len(b)) => n <= Len(a) /\ n <= Len(b) /\ a[n] = b[n]
  BY <1>5
<1>7. Len(a) = Len(b)
  BY <1>1, <1>6
<1>8. \A n \in 1 .. Len(a) : a[n] = b[n]
  BY <1>1, <1>6
<1> QED BY <1>7, <1>8, SeqEqual

\* Of a trace, the offsets of the records that are not empty rise.
RisesButEmpty(s) ==
  \A j, k \in 1 .. Len(s) : j < k /\ s[j].size # 0 /\ s[k].size # 0 => s[j].offset < s[k].offset

\* What NonEmpty keeps.
KeptBlocks(s) ==
  /\ \A j \in 1 .. Len(NonEmpty(s)) : \E k \in 1 .. Len(s) : NonEmpty(s)[j] = s[k] /\ s[k].size # 0
  /\ \A k \in 1 .. Len(s) : s[k].size # 0 => \E j \in 1 .. Len(NonEmpty(s)) : s[k] = NonEmpty(s)[j]

LEMMA NonEmptyKeeps ==
  ASSUME NEW s \in Seq(Block)
  PROVE  KeptBlocks(s) /\ (RisesButEmpty(s) => Rising(NonEmpty(s)))
<1> DEFINE P == {u \in Seq(Block) : KeptBlocks(u) /\ (RisesButEmpty(u) => Rising(NonEmpty(u)))}
<1>1. <<>> \in P
  <2>1. NonEmpty(<<>>) = <<>> /\ Len(<<>>) = 0
    BY NonEmptyOfAppend, EmptySeq
  <2> QED BY <2>1, EmptySeq DEF KeptBlocks, Rising
<1>2. ASSUME NEW u \in Seq(Block), NEW b \in Block, u \in P PROVE Append(u, b) \in P
  <2>1. PICK v \in Seq(Block) : v = NonEmpty(u)
    BY NonEmptyOfAppend
  <2>2. PICK w \in Seq(Block) : /\ w = Append(u, b) /\ Len(w) = Len(u) + 1 /\ w[Len(u) + 1] = b
                               /\ \A k \in 1 .. Len(u) : w[k] = u[k]
    <3>1. /\ Append(u, b) \in Seq(Block) /\ Len(Append(u, b)) = Len(u) + 1
          /\ Append(u, b)[Len(u) + 1] = b
          /\ \A k \in 1 .. Len(u) : Append(u, b)[k] = u[k]
      OBVIOUS
    <3> QED BY <3>1
  <2>3. PICK x \in Seq(Block) : x = NonEmpty(w) /\ x = IF b.size = 0 THEN v ELSE Append(v, b)
    BY <2>1, <2>2, NonEmptyOfAppend
  <2>4. Len(u) \in Nat /\ Len(v) \in Nat
    BY LenProperties
  <2>5. /\ \A j \in 1 .. Len(v) : \E k \in 1 .. Len(u) : v[j] = u[k] /\ u[k].size # 0
        /\ \A k \in 1 .. Len(u) : u[k].size # 0 => \E j \in 1 .. Len(v) : u[k] = v[j]
    BY <1>2, <2>1 DEF KeptBlocks
  <2>6. /\ \A k \in 1 .. Len(u) : k \in 1 .. Len(w)
        /\ Len(u) + 1 \in 1 .. Len(w)
        /\ \A k \in 1 .. Len(w) : k \in 1 .. Len(u) \/ k = Len(u) + 1
    BY <2>2, <2>4
  <2>7. RisesButEmpty(w) => Rising(v)
    <3>1. RisesButEmpty(w) => RisesButEmpty(u)
      BY <2>2, <2>6 DEF RisesButEmpty
    <3> QED BY <1>2, <2>1, <3>1
  <2>8. CASE b.size = 0
    <3>1. x = v
      BY <2>3, <2>8
    <3>2. \A j \in 1 .. Len(v) : \E k \in 1 .. Len(w) : v[j] = w[k] /\ w[k].size # 0
      BY <2>2, <2>5, <2>6
    <3>3. \A k \in 1 .. Len(w) : w[k].size # 0 => \E j \in 1 .. Len(v) : w[k] = v[j]
      BY <2>2, <2>5, <2>6, <2>8
    <3>4. KeptBlocks(w)
      BY <2>3, <3>1, <3>2, <3>3 DEF KeptBlocks
    <3> QED BY <2>2, <2>3, <2>7, <3>1, <3>4
  <2>9. CASE b.size # 0
    <3>1. /\ x = Append(v, b) /\ Len(x) = Len(v) + 1 /\ x[Len(v) + 1] = b
          /\ \A j \in 1 .. Len(v) : x[j] = v[j]
      BY <2>3, <2>9, AppendProperties
    <3>2. /\ \A j \in 1 .. Len(v) : j \in 1 .. Len(x)
          /\ Len(v) + 1 \in 1 .. Len(x)
          /\ \A j \in 1 .. Len(x) : j \in 1 .. Len(v) \/ j = Len(v) + 1
      BY <2>4, <3>1
    <3>3. \A j \in 1 .. Len(x) : \E k \in 1 .. Len(w) : x[j] = w[k] /\ w[k].size # 0
      <4>1. \A j \in 1 .. Len(v) : \E k \in 1 .. Len(w) : x[j] = w[k] /\ w[k].size # 0
        BY <2>2, <2>5, <2>6, <3>1
      <4>2. x[Len(v) + 1] = w[Len(u) + 1] /\ w[Len(u) + 1].size # 0
        BY <2>2, <2>9, <3>1
      <4> QED BY <2>6, <3>2, <4>1, <4>2
    <3>4. \A k \in 1 .. Len(w) : w[k].size # 0 => \E j \in 1 .. Len(x) : w[k] = x[j]
      <4>1. \A k \in 1 .. Len(u) : w[k].size # 0 => \E j \in 1 .. Len(x) : w[k] = x[j]
        BY <2>2, <2>5, <3>1, <3>2
      <4>2. w[Len(u) + 1] = x[Len(v) + 1]
        BY <2>2, <3>1
      <4> QED BY <2>6, <3>2, <4>1, <4>2
    <3>5. KeptBlocks(w)
      <4>1. KeptBlocks(w) <=>
              /\ \A j \in 1 .. Len(x) : \E k \in 1 .. Len(w) : x[j] = w[k] /\ w[k].size # 0
              /\ \A k \in 1 .. Len(w) : w[k].size # 0 => \E j \in 1 .. Len(x) : w[k] = x[j]
        BY <2>3 DEF KeptBlocks
      <4> QED BY <3>3, <3>4, <4>1, Zenon
    <3>6. ASSUME RisesButEmpty(w) PROVE Rising(x)
      <4> SUFFICES ASSUME NEW j \in 1 .. Len(x), NEW k \in 1 .. Len(x), j < k
                   PROVE  x[j].offset < x[k].offset
        BY DEF Rising
      <4>1. j \in 1 .. Len(v)
        BY <2>4, <3>1
      <4>2. CASE k \in 1 .. Len(v)
        <5>1. v[j].offset < v[k].offset
          BY <2>7, <3>6, <4>1, <4>2 DEF Rising
        <5> QED BY <3>1, <4>1, <4>2, <5>1
      <4>3. CASE k = Len(v) + 1
        <5>1. PICK l \in 1 .. Len(u) : v[j] = u[l] /\ u[l].size # 0
          BY <2>5, <4>1
        <5>2. w[l].offset < w[Len(u) + 1].offset
          <6>1. l \in 1 .. Len(w) /\ Len(u) + 1 \in 1 .. Len(w) /\ l < Len(u) + 1
            BY <2>4, <2>6
          <6>2. w[l].size # 0 /\ w[Len(u) + 1].size # 0
            BY <2>2, <2>9, <5>1
          <6> QED BY <3>6, <6>1, <6>2 DEF RisesButEmpty
        <5> QED BY <2>2, <3>1, <4>1, <4>3, <5>1, <5>2
      <4> QED BY <3>2, <4>2, <4>3
    <3> QED BY <2>2, <2>3, <3>5, <3>6
  <2> QED BY <2>8, <2>9
<1>3. \A u \in Seq(Block) : u \in P
  <2> HIDE DEF P
  <2> QED BY <1>1, <1>2, SeqIsInductive
<1> QED BY <1>3

\* Sizes add up: where a record of a contiguous trace begins, those before it
\* have ended.
LEMMA ContiguousRises ==
  ASSUME NEW t \in Seq(Block), IsContiguous(t)
  PROVE  RisesButEmpty(t)
<1> SUFFICES ASSUME NEW j \in 1 .. Len(t), NEW k \in 1 .. Len(t), j < k, t[j].size # 0
             PROVE  t[j].offset < t[k].offset
  BY DEF RisesButEmpty
<1>1. PICK a \in Seq(Block) : a = SubSeq(t, 1, j - 1)
  <2>1. SubSeq(t, 1, j - 1) \in Seq(Block)
    OBVIOUS
  <2> QED BY <2>1
<1>2. PICK b \in Seq(Block) : b = SubSeq(t, 1, j)
  <2>1. SubSeq(t, 1, j) \in Seq(Block)
    OBVIOUS
  <2> QED BY <2>1
<1>3. PICK c \in Seq(Block) : c = SubSeq(t, j + 1, k - 1)
  <2>1. SubSeq(t, j + 1, k - 1) \in Seq(Block)
    OBVIOUS
  <2> QED BY <2>1
<1>4. SubSeq(t, 1, k - 1) = b \o c
  <2>1. /\ 1 \in 1 .. Len(t) + 1 /\ j \in 1 - 1 .. Len(t) /\ k - 1 \in j .. Len(t)
    BY LenProperties
  <2> QED BY <1>2, <1>3, <2>1, ConcatAdjacentSubSeq
<1>5. TotalSize(b) = TotalSize(a) + t[j].size /\ t[j].size \in Nat
  BY <1>1, <1>2, OneMoreRecord
<1>6. TotalSize(b \o c) = TotalSize(b) + TotalSize(c)
  BY TotalSizeOfConcat
<1>7. TotalSize(a) \in Nat /\ TotalSize(b) \in Nat /\ TotalSize(c) \in Nat
  BY TotalSizeOfAppend
<1>8. t[j].offset = TotalSize(a) /\ t[k].offset = TotalSize(b \o c)
  <2>1. j \in DOMAIN t /\ k \in DOMAIN t
    BY LenProperties
  <2> QED BY <1>1, <1>4, <2>1 DEF IsContiguous
<1>9. PICK m \in Nat, n \in Nat, l \in Nat : m = TotalSize(a) /\ n = TotalSize(b) /\ l = TotalSize(c)
  BY <1>7
<1>10. PICK z \in Nat : z = t[j].size /\ z # 0
  BY <1>5
<1>11. t[j].offset = m /\ t[k].offset = n + l /\ n = m + z
  BY <1>5, <1>6, <1>8, <1>9, <1>10
<1>12. m < n + l
  <2>1. m \in Nat /\ n \in Nat /\ l \in Nat /\ z \in Nat /\ z # 0 /\ n = m + z
    BY <1>10, <1>11
  <2> QED BY <2>1
<1> QED BY <1>11, <1>12

\* s is t with its n records in another order.
RearrangedOf(t, s, n) ==
  \E p \in [1 .. n -> 1 .. n] :
    /\ Len(s) = n
    /\ \A j, k \in 1 .. n : p[j] = p[k] => j = k
    /\ \A l \in 1 .. n : \E j \in 1 .. n : p[j] = l
    /\ \A k \in 1 .. n : s[k] = t[p[k]]

Rearranged(t, s) == RearrangedOf(t, s, Len(t))

InOrder(s, sort_by_offset) ==
  \A j, k \in 1 .. Len(s) : j < k => ~Before(s[k], s[j], sort_by_offset)

LEMMA SortedLogIs ==
  ASSUME NEW t \in Seq(Block), NEW by, NEW s \in SortedLogs(t, by)
  PROVE  s \in Seq(Block) /\ Rearranged(t, s) /\ InOrder(s, by)
<1> DEFINE n == Len(t)
<1>1. n \in Nat /\ DOMAIN t = 1 .. n
  BY LenProperties
<1>2. PICK o \in SetToSeqs(DOMAIN t) :
        /\ \A j, k \in DOMAIN o : j < k => ~Before(t[o[k]], t[o[j]], by)
        /\ s = [k \in DOMAIN t |-> t[o[k]]]
  BY DEF SortedLogs
<1>3. IsFiniteSet(1 .. n) /\ Cardinality(1 .. n) = n
  <2>1. n \in Nat /\ 1 \in Int /\ n \in Int
    BY <1>1
  <2> HIDE DEF n
  <2>2. /\ IsFiniteSet(1 .. n)
        /\ Cardinality(1 .. n) = IF 1 > n THEN 0 ELSE n - 1 + 1
    BY <2>1, FS_Interval
  <2> QED BY <2>1, <2>2
<1>4. o \in [1 .. n -> 1 .. n]
  BY <1>1, <1>2, <1>3 DEF SetToSeqs
<1>5. /\ \A j, k \in 1 .. n : o[j] = o[k] => j = k
      /\ \A l \in 1 .. n : \E j \in 1 .. n : o[j] = l
  <2>1. /\ \A j, k \in DOMAIN o : o[j] = o[k] => j = k
        /\ \A l \in 1 .. n : \E j \in DOMAIN o : o[j] = l
    BY <1>1, <1>3, SetToSeqsRange
  <2>2. DOMAIN o = 1 .. n
    BY <1>4
  <2> QED BY <2>1, <2>2
<1>6. s = [k \in 1 .. n |-> t[o[k]]] /\ \A k \in 1 .. n : t[o[k]] \in Block
  <2>1. \A k \in 1 .. n : o[k] \in 1 .. n
    BY <1>4
  <2>2. \A k \in 1 .. n : t[k] \in Block
    OBVIOUS
  <2> QED BY <1>1, <1>2, <2>1, <2>2
<1>7. s \in Seq(Block) /\ Len(s) = n /\ \A k \in 1 .. n : s[k] = t[o[k]]
  BY <1>1, <1>6
<1>8. Rearranged(t, s)
  BY <1>4, <1>5, <1>7 DEF Rearranged, RearrangedOf
<1>9. InOrder(s, by)
  <2>1. DOMAIN o = 1 .. n
    BY <1>4
  <2> QED BY <1>2, <1>7, <2>1 DEF InOrder
<1> QED BY <1>7, <1>8, <1>9

LEMMA RearrangedTwice ==
  ASSUME NEW t, NEW s, NEW r, Rearranged(t, s), Rearranged(s, r)
  PROVE  Rearranged(t, r)
<1>1. PICK p \in [1 .. Len(t) -> 1 .. Len(t)] :
    /\ Len(s) = Len(t)
    /\ \A j, k \in 1 .. Len(t) : p[j] = p[k] => j = k
    /\ \A l \in 1 .. Len(t) : \E j \in 1 .. Len(t) : p[j] = l
    /\ \A k \in 1 .. Len(t) : s[k] = t[p[k]]
  BY DEF Rearranged, RearrangedOf
<1>2. PICK q \in [1 .. Len(t) -> 1 .. Len(t)] :
    /\ Len(r) = Len(t)
    /\ \A j, k \in 1 .. Len(t) : q[j] = q[k] => j = k
    /\ \A l \in 1 .. Len(t) : \E j \in 1 .. Len(t) : q[j] = l
    /\ \A k \in 1 .. Len(t) : r[k] = s[q[k]]
  <2>1. RearrangedOf(s, r, Len(t))
    BY <1>1, Zenon DEF Rearranged
  <2> QED BY <2>1 DEF RearrangedOf
<1> DEFINE D == 1 .. Len(t)
           pq == [k \in D |-> p[q[k]]]
<1> HIDE DEF D
<1>3. \A k \in D : q[k] \in D /\ p[k] \in D
  BY <1>1, <1>2 DEF D
<1>4. pq \in [D -> D]
  BY <1>3
<1>5. \A j, k \in D : pq[j] = pq[k] => j = k
  BY <1>1, <1>2, <1>3 DEF D
<1>6. \A l \in D : \E j \in D : pq[j] = l
  <2> SUFFICES ASSUME NEW l \in D PROVE \E j \in D : pq[j] = l
    OBVIOUS
  <2>1. PICK m \in D : p[m] = l
    BY <1>1 DEF D
  <2>2. PICK j \in D : q[j] = m
    BY <1>2 DEF D
  <2> QED BY <2>1, <2>2
<1>7. \A k \in D : r[k] = t[pq[k]]
  BY <1>1, <1>2, <1>3 DEF D
<1> HIDE DEF pq
<1> QED BY <1>2, <1>4, <1>5, <1>6, <1>7 DEF D, Rearranged, RearrangedOf

\* Sorted by offset, the blocks of a contiguous trace are in their place.
LEMMA SortedBack ==
  ASSUME NEW t \in Seq(Block), IsContiguous(t), NEW r \in Seq(Block), Rearranged(t, r), InOrder(r, TRUE)
  PROVE  NonEmpty(r) = NonEmpty(t)
<1>1. PICK p \in [1 .. Len(t) -> 1 .. Len(t)] :
    /\ Len(r) = Len(t)
    /\ \A j, k \in 1 .. Len(t) : p[j] = p[k] => j = k
    /\ \A l \in 1 .. Len(t) : \E j \in 1 .. Len(t) : p[j] = l
    /\ \A k \in 1 .. Len(t) : r[k] = t[p[k]]
  BY DEF Rearranged, RearrangedOf
<1>2. RisesButEmpty(t)
  BY ContiguousRises
<1>3. RisesButEmpty(r)
  <2> SUFFICES ASSUME NEW j \in 1 .. Len(r), NEW k \in 1 .. Len(r), j < k, r[j].size # 0, r[k].size # 0
               PROVE  r[j].offset < r[k].offset
    BY DEF RisesButEmpty
  <2>1. PICK x \in 1 .. Len(t) : x = p[j] /\ r[j] = t[x]
    BY <1>1
  <2>2. PICK y \in 1 .. Len(t) : y = p[k] /\ r[k] = t[y]
    BY <1>1
  <2>3. x # y
    BY <1>1, <2>1, <2>2
  <2>4. CASE x < y
    BY <1>2, <2>1, <2>2, <2>4 DEF RisesButEmpty
  <2>5. CASE y < x
    <3>1. r[k].offset < r[j].offset
      BY <1>2, <2>1, <2>2, <2>5 DEF RisesButEmpty
    <3>2. ~(r[k].offset < r[j].offset)
      BY DEF InOrder, Before
    <3> QED BY <3>1, <3>2
  <2> QED BY <2>3, <2>4, <2>5
<1>4. PICK a \in Seq(Block) : a = NonEmpty(t)
  BY NonEmptyOfAppend
<1>5. PICK b \in Seq(Block) : b = NonEmpty(r)
  BY NonEmptyOfAppend
<1>6. /\ \A j \in 1 .. Len(a) : \E k \in 1 .. Len(t) : a[j] = t[k] /\ t[k].size # 0
      /\ \A k \in 1 .. Len(t) : t[k].size # 0 => \E j \in 1 .. Len(a) : t[k] = a[j]
      /\ Rising(a)
  BY <1>2, <1>4, NonEmptyKeeps DEF KeptBlocks
<1>7. /\ \A j \in 1 .. Len(b) : \E k \in 1 .. Len(t) : b[j] = r[k] /\ r[k].size # 0
      /\ \A k \in 1 .. Len(t) : r[k].size # 0 => \E j \in 1 .. Len(b) : r[k] = b[j]
      /\ Rising(b)
  <2>1. KeptBlocks(r) /\ Rising(NonEmpty(r))
    BY <1>3, NonEmptyKeeps
  <2>2. Len(r) = Len(t)
    BY <1>1
  <2> QED BY <1>5, <2>1, <2>2 DEF KeptBlocks
<1>8. ASSUME NEW j \in 1 .. Len(a) PROVE \E k \in 1 .. Len(b) : a[j] = b[k]
  <2>1. PICK k \in 1 .. Len(t) : a[j] = t[k] /\ t[k].size # 0
    BY <1>6
  <2>2. PICK l \in 1 .. Len(t) : p[l] = k
    BY <1>1
  <2>3. r[l] = a[j] /\ r[l].size # 0
    BY <1>1, <2>1, <2>2
  <2> QED BY <1>7, <2>3
<1>9. ASSUME NEW k \in 1 .. Len(b) PROVE \E j \in 1 .. Len(a) : b[k] = a[j]
  <2>1. PICK l \in 1 .. Len(t) : b[k] = r[l] /\ r[l].size # 0
    BY <1>7
  <2>2. p[l] \in 1 .. Len(t) /\ r[l] = t[p[l]]
    BY <1>1
  <2> QED BY <1>6, <2>1, <2>2
<1>10. SameBlocks(a, b)
  BY <1>8, <1>9 DEF SameBlocks
<1> QED BY <1>4, <1>5, <1>6, <1>7, <1>10, RisingAreEqual

\* Sorted by checksum, a CDS has its blocks, in the order the search needs.
LEMMA SortedByCksum ==
  ASSUME NEW t \in Seq(Block), NEW s \in SortedLogs(t, FALSE)
  PROVE  s \in Seq(Block) /\ Sorted(s) /\ Contents(s) = Contents(t)
<1>1. s \in Seq(Block) /\ Rearranged(t, s) /\ InOrder(s, FALSE)
  BY SortedLogIs
<1>2. DOMAIN s = 1 .. Len(s) /\ DOMAIN t = 1 .. Len(t)
  BY <1>1, LenProperties
<1>3. PICK p \in [1 .. Len(t) -> 1 .. Len(t)] :
    /\ Len(s) = Len(t)
    /\ \A l \in 1 .. Len(t) : \E j \in 1 .. Len(t) : p[j] = l
    /\ \A k \in 1 .. Len(t) : s[k] = t[p[k]]
  BY <1>1 DEF Rearranged, RearrangedOf
<1>4. \A k \in 1 .. Len(s) : s[k].cksum \in Int
  <2>1. \A k \in 1 .. Len(s) : s[k] \in Block
    BY <1>1
  <2> QED BY <2>1 DEF Block
<1>5. Sorted(s)
  <2> SUFFICES ASSUME NEW j \in 1 .. Len(s), NEW k \in 1 .. Len(s), j < k
               PROVE  s[j].cksum <= s[k].cksum
    BY <1>2 DEF Sorted
  <2>1. ~(s[k].cksum < s[j].cksum)
    BY <1>1 DEF InOrder, Before
  <2> QED BY <1>4, <2>1
<1>6. Contents(s) \subseteq Contents(t)
  <2> SUFFICES ASSUME NEW k \in 1 .. Len(s) PROVE s[k].cksum \in Contents(t)
    BY <1>2 DEF Contents
  <2>1. p[k] \in 1 .. Len(t) /\ s[k] = t[p[k]]
    BY <1>3
  <2> QED BY <1>2, <2>1 DEF Contents
<1>7. Contents(t) \subseteq Contents(s)
  <2> SUFFICES ASSUME NEW l \in 1 .. Len(t) PROVE t[l].cksum \in Contents(s)
    BY <1>2 DEF Contents
  <2>1. PICK j \in 1 .. Len(t) : p[j] = l
    BY <1>3
  <2> QED BY <1>2, <1>3, <2>1 DEF Contents
<1> QED BY <1>1, <1>5, <1>6, <1>7

\* Sorting does no harm, whatever the log: a contiguous trace has its
\* segments back, and a sorted CDS is searched as a set.
THEOREM SortingHarmless == Spec => []SortingIsHarmless
<1>1. SnapshotTypes => SortingIsHarmless
  <2> SUFFICES ASSUME SnapshotTypes PROVE SortingIsHarmless
    OBVIOUS
  <2>1. snapshot \in Seq(Block) /\ cds \in Seq(Block)
    BY DEF SnapshotTypes
  <2>2. ASSUME IsContiguous(snapshot), NEW s \in SortedLogs(snapshot, FALSE), NEW r \in SortedLogs(s, TRUE)
        PROVE  Segments(r) = Segments(snapshot)
    <3>1. s \in Seq(Block) /\ Rearranged(snapshot, s)
      BY <2>1, SortedLogIs
    <3>2. r \in Seq(Block) /\ Rearranged(s, r) /\ InOrder(r, TRUE)
      BY <3>1, SortedLogIs
    <3>3. Rearranged(snapshot, r)
      BY <3>1, <3>2, RearrangedTwice
    <3>4. NonEmpty(r) = NonEmpty(snapshot)
      BY <2>1, <2>2, <3>2, <3>3, SortedBack
    <3> QED BY <2>1, <3>2, <3>4, SameSegments
  <2>3. ASSUME NEW s \in SortedLogs(cds, FALSE), NEW c \in Contents(snapshot \o cds)
        PROVE  BinarySearch(s, c) <=> c \in Contents(cds)
    <3>1. s \in Seq(Block) /\ Sorted(s) /\ Contents(s) = Contents(cds)
      BY <2>1, SortedByCksum
    <3>2. c \in Int
      <4>1. PICK t \in Seq(Block) : t = snapshot \o cds
        BY <2>1, ConcatProperties
      <4>2. \A k \in DOMAIN t : t[k] \in Block
        BY <4>1
      <4> QED BY <4>1, <4>2 DEF Contents, Block
    <3>3. BinarySearch(s, c) => c \in Contents(s)
      BY <3>1, BinarySearchIsSound
    <3>4. c \in Contents(s) => BinarySearch(s, c)
      BY <3>1, <3>2, BinarySearchIsComplete
    <3> QED BY <3>1, <3>3, <3>4
  <2> QED BY <2>2, <2>3, Zenon DEF SortingIsHarmless
<1> QED BY <1>1, TypesInit, TypesStep, PTL DEF Spec

-----------------------------------------------------------------------------
(* Hits in a row *)

\* Where hits in a row begin and end among n blocks of which those in H are
\* hits, but for those that reach the last block.
EndedRuns(H, n) ==
  {r \in (1 .. n) \X (1 .. n) :
     /\ r[1] <= r[2] /\ r[2] # n
     /\ \A k \in r[1] .. r[2] : k \in H
     /\ r[1] = 1 \/ r[1] - 1 \notin H
     /\ r[2] + 1 \notin H}

\* l hits reach the last block, and no more.
AtTheEnd(H, n, l) ==
  /\ l \in 0 .. n
  /\ \A k \in n - l + 1 .. n : k \in H
  /\ l # n => n - l \notin H

\* order has the runs in R, each once, from front to back.
InSequence(order, R) ==
  /\ \A k \in 1 .. Len(order) : order[k] \in R
  /\ \A r \in R : \E k \in 1 .. Len(order) : order[k] = r
  /\ \A j, k \in 1 .. Len(order) : j < k => order[j][1] < order[k][1]

LengthsOf(order) == [k \in 1 .. Len(order) |-> order[k][2] - order[k][1] + 1]

\* The counters of cds_hit_analysis are right for the blocks read so far.
CountIsRight(s, H, n) ==
  /\ AtTheEnd(H, n, s.hit_len)
  /\ \E order \in Seq(Nat \X Nat) : InSequence(order, EndedRuns(H, n)) /\ s.output = LengthsOf(order)

Counts == [hit_len : Nat, output : Seq(Nat)]

LEMMA RunsAfterHit ==
  ASSUME NEW n \in Nat, NEW H \in SUBSET (1 .. n)
  PROVE  EndedRuns(H \union {n + 1}, n + 1) = EndedRuns(H, n)
<1> DEFINE G == H \union {n + 1}
<1>1. \A k \in Nat : k <= n => (k \in G <=> k \in H)
  OBVIOUS
<1>2. n + 1 \in G /\ \A k \in H : k \in 1 .. n
  OBVIOUS
<1> HIDE DEF G
<1>3. ASSUME NEW r \in EndedRuns(G, n + 1) PROVE r \in EndedRuns(H, n)
  <2>1. PICK a \in 1 .. n + 1, b \in 1 .. n + 1 : r = <<a, b>>
    BY DEF EndedRuns
  <2>2. /\ a <= b /\ b # n + 1
        /\ \A k \in a .. b : k \in G
        /\ a = 1 \/ a - 1 \notin G
        /\ b + 1 \notin G
    BY <2>1 DEF EndedRuns
  <2>3. b # n
    BY <1>2, <2>2
  <2>4. a \in 1 .. n /\ b \in 1 .. n /\ b + 1 <= n /\ b + 1 \in Nat
    BY <2>2, <2>3
  <2>5. \A k \in a .. b : k \in H
    BY <1>1, <2>2, <2>4
  <2>6. a = 1 \/ a - 1 \notin H
    BY <1>1, <2>2, <2>4
  <2>7. b + 1 \notin H
    BY <1>1, <2>2, <2>4
  <2> QED BY <2>1, <2>2, <2>3, <2>4, <2>5, <2>6, <2>7 DEF EndedRuns
<1>4. ASSUME NEW r \in EndedRuns(H, n) PROVE r \in EndedRuns(G, n + 1)
  <2>1. PICK a \in 1 .. n, b \in 1 .. n : r = <<a, b>>
    BY DEF EndedRuns
  <2>2. /\ a <= b /\ b # n
        /\ \A k \in a .. b : k \in H
        /\ a = 1 \/ a - 1 \notin H
        /\ b + 1 \notin H
    BY <2>1 DEF EndedRuns
  <2>3. a \in 1 .. n + 1 /\ b \in 1 .. n + 1 /\ b + 1 <= n /\ b + 1 \in Nat /\ b # n + 1
    BY <2>2
  <2>4. \A k \in a .. b : k \in G
    BY <1>1, <2>2, <2>3
  <2>5. a = 1 \/ a - 1 \notin G
    BY <1>1, <2>2, <2>3
  <2>6. b + 1 \notin G
    BY <1>1, <2>2, <2>3
  <2> QED BY <2>1, <2>2, <2>3, <2>4, <2>5, <2>6 DEF EndedRuns
<1> QED BY <1>3, <1>4 DEF G

LEMMA RunsAfterMiss ==
  ASSUME NEW n \in Nat, NEW H \in SUBSET (1 .. n), NEW l, AtTheEnd(H, n, l)
  PROVE  /\ EndedRuns(H, n + 1) = EndedRuns(H, n) \union (IF l = 0 THEN {} ELSE {<<n - l + 1, n>>})
         /\ l # 0 => \A r \in EndedRuns(H, n) : r[1] < n - l + 1
<1>1. l \in 0 .. n /\ (\A k \in n - l + 1 .. n : k \in H) /\ (l # n => n - l \notin H)
  BY DEF AtTheEnd
<1>2. \A k \in H : k \in 1 .. n
  OBVIOUS
<1>3. ASSUME NEW r \in EndedRuns(H, n + 1), r \notin EndedRuns(H, n)
      PROVE  l # 0 /\ r = <<n - l + 1, n>>
  <2>1. PICK a \in 1 .. n + 1, b \in 1 .. n + 1 : r = <<a, b>>
    BY DEF EndedRuns
  <2>2. /\ a <= b /\ b # n + 1
        /\ \A k \in a .. b : k \in H
        /\ a = 1 \/ a - 1 \notin H
        /\ b + 1 \notin H
    BY <2>1 DEF EndedRuns
  <2>3. a \in 1 .. n /\ b \in 1 .. n
    BY <2>2
  <2>4. b = n
    BY <1>3, <2>1, <2>2, <2>3 DEF EndedRuns
  <2>5. n \in H
    BY <2>2, <2>3, <2>4
  <2>6. l # 0
    BY <1>1, <2>3, <2>4, <2>5
  <2>7. ~(a < n - l + 1)
    <3> SUFFICES ASSUME a < n - l + 1 PROVE FALSE
      OBVIOUS
    <3>1. n - l \in a .. b /\ l # n
      BY <1>1, <2>3, <2>4
    <3> QED BY <1>1, <2>2, <3>1
  <2>8. ~(a > n - l + 1)
    <3> SUFFICES ASSUME a > n - l + 1 PROVE FALSE
      OBVIOUS
    <3>1. a - 1 \in n - l + 1 .. n /\ a # 1
      BY <1>1, <2>3
    <3> QED BY <1>1, <2>2, <3>1
  <2>9. a = n - l + 1
    BY <1>1, <2>3, <2>7, <2>8
  <2> QED BY <2>1, <2>4, <2>6, <2>9
<1>4. ASSUME NEW r \in EndedRuns(H, n) PROVE r \in EndedRuns(H, n + 1)
  <2>1. PICK a \in 1 .. n, b \in 1 .. n : r = <<a, b>>
    BY DEF EndedRuns
  <2>2. /\ a <= b /\ b # n
        /\ \A k \in a .. b : k \in H
        /\ a = 1 \/ a - 1 \notin H
        /\ b + 1 \notin H
    BY <2>1 DEF EndedRuns
  <2>3. a \in 1 .. n + 1 /\ b \in 1 .. n + 1 /\ b # n + 1
    OBVIOUS
  <2> QED BY <2>1, <2>2, <2>3 DEF EndedRuns
<1>5. ASSUME l # 0 PROVE <<n - l + 1, n>> \in EndedRuns(H, n + 1)
  <2>1. PICK a \in Nat : a = n - l + 1 /\ a \in 1 .. n /\ n \in 1 .. n
    BY <1>1, <1>5
  <2>2. \A k \in a .. n : k \in H
    BY <1>1, <2>1
  <2>3. a = 1 \/ a - 1 \notin H
    <3>1. a # 1 => l # n /\ a - 1 = n - l
      BY <1>1, <2>1
    <3> QED BY <1>1, <3>1
  <2>4. n + 1 \notin H
    BY <1>2
  <2>5. a <= n /\ n # n + 1 /\ a \in 1 .. n + 1 /\ n \in 1 .. n + 1
    BY <2>1
  <2>6. <<a, n>> \in EndedRuns(H, n + 1)
    BY <2>2, <2>3, <2>4, <2>5 DEF EndedRuns
  <2> QED BY <2>1, <2>6
<1>6. ASSUME l # 0, NEW r \in EndedRuns(H, n) PROVE r[1] < n - l + 1
  <2>1. PICK a \in 1 .. n, b \in 1 .. n : r = <<a, b>>
    BY DEF EndedRuns
  <2>2. a <= b /\ b # n /\ b + 1 \notin H
    BY <2>1 DEF EndedRuns
  <2>3. ~(a >= n - l + 1)
    <3> SUFFICES ASSUME a >= n - l + 1 PROVE FALSE
      OBVIOUS
    <3>1. b + 1 \in n - l + 1 .. n
      BY <1>1, <2>2
    <3> QED BY <1>1, <2>2, <3>1
  <2>4. a < n - l + 1
    BY <1>1, <2>3
  <2> QED BY <2>1, <2>4
<1>7. EndedRuns(H, n + 1) \subseteq EndedRuns(H, n) \union (IF l = 0 THEN {} ELSE {<<n - l + 1, n>>})
  BY <1>3
<1>8. EndedRuns(H, n) \union (IF l = 0 THEN {} ELSE {<<n - l + 1, n>>}) \subseteq EndedRuns(H, n + 1)
  BY <1>4, <1>5
<1> QED BY <1>6, <1>7, <1>8

LEMMA CountOfHit ==
  ASSUME NEW n \in Nat, NEW H \in SUBSET (1 .. n), NEW s \in Counts, CountIsRight(s, H, n)
  PROVE  /\ AfterBlock(s, TRUE) \in Counts
         /\ CountIsRight(AfterBlock(s, TRUE), H \union {n + 1}, n + 1)
<1>1. PICK l \in Nat, o \in Seq(Nat) : l = s.hit_len /\ o = s.output /\ s = [hit_len |-> l, output |-> o]
  BY DEF Counts
<1>2. AfterBlock(s, TRUE) = [hit_len |-> l + 1, output |-> o]
  BY <1>1 DEF AfterBlock
<1>3. AtTheEnd(H, n, l)
  BY <1>1 DEF CountIsRight
<1>4. AtTheEnd(H \union {n + 1}, n + 1, l + 1)
  <2>1. l \in 0 .. n /\ (\A k \in n - l + 1 .. n : k \in H) /\ (l # n => n - l \notin H)
    BY <1>3 DEF AtTheEnd
  <2>2. l + 1 \in 0 .. n + 1 /\ (n + 1) - (l + 1) = n - l
    BY <2>1
  <2>3. \A k \in n - l + 1 .. n + 1 : k \in H \union {n + 1}
    BY <2>1
  <2>4. n - l \notin {n + 1}
    BY <2>1
  <2> QED BY <2>1, <2>2, <2>3, <2>4 DEF AtTheEnd
<1>5. PICK t : t = AfterBlock(s, TRUE)
  OBVIOUS
<1>6. t.hit_len = l + 1 /\ t.output = o /\ t \in Counts
  <2>1. PICK m \in Nat : m = l + 1
    OBVIOUS
  <2>2. t = [hit_len |-> m, output |-> o]
    BY <1>2, <1>5, <2>1
  <2> QED BY <2>1, <2>2 DEF Counts
<1>7. CountIsRight(t, H \union {n + 1}, n + 1)
  BY <1>1, <1>4, <1>6, RunsAfterHit DEF CountIsRight
<1> QED BY <1>5, <1>6, <1>7

LEMMA CountOfMiss ==
  ASSUME NEW n \in Nat, NEW H \in SUBSET (1 .. n), NEW s \in Counts, CountIsRight(s, H, n)
  PROVE  /\ AfterBlock(s, FALSE) \in Counts
         /\ CountIsRight(AfterBlock(s, FALSE), H, n + 1)
<1>1. PICK l \in Nat, o \in Seq(Nat) : l = s.hit_len /\ o = s.output /\ s = [hit_len |-> l, output |-> o]
  BY DEF Counts
<1>2. AtTheEnd(H, n, l) /\ l \in 0 .. n
  BY <1>1 DEF CountIsRight, AtTheEnd
<1>3. PICK order \in Seq(Nat \X Nat) : InSequence(order, EndedRuns(H, n)) /\ o = LengthsOf(order)
  BY <1>1 DEF CountIsRight
<1>4. AtTheEnd(H, n + 1, 0)
  <2>1. 0 \in 0 .. n + 1 /\ (n + 1) - 0 = n + 1 /\ n + 1 \notin H
    OBVIOUS
  <2>2. \A k \in (n + 1) - 0 + 1 .. n + 1 : FALSE
    OBVIOUS
  <2> QED BY <2>1, <2>2 DEF AtTheEnd
<1>5. PICK t : t = AfterBlock(s, FALSE)
  OBVIOUS
<1>6. CASE l = 0
  <2>1. t = s
    BY <1>1, <1>5, <1>6 DEF AfterBlock, AfterMiss
  <2>2. EndedRuns(H, n + 1) = EndedRuns(H, n)
    <3>1. EndedRuns(H, n + 1) = EndedRuns(H, n) \union (IF l = 0 THEN {} ELSE {<<n - l + 1, n>>})
      BY <1>2, RunsAfterMiss
    <3> QED BY <1>6, <3>1, Zenon
  <2>3. CountIsRight(t, H, n + 1)
    BY <1>1, <1>3, <1>4, <1>6, <2>1, <2>2 DEF CountIsRight
  <2> QED BY <1>5, <2>1, <2>3
<1>7. CASE l # 0
  <2>1. t = [hit_len |-> 0, output |-> Append(o, l)]
    BY <1>1, <1>5, <1>7 DEF AfterBlock, AfterMiss
  <2>2. PICK R : R = EndedRuns(H, n)
    OBVIOUS
  <2>3. PICK Q : Q = EndedRuns(H, n + 1)
    OBVIOUS
  <2>4. PICK new \in Nat \X Nat : new = <<n - l + 1, n>> /\ new[1] = n - l + 1 /\ new[2] = n
    <3>1. PICK first \in Nat : first = n - l + 1
      BY <1>2
    <3>2. <<first, n>> \in Nat \X Nat /\ <<first, n>>[1] = first /\ <<first, n>>[2] = n
      OBVIOUS
    <3> QED BY <3>1, <3>2
  <2>5. Q = R \union {new} /\ \A r \in R : r[1] < new[1]
    BY <1>2, <1>7, <2>2, <2>3, <2>4, RunsAfterMiss
  <2>6. PICK more \in Seq(Nat \X Nat) :
          /\ more = Append(order, new) /\ Len(more) = Len(order) + 1 /\ more[Len(order) + 1] = new
          /\ \A k \in 1 .. Len(order) : more[k] = order[k]
    <3>1. /\ Append(order, new) \in Seq(Nat \X Nat) /\ Len(Append(order, new)) = Len(order) + 1
          /\ Append(order, new)[Len(order) + 1] = new
          /\ \A k \in 1 .. Len(order) : Append(order, new)[k] = order[k]
      BY AppendProperties
    <3> QED BY <3>1
  <2>7. PICK m \in Nat : m = Len(order) /\ Len(more) = m + 1
    BY <2>6, LenProperties
  <2>8. \A k \in 1 .. m + 1 : k \in 1 .. m \/ k = m + 1
    OBVIOUS
  <2>9. /\ \A k \in 1 .. m : order[k] \in R
        /\ \A r \in R : \E k \in 1 .. m : order[k] = r
        /\ \A j, k \in 1 .. m : j < k => order[j][1] < order[k][1]
    BY <1>3, <2>2, <2>7 DEF InSequence
  <2>10. InSequence(more, Q)
    <3>1. \A k \in 1 .. m + 1 : more[k] \in Q
      BY <2>5, <2>6, <2>7, <2>8, <2>9
    <3>2. \A r \in Q : \E k \in 1 .. m + 1 : more[k] = r
      <4>1. \A r \in R : \E k \in 1 .. m + 1 : more[k] = r
        <5>1. \A k \in 1 .. m : k \in 1 .. m + 1
          OBVIOUS
        <5> QED BY <2>6, <2>7, <2>9, <5>1
      <4>2. m + 1 \in 1 .. m + 1 /\ more[m + 1] = new
        BY <2>6, <2>7
      <4> QED BY <2>5, <4>1, <4>2
    <3>3. ASSUME NEW j \in 1 .. m + 1, NEW k \in 1 .. m + 1, j < k
          PROVE  more[j][1] < more[k][1]
      <4>1. j \in 1 .. m
        BY <3>3
      <4>2. CASE k \in 1 .. m
        BY <2>6, <2>7, <2>9, <3>3, <4>1, <4>2
      <4>3. CASE k = m + 1
        BY <2>5, <2>6, <2>7, <2>9, <4>1, <4>3
      <4> QED BY <2>8, <4>2, <4>3
    <3> QED BY <2>7, <3>1, <3>2, <3>3 DEF InSequence
  <2>11. Append(o, l) = LengthsOf(more)
    <3>1. o = [k \in 1 .. m |-> order[k][2] - order[k][1] + 1]
      BY <1>3, <2>7 DEF LengthsOf
    <3>2. LengthsOf(more) = [k \in 1 .. m + 1 |-> more[k][2] - more[k][1] + 1]
      BY <2>7 DEF LengthsOf
    <3>3. Len(o) = m
      BY <3>1
    <3>4. Append(o, l) = [k \in 1 .. m + 1 |-> IF k = m + 1 THEN l ELSE o[k]]
      <4>1. PICK p \in Seq(Nat) : /\ p = Append(o, l) /\ Len(p) = m + 1 /\ p[m + 1] = l
                                 /\ \A k \in 1 .. m : p[k] = o[k]
        <5>1. /\ Append(o, l) \in Seq(Nat) /\ Len(Append(o, l)) = Len(o) + 1
              /\ Append(o, l)[Len(o) + 1] = l
              /\ \A k \in 1 .. Len(o) : Append(o, l)[k] = o[k]
          BY AppendProperties
        <5> QED BY <3>3, <5>1
      <4>2. p = [k \in 1 .. m + 1 |-> p[k]]
        <5>1. p \in [1 .. m + 1 -> Nat]
          BY <4>1, LenProperties
        <5> QED BY <5>1
      <4>3. \A k \in 1 .. m + 1 : p[k] = IF k = m + 1 THEN l ELSE o[k]
        <5> SUFFICES ASSUME NEW k \in 1 .. m + 1 PROVE p[k] = IF k = m + 1 THEN l ELSE o[k]
          OBVIOUS
        <5>1. CASE k = m + 1
          BY <4>1, <5>1
        <5>2. CASE k # m + 1
          <6>1. k \in 1 .. m
            BY <5>2
          <6> QED BY <4>1, <5>2, <6>1
        <5> QED BY <5>1, <5>2
      <4>4. p = [k \in 1 .. m + 1 |-> IF k = m + 1 THEN l ELSE o[k]]
        BY <4>2, <4>3, Zenon
      <4> QED BY <4>1, <4>4
    <3>5. more[m + 1][2] - more[m + 1][1] + 1 = l
      BY <1>2, <2>4, <2>6, <2>7
    <3>6. \A k \in 1 .. m : more[k][2] - more[k][1] + 1 = o[k]
      BY <2>6, <2>7, <3>1
    <3>7. \A k \in 1 .. m + 1 : more[k][2] - more[k][1] + 1 = IF k = m + 1 THEN l ELSE o[k]
      <4> SUFFICES ASSUME NEW k \in 1 .. m + 1
                   PROVE  more[k][2] - more[k][1] + 1 = IF k = m + 1 THEN l ELSE o[k]
        OBVIOUS
      <4>1. CASE k = m + 1
        BY <3>5, <4>1
      <4>2. CASE k \in 1 .. m
        BY <3>6, <4>2
      <4> QED BY <2>8, <4>1, <4>2
    <3> QED BY <3>2, <3>4, <3>7
  <2>12. t.hit_len = 0 /\ t.output = LengthsOf(more) /\ t \in Counts
    BY <2>1, <2>11, AppendProperties DEF Counts
  <2>13. CountIsRight(t, H, n + 1)
    BY <1>4, <2>3, <2>10, <2>12 DEF CountIsRight
  <2> QED BY <1>5, <2>12, <2>13
<1> QED BY <1>6, <1>7

LEMMA CountOfNothing == NothingRead \in Counts /\ CountIsRight(NothingRead, {}, 0)
<1>1. NothingRead = [hit_len |-> 0, output |-> <<>>] /\ <<>> \in Seq(Nat) /\ <<>> \in Seq(Nat \X Nat) /\ Len(<<>>) = 0
  BY EmptySeq DEF NothingRead
<1>2. NothingRead \in Counts /\ NothingRead.hit_len = 0 /\ NothingRead.output = <<>>
  BY <1>1 DEF Counts
<1>3. AtTheEnd({}, 0, 0)
  BY DEF AtTheEnd
<1>4. EndedRuns({}, 0) = {}
  BY DEF EndedRuns
<1>5. InSequence(<<>>, {}) /\ LengthsOf(<<>>) = <<>>
  <2>1. \A k \in 1 .. Len(<<>>) : FALSE
    BY <1>1
  <2>2. LengthsOf(<<>>) = [k \in 1 .. 0 |-> <<>>[k][2] - <<>>[k][1] + 1]
    BY <1>1 DEF LengthsOf
  <2>3. LengthsOf(<<>>) = <<>>
    BY <2>2
  <2> QED BY <2>1, <2>3 DEF InSequence
<1> QED BY <1>1, <1>2, <1>3, <1>4, <1>5 DEF CountIsRight

LEMMA SearchIsBoolean == \A blocks, c : BinarySearch(blocks, c) \in BOOLEAN
  BY DEF BinarySearch

LEMMA AfterBlockType == \A s \in Counts, hit \in BOOLEAN : AfterBlock(s, hit) \in Counts
<1> SUFFICES ASSUME NEW s \in Counts, NEW hit \in BOOLEAN PROVE AfterBlock(s, hit) \in Counts
  OBVIOUS
<1>1. PICK l \in Nat, o \in Seq(Nat) : s = [hit_len |-> l, output |-> o]
  BY DEF Counts
<1>2. CASE hit = TRUE
  <2>1. AfterBlock(s, hit) = [hit_len |-> l + 1, output |-> o] /\ l + 1 \in Nat
    BY <1>1, <1>2 DEF AfterBlock
  <2> QED BY <2>1 DEF Counts
<1>3. CASE hit = FALSE
  <2>1. AfterBlock(s, hit) = IF l # 0 THEN [hit_len |-> 0, output |-> Append(o, l)] ELSE s
    BY <1>1, <1>3 DEF AfterBlock, AfterMiss
  <2>2. Append(o, l) \in Seq(Nat)
    BY AppendProperties
  <2> QED BY <2>1, <2>2 DEF Counts
<1> QED BY <1>2, <1>3

\* The fold of AfterBlocks, block by block.
BlockRows(row, base, seg, blocks) ==
  /\ row[0] = base
  /\ \A k \in 1 .. Len(seg) : row[k] = AfterBlock(row[k - 1], BinarySearch(blocks, seg[k].cksum))
  /\ AfterBlocks(base, seg, blocks) = row[Len(seg)]

LEMMA AfterBlocksRows ==
  ASSUME NEW base \in Counts, NEW seg \in Seq(Block), NEW blocks
  PROVE  \E row \in [0 .. Len(seg) -> Counts] : BlockRows(row, base, seg, blocks)
<1> DEFINE n == Len(seg)
           Kept(a, k) == AfterBlock(a, BinarySearch(blocks, seg[k].cksum))
           it == CHOOSE g : g = [t \in SUBSET DOMAIN seg |->
                                   IF t = {} THEN base ELSE Kept(g[t \ {Max(t)}], Max(t))]
<1>1. n \in Nat /\ DOMAIN seg = 1 .. n /\ \A k \in 1 .. n : seg[k] \in Block
  OBVIOUS
<1>2. AfterBlocks(base, seg, blocks) = it[DOMAIN seg]
  BY DEF AfterBlocks, FoldLeft, MapThenFoldSet
<1>3. \A a \in Counts, k \in 1 .. n : Kept(a, k) \in Counts
  BY <1>1, SearchIsBoolean, AfterBlockType
<1>4. PICK op \in [Counts \X (1 .. n) -> Counts] :
        \A a \in Counts, k \in 1 .. n : op[<<a, k>>] = Kept(a, k)
  <2> DEFINE f == [p \in Counts \X (1 .. n) |-> Kept(p[1], p[2])]
  <2> HIDE DEF Kept, n
  <2>1. f \in [Counts \X (1 .. n) -> Counts]
    BY <1>3
  <2>2. \A a \in Counts, k \in 1 .. n : f[<<a, k>>] = Kept(a, k)
    OBVIOUS
  <2> HIDE DEF f
  <2> QED BY <2>1, <2>2
<1>5. PICK h \in [SUBSET (1 .. n) -> Counts] : IsFold(h, base, op, n)
  <2>1. base \in Counts
    OBVIOUS
  <2> HIDE DEF n
  <2> QED BY <1>1, <2>1, FoldExists, Zenon
<1>6. h = [t \in SUBSET DOMAIN seg |-> IF t = {} THEN base ELSE Kept(h[t \ {Max(t)}], Max(t))]
  <2>1. ASSUME NEW t \in SUBSET (1 .. n), t # {}
        PROVE  h[t] = Kept(h[t \ {Max(t)}], Max(t))
    <3>1. Max(t) \in 1 .. n
      BY <1>1, <2>1, MaxOfSubset
    <3>2. h[t \ {Max(t)}] \in Counts
      OBVIOUS
    <3> HIDE DEF n, Kept
    <3> QED BY <1>4, <1>5, <2>1, <3>1, <3>2 DEF IsFold
  <2> HIDE DEF n, Kept
  <2> QED BY <1>1, <1>5, <2>1 DEF IsFold
<1>7. it = [t \in SUBSET DOMAIN seg |-> IF t = {} THEN base ELSE Kept(it[t \ {Max(t)}], Max(t))]
  <2> HIDE DEF Kept
  <2> QED BY <1>6, Zenon
<1> HIDE DEF it, Kept
<1>8. it[{}] = base
  BY <1>1, <1>7
<1>9. \A k \in 1 .. n : it[1 .. k] = Kept(it[1 .. (k - 1)], k)
  <2> SUFFICES ASSUME NEW k \in 1 .. n PROVE it[1 .. k] = Kept(it[1 .. (k - 1)], k)
    OBVIOUS
  <2>1. (1 .. k) \in SUBSET DOMAIN seg /\ 1 .. k # {}
    <3>1. \A j \in 1 .. k : j \in 1 .. n
      BY <1>1
    <3>2. k \in 1 .. k
      BY <1>1
    <3> HIDE DEF n
    <3> QED BY <1>1, <3>1, <3>2
  <2>2. Max(1 .. k) = k /\ (1 .. k) \ {Max(1 .. k)} = 1 .. (k - 1)
    BY <1>1, MaxOfUpTo
  <2>3. it[1 .. k] = Kept(it[(1 .. k) \ {Max(1 .. k)}], Max(1 .. k))
    BY <1>7, <2>1
  <2> QED BY <2>2, <2>3
<1> DEFINE Typed == {k \in 0 .. n : it[1 .. k] \in Counts}
<1>10. \A k \in 0 .. n : k \in Typed
  <2>1. 0 \in Typed
    <3>1. 1 .. 0 = {} /\ 0 \in 0 .. n
      BY <1>1
    <3> HIDE DEF n
    <3>2. it[1 .. 0] = base
      BY <1>8, <3>1, Zenon
    <3>3. it[1 .. 0] \in Counts
      BY <3>2
    <3> QED BY <3>1, <3>3
  <2>2. ASSUME NEW k \in 0 .. n - 1, k \in Typed PROVE k + 1 \in Typed
    <3>1. k + 1 \in 1 .. n /\ (k + 1) - 1 = k
      BY <1>1
    <3> QED BY <1>3, <1>9, <2>2, <3>1
  <2> HIDE DEF Typed
  <2> QED BY <1>1, <2>1, <2>2, UpToIsInductive
<1> DEFINE row == [k \in 0 .. n |-> it[1 .. k]]
<1>11. row \in [0 .. n -> Counts] /\ row[0] = base /\ row[n] = it[DOMAIN seg]
  BY <1>1, <1>8, <1>10
<1>12. \A k \in 1 .. n : row[k] = Kept(row[k - 1], k)
  BY <1>1, <1>9
<1> HIDE DEF row
<1> QED BY <1>2, <1>11, <1>12 DEF Kept, BlockRows

LEMMA AfterBlocksType ==
  \A base \in Counts, seg \in Seq(Block) : \A blocks : AfterBlocks(base, seg, blocks) \in Counts
<1> SUFFICES ASSUME NEW base \in Counts, NEW seg \in Seq(Block), NEW blocks
             PROVE  AfterBlocks(base, seg, blocks) \in Counts
  OBVIOUS
<1>1. PICK row \in [0 .. Len(seg) -> Counts] : BlockRows(row, base, seg, blocks)
  BY AfterBlocksRows
<1>2. Len(seg) \in 0 .. Len(seg)
  BY LenProperties
<1> QED BY <1>1, <1>2 DEF BlockRows

AfterSegments(base, segs, blocks) ==
  FoldLeft(LAMBDA s, seg : AfterBlocks(s, seg, blocks), base, segs)

\* The fold over the segments, segment by segment.
SegmentRows(row, base, segs, blocks) ==
  /\ row[0] = base
  /\ \A k \in 1 .. Len(segs) : row[k] = AfterBlocks(row[k - 1], segs[k], blocks)
  /\ AfterSegments(base, segs, blocks) = row[Len(segs)]

LEMMA AfterSegmentsRows ==
  ASSUME NEW base \in Counts, NEW segs \in Seq(Seq(Block)), NEW blocks
  PROVE  \E row \in [0 .. Len(segs) -> Counts] : SegmentRows(row, base, segs, blocks)
<1> DEFINE n == Len(segs)
           Kept(a, k) == AfterBlocks(a, segs[k], blocks)
           it == CHOOSE g : g = [t \in SUBSET DOMAIN segs |->
                                   IF t = {} THEN base ELSE Kept(g[t \ {Max(t)}], Max(t))]
<1>1. n \in Nat /\ DOMAIN segs = 1 .. n /\ \A k \in 1 .. n : segs[k] \in Seq(Block)
  OBVIOUS
<1>2. AfterSegments(base, segs, blocks) = it[DOMAIN segs]
  BY DEF AfterSegments, FoldLeft, MapThenFoldSet
<1>3. \A a \in Counts, k \in 1 .. n : Kept(a, k) \in Counts
  BY <1>1, AfterBlocksType
<1>4. PICK op \in [Counts \X (1 .. n) -> Counts] :
        \A a \in Counts, k \in 1 .. n : op[<<a, k>>] = Kept(a, k)
  <2> DEFINE f == [p \in Counts \X (1 .. n) |-> Kept(p[1], p[2])]
  <2> HIDE DEF Kept, n
  <2>1. f \in [Counts \X (1 .. n) -> Counts]
    BY <1>3
  <2>2. \A a \in Counts, k \in 1 .. n : f[<<a, k>>] = Kept(a, k)
    OBVIOUS
  <2> HIDE DEF f
  <2> QED BY <2>1, <2>2
<1>5. PICK h \in [SUBSET (1 .. n) -> Counts] : IsFold(h, base, op, n)
  <2>1. base \in Counts
    OBVIOUS
  <2> HIDE DEF n
  <2> QED BY <1>1, <2>1, FoldExists, Zenon
<1>6. h = [t \in SUBSET DOMAIN segs |-> IF t = {} THEN base ELSE Kept(h[t \ {Max(t)}], Max(t))]
  <2>1. ASSUME NEW t \in SUBSET (1 .. n), t # {}
        PROVE  h[t] = Kept(h[t \ {Max(t)}], Max(t))
    <3>1. Max(t) \in 1 .. n
      BY <1>1, <2>1, MaxOfSubset
    <3>2. h[t \ {Max(t)}] \in Counts
      OBVIOUS
    <3> HIDE DEF n, Kept
    <3> QED BY <1>4, <1>5, <2>1, <3>1, <3>2 DEF IsFold
  <2> HIDE DEF n, Kept
  <2> QED BY <1>1, <1>5, <2>1 DEF IsFold
<1>7. it = [t \in SUBSET DOMAIN segs |-> IF t = {} THEN base ELSE Kept(it[t \ {Max(t)}], Max(t))]
  <2> HIDE DEF Kept
  <2> QED BY <1>6, Zenon
<1> HIDE DEF it, Kept
<1>8. it[{}] = base
  BY <1>1, <1>7
<1>9. \A k \in 1 .. n : it[1 .. k] = Kept(it[1 .. (k - 1)], k)
  <2> SUFFICES ASSUME NEW k \in 1 .. n PROVE it[1 .. k] = Kept(it[1 .. (k - 1)], k)
    OBVIOUS
  <2>1. (1 .. k) \in SUBSET DOMAIN segs /\ 1 .. k # {}
    <3>1. \A j \in 1 .. k : j \in 1 .. n
      BY <1>1
    <3>2. k \in 1 .. k
      BY <1>1
    <3> HIDE DEF n
    <3> QED BY <1>1, <3>1, <3>2
  <2>2. Max(1 .. k) = k /\ (1 .. k) \ {Max(1 .. k)} = 1 .. (k - 1)
    BY <1>1, MaxOfUpTo
  <2>3. it[1 .. k] = Kept(it[(1 .. k) \ {Max(1 .. k)}], Max(1 .. k))
    BY <1>7, <2>1
  <2> QED BY <2>2, <2>3
<1> DEFINE Typed == {k \in 0 .. n : it[1 .. k] \in Counts}
<1>10. \A k \in 0 .. n : k \in Typed
  <2>1. 0 \in Typed
    <3>1. 1 .. 0 = {} /\ 0 \in 0 .. n
      BY <1>1
    <3> HIDE DEF n
    <3>2. it[1 .. 0] = base
      BY <1>8, <3>1, Zenon
    <3>3. it[1 .. 0] \in Counts
      BY <3>2
    <3> QED BY <3>1, <3>3
  <2>2. ASSUME NEW k \in 0 .. n - 1, k \in Typed PROVE k + 1 \in Typed
    <3>1. k + 1 \in 1 .. n /\ (k + 1) - 1 = k
      BY <1>1
    <3> QED BY <1>3, <1>9, <2>2, <3>1
  <2> HIDE DEF Typed
  <2> QED BY <1>1, <2>1, <2>2, UpToIsInductive
<1> DEFINE row == [k \in 0 .. n |-> it[1 .. k]]
<1>11. row \in [0 .. n -> Counts] /\ row[0] = base /\ row[n] = it[DOMAIN segs]
  BY <1>1, <1>8, <1>10
<1>12. \A k \in 1 .. n : row[k] = Kept(row[k - 1], k)
  BY <1>1, <1>9
<1> HIDE DEF row
<1> QED BY <1>2, <1>11, <1>12 DEF Kept, SegmentRows

HitsIn(bs, blocks) == {k \in 1 .. Len(bs) : BinarySearch(blocks, bs[k].cksum)}

\* The counters are right for the blocks bs.
RightFor(s, bs, blocks) == CountIsRight(s, HitsIn(bs, blocks), Len(bs))

LEMMA CountOfBlock ==
  ASSUME NEW bs \in Seq(Block), NEW b \in Block, NEW s \in Counts, NEW blocks, RightFor(s, bs, blocks)
  PROVE  RightFor(AfterBlock(s, BinarySearch(blocks, b.cksum)), Append(bs, b), blocks)
<1>1. PICK n \in Nat : n = Len(bs)
  BY LenProperties
<1>2. PICK H \in SUBSET (1 .. n) : H = HitsIn(bs, blocks)
  <2>1. HitsIn(bs, blocks) \in SUBSET (1 .. n)
    BY <1>1 DEF HitsIn
  <2> QED BY <2>1
<1>3. CountIsRight(s, H, n)
  BY <1>1, <1>2 DEF RightFor
<1>4. PICK more \in Seq(Block) : /\ more = Append(bs, b) /\ Len(more) = n + 1 /\ more[n + 1] = b
                                /\ \A k \in 1 .. n : more[k] = bs[k]
  <2>1. /\ Append(bs, b) \in Seq(Block) /\ Len(Append(bs, b)) = Len(bs) + 1
        /\ Append(bs, b)[Len(bs) + 1] = b
        /\ \A k \in 1 .. Len(bs) : Append(bs, b)[k] = bs[k]
    BY AppendProperties
  <2> QED BY <1>1, <2>1
<1>5. \A k \in 1 .. n + 1 : k \in 1 .. n \/ k = n + 1
  OBVIOUS
<1>6. \A k \in 1 .. n : k \in HitsIn(more, blocks) <=> k \in H
  <2>1. \A k \in 1 .. n : k \in 1 .. n + 1
    OBVIOUS
  <2> QED BY <1>1, <1>2, <1>4, <2>1 DEF HitsIn
<1>7. n + 1 \in HitsIn(more, blocks) <=> BinarySearch(blocks, b.cksum)
  BY <1>4 DEF HitsIn
<1>8. HitsIn(more, blocks) \subseteq 1 .. n + 1
  BY <1>4 DEF HitsIn
<1>9. CASE BinarySearch(blocks, b.cksum)
  <2>1. BinarySearch(blocks, b.cksum) = TRUE
    BY <1>9, SearchIsBoolean
  <2>2. HitsIn(more, blocks) = H \union {n + 1}
    BY <1>5, <1>6, <1>7, <1>8, <1>9
  <2>3. CountIsRight(AfterBlock(s, TRUE), H \union {n + 1}, n + 1)
    BY <1>3, CountOfHit
  <2> QED BY <1>4, <2>1, <2>2, <2>3 DEF RightFor
<1>10. CASE ~BinarySearch(blocks, b.cksum)
  <2>1. BinarySearch(blocks, b.cksum) = FALSE
    BY <1>10, SearchIsBoolean
  <2>2. HitsIn(more, blocks) = H
    BY <1>5, <1>6, <1>7, <1>8, <1>10
  <2>3. CountIsRight(AfterBlock(s, FALSE), H, n + 1)
    BY <1>3, CountOfMiss
  <2> QED BY <1>4, <2>1, <2>2, <2>3 DEF RightFor
<1> QED BY <1>9, <1>10

LEMMA CountOfSegment ==
  ASSUME NEW bs \in Seq(Block), NEW seg \in Seq(Block), NEW s \in Counts, NEW blocks, RightFor(s, bs, blocks)
  PROVE  RightFor(AfterBlocks(s, seg, blocks), bs \o seg, blocks)
<1>1. PICK row \in [0 .. Len(seg) -> Counts] : BlockRows(row, s, seg, blocks)
  BY AfterBlocksRows
<1>2. PICK n \in Nat : n = Len(seg)
  BY LenProperties
<1> DEFINE P == {k \in 0 .. n : RightFor(row[k], bs \o SubSeq(seg, 1, k), blocks)}
<1>3. 0 \in P
  <2>1. bs \o SubSeq(seg, 1, 0) = bs
    <3>1. SubSeq(seg, 1, 0) = <<>>
      OBVIOUS
    <3> QED BY <3>1, ConcatEmptySeq
  <2>2. row[0] = s /\ 0 \in 0 .. n
    BY <1>1 DEF BlockRows
  <2> QED BY <2>1, <2>2
<1>4. ASSUME NEW k \in 0 .. n - 1, k \in P PROVE k + 1 \in P
  <2>1. PICK front \in Seq(Block) : front = bs \o SubSeq(seg, 1, k)
    <3>1. SubSeq(seg, 1, k) \in Seq(Block)
      BY <1>2
    <3> QED BY <3>1, ConcatProperties
  <2>2. PICK b \in Block : b = seg[k + 1]
    BY <1>2
  <2>3. bs \o SubSeq(seg, 1, k + 1) = Append(front, b)
    <3>1. SubSeq(seg, 1, k + 1) = Append(SubSeq(seg, 1, k), b) /\ SubSeq(seg, 1, k) \in Seq(Block)
      BY <1>2, <2>2
    <3>2. PICK x \in Seq(Block) : x = SubSeq(seg, 1, k)
      BY <3>1
    <3>3. bs \o Append(x, b) = Append(bs \o x, b)
      OBVIOUS
    <3> QED BY <2>1, <3>1, <3>2, <3>3
  <2>4. PICK c \in Counts : c = row[k]
    BY <1>1, <1>2
  <2>5. row[k + 1] = AfterBlock(c, BinarySearch(blocks, b.cksum))
    <3>1. k + 1 \in 1 .. Len(seg) /\ (k + 1) - 1 = k
      BY <1>2
    <3>2. row[k + 1] = AfterBlock(row[(k + 1) - 1], BinarySearch(blocks, seg[k + 1].cksum))
      BY <1>1, <3>1, Zenon DEF BlockRows
    <3> QED BY <2>2, <2>4, <3>1, <3>2, Zenon
  <2>6. RightFor(AfterBlock(c, BinarySearch(blocks, b.cksum)), Append(front, b), blocks)
    BY <1>4, <2>1, <2>4, CountOfBlock
  <2>7. RightFor(row[k + 1], bs \o SubSeq(seg, 1, k + 1), blocks)
    BY <2>3, <2>5, <2>6, Zenon
  <2>8. k + 1 \in 0 .. n
    OBVIOUS
  <2> QED BY <2>7, <2>8
<1>5. \A k \in 0 .. n : k \in P
  <2> HIDE DEF P
  <2> QED BY <1>3, <1>4, UpToIsInductive
<1>6. SubSeq(seg, 1, n) = seg
  BY <1>2, SubSeqFull
<1>7. RightFor(row[n], bs \o SubSeq(seg, 1, n), blocks)
  BY <1>5
<1> QED BY <1>1, <1>2, <1>6, <1>7 DEF BlockRows

LEMMA AfterNoSegments ==
  ASSUME NEW s \in Counts, NEW blocks
  PROVE  AfterSegments(s, <<>>, blocks) = s
<1>1. PICK none \in Seq(Seq(Block)) : none = <<>> /\ Len(none) = 0
  BY EmptySeq
<1>2. PICK row \in [0 .. Len(none) -> Counts] : SegmentRows(row, s, none, blocks)
  BY AfterSegmentsRows
<1> QED BY <1>1, <1>2 DEF SegmentRows

LEMMA AfterFirstSegment ==
  ASSUME NEW s \in Counts, NEW seg \in Seq(Block), NEW rest \in Seq(Seq(Block)), NEW blocks
  PROVE  AfterSegments(s, <<seg>> \o rest, blocks) = AfterSegments(AfterBlocks(s, seg, blocks), rest, blocks)
<1>1. PICK n \in Nat : n = Len(rest)
  BY LenProperties
<1>2. PICK all \in Seq(Seq(Block)) : /\ all = <<seg>> \o rest /\ Len(all) = n + 1 /\ all[1] = seg
                                    /\ \A k \in 1 .. n : all[k + 1] = rest[k]
  <2>1. <<seg>> \in Seq(Seq(Block)) /\ Len(<<seg>>) = 1 /\ <<seg>>[1] = seg
    OBVIOUS
  <2>2. PICK one \in Seq(Seq(Block)) : one = <<seg>> /\ Len(one) = 1 /\ one[1] = seg
    BY <2>1
  <2>3. one \o rest \in Seq(Seq(Block)) /\ Len(one \o rest) = 1 + n /\ (one \o rest)[1] = seg
    BY <1>1, <2>2, ConcatProperties
  <2>4. \A k \in 1 .. n : (one \o rest)[k + 1] = rest[k]
    BY <1>1, <2>2
  <2>5. PICK m \in Nat : m = n + 1 /\ m = 1 + n
    OBVIOUS
  <2> QED BY <2>2, <2>3, <2>4, <2>5
<1>3. PICK f \in [0 .. Len(all) -> Counts] : SegmentRows(f, s, all, blocks)
  BY AfterSegmentsRows
<1>4. PICK c \in Counts : c = AfterBlocks(s, seg, blocks)
  BY AfterBlocksType
<1>5. PICK g \in [0 .. Len(rest) -> Counts] : SegmentRows(g, c, rest, blocks)
  BY AfterSegmentsRows
<1> DEFINE h == [k \in 0 .. n |-> f[k + 1]]
<1>6. h[0] = g[0]
  <2>1. 1 \in 1 .. Len(all) /\ 1 - 1 = 0 /\ 0 \in 0 .. n /\ 0 + 1 = 1
    BY <1>2
  <2>2. f[1] = AfterBlocks(f[0], all[1], blocks)
    BY <1>3, <2>1 DEF SegmentRows
  <2>3. h[0] = f[1]
    BY <2>1
  <2> QED BY <1>2, <1>3, <1>4, <1>5, <2>2, <2>3 DEF SegmentRows
<1>7. ASSUME NEW k \in 1 .. n, h[k - 1] = g[k - 1] PROVE h[k] = g[k]
  <2>1. k + 1 \in 1 .. Len(all) /\ (k + 1) - 1 = k /\ k \in 0 .. n /\ k - 1 \in 0 .. n /\ (k - 1) + 1 = k
    BY <1>2
  <2>2. f[k + 1] = AfterBlocks(f[k], all[k + 1], blocks)
    BY <1>3, <2>1 DEF SegmentRows
  <2>3. h[k] = f[k + 1] /\ h[k - 1] = f[k]
    BY <2>1
  <2>4. g[k] = AfterBlocks(g[k - 1], rest[k], blocks)
    BY <1>1, <1>5 DEF SegmentRows
  <2> HIDE DEF h
  <2> QED BY <1>2, <1>7, <2>2, <2>3, <2>4
<1>8. h[n] = g[n]
  <2> HIDE DEF h
  <2> QED BY <1>6, <1>7, RowsAgree
<1>9. h[n] = f[n + 1]
  OBVIOUS
<1> HIDE DEF h
<1> QED BY <1>1, <1>2, <1>3, <1>4, <1>5, <1>8, <1>9 DEF SegmentRows

LEMMA BlocksLeft ==
  ASSUME NEW r \in Seq(Block), NEW bs \in Seq(Block), NEW seg \in Seq(Block), seg = SegmentBlocks(r)
  PROVE  (bs \o seg) \o Untagged(NonEmpty(AfterSegment(r))) = bs \o Untagged(NonEmpty(r))
<1>1. PICK a \in Seq(Block) : a = AfterSegment(r) /\ Untagged(NonEmpty(r)) = Untagged(seg) \o Untagged(NonEmpty(a))
  BY NextSegment
<1>2. Untagged(seg) = seg
  <2>1. PICK x \in Seq(Block) : x = NonEmpty(SegmentRecords(r)) /\ seg = Untagged(x)
    BY FrontIs
  <2> QED BY <2>1, UntaggedIs
<1>3. PICK y \in Seq(Block) : y = Untagged(NonEmpty(a))
  <2>1. NonEmpty(a) \in Seq(Block)
    BY NonEmptyOfAppend
  <2>2. Untagged(NonEmpty(a)) \in Seq(Block)
    BY <2>1, UntaggedIs
  <2> QED BY <2>2
<1>4. (bs \o seg) \o y = bs \o (seg \o y)
  <2>1. Regroups(bs, seg, y)
    BY ThreeParts
  <2> QED BY <2>1 DEF Regroups
<1> QED BY <1>1, <1>2, <1>3, <1>4

\* Counting segment after segment is counting all blocks that are left.
LEMMA CountOfSegments ==
  ASSUME NEW t \in Seq(Block), NEW blocks
  PROVE  \E s \in Counts : /\ RightFor(s, Untagged(NonEmpty(t)), blocks)
                           /\ HitLengths(t, blocks) = s.output
<1>1. PICK from \in [0 .. Len(t) -> Seq(Seq(Block))] : SegmentsFrom(t, from) /\ Segments(t) = from[0]
  BY SegmentsExist
<1>2. Len(t) \in Nat
  BY LenProperties
<1> DEFINE Left(k) == Untagged(NonEmpty(RestFrom(t, k)))
           Good(k) == \A s \in Counts, bs \in Seq(Block) :
                        RightFor(s, bs, blocks) =>
                          /\ AfterSegments(s, from[k], blocks) \in Counts
                          /\ RightFor(AfterSegments(s, from[k], blocks), bs \o Left(k), blocks)
           U == {n \in Nat : \A k \in 0 .. Len(t) : Len(t) - k = n => Good(k)}
<1>3. ASSUME NEW n \in Nat, \A j \in Nat : j < n => j \in U
      PROVE  n \in U
  <2> SUFFICES ASSUME NEW k \in 0 .. Len(t), Len(t) - k = n,
                      NEW s \in Counts, NEW bs \in Seq(Block), RightFor(s, bs, blocks)
               PROVE  /\ AfterSegments(s, from[k], blocks) \in Counts
                      /\ RightFor(AfterSegments(s, from[k], blocks), bs \o Left(k), blocks)
    OBVIOUS
  <2>1. PICK r \in Seq(Block) : r = RestFrom(t, k)
    BY RestSegment
  <2>2. PICK seg \in Seq(Block) : seg = SegmentBlocks(r)
    BY NextSegment
  <2>3. from[k] = IF seg = <<>> THEN <<>> ELSE <<seg>> \o from[k + SegmentLen(r)]
    BY <1>1, <2>1, <2>2 DEF SegmentsFrom, RestFrom
  <2>4. CASE seg = <<>>
    <3>1. Left(k) = <<>>
      BY <2>1, <2>2, <2>4, NextSegment, UntaggedNothing
    <3>2. bs \o Left(k) = bs
      BY <3>1, ConcatEmptySeq
    <3>3. AfterSegments(s, from[k], blocks) = s
      BY <2>3, <2>4, AfterNoSegments
    <3> QED BY <3>2, <3>3
  <2>5. CASE seg # <<>>
    <3>1. PICK l \in 0 .. Len(t) : l = k + SegmentLen(r) /\ l > k /\ AfterSegment(r) = RestFrom(t, l)
      <4>1. k + SegmentLen(r) \in k .. Len(t) /\ k + SegmentLen(r) > k
            /\ AfterSegment(r) = RestFrom(t, k + SegmentLen(r))
        BY <2>1, <2>2, <2>5, RestSegment
      <4>2. k + SegmentLen(r) \in 0 .. Len(t)
        BY <1>2, <4>1
      <4> QED BY <4>1, <4>2
    <3>2. PICK j \in Nat : j = Len(t) - l /\ j < n
      BY <1>2, <3>1
    <3>3. Good(l)
      <4>1. j \in U
        BY <1>3, <3>2
      <4> QED BY <3>2, <4>1
    <3>4. PICK rest \in Seq(Seq(Block)) : rest = from[l]
      OBVIOUS
    <3>5. PICK c \in Counts : c = AfterBlocks(s, seg, blocks)
      BY AfterBlocksType
    <3>6. AfterSegments(s, from[k], blocks) = AfterSegments(c, rest, blocks)
      <4>1. from[k] = <<seg>> \o rest
        BY <2>3, <2>5, <3>1, <3>4
      <4> QED BY <3>5, <4>1, AfterFirstSegment
    <3>7. bs \o seg \in Seq(Block) /\ RightFor(c, bs \o seg, blocks)
      BY <3>5, ConcatProperties, CountOfSegment
    <3>8. PICK more \in Seq(Block) : more = bs \o seg
      BY <3>7
    <3>9. /\ AfterSegments(c, rest, blocks) \in Counts
          /\ RightFor(AfterSegments(c, rest, blocks), more \o Left(l), blocks)
      <4> HIDE DEF Left
      <4> QED BY <3>3, <3>4, <3>7, <3>8
    <3>10. more \o Left(l) = bs \o Left(k)
      <4>1. (bs \o seg) \o Untagged(NonEmpty(AfterSegment(r))) = bs \o Untagged(NonEmpty(r))
        BY <2>2, BlocksLeft
      <4> QED BY <2>1, <3>1, <3>8, <4>1
    <3> QED BY <3>6, <3>9, <3>10
  <2> QED BY <2>4, <2>5
<1>4. \A n \in Nat : n \in U
  <2> HIDE DEF U
  <2> QED BY <1>3, NatIsWellOrdered
<1>5. Good(0)
  <2>1. PICK n \in Nat : n = Len(t) - 0 /\ 0 \in 0 .. Len(t)
    BY <1>2
  <2>2. n \in U
    BY <1>4
  <2> HIDE DEF Good
  <2> QED BY <2>1, <2>2
<1>6. <<>> \in Seq(Block) /\ RightFor(NothingRead, <<>>, blocks) /\ NothingRead \in Counts
  <2>1. <<>> \in Seq(Block) /\ Len(<<>>) = 0
    BY EmptySeq
  <2>2. HitsIn(<<>>, blocks) = {}
    BY <2>1 DEF HitsIn
  <2> QED BY <2>1, <2>2, CountOfNothing DEF RightFor
<1>7. PICK none \in Seq(Block) : none = <<>>
  BY <1>6
<1>8. PICK y \in Seq(Block) : y = Untagged(NonEmpty(t)) /\ Left(0) = y /\ none \o y = y
  <2>1. RestFrom(t, 0) = t
    BY SubSeqFull DEF RestFrom
  <2>2. PICK x \in Seq(Block) : x = NonEmpty(t)
    BY NonEmptyOfAppend
  <2>3. Untagged(x) \in Seq(Block)
    BY UntaggedIs
  <2> QED BY <1>7, <2>1, <2>2, <2>3, ConcatEmptySeq
<1>9. PICK s \in Counts : s = AfterSegments(NothingRead, from[0], blocks) /\ RightFor(s, none \o Left(0), blocks)
  <2> HIDE DEF Left
  <2> QED BY <1>5, <1>6, <1>7
<1>10. HitLengths(t, blocks) = s.output
  BY <1>1, <1>9 DEF HitLengths, AfterSegments
<1> QED BY <1>8, <1>9, <1>10

\* Level 3 has found the block, or has not, as the search in the CDS does.
Searched(b, blocks) == 1 \in b.file_id <=> BinarySearch(blocks, b.cksum)

SearchesRight ==
  /\ \A k \in 1 .. Len(output) : Searched(output[k], cds)
  /\ pc = "cds" => \A k \in 1 .. Len(current_seg) : k < i => Searched(current_seg[k], cds)

LEMMA SearchedByLevel3 ==
  ASSUME SnapshotTypes, StagedTags(CdsTags), SearchesRight, SearchCds
  PROVE  SearchesRight'
<1>1. /\ current_seg \in Seq(Block) /\ i \in Nat \ {0} /\ i \in 1 .. Len(current_seg)
      /\ pc = "cds" /\ pc' = "cds" /\ i' = i + 1 /\ output' = output /\ cds' = cds
  BY LenProperties DEF SnapshotTypes, SearchCds, TagNext, inVars, argVars
<1>2. PICK b \in Block : b = current_seg[i]
  BY <1>1
<1>3. PICK bits \in SUBSET Nat : bits = (IF InCds(b) THEN IN_CDS ELSE {}) /\ TagNext(bits)
  BY <1>1, <1>2, TagsAreSets DEF SearchCds, TagNext
<1>4. /\ current_seg' \in Seq(Block) /\ Len(current_seg') = Len(current_seg)
      /\ \A k \in 1 .. Len(current_seg) :
           current_seg'[k] = IF k = i THEN Tagged(b, bits) ELSE current_seg[k]
  <2>1. IsRetagged(current_seg', current_seg)
    BY <1>1, <1>3, TagNextRetags
  <2>2. current_seg \in [1 .. Len(current_seg) -> Block]
    BY <1>1, LenProperties
  <2>3. current_seg' = [current_seg EXCEPT ![i] = Tagged(current_seg[i], bits)]
    BY <1>3 DEF TagNext
  <2> QED BY <1>1, <1>2, <2>1, <2>2, <2>3, RetaggedSeq
<1>5. 1 \notin b.file_id
  <2>1. b.file_id \in LevelTags
    <3>1. ~(i < i)
      BY <1>1
    <3>2. current_seg[i].file_id \in IF i < i THEN CdsTags ELSE LevelTags
      BY <1>1 DEF StagedTags
    <3> QED BY <1>2, <3>1, <3>2
  <2> QED BY <2>1 DEF LevelTags, IN_PARENT, IN_DIRTY_SEG
<1>6. Searched(Tagged(b, bits), cds)
  <2>1. Tagged(b, bits).file_id = b.file_id \union bits /\ Tagged(b, bits).cksum = b.cksum
    BY <1>2, TaggedTag DEF Tagged, Block
  <2>2. 1 \in bits <=> InCds(b)
    BY <1>3 DEF IN_CDS
  <2>3. 1 \in Tagged(b, bits).file_id <=> InCds(b)
    BY <1>5, <2>1, <2>2
  <2> QED BY <2>1, <2>3 DEF Searched, InCds
<1>7. \A k \in 1 .. Len(current_seg) : k < i + 1 => k = i \/ k < i
  BY <1>1
<1>8. \A k \in 1 .. Len(current_seg) : k < i => Searched(current_seg[k], cds)
  BY <1>1 DEF SearchesRight
<1>9. \A k \in 1 .. Len(current_seg) : k < i + 1 => Searched(current_seg'[k], cds)
  BY <1>1, <1>4, <1>6, <1>7, <1>8
<1>10. \A k \in 1 .. Len(output) : Searched(output[k], cds)
  BY DEF SearchesRight
<1>11. /\ \A k \in 1 .. Len(current_seg') : k < i' => Searched(current_seg'[k], cds')
       /\ \A k \in 1 .. Len(output') : Searched(output'[k], cds')
  BY <1>1, <1>4, <1>9, <1>10
<1> QED BY <1>11 DEF SearchesRight

LEMMA SearchedStep ==
  ASSUME SnapshotTypes, StagedTags(CdsTags), SearchesRight, [Next]_vars
  PROVE  SearchesRight'
<1>1. output \in Seq(Block) /\ current_seg \in Seq(Block) /\ i \in Nat \ {0}
  BY DEF SnapshotTypes
<1>2. \A k \in 1 .. Len(output) : Searched(output[k], cds)
  BY DEF SearchesRight
<1>3. CASE Open
  <2>1. output' = <<>> /\ pc' = "load" /\ Len(<<>>) = 0
    BY <1>3, EmptySeq DEF Open
  <2> QED BY <2>1 DEF SearchesRight
<1>4. CASE LoadSegments
  BY <1>2, <1>4 DEF LoadSegments, SearchesRight, argVars
<1>5. CASE TagParent \/ TagDirty \/ WithoutParent
  <2>1. /\ i' = 1 /\ output' = output /\ cds' = cds
    BY <1>5 DEF StagedTags, TagParent, TagDirty, WithoutParent, inVars, argVars
  <2>2. \A k \in 1 .. Len(current_seg') : ~(k < 1)
    OBVIOUS
  <2> QED BY <1>2, <2>1, <2>2 DEF SearchesRight
<1>6. CASE WriteSegment
  <2>1. /\ output' = output \o current_seg /\ pc' = "load" /\ pc = "cds" /\ i > Len(current_seg)
        /\ cds' = cds
    BY <1>6 DEF WriteSegment, inVars, argVars
  <2>2. \A k \in 1 .. Len(current_seg) : k < i
    BY <1>1, <2>1, LenProperties
  <2>3. /\ Len(output \o current_seg) = Len(output) + Len(current_seg)
        /\ \A k \in 1 .. Len(output) + Len(current_seg) :
             (output \o current_seg)[k] = IF k <= Len(output) THEN output[k] ELSE current_seg[k - Len(output)]
    BY <1>1, ConcatProperties
  <2>4. \A k \in 1 .. Len(output) + Len(current_seg) :
          \/ k \in 1 .. Len(output) /\ output'[k] = output[k]
          \/ k - Len(output) \in 1 .. Len(current_seg) /\ output'[k] = current_seg[k - Len(output)]
    BY <1>1, <2>1, <2>3, LenProperties
  <2>5. \A k \in 1 .. Len(current_seg) : Searched(current_seg[k], cds)
    BY <2>1, <2>2 DEF SearchesRight
  <2>6. \A k \in 1 .. Len(output') : Searched(output'[k], cds')
    BY <1>2, <2>1, <2>3, <2>4, <2>5
  <2> QED BY <2>1, <2>6 DEF SearchesRight
<1>7. CASE Kill
  <2>1. PICK n \in 0 .. Len(output) : output' = SubSeq(output, 1, n)
    BY <1>7 DEF Kill, Prefixes
  <2>2. Len(output') = n /\ \A k \in 1 .. n : output'[k] = output[k] /\ k \in 1 .. Len(output)
    BY <1>1, <2>1
  <2>3. pc' = "killed" /\ cds' = cds
    BY <1>7 DEF Kill, inVars, argVars
  <2> QED BY <1>2, <2>2, <2>3 DEF SearchesRight
<1>8. CASE EndOfSnapshot("close") \/ Close \/ UNCHANGED vars
  BY <1>2, <1>8 DEF EndOfSnapshot, Close, vars, snapshotVars, inVars, argVars, SearchesRight
<1> QED BY <1>3, <1>4, <1>5, <1>6, <1>7, <1>8, SearchedByLevel3 DEF Next

\* Different runs of hits begin at different blocks.
Begins(order) == \A j, k \in 1 .. Len(order) : j < k => order[j][1] < order[k][1]

LEMMA OrderHasEachOnce ==
  ASSUME NEW R, NEW order \in Seq(Nat \X Nat), InSequence(order, R)
  PROVE  /\ order \in SetToSeqs(R)
         /\ DOMAIN order = 1 .. Len(order)
         /\ Begins(order)
<1>1. PICK n \in Nat : n = Len(order) /\ DOMAIN order = 1 .. n /\ order \in [1 .. n -> Nat \X Nat]
  BY LenProperties
<1>2. /\ \A k \in 1 .. n : order[k] \in R
      /\ \A r \in R : \E k \in 1 .. n : order[k] = r
      /\ \A j, k \in 1 .. n : j < k => order[j][1] < order[k][1]
  BY <1>1 DEF InSequence
<1>3. \A k \in 1 .. n : order[k][1] \in Nat
  BY <1>1
<1>4. \A j, k \in 1 .. n : j # k => order[j] # order[k]
  <2> SUFFICES ASSUME NEW j \in 1 .. n, NEW k \in 1 .. n, j # k PROVE order[j] # order[k]
    OBVIOUS
  <2>1. order[j][1] \in Nat /\ order[k][1] \in Nat
    BY <1>3
  <2>2. j < k \/ k < j
    OBVIOUS
  <2>3. order[j][1] < order[k][1] \/ order[k][1] < order[j][1]
    BY <1>2, <2>2
  <2> QED BY <2>1, <2>3
<1>5. order \in [1 .. n -> R]
  BY <1>1, <1>2
<1>6. order \in Surjection(1 .. n, R) /\ order \in Injection(1 .. n, R)
  <2>1. order \in Surjection(1 .. n, R)
    BY <1>2, <1>5 DEF Surjection
  <2>2. order \in Injection(1 .. n, R)
    BY <1>4, <1>5 DEF Injection, IsInjective
  <2> QED BY <2>1, <2>2
<1>7. IsFiniteSet(1 .. n) /\ Cardinality(1 .. n) = n
  BY FS_Interval
<1>8. Cardinality(R) = n
  BY <1>6, <1>7, FS_Surjection
<1>9. order \in SetToSeqs(R)
  BY <1>4, <1>5, <1>8 DEF SetToSeqs
<1> QED BY <1>1, <1>2, <1>9 DEF Begins

\* Of a finished run, the hits that cds_hit_analysis finds are those that
\* level 3 has tagged.
LEMMA HitsAreTagged ==
  ASSUME SnapshotTypes, SearchesRight, NEW bs \in Seq(Block), Untagged(output) = bs
  PROVE  /\ Len(bs) = Len(output)
         /\ HitsIn(bs, cds) = {k \in 1 .. Len(output) : 1 \in output[k].file_id}
<1>1. /\ output \in Seq(Block) /\ Len(bs) = Len(output)
      /\ \A k \in 1 .. Len(output) : bs[k] = [output[k] EXCEPT !.file_id = {}]
  BY UntaggedIs DEF SnapshotTypes
<1>2. \A k \in 1 .. Len(output) : bs[k].cksum = output[k].cksum
  <2> SUFFICES ASSUME NEW k \in 1 .. Len(output) PROVE bs[k].cksum = output[k].cksum
    OBVIOUS
  <2>1. PICK b \in Block : b = output[k]
    BY <1>1
  <2>2. bs[k] = [b EXCEPT !.file_id = {}]
    BY <1>1, <2>1
  <2> QED BY <2>1, <2>2 DEF Block
<1>3. \A k \in 1 .. Len(output) : 1 \in output[k].file_id <=> BinarySearch(cds, bs[k].cksum)
  <2> SUFFICES ASSUME NEW k \in 1 .. Len(output)
               PROVE  1 \in output[k].file_id <=> BinarySearch(cds, bs[k].cksum)
    OBVIOUS
  <2>1. Searched(output[k], cds)
    BY DEF SearchesRight
  <2>2. bs[k].cksum = output[k].cksum
    BY <1>2
  <2> QED BY <2>1, <2>2 DEF Searched
<1> QED BY <1>1, <1>3 DEF HitsIn

LEMMA HitRunsAreEnded ==
  ASSUME SnapshotTypes
  PROVE  HitRuns = EndedRuns({k \in 1 .. Len(output) : 1 \in output[k].file_id}, Len(output))
<1>1. PICK n \in Nat : n = Len(output) /\ DOMAIN output = 1 .. n
  BY LenProperties DEF SnapshotTypes
<1> DEFINE H == {k \in 1 .. n : 1 \in output[k].file_id}
<1>2. \A k \in 1 .. n : k \in H <=> 1 \in output[k].file_id
  OBVIOUS
<1> HIDE DEF H
<1> SUFFICES ASSUME NEW r \in (1 .. n) \X (1 .. n), r[1] <= r[2], r[2] # n
             PROVE  /\ (\A k \in r[1] .. r[2] : 1 \in output[k].file_id) <=> (\A k \in r[1] .. r[2] : k \in H)
                    /\ r[1] # 1 => (1 \notin output[r[1] - 1].file_id <=> r[1] - 1 \notin H)
                    /\ 1 \notin output[r[2] + 1].file_id <=> r[2] + 1 \notin H
  BY <1>1 DEF HitRuns, EndedRuns, H
<1>3. PICK a \in 1 .. n, b \in 1 .. n : a = r[1] /\ b = r[2]
  OBVIOUS
<1>4. /\ \A k \in a .. b : k \in 1 .. n
      /\ a # 1 => a - 1 \in 1 .. n
      /\ b + 1 \in 1 .. n
  BY <1>3
<1> QED BY <1>2, <1>3, <1>4

\* For any snapshot, any parent and any CDS, sorted or not, and over any
\* number of runs and kills: the numbers cds_hit_analysis.cpp writes for the
\* snapshot of a finished run of dedup_cds_sim.cpp are, in order, the lengths
\* of the maximal rows of blocks that the simulator's level 3 has tagged,
\* but for a row at the very end.
THEOREM HitLengthsRight == Spec => []HitLengthsAreRuns
<1> DEFINE Inv == OutputInv /\ TagInv /\ StagedTags(CdsTags) /\ SearchesRight
<1>1. Init => Inv
  <2> SUFFICES ASSUME Init PROVE Inv
    OBVIOUS
  <2>1. OutputInv
    BY TypesInit DEF Init, OutputInv, OutputIsSnapshot, Stopped
  <2>2. Len(<<>>) = 0 /\ Contents(<<>>) = {}
    BY EmptySeq DEF Contents
  <2>3. TagInv
    BY <2>2, TypesInit DEF Init, TagInv, AllTrue
  <2>4. SearchesRight
    BY <2>2 DEF Init, SearchesRight
  <2> QED BY <2>1, <2>3, <2>4, StagedTagsInit
<1>2. Inv /\ [Next]_vars => Inv'
  <2> SUFFICES ASSUME Inv, [Next]_vars PROVE Inv'
    OBVIOUS
  <2>1. SnapshotTypes
    BY DEF TagInv
  <2>2. StagedTags(CdsTags)' /\ SearchesRight'
    BY <2>1, StagedTagsStep, SearchedStep
  <2> QED BY <2>2, OutputStep, TagStep
<1>3. Inv => HitLengthsAreRuns
  <2> SUFFICES ASSUME Inv, pc = "done"
               PROVE  \E order \in RunsInOrder :
                        HitLengths(snapshot, cds) = [k \in DOMAIN order |-> order[k][2] - order[k][1] + 1]
    BY DEF HitLengthsAreRuns
  <2>1. SnapshotTypes /\ snapshot \in Seq(Block)
    BY DEF TagInv, SnapshotTypes
  <2>2. PICK bs \in Seq(Block) : bs = Untagged(NonEmpty(snapshot)) /\ Untagged(output) = bs
    <3>1. NonEmpty(snapshot) \in Seq(Block)
      BY <2>1, NonEmptyOfAppend
    <3>2. Untagged(NonEmpty(snapshot)) \in Seq(Block)
      BY <3>1, UntaggedIs
    <3> QED BY <3>2 DEF OutputInv, OutputIsSnapshot
  <2>3. PICK s \in Counts : RightFor(s, bs, cds) /\ HitLengths(snapshot, cds) = s.output
    BY <2>1, <2>2, CountOfSegments
  <2>4. EndedRuns(HitsIn(bs, cds), Len(bs)) = HitRuns
    BY <2>1, <2>2, HitsAreTagged, HitRunsAreEnded
  <2>5. PICK order \in Seq(Nat \X Nat) : InSequence(order, HitRuns) /\ s.output = LengthsOf(order)
    BY <2>3, <2>4 DEF RightFor, CountIsRight
  <2>6. order \in SetToSeqs(HitRuns) /\ DOMAIN order = 1 .. Len(order) /\ Begins(order)
    BY <2>5, OrderHasEachOnce
  <2>7. order \in RunsInOrder
    BY <2>6 DEF RunsInOrder, Begins
  <2> QED BY <2>3, <2>5, <2>6, <2>7 DEF LengthsOf
<1> QED BY <1>1, <1>2, <1>3, PTL DEF Spec

=============================================================================
