------------------------ MODULE ExtremeBinningProofs ------------------------
(***************************************************************************)
(* Extreme binning, for logs, garbage, numbers of files and sizes of       *)
(* counters of any kind, over any number of runs and kills: the files hold *)
(* what the logs have, segment by segment, the summary of eb_dedup agrees  *)
(* with its bins, and the bins are those of the logs.                      *)
(***************************************************************************)
EXTENDS ExtremeBinning, CdsSimProofs

-----------------------------------------------------------------------------
(* The segments of one file *)

\* The fold of OfFile, segment by segment.
IsOfFileTable(row, s, p) ==
  /\ row[0] = <<>>
  /\ \A k \in 1 .. Len(s) :
       row[k] = IF FileOf(s[k]) = p THEN Append(row[k - 1], s[k]) ELSE row[k - 1]
  /\ OfFile(s, p) = row[Len(s)]

LEMMA OfFileRows ==
  ASSUME NEW s \in Seq(Seq(Block)), NEW p
  PROVE  \E row \in [0 .. Len(s) -> Seq(Seq(Block))] : IsOfFileTable(row, s, p)
<1> DEFINE n == Len(s)
           Kept(a, k) == IF FileOf(s[k]) = p THEN Append(a, s[k]) ELSE a
           it == CHOOSE g : g = [t \in SUBSET DOMAIN s |->
                                   IF t = {} THEN <<>> ELSE Kept(g[t \ {Max(t)}], Max(t))]
<1>1. n \in Nat /\ DOMAIN s = 1 .. n /\ \A k \in 1 .. n : s[k] \in Seq(Block)
  OBVIOUS
<1>2. OfFile(s, p) = it[DOMAIN s]
  BY DEF OfFile, FoldLeft, MapThenFoldSet
<1>3. \A a \in Seq(Seq(Block)), k \in 1 .. n : Kept(a, k) \in Seq(Seq(Block))
  BY <1>1
<1>4. PICK op \in [Seq(Seq(Block)) \X (1 .. n) -> Seq(Seq(Block))] :
        \A a \in Seq(Seq(Block)), k \in 1 .. n : op[<<a, k>>] = Kept(a, k)
  <2> DEFINE f == [ak \in Seq(Seq(Block)) \X (1 .. n) |-> Kept(ak[1], ak[2])]
  <2> HIDE DEF Kept, n
  <2>1. f \in [Seq(Seq(Block)) \X (1 .. n) -> Seq(Seq(Block))]
    BY <1>3
  <2>2. \A a \in Seq(Seq(Block)), k \in 1 .. n : f[<<a, k>>] = Kept(a, k)
    OBVIOUS
  <2> HIDE DEF f
  <2> QED BY <2>1, <2>2
<1>5. PICK h \in [SUBSET (1 .. n) -> Seq(Seq(Block))] : IsFold(h, <<>>, op, n)
  <2>1. <<>> \in Seq(Seq(Block))
    OBVIOUS
  <2> HIDE DEF n
  <2> QED BY <1>1, <2>1, FoldExists, Zenon
<1>6. h = [t \in SUBSET DOMAIN s |-> IF t = {} THEN <<>> ELSE Kept(h[t \ {Max(t)}], Max(t))]
  <2>1. ASSUME NEW t \in SUBSET (1 .. n), t # {}
        PROVE  h[t] = Kept(h[t \ {Max(t)}], Max(t))
    <3>1. Max(t) \in 1 .. n
      BY <1>1, <2>1, MaxOfSubset
    <3>2. h[t \ {Max(t)}] \in Seq(Seq(Block))
      OBVIOUS
    <3> HIDE DEF n, Kept
    <3> QED BY <1>4, <1>5, <2>1, <3>1, <3>2 DEF IsFold
  <2> HIDE DEF n, Kept
  <2> QED BY <1>1, <1>5, <2>1 DEF IsFold
<1>7. it = [t \in SUBSET DOMAIN s |-> IF t = {} THEN <<>> ELSE Kept(it[t \ {Max(t)}], Max(t))]
  <2> HIDE DEF Kept
  <2> QED BY <1>6, Zenon
<1> HIDE DEF it, Kept
<1>8. it[{}] = <<>>
  BY <1>1, <1>7
<1>9. \A k \in 1 .. n : it[1 .. k] = Kept(it[1 .. (k - 1)], k)
  <2> SUFFICES ASSUME NEW k \in 1 .. n PROVE it[1 .. k] = Kept(it[1 .. (k - 1)], k)
    OBVIOUS
  <2>1. (1 .. k) \in SUBSET DOMAIN s /\ 1 .. k # {}
    <3>1. \A j \in 1 .. k : j \in 1 .. n
      BY <1>1
    <3>2. k \in 1 .. k
      BY <1>1
    <3> HIDE DEF n
    <3> QED BY <1>1, <3>1, <3>2
  <2>2. Max(1 .. k) = k /\ (1 .. k) \ {Max(1 .. k)} = 1 .. (k - 1)
    BY <1>1, MaxOfUpTo
  <2>3. it[1 .. k] = Kept(it[(1 .. k) \ {Max(1 .. k)}], Max(1 .. k))
    BY <1>7, <2>1
  <2> QED BY <2>2, <2>3
<1> DEFINE Typed == {k \in 0 .. n : it[1 .. k] \in Seq(Seq(Block))}
<1>10. \A k \in 0 .. n : k \in Typed
  <2>1. 0 \in Typed
    <3>1. 1 .. 0 = {} /\ 0 \in 0 .. n
      BY <1>1
    <3> HIDE DEF n
    <3>2. it[1 .. 0] = <<>>
      BY <1>8, <3>1, Zenon
    <3>3. it[1 .. 0] \in Seq(Seq(Block))
      BY <3>2, EmptySeq
    <3> QED BY <3>1, <3>3
  <2>2. ASSUME NEW k \in 0 .. n - 1, k \in Typed PROVE k + 1 \in Typed
    <3>1. k + 1 \in 1 .. n /\ (k + 1) - 1 = k
      BY <1>1
    <3>2. it[1 .. (k + 1)] = Kept(it[1 .. k], k + 1)
      BY <1>9, <3>1
    <3>3. it[1 .. k] \in Seq(Seq(Block))
      BY <2>2
    <3>4. it[1 .. (k + 1)] \in Seq(Seq(Block))
      BY <1>3, <3>1, <3>2, <3>3
    <3>5. k + 1 \in 0 .. n
      BY <1>1
    <3> QED BY <3>4, <3>5
  <2> HIDE DEF Typed
  <2> QED BY <1>1, <2>1, <2>2, UpToIsInductive
<1> DEFINE row == [k \in 0 .. n |-> it[1 .. k]]
<1>11. row \in [0 .. n -> Seq(Seq(Block))] /\ row[0] = <<>> /\ row[n] = it[DOMAIN s]
  BY <1>1, <1>8, <1>10
<1>12. \A k \in 1 .. n : row[k] = Kept(row[k - 1], k)
  BY <1>1, <1>9
<1> HIDE DEF row
<1> QED BY <1>2, <1>11, <1>12 DEF Kept, IsOfFileTable

LEMMA OfFileOfAppend ==
  ASSUME NEW p
  PROVE  /\ OfFile(<<>>, p) = <<>>
         /\ \A s \in Seq(Seq(Block)) : OfFile(s, p) \in Seq(Seq(Block))
         /\ \A s \in Seq(Seq(Block)), e \in Seq(Block) :
              OfFile(Append(s, e), p) = IF FileOf(e) = p THEN Append(OfFile(s, p), e) ELSE OfFile(s, p)
<1>1. OfFile(<<>>, p) = <<>>
  <2>1. PICK s \in Seq(Seq(Block)) : s = <<>> /\ Len(s) = 0
    BY EmptySeq
  <2>2. PICK row \in [0 .. Len(s) -> Seq(Seq(Block))] : IsOfFileTable(row, s, p)
    BY OfFileRows
  <2> QED BY <2>1, <2>2 DEF IsOfFileTable
<1>2. \A s \in Seq(Seq(Block)) : OfFile(s, p) \in Seq(Seq(Block))
  <2> SUFFICES ASSUME NEW s \in Seq(Seq(Block)) PROVE OfFile(s, p) \in Seq(Seq(Block))
    OBVIOUS
  <2>1. PICK row \in [0 .. Len(s) -> Seq(Seq(Block))] : IsOfFileTable(row, s, p)
    BY OfFileRows
  <2>2. Len(s) \in 0 .. Len(s)
    BY LenProperties
  <2> QED BY <2>1, <2>2 DEF IsOfFileTable
<1>3. ASSUME NEW s \in Seq(Seq(Block)), NEW e \in Seq(Block)
      PROVE  OfFile(Append(s, e), p) = IF FileOf(e) = p THEN Append(OfFile(s, p), e) ELSE OfFile(s, p)
  <2>1. PICK n \in Nat : n = Len(s)
    BY LenProperties
  <2>2. PICK r \in Seq(Seq(Block)) : /\ r = Append(s, e) /\ Len(r) = n + 1 /\ r[n + 1] = e
                                     /\ \A k \in 1 .. n : r[k] = s[k]
    <3>1. /\ Append(s, e) \in Seq(Seq(Block)) /\ Len(Append(s, e)) = n + 1 /\ Append(s, e)[n + 1] = e
          /\ \A k \in 1 .. n : Append(s, e)[k] = s[k]
      BY <2>1, AppendProperties
    <3> QED BY <3>1
  <2>3. PICK f \in [0 .. Len(s) -> Seq(Seq(Block))] : IsOfFileTable(f, s, p)
    BY OfFileRows
  <2>4. PICK g \in [0 .. Len(r) -> Seq(Seq(Block))] : IsOfFileTable(g, r, p)
    BY OfFileRows
  <2>5. f[n] = g[n]
    <3>1. ASSUME NEW k \in 1 .. n, f[k - 1] = g[k - 1] PROVE f[k] = g[k]
      <4>1. k \in 1 .. Len(s) /\ k \in 1 .. Len(r) /\ r[k] = s[k]
        BY <2>1, <2>2
      <4>2. f[k] = IF FileOf(s[k]) = p THEN Append(f[k - 1], s[k]) ELSE f[k - 1]
        BY <2>3, <4>1 DEF IsOfFileTable
      <4>3. g[k] = IF FileOf(r[k]) = p THEN Append(g[k - 1], r[k]) ELSE g[k - 1]
        BY <2>4, <4>1 DEF IsOfFileTable
      <4> QED BY <3>1, <4>1, <4>2, <4>3
    <3>2. f[0] = g[0]
      BY <2>3, <2>4 DEF IsOfFileTable
    <3> QED BY <3>1, <3>2, RowsAgree, Zenon
  <2>6. n + 1 \in 1 .. n + 1 /\ (n + 1) - 1 = n
    OBVIOUS
  <2>7. OfFile(r, p) = IF FileOf(e) = p THEN Append(g[n], e) ELSE g[n]
    BY <2>2, <2>4, <2>6 DEF IsOfFileTable
  <2> QED BY <2>1, <2>2, <2>3, <2>5, <2>7 DEF IsOfFileTable
<1> QED BY <1>1, <1>2, <1>3

-----------------------------------------------------------------------------
(* The segments of a log *)

\* The segments of a trace are its next one and those of the rest.
LEMMA SegmentsUnfold ==
  ASSUME NEW t \in Seq(Block)
  PROVE  /\ Segments(t) \in Seq(Seq(Block))
         /\ SegmentBlocks(t) = <<>> => Segments(t) = <<>>
         /\ SegmentBlocks(t) # <<>> =>
              /\ Segments(t) = <<SegmentBlocks(t)>> \o Segments(AfterSegment(t))
              /\ Len(AfterSegment(t)) < Len(t)
<1>1. PICK f \in [0 .. Len(t) -> Seq(Seq(Block))] : SegmentsFrom(t, f) /\ Segments(t) = f[0]
  BY SegmentsExist
<1>2. PICK l \in Nat : l = Len(t)
  BY LenProperties
<1>3. PICK a \in Seq(Block) : a = AfterSegment(t)
  BY NextSegment
<1>4. PICK g \in [0 .. Len(a) -> Seq(Seq(Block))] : SegmentsFrom(a, g) /\ Segments(a) = g[0]
  BY SegmentsExist
<1>5. RestFrom(t, 0) = t /\ RestFrom(a, 0) = a
  BY SubSeqFull DEF RestFrom
<1>6. PICK n \in 0 .. l : /\ n = SegmentLen(t) /\ a = RestFrom(t, n) /\ Len(a) = l - n
                          /\ SegmentBlocks(t) # <<>> => n > 0
  <2>1. 0 \in 0 .. Len(t)
    BY <1>2
  <2>2. /\ 0 + SegmentLen(t) \in 0 .. Len(t)
        /\ SegmentBlocks(t) # <<>> => 0 + SegmentLen(t) > 0
        /\ AfterSegment(t) = RestFrom(t, 0 + SegmentLen(t))
    BY <1>5, <2>1, RestSegment
  <2>3. SegmentLen(t) \in 0 .. l
    BY <1>2, SegmentLenRange
  <2>4. 0 + SegmentLen(t) = SegmentLen(t)
    BY <2>3
  <2>5. Len(RestFrom(t, SegmentLen(t))) = Len(t) - SegmentLen(t)
    BY <1>2, <2>3, RestIs
  <2> QED BY <1>2, <1>3, <2>2, <2>3, <2>4, <2>5
<1> DEFINE U == {m \in Nat : \A k \in 0 .. l - n : l - n - k = m => f[n + k] = g[k]}
<1>7. ASSUME NEW m \in Nat, \A j \in Nat : j < m => j \in U PROVE m \in U
  <2> SUFFICES ASSUME NEW k \in 0 .. l - n, l - n - k = m PROVE f[n + k] = g[k]
    OBVIOUS
  <2>1. PICK k1 \in 0 .. Len(t) : k1 = n + k
    <3>1. n + k \in 0 .. l
      OBVIOUS
    <3> QED BY <1>2, <3>1
  <2>2. k \in 0 .. Len(a)
    <3>1. Len(a) = l - n
      BY <1>6
    <3> QED BY <3>1
  <2>3. PICK r \in Seq(Block) : r = RestFrom(a, k) /\ r = RestFrom(t, k1) /\ Len(r) = l - n - k
    <3>1. RestFrom(a, k) \in Seq(Block) /\ Len(RestFrom(a, k)) = Len(a) - k
      BY <2>2, RestIs, Zenon
    <3>2. RestFrom(RestFrom(t, n), k) = RestFrom(t, n + k)
      <4>1. n \in 0 .. Len(t) /\ k \in 0 .. Len(RestFrom(t, n))
        BY <1>2, <1>6, <2>2, Zenon
      <4> QED BY <4>1, RestOfRest, Zenon
    <3>3. RestFrom(a, k) = RestFrom(t, k1)
      BY <1>6, <2>1, <3>2, Zenon
    <3>4. Len(RestFrom(a, k)) = l - n - k
      BY <1>6, <3>1
    <3> QED BY <3>1, <3>3, <3>4
  <2>4. PICK seg \in Seq(Block) : seg = SegmentBlocks(r)
    BY NextSegment
  <2>5. f[k1] = IF seg = <<>> THEN <<>> ELSE <<seg>> \o f[k1 + SegmentLen(r)]
    BY <1>1, <2>3, <2>4 DEF SegmentsFrom, RestFrom
  <2>6. g[k] = IF seg = <<>> THEN <<>> ELSE <<seg>> \o g[k + SegmentLen(r)]
    BY <1>4, <2>2, <2>3, <2>4 DEF SegmentsFrom, RestFrom
  <2>7. CASE seg = <<>>
    BY <2>1, <2>5, <2>6, <2>7
  <2>8. CASE seg # <<>>
    <3>1. PICK d \in Nat \ {0} : d = SegmentLen(r) /\ d <= l - n - k
      <4>1. SegmentLen(r) \in 0 .. Len(r) /\ (r # <<>> => SegmentLen(r) # 0)
        BY SegmentLenRange
      <4>2. r # <<>>
        BY <2>4, <2>8, NothingLeft
      <4> QED BY <2>3, <4>1, <4>2
    <3>2. PICK k2 \in 0 .. l - n : k2 = k + d
      <4>1. k + d \in 0 .. l - n
        BY <3>1
      <4> QED BY <4>1
    <3>3. PICK j \in Nat : j = l - n - k2 /\ j < m
      BY <3>1, <3>2
    <3>4. j \in U
      BY <1>7, <3>3
    <3>5. f[n + k2] = g[k2]
      BY <3>3, <3>4
    <3>6. n + k2 = k1 + d
      BY <2>1, <3>1, <3>2
    <3> QED BY <2>1, <2>5, <2>6, <2>8, <3>1, <3>2, <3>5, <3>6
  <2> QED BY <2>7, <2>8
<1>8. \A m \in Nat : m \in U
  <2> HIDE DEF U
  <2> QED BY <1>7, NatIsWellOrdered
<1>9. f[n] = g[0]
  <2>1. PICK m \in Nat : m = l - n
    OBVIOUS
  <2>2. m \in U
    BY <1>8
  <2>3. 0 \in 0 .. l - n /\ l - n - 0 = m /\ n + 0 = n
    BY <2>1
  <2>4. f[n + 0] = g[0]
    BY <2>2, <2>3
  <2> QED BY <2>3, <2>4
<1>10. PICK seg \in Seq(Block) : seg = SegmentBlocks(t)
  BY NextSegment
<1>11. f[0] = IF seg = <<>> THEN <<>> ELSE <<seg>> \o f[0 + SegmentLen(t)]
  <2>1. 0 \in 0 .. Len(t)
    BY <1>2
  <2> QED BY <1>1, <1>5, <1>10, <2>1 DEF SegmentsFrom, RestFrom
<1>12. Segments(t) \in Seq(Seq(Block))
  <2>1. 0 \in 0 .. Len(t)
    BY <1>2
  <2> QED BY <1>1, <2>1
<1>13. 0 + SegmentLen(t) = n
  BY <1>6
<1>14. seg # <<>> => Len(a) < Len(t)
  <2>1. seg # <<>> => n > 0
    BY <1>6, <1>10, Zenon
  <2>2. Len(a) = l - n
    BY <1>6
  <2> QED BY <1>2, <2>1, <2>2
<1> QED BY <1>1, <1>3, <1>4, <1>9, <1>10, <1>11, <1>12, <1>13, <1>14

\* What a content has for a size, in any log.
SizesOf(c) == {n \in Nat \ {0} : \E s \in Logs : \E k \in DOMAIN s : s[k].cksum = c /\ s[k].size = n}

SizeOf == [c \in DOMAIN Middle4Bytes |-> IF SizesOf(c) = {} THEN 0 ELSE CHOOSE n \in SizesOf(c) : TRUE]

\* A record of a log, and a block of its segments.
LogBlock == {b \in Block : b.cksum \in DOMAIN Middle4Bytes /\ (b.size # 0 => b.size = SizeOf[b.cksum])}

GoodBlock == {b \in LogBlock : b.size # 0}

GoodSegment == Seq(GoodBlock) \ {<<>>}

LEMMA LogsHaveLogBlocks ==
  /\ SizeOf \in [DOMAIN Middle4Bytes -> Nat]
  /\ \A s \in Logs : s \in Seq(LogBlock)
<1>1. \A c \in DOMAIN Middle4Bytes : SizesOf(c) # {} => SizeOf[c] \in SizesOf(c)
  <2> SUFFICES ASSUME NEW c \in DOMAIN Middle4Bytes, SizesOf(c) # {} PROVE SizeOf[c] \in SizesOf(c)
    OBVIOUS
  <2>1. SizeOf[c] = CHOOSE n \in SizesOf(c) : TRUE
    BY DEF SizeOf
  <2>2. PICK n : n \in SizesOf(c)
    OBVIOUS
  <2> QED BY <2>1, <2>2
<1>2. SizeOf \in [DOMAIN Middle4Bytes -> Nat]
  <2>1. \A c \in DOMAIN Middle4Bytes : SizeOf[c] \in Nat
    <3> SUFFICES ASSUME NEW c \in DOMAIN Middle4Bytes PROVE SizeOf[c] \in Nat
      OBVIOUS
    <3>1. CASE SizesOf(c) = {}
      BY <3>1 DEF SizeOf
    <3>2. CASE SizesOf(c) # {}
      BY <1>1, <3>2 DEF SizesOf
    <3> QED BY <3>1, <3>2
  <2> QED BY <2>1 DEF SizeOf
<1>3. ASSUME NEW s \in Logs PROVE s \in Seq(LogBlock)
  <2>1. s \in Seq(Block) /\ Contents(s) \subseteq DOMAIN Middle4Bytes
    BY BinningAssumption
  <2>2. ASSUME NEW k \in 1 .. Len(s) PROVE s[k] \in LogBlock
    <3>1. k \in DOMAIN s /\ s[k] \in Block
      BY <2>1
    <3>2. s[k].cksum \in DOMAIN Middle4Bytes
      BY <2>1, <3>1 DEF Contents
    <3>3. ASSUME s[k].size # 0 PROVE s[k].size = SizeOf[s[k].cksum]
      <4>1. PICK c \in DOMAIN Middle4Bytes : c = s[k].cksum
        BY <3>2
      <4>2. s[k].size \in Nat \ {0}
        BY <3>1, <3>3 DEF Block
      <4>3. s[k].size \in SizesOf(c)
        BY <3>1, <4>1, <4>2 DEF SizesOf
      <4>4. SizeOf[c] \in SizesOf(c)
        BY <1>1, <4>3
      <4>5. PICK t \in Logs : \E j \in DOMAIN t : t[j].cksum = c /\ t[j].size = SizeOf[c] /\ SizeOf[c] # 0
        BY <4>4 DEF SizesOf
      <4>6. PICK j \in DOMAIN t : t[j].cksum = c /\ t[j].size = SizeOf[c] /\ SizeOf[c] # 0
        BY <4>5
      <4> QED BY <3>1, <3>3, <4>1, <4>6, SizeAssumption
    <3> QED BY <3>1, <3>2, <3>3 DEF LogBlock
  <2>3. PICK n \in Nat : n = Len(s)
    BY <2>1, LenProperties
  <2>4. s \in [1 .. n -> LogBlock]
    BY <2>1, <2>2, <2>3
  <2> QED BY <2>4
<1> QED BY <1>2, <1>3

\* Leaving out the empty records of a log leaves good blocks.
LEMMA NonEmptyIsGood ==
  ASSUME NEW s \in Seq(LogBlock)
  PROVE  NonEmpty(s) \in Seq(GoodBlock)
<1> DEFINE P == {u \in Seq(LogBlock) : NonEmpty(u) \in Seq(GoodBlock)}
<1>1. <<>> \in P
  BY NonEmptyOfAppend, EmptySeq
<1>2. ASSUME NEW u \in Seq(LogBlock), NEW b \in LogBlock, u \in P PROVE Append(u, b) \in P
  <2>1. u \in Seq(Block) /\ b \in Block
    <3>1. LogBlock \subseteq Block
      BY DEF LogBlock
    <3> QED BY <3>1, SeqMonotonic
  <2>2. Append(u, b) \in Seq(LogBlock)
    OBVIOUS
  <2>3. NonEmpty(u) \in Seq(GoodBlock)
    BY <1>2
  <2>4. CASE b.size = 0
    BY <2>1, <2>2, <2>3, <2>4, NonEmptyOfAppend
  <2>5. CASE b.size # 0
    <3>1. b \in GoodBlock
      BY <2>5 DEF GoodBlock
    <3>2. Append(NonEmpty(u), b) \in Seq(GoodBlock)
      BY <2>3, <3>1
    <3> QED BY <2>1, <2>2, <2>5, <3>2, NonEmptyOfAppend
  <2> QED BY <2>4, <2>5
<1>3. \A u \in Seq(LogBlock) : u \in P
  <2> HIDE DEF P
  <2> QED BY <1>1, <1>2, SeqIsInductive
<1> QED BY <1>3

LEMMA UntaggedIsGood ==
  ASSUME NEW b \in GoodBlock, NEW r, r = [b EXCEPT !.file_id = {}]
  PROVE  r \in GoodBlock
<1>1. b \in Block /\ b.cksum \in DOMAIN Middle4Bytes /\ b.size = SizeOf[b.cksum] /\ b.size # 0
  BY DEF GoodBlock, LogBlock
<1>2. r \in Block /\ r.cksum = b.cksum /\ r.size = b.size
  BY <1>1, TagsAreSets, Retagged
<1>3. r.cksum \in DOMAIN Middle4Bytes /\ r.size = SizeOf[r.cksum] /\ r.size # 0
  BY <1>1, <1>2, Zenon
<1> QED BY <1>2, <1>3, Zenon DEF GoodBlock, LogBlock

\* So the segments of a log have good blocks, and at least one.
LEMMA SegmentIsGood ==
  ASSUME NEW t \in Seq(LogBlock)
  PROVE  /\ t \in Seq(Block)
         /\ SegmentBlocks(t) \in Seq(GoodBlock)
         /\ AfterSegment(t) \in Seq(LogBlock)
<1>1. t \in Seq(Block)
  <2>1. LogBlock \subseteq Block
    BY DEF LogBlock
  <2> QED BY <2>1, SeqMonotonic
<1>2. PICK l \in Nat : l = Len(t)
  BY LenProperties
<1>3. PICK n \in 0 .. l : n = SegmentLen(t)
  BY <1>1, <1>2, SegmentLenRange
<1>4. PICK front \in Seq(LogBlock) : front = SubSeq(t, 1, n)
  <2>1. SubSeq(t, 1, n) \in Seq(LogBlock)
    BY <1>2
  <2> QED BY <2>1
<1>5. AfterSegment(t) \in Seq(LogBlock)
  <2>1. SubSeq(t, n + 1, l) \in Seq(LogBlock)
    BY <1>2
  <2> QED BY <1>2, <1>3, <2>1 DEF AfterSegment
<1>6. PICK x \in Seq(GoodBlock) : x = NonEmpty(front)
  BY NonEmptyIsGood
<1>7. x \in Seq(Block)
  <2>1. GoodBlock \subseteq Block
    BY DEF GoodBlock, LogBlock
  <2> QED BY <2>1, SeqMonotonic
<1>8. SegmentBlocks(t) = Untagged(x)
  BY <1>3, <1>4, <1>6 DEF SegmentBlocks
<1>9. Untagged(x) \in Seq(GoodBlock)
  <2>1. PICK m \in Nat : m = Len(x)
    BY LenProperties
  <2>2. PICK y \in Seq(Block) : y = Untagged(x) /\ Len(y) = m /\ \A k \in 1 .. m : y[k] = [x[k] EXCEPT !.file_id = {}]
    BY <1>7, <2>1, UntaggedIs
  <2>3. ASSUME NEW k \in 1 .. m PROVE y[k] \in GoodBlock
    <3>1. x[k] \in GoodBlock
      BY <2>1
    <3> QED BY <2>2, <3>1, UntaggedIsGood
  <2>4. y \in [1 .. m -> GoodBlock]
    BY <2>2, <2>3
  <2> QED BY <2>2, <2>4
<1> QED BY <1>1, <1>5, <1>8, <1>9

LEMMA SegmentsAreGood ==
  ASSUME NEW t \in Seq(LogBlock)
  PROVE  Segments(t) \in Seq(GoodSegment)
<1> DEFINE U == {n \in Nat : \A s \in Seq(LogBlock) : Len(s) = n => Segments(s) \in Seq(GoodSegment)}
<1>1. ASSUME NEW n \in Nat, \A j \in Nat : j < n => j \in U PROVE n \in U
  <2> SUFFICES ASSUME NEW s \in Seq(LogBlock), Len(s) = n PROVE Segments(s) \in Seq(GoodSegment)
    OBVIOUS
  <2>1. s \in Seq(Block)
    BY SegmentIsGood
  <2>2. PICK seg \in Seq(GoodBlock) : seg = SegmentBlocks(s)
    BY SegmentIsGood
  <2>3. CASE seg = <<>>
    <3>1. Segments(s) = <<>>
      BY <2>1, <2>2, <2>3, SegmentsUnfold
    <3> QED BY <3>1, EmptySeq
  <2>4. CASE seg # <<>>
    <3>1. PICK a \in Seq(LogBlock) : a = AfterSegment(s)
      BY SegmentIsGood
    <3>2. Segments(s) = <<seg>> \o Segments(a) /\ Len(a) < Len(s)
      BY <2>1, <2>2, <2>4, <3>1, SegmentsUnfold
    <3>3. PICK j \in Nat : j = Len(a)
      BY LenProperties
    <3>4. j \in U
      BY <1>1, <3>2, <3>3
    <3>5. Segments(a) \in Seq(GoodSegment)
      BY <3>3, <3>4
    <3>6. <<seg>> \in Seq(GoodSegment)
      <4>1. seg \in GoodSegment
        BY <2>4 DEF GoodSegment
      <4> QED BY <4>1
    <3> QED BY <3>2, <3>5, <3>6, ConcatProperties
  <2> QED BY <2>3, <2>4
<1>2. \A n \in Nat : n \in U
  <2> HIDE DEF U
  <2> QED BY <1>1, NatIsWellOrdered
<1>3. PICK n \in Nat : n = Len(t)
  BY LenProperties
<1>4. n \in U
  BY <1>2
<1> QED BY <1>3, <1>4

-----------------------------------------------------------------------------
(* Types *)

Item == [num_blocks : Nat, blocks : Seq(Block)]

Bin == [num_segments : Nat, blocklist : Seq(Block)]

Whole(item) == item.blocks # <<>> /\ item.num_blocks = Len(item.blocks)

\* What a file has after its first n segments was not torn.
WholeFrom(file, n) == n <= Len(file) /\ \A k \in n + 1 .. Len(file) : Whole(file[k])

BinningTypes ==
  /\ program \in {"idle", "segment", "read", "bins"}
  /\ log \in Seq(LogBlock) /\ is \in Seq(LogBlock)
  /\ files \in [FileNumbers -> Seq(Item)] /\ start \in [FileNumbers -> Nat]
  /\ opened \subseteq FileNumbers
  /\ part \in FileNumbers /\ rest \in Seq(Item) /\ aligned \in BOOLEAN
  /\ binmap \in [DOMAIN binmap -> Bin] /\ IsFiniteSet(DOMAIN binmap)
  /\ blocks \in Nat /\ bytes \in Nat
  /\ finished \in [FileNumbers -> Seq(GoodSegment)] /\ killed \in [FileNumbers -> Seq(GoodSegment)]
  /\ program = "segment" => printed = <<>> /\ \A p \in FileNumbers : WholeFrom(files[p], start[p])

LEMMA CutIs ==
  ASSUME NEW s \in Seq(Item), NEW k \in 1 .. Len(s), NEW cut \in Item, NEW f, f = [s EXCEPT ![k] = cut]
  PROVE  /\ f \in Seq(Item) /\ Len(f) = Len(s) /\ f[k] = cut
         /\ \A j \in 1 .. Len(s) : j # k => f[j] = s[j]
  BY ExceptSeq

\* What a kill leaves of a file: a first part, the last segment of which may
\* be torn, if it is new.
LEMMA LeftIs ==
  ASSUME NEW file \in Seq(Item), NEW n \in Nat, WholeFrom(file, n), NEW f \in LeftOf(file, n)
  PROVE  /\ f \in Seq(Item)
         /\ \E k \in n .. Len(file) :
              \/ f = SubSeq(file, 1, k)
              \/ Len(f) = k /\ k > n /\ Torn(f[k]) /\ \A j \in 1 .. k - 1 : f[j] = file[j]
<1>1. PICK l \in Nat : l = Len(file) /\ n <= l
  BY LenProperties DEF WholeFrom
<1>2. ASSUME NEW k \in n .. l PROVE SubSeq(file, 1, k) \in Seq(Item)
  BY <1>1
<1> DEFINE whole == {SubSeq(file, 1, k) : k \in n .. Len(file)}
           torn == UNION {{TornAt(file, k, j) : j \in DOMAIN file[k].blocks} : k \in n + 1 .. l}
<1>3. ASSUME f \in whole
      PROVE  f \in Seq(Item) /\ \E k \in n .. Len(file) : f = SubSeq(file, 1, k)
  BY <1>1, <1>2, <1>3
<1>4. ASSUME f \in torn
      PROVE  /\ f \in Seq(Item)
             /\ \E k \in n .. Len(file) : /\ Len(f) = k /\ k > n /\ Torn(f[k])
                                          /\ \A j \in 1 .. k - 1 : f[j] = file[j]
  <2>1. PICK k \in n + 1 .. l : \E j \in DOMAIN file[k].blocks : f = TornAt(file, k, j)
    BY <1>1, <1>4
  <2>2. PICK s \in Seq(Item) : s = SubSeq(file, 1, k) /\ Len(s) = k /\ \A x \in 1 .. k : s[x] = file[x]
    <3>1. 1 <= k /\ k <= Len(file) /\ k \in Int
      BY <1>1
    <3>2. /\ SubSeq(file, 1, k) \in Seq(Item) /\ Len(SubSeq(file, 1, k)) = k
          /\ \A x \in 1 .. k : SubSeq(file, 1, k)[x] = file[x]
      BY <3>1
    <3> QED BY <3>2
  <2>3. k \in 1 .. l /\ k \in n + 1 .. Len(file) /\ k \in 1 .. Len(file) /\ k \in 1 .. k
    BY <1>1
  <2>4. PICK item \in Item : item = file[k] /\ item = s[k] /\ item.num_blocks = Len(item.blocks)
    <3>1. file[k] \in Item /\ s[k] = file[k]
      BY <2>2, <2>3, ElementOfSeq
    <3>2. file[k].num_blocks = Len(file[k].blocks)
      BY <2>3 DEF WholeFrom, Whole
    <3> QED BY <3>1, <3>2
  <2>5. PICK b \in Seq(Block) : b = item.blocks
    BY <2>4 DEF Item
  <2> PICK j \in DOMAIN b : f = TornAt(file, k, j)
    BY <2>1, <2>4, <2>5
  <2>6. PICK c \in Seq(Block) : c = SubSeq(b, 1, j - 1) /\ Len(c) < Len(b)
    <3>1. j \in 1 .. Len(b) /\ Len(b) \in Nat
      BY LenProperties
    <3>2. SubSeq(b, 1, j - 1) \in Seq(Block) /\ Len(SubSeq(b, 1, j - 1)) = j - 1
      BY <3>1
    <3>3. j - 1 < Len(b)
      BY <3>1
    <3> QED BY <3>2, <3>3
  <2>7. PICK cut \in Item : cut = [item EXCEPT !.blocks = c] /\ Torn(cut)
    <3>1. [item EXCEPT !.blocks = c] \in Item
      BY <2>6 DEF Item
    <3>2. Torn([item EXCEPT !.blocks = c])
      BY <2>4, <2>5, <2>6 DEF Item, Torn
    <3> QED BY <3>1, <3>2
  <2>8. f = [s EXCEPT ![k] = cut]
    BY <2>2, <2>4, <2>5, <2>6, <2>7, Zenon DEF TornAt
  <2>9. f \in Seq(Item) /\ Len(f) = k /\ f[k] = cut /\ \A x \in 1 .. k - 1 : f[x] = file[x]
    <3>1. f \in Seq(Item) /\ Len(f) = k /\ f[k] = cut /\ \A x \in 1 .. k : x # k => f[x] = s[x]
      <4>1. k \in 1 .. Len(s) /\ Len(s) = k
        BY <2>2, <2>3
      <4> QED BY <2>8, <4>1, CutIs
    <3>2. \A x \in 1 .. k - 1 : x \in 1 .. k /\ x # k
      BY <2>3
    <3> QED BY <2>2, <2>3, <3>1, <3>2
  <2>10. Torn(f[k])
    BY <2>7, <2>9
  <2>11. k \in n .. Len(file) /\ k > n
    BY <1>1
  <2> QED BY <2>9, <2>10, <2>11
<1>5. LeftOf(file, n) = whole \union torn
  BY <1>1 DEF LeftOf
<1> HIDE DEF whole, torn
<1> QED BY <1>3, <1>4, <1>5

LEMMA FileOfIsNumber ==
  ASSUME NEW seg \in GoodSegment
  PROVE  /\ seg \in Seq(Block) /\ seg \in Seq(GoodBlock) /\ Len(seg) \in Nat \ {0}
         /\ Contents(seg) \subseteq DOMAIN Middle4Bytes
<1>1. seg \in Seq(GoodBlock) /\ seg # <<>>
  BY DEF GoodSegment
<1>2. \A b \in GoodBlock : b \in Block /\ b.cksum \in DOMAIN Middle4Bytes
  BY DEF GoodBlock, LogBlock
<1>3. seg \in Seq(Block)
  <2>1. GoodBlock \subseteq Block
    BY <1>2
  <2> QED BY <1>1, <2>1, SeqMonotonic
<1>4. Len(seg) \in Nat \ {0}
  BY <1>1, EmptySeq, LenProperties
<1>5. \A k \in DOMAIN seg : seg[k] \in GoodBlock
  BY <1>1
<1>6. Contents(seg) \subseteq DOMAIN Middle4Bytes
  BY <1>2, <1>5 DEF Contents
<1> QED BY <1>1, <1>3, <1>4, <1>6

LEMMA BinningTypesInit == BinningInit => BinningTypes
<1> SUFFICES ASSUME BinningInit PROVE BinningTypes
  OBVIOUS
<1>1. 0 \in FileNumbers
  BY BinningAssumption DEF FileNumbers
<1>2. <<>> \in Seq(LogBlock) /\ <<>> \in Seq(Item) /\ <<>> \in Seq(GoodSegment)
  BY EmptySeq
<1>3. [p \in FileNumbers |-> <<>>] \in [FileNumbers -> Seq(Item)]
      /\ [p \in FileNumbers |-> <<>>] \in [FileNumbers -> Seq(GoodSegment)]
      /\ [p \in FileNumbers |-> 0] \in [FileNumbers -> Nat]
  BY <1>2
<1>4. DOMAIN <<>> = {}
  BY EmptySeq
<1>5. <<>> \in [DOMAIN <<>> -> Bin] /\ IsFiniteSet(DOMAIN <<>>)
  BY <1>4, FS_EmptySet
<1> QED BY <1>1, <1>2, <1>3, <1>5 DEF BinningInit, BinningTypes

LEMMA TypesOpenLog ==
  ASSUME BinningTypes, OpenLog
  PROVE  BinningTypes'
<1>1. log' \in Seq(LogBlock) /\ is' \in Seq(LogBlock)
  BY LogsHaveLogBlocks DEF OpenLog
<1>2. start' \in [FileNumbers -> Nat]
  <2>1. \A p \in FileNumbers : Len(files[p]) \in Nat
    <3> SUFFICES ASSUME NEW p \in FileNumbers PROVE Len(files[p]) \in Nat
      OBVIOUS
    <3>1. files[p] \in Seq(Item)
      BY DEF BinningTypes
    <3> QED BY <3>1, LenProperties
  <2> QED BY <2>1 DEF OpenLog
<1>3. ASSUME NEW p \in FileNumbers PROVE WholeFrom(files'[p], start'[p])
  <2>1. PICK f \in Seq(Item) : f = files[p] /\ f = files'[p]
    BY DEF BinningTypes, OpenLog
  <2>2. PICK n \in Nat : n = Len(f)
    BY LenProperties
  <2>3. start'[p] = n
    BY <2>1, <2>2 DEF OpenLog
  <2>4. \A k \in n + 1 .. n : FALSE
    OBVIOUS
  <2> QED BY <2>1, <2>2, <2>3, <2>4 DEF WholeFrom
<1> QED BY <1>1, <1>2, <1>3 DEF BinningTypes, OpenLog, dedupVars

\* What StoreSegment appends.
StoredItem == [num_blocks |-> Len(SegmentBlocks(is)), blocks |-> SegmentBlocks(is)]

LEMMA Stored ==
  ASSUME BinningTypes, StoreSegment
  PROVE  /\ SegmentBlocks(is) \in GoodSegment
         /\ StoredItem \in Item /\ Whole(StoredItem) /\ ~Torn(StoredItem)
         /\ StoredItem.blocks = SegmentBlocks(is)
         /\ files' = [p \in FileNumbers |-> IF p = FileOf(SegmentBlocks(is)) /\ p \in opened
                                              THEN Append(files[p], StoredItem) ELSE files[p]]
         /\ is' = AfterSegment(is) /\ is' \in Seq(LogBlock)
<1>1. is \in Seq(LogBlock)
  BY DEF BinningTypes
<1>2. PICK seg \in GoodSegment : seg = SegmentBlocks(is)
  BY <1>1, SegmentIsGood DEF StoreSegment, GoodSegment
<1>3. seg \in Seq(Block) /\ Len(seg) \in Nat \ {0} /\ seg # <<>>
  BY FileOfIsNumber DEF GoodSegment
<1>4. StoredItem = [num_blocks |-> Len(seg), blocks |-> seg]
  BY <1>2 DEF StoredItem
<1>5. StoredItem \in Item /\ Whole(StoredItem) /\ ~Torn(StoredItem) /\ StoredItem.blocks = seg
  BY <1>3, <1>4 DEF Item, Whole, Torn
<1>6. files' = [p \in FileNumbers |-> IF p = FileOf(seg) /\ p \in opened
                                        THEN Append(files[p], StoredItem) ELSE files[p]]
  BY <1>2, <1>4 DEF StoreSegment, AppendTo
<1>7. is' = AfterSegment(is) /\ is' \in Seq(LogBlock)
  BY <1>1, SegmentIsGood DEF StoreSegment
<1> QED BY <1>2, <1>5, <1>6, <1>7

LEMMA TypesStore ==
  ASSUME BinningTypes, StoreSegment
  PROVE  BinningTypes'
<1>1. PICK seg \in GoodSegment : seg = SegmentBlocks(is)
  BY Stored
<1>2. seg \in Seq(Block) /\ Len(seg) \in Nat
  BY FileOfIsNumber
<1>3. blocks' \in Nat /\ bytes' \in Nat
  <2>1. blocks' = blocks + Len(seg) /\ bytes' = bytes + TotalSize(seg)
    BY <1>1 DEF StoreSegment
  <2>2. TotalSize(seg) \in Nat
    BY <1>2, TotalSizeOfAppend
  <2>3. blocks \in Nat /\ bytes \in Nat
    BY DEF BinningTypes
  <2> QED BY <1>2, <2>1, <2>2, <2>3
<1>4. ASSUME NEW p \in FileNumbers PROVE files'[p] \in Seq(Item) /\ WholeFrom(files'[p], start[p])
  <2>1. PICK f \in Seq(Item) : f = files[p]
    BY DEF BinningTypes
  <2>2. PICK n \in Nat : n = start[p]
    BY DEF BinningTypes
  <2>3. WholeFrom(f, n)
    BY <2>1, <2>2 DEF BinningTypes, StoreSegment
  <2>4. PICK item \in Item : item = StoredItem /\ Whole(item)
    BY Stored
  <2>5. CASE files'[p] = f
    BY <2>2, <2>3, <2>5
  <2>6. CASE files'[p] = Append(f, item)
    <3>1. PICK l \in Nat : l = Len(f)
      BY LenProperties
    <3>2. PICK g \in Seq(Item) : g = Append(f, item) /\ Len(g) = l + 1 /\ g[l + 1] = item /\ \A k \in 1 .. l : g[k] = f[k]
      <4>1. /\ Append(f, item) \in Seq(Item) /\ Len(Append(f, item)) = l + 1 /\ Append(f, item)[l + 1] = item
            /\ \A k \in 1 .. l : Append(f, item)[k] = f[k]
        BY <3>1, AppendProperties
      <4> QED BY <4>1
    <3>3. n <= l /\ \A k \in n + 1 .. l : Whole(f[k])
      BY <2>3, <3>1 DEF WholeFrom
    <3>4. ASSUME NEW k \in n + 1 .. l + 1 PROVE Whole(g[k])
      <4>1. CASE k = l + 1
        BY <2>4, <3>2, <4>1
      <4>2. CASE k # l + 1
        <5>1. k \in n + 1 .. l /\ k \in 1 .. l
          BY <4>2
        <5> QED BY <3>2, <3>3, <5>1
      <4> QED BY <4>1, <4>2
    <3>5. n <= l + 1
      BY <3>3
    <3>6. WholeFrom(g, n)
      BY <3>2, <3>4, <3>5 DEF WholeFrom
    <3> QED BY <2>2, <2>6, <3>2, <3>6
  <2>7. files'[p] \in {f, Append(f, item)}
    BY <2>1, <2>4, Stored
  <2> QED BY <2>5, <2>6, <2>7
<1>5. files' \in [FileNumbers -> Seq(Item)]
  <2>1. \E g : files' = [p \in FileNumbers |-> g[p]]
    <3>1. files' = [p \in FileNumbers |-> [q \in FileNumbers |->
              IF q = FileOf(SegmentBlocks(is)) /\ q \in opened
                THEN Append(files[q], StoredItem) ELSE files[q]][p]]
      BY Stored
    <3> QED BY <3>1
  <2>2. PICK g : files' = [p \in FileNumbers |-> g[p]]
    BY <2>1
  <2>3. \A p \in FileNumbers : g[p] \in Seq(Item)
    BY <1>4, <2>2
  <2> QED BY <2>2, <2>3
<1>6. is' \in Seq(LogBlock)
  BY Stored
<1> QED BY <1>3, <1>4, <1>5, <1>6 DEF BinningTypes, StoreSegment, dedupVars

LEMMA EndedTypes ==
  ASSUME BinningTypes, NEW h \in [FileNumbers -> Seq(GoodSegment)]
  PROVE  /\ Segments(log) \in Seq(GoodSegment)
         /\ Ended(h) \in [FileNumbers -> Seq(GoodSegment)]
<1>1. PICK segs \in Seq(GoodSegment) : segs = Segments(log)
  <2>1. log \in Seq(LogBlock)
    BY DEF BinningTypes
  <2> QED BY <2>1, SegmentsAreGood
<1>2. \A p \in FileNumbers : (IF p \in opened THEN h[p] \o segs ELSE h[p]) \in Seq(GoodSegment)
  <2> SUFFICES ASSUME NEW p \in FileNumbers
               PROVE  (IF p \in opened THEN h[p] \o segs ELSE h[p]) \in Seq(GoodSegment)
    OBVIOUS
  <2>1. PICK s \in Seq(GoodSegment) : s = h[p]
    OBVIOUS
  <2>2. s \o segs \in Seq(GoodSegment)
    BY ConcatProperties
  <2> QED BY <2>1, <2>2
<1>3. Ended(h) = [p \in FileNumbers |-> IF p \in opened THEN h[p] \o segs ELSE h[p]]
  BY <1>1 DEF Ended
<1> QED BY <1>1, <1>2, <1>3

LEMMA TypesClose ==
  ASSUME BinningTypes, CloseLog
  PROVE  BinningTypes'
<1>1. finished' \in [FileNumbers -> Seq(GoodSegment)]
  <2>1. finished \in [FileNumbers -> Seq(GoodSegment)]
    BY DEF BinningTypes
  <2> QED BY <2>1, EndedTypes DEF CloseLog
<1>2. is' \in Seq(LogBlock)
  BY EmptySeq DEF CloseLog
<1>3. program' = "idle" /\ opened' = {}
  BY DEF CloseLog
<1> QED BY <1>1, <1>2, <1>3 DEF BinningTypes, CloseLog, dedupVars, summary

LEMMA KillLeaves ==
  ASSUME BinningTypes, KillSegmenting, NEW p \in FileNumbers
  PROVE  /\ files[p] \in Seq(Item) /\ start[p] \in Nat /\ WholeFrom(files[p], start[p])
         /\ files'[p] \in LeftOf(files[p], start[p])
<1>1. files[p] \in Seq(Item) /\ start[p] \in Nat /\ WholeFrom(files[p], start[p])
  BY DEF BinningTypes, KillSegmenting
<1>2. files'[p] \in LeftOf(files[p], start[p])
  BY DEF KillSegmenting
<1> QED BY <1>1, <1>2

LEMMA TypesKill ==
  ASSUME BinningTypes, KillSegmenting
  PROVE  BinningTypes'
<1>1. killed' \in [FileNumbers -> Seq(GoodSegment)]
  <2>1. killed \in [FileNumbers -> Seq(GoodSegment)]
    BY DEF BinningTypes
  <2> QED BY <2>1, EndedTypes DEF KillSegmenting
<1>2. files' \in [FileNumbers -> Seq(Item)]
  <2>1. files' \in [FileNumbers -> UNION {LeftOf(files[p], start[p]) : p \in FileNumbers}]
    BY DEF KillSegmenting
  <2>2. \A p \in FileNumbers : files'[p] \in Seq(Item)
    BY KillLeaves, LeftIs
  <2> QED BY <2>1, <2>2
<1>3. program' = "idle" /\ opened' = {}
  BY DEF KillSegmenting
<1> QED BY <1>1, <1>2, <1>3 DEF BinningTypes, KillSegmenting, dedupVars, summary

LEMMA TypesOpenFile ==
  ASSUME BinningTypes, OpenFile
  PROVE  BinningTypes'
<1>1. part' \in FileNumbers /\ rest' \in Seq(Item)
  BY DEF BinningTypes, OpenFile
<1>2. binmap' = <<>> /\ DOMAIN <<>> = {}
  BY EmptySeq DEF OpenFile
<1>3. binmap' \in [DOMAIN binmap' -> Bin] /\ IsFiniteSet(DOMAIN binmap')
  BY <1>2, FS_EmptySet
<1>4. program' = "read" /\ blocks' = 0 /\ bytes' = 0
  BY DEF OpenFile
<1> QED BY <1>1, <1>3, <1>4 DEF BinningTypes, OpenFile, segmentVars

\* What a segment does to each bin.
IsWithSegment(new, bins, seg, m) ==
  /\ DOMAIN new = DOMAIN bins \union {m} /\ IsFiniteSet(DOMAIN new) /\ new \in [DOMAIN new -> Bin]
  /\ \A h \in DOMAIN bins : h # m => new[h] = bins[h]
  /\ new[m] = IF m \in DOMAIN bins
                THEN [num_segments |-> (bins[m].num_segments + 1) % CounterSize,
                      blocklist |-> bins[m].blocklist \o seg]
                ELSE [num_segments |-> 1 % CounterSize, blocklist |-> seg]

LEMMA AddToBinIs ==
  ASSUME NEW bins, bins \in [DOMAIN bins -> Bin], IsFiniteSet(DOMAIN bins), NEW seg \in Seq(Block),
         NEW m, NEW new, new = AddToBin(bins, m, seg)
  PROVE  IsWithSegment(new, bins, seg, m)
<1> DEFINE D == DOMAIN bins
           added == IF m \in D THEN [num_segments |-> (bins[m].num_segments + 1) % CounterSize,
                                     blocklist |-> bins[m].blocklist \o seg]
                    ELSE [num_segments |-> 1 % CounterSize, blocklist |-> seg]
<1>1. new = [h \in D \union {m} |-> IF h # m THEN bins[h] ELSE added]
  <2>1. 0 + 1 = 1
    OBVIOUS
  <2> QED BY <2>1 DEF AddToBin, Plus
<1>2. added \in Bin
  <2>1. CASE m \in D
    <3>1. bins[m] \in Bin
      BY <2>1
    <3>2. bins[m].num_segments \in Nat /\ bins[m].blocklist \in Seq(Block)
      BY <3>1 DEF Bin
    <3>3. (bins[m].num_segments + 1) % CounterSize \in Nat
      BY <3>2, BinningAssumption
    <3>4. bins[m].blocklist \o seg \in Seq(Block)
      BY <3>2, ConcatProperties
    <3> QED BY <2>1, <3>3, <3>4 DEF Bin
  <2>2. CASE m \notin D
    <3>1. 1 % CounterSize \in Nat
      BY BinningAssumption
    <3> QED BY <2>2, <3>1 DEF Bin
  <2> QED BY <2>1, <2>2
<1> HIDE DEF added
<1>3. DOMAIN new = D \union {m} /\ \A h \in D \union {m} : new[h] = IF h # m THEN bins[h] ELSE added
  BY <1>1
<1>4. IsFiniteSet(D \union {m})
  BY FS_AddElement
<1>5. new \in [D \union {m} -> Bin]
  <2>1. \A h \in D \union {m} : (IF h # m THEN bins[h] ELSE added) \in Bin
    BY <1>2
  <2> QED BY <1>1, <2>1
<1>6. new[m] = added
  BY <1>3
<1> QED BY <1>3, <1>4, <1>5, <1>6 DEF added, IsWithSegment

LEMMA TypesAdd ==
  ASSUME BinningTypes, NEW seg \in Seq(Block), NEW m, binmap' = AddToBin(binmap, m, seg),
         blocks' = blocks + Len(seg), bytes' = bytes + TotalSize(seg)
  PROVE  /\ binmap' \in [DOMAIN binmap' -> Bin] /\ IsFiniteSet(DOMAIN binmap')
         /\ blocks' \in Nat /\ bytes' \in Nat
<1>1. binmap \in [DOMAIN binmap -> Bin] /\ IsFiniteSet(DOMAIN binmap)
  BY DEF BinningTypes
<1>2. PICK new : new = AddToBin(binmap, m, seg)
  OBVIOUS
<1>3. IsWithSegment(new, binmap, seg, m)
  BY <1>1, <1>2, AddToBinIs
<1>4. new \in [DOMAIN new -> Bin] /\ IsFiniteSet(DOMAIN new)
  BY <1>3 DEF IsWithSegment
<1>5. Len(seg) \in Nat /\ TotalSize(seg) \in Nat /\ blocks \in Nat /\ bytes \in Nat
  BY LenProperties, TotalSizeOfAppend DEF BinningTypes
<1> QED BY <1>2, <1>4, <1>5

LEMMA TypesRead ==
  ASSUME BinningTypes, ReadSegment
  PROVE  BinningTypes'
<1>1. Head(rest) \in Item /\ rest' \in Seq(Item)
  BY HeadTailProperties DEF BinningTypes, ReadSegment
<1>2. Head(rest).blocks \in Seq(Block)
  BY <1>1 DEF Item
<1>3. /\ binmap' \in [DOMAIN binmap' -> Bin] /\ IsFiniteSet(DOMAIN binmap')
      /\ blocks' \in Nat /\ bytes' \in Nat
  BY <1>2, TypesAdd DEF ReadSegment
<1>4. program = "read" /\ program' = "read"
  BY DEF ReadSegment
<1> QED BY <1>1, <1>3, <1>4 DEF BinningTypes, ReadSegment, segmentVars

\* What a misread segment looks like, and where reading goes on.
LEMMA MisreadIs ==
  ASSUME BinningTypes, ReadMisread
  PROVE  /\ rest' \in Seq(Item) /\ aligned' \in BOOLEAN
         /\ \E seg \in Seq(Block) : \E m : /\ binmap' = AddToBin(binmap, m, seg)
                                         /\ blocks' = blocks + Len(seg)
                                         /\ bytes' = bytes + TotalSize(seg)
<1>1. rest \in Seq(Item) /\ aligned \in BOOLEAN
  BY DEF BinningTypes
<1>2. ASSUME aligned PROVE Head(rest).blocks \in Seq(Block)
  <2>1. Len(rest) > 1
    BY <1>2 DEF ReadMisread, Astray
  <2>2. rest # <<>>
    BY <2>1, EmptySeq
  <2>3. Head(rest) \in Item
    BY <1>1, <2>2, HeadTailProperties
  <2> QED BY <2>3 DEF Item
<1>3. PICK seg \in LooksLike : /\ \E m \in MinHashesOf(seg) : binmap' = AddToBin(binmap, m, seg)
                               /\ blocks' = blocks + Len(seg) /\ bytes' = bytes + TotalSize(seg)
  BY DEF ReadMisread
<1>4. seg \in Seq(Block)
  <2>1. PICK there : there = IF aligned THEN Head(rest).blocks ELSE <<>>
    OBVIOUS
  <2>2. there \in Seq(Block)
    BY <1>1, <1>2, <2>1, EmptySeq
  <2>3. PICK behind \in Garbage : seg = there \o behind
    BY <2>1 DEF LooksLike
  <2>4. behind \in Seq(Block)
    BY BinningAssumption
  <2> QED BY <2>2, <2>3, <2>4, ConcatProperties
<1>5. PICK n \in 0 .. Len(rest) : rest' = SubSeq(rest, n + 1, Len(rest)) /\ aligned' \in BOOLEAN
  <2>1. PICK least \in {0, 1} : \E n \in least .. Len(rest) : /\ rest' = SubSeq(rest, n + 1, Len(rest))
                                                             /\ aligned' \in {FALSE, n > least}
    BY Zenon DEF ReadMisread
  <2>2. PICK n \in least .. Len(rest) : rest' = SubSeq(rest, n + 1, Len(rest)) /\ aligned' \in {FALSE, n > least}
    BY <2>1
  <2>3. n \in 0 .. Len(rest) /\ (n > least) \in BOOLEAN
    BY <1>1, LenProperties
  <2> QED BY <2>2, <2>3
<1>6. rest' \in Seq(Item)
  <2>1. n + 1 \in 1 .. Len(rest) + 1 /\ Len(rest) \in Nat
    BY <1>1, LenProperties
  <2> QED BY <1>1, <1>5, <2>1
<1> QED BY <1>3, <1>4, <1>5, <1>6

LEMMA TypesMisread ==
  ASSUME BinningTypes, ReadMisread
  PROVE  BinningTypes'
<1> PICK seg \in Seq(Block) : \E m : /\ binmap' = AddToBin(binmap, m, seg)
                                     /\ blocks' = blocks + Len(seg)
                                     /\ bytes' = bytes + TotalSize(seg)
  BY MisreadIs
<1>1. PICK m : binmap' = AddToBin(binmap, m, seg) /\ blocks' = blocks + Len(seg) /\ bytes' = bytes + TotalSize(seg)
  OBVIOUS
<1>2. /\ binmap' \in [DOMAIN binmap' -> Bin] /\ IsFiniteSet(DOMAIN binmap')
      /\ blocks' \in Nat /\ bytes' \in Nat
  BY <1>1, TypesAdd
<1>3. rest' \in Seq(Item) /\ aligned' \in BOOLEAN
  BY MisreadIs
<1>4. program = "read" /\ program' = "read"
  BY DEF ReadMisread
<1> QED BY <1>2, <1>3, <1>4 DEF BinningTypes, ReadMisread, segmentVars

LEMMA BinningTypesStep == BinningTypes /\ [BinningNext]_binningVars => BinningTypes'
<1> SUFFICES ASSUME BinningTypes, [BinningNext]_binningVars PROVE BinningTypes'
  OBVIOUS
<1>1. CASE OpenLog
  BY <1>1, TypesOpenLog
<1>2. CASE StoreSegment
  BY <1>2, TypesStore
<1>3. CASE CloseLog
  BY <1>3, TypesClose
<1>4. CASE KillSegmenting
  BY <1>4, TypesKill
<1>5. CASE OpenFile
  BY <1>5, TypesOpenFile
<1>6. CASE ReadSegment
  BY <1>6, TypesRead
<1>7. CASE ReadMisread
  BY <1>7, TypesMisread
<1>8. CASE EndOfFile
  <2>1. program' = "bins" /\ rest' \in Seq(Item)
    BY <1>8, EmptySeq DEF EndOfFile
  <2> QED BY <1>8, <2>1 DEF BinningTypes, EndOfFile, segmentVars, summary
<1>9. CASE PrintBins
  BY <1>9 DEF BinningTypes, PrintBins, segmentVars, dedupVars, summary
<1>10. CASE UNCHANGED binningVars
  BY <1>10 DEF BinningTypes, binningVars, segmentVars, dedupVars, summary
<1> QED BY <1>1, <1>2, <1>3, <1>4, <1>5, <1>6, <1>7, <1>8, <1>9, <1>10 DEF BinningNext

LEMMA BinningTyped == BinningSpec => []BinningTypes
  BY BinningTypesInit, BinningTypesStep, PTL DEF BinningSpec

-----------------------------------------------------------------------------
(* What is written, and the summary of eb_segment *)

BlocksOf(items) == [k \in DOMAIN items |-> items[k].blocks]

LEMMA BlocksOfIs ==
  ASSUME NEW items \in Seq(Item)
  PROVE  /\ BlocksOf(items) \in Seq(Seq(Block)) /\ Len(BlocksOf(items)) = Len(items)
         /\ \A k \in 1 .. Len(items) : BlocksOf(items)[k] = items[k].blocks
<1>1. PICK n \in Nat : n = Len(items) /\ DOMAIN items = 1 .. n
  BY LenProperties
<1>2. \A k \in 1 .. n : items[k].blocks \in Seq(Block)
  <2>1. \A k \in 1 .. n : items[k] \in Item
    BY <1>1
  <2> QED BY <2>1 DEF Item
<1>3. BlocksOf(items) = [k \in 1 .. n |-> items[k].blocks]
  BY <1>1 DEF BlocksOf
<1> QED BY <1>1, <1>2, <1>3

LEMMA BlocksOfAppend ==
  ASSUME NEW items \in Seq(Item), NEW e \in Item
  PROVE  BlocksOf(Append(items, e)) = Append(BlocksOf(items), e.blocks)
<1>1. PICK n \in Nat : n = Len(items)
  BY LenProperties
<1>2. PICK more \in Seq(Item) : more = Append(items, e) /\ Len(more) = n + 1 /\ more[n + 1] = e /\ \A k \in 1 .. n : more[k] = items[k]
  <2>1. /\ Append(items, e) \in Seq(Item) /\ Len(Append(items, e)) = n + 1 /\ Append(items, e)[n + 1] = e
        /\ \A k \in 1 .. n : Append(items, e)[k] = items[k]
    BY <1>1, AppendProperties
  <2> QED BY <2>1
<1>3. PICK a \in Seq(Seq(Block)) : a = BlocksOf(items) /\ Len(a) = n /\ \A k \in 1 .. n : a[k] = items[k].blocks
  BY <1>1, BlocksOfIs
<1>4. PICK b \in Seq(Seq(Block)) : b = BlocksOf(more) /\ Len(b) = n + 1 /\ \A k \in 1 .. n + 1 : b[k] = more[k].blocks
  BY <1>2, BlocksOfIs
<1>5. e.blocks \in Seq(Block)
  BY DEF Item
<1>6. PICK c \in Seq(Seq(Block)) : c = Append(a, e.blocks) /\ Len(c) = n + 1 /\ c[n + 1] = e.blocks /\ \A k \in 1 .. n : c[k] = a[k]
  <2>1. /\ Append(a, e.blocks) \in Seq(Seq(Block)) /\ Len(Append(a, e.blocks)) = n + 1 /\ Append(a, e.blocks)[n + 1] = e.blocks
        /\ \A k \in 1 .. n : Append(a, e.blocks)[k] = a[k]
    BY <1>3, <1>5, AppendProperties
  <2> QED BY <2>1
<1>7. ASSUME NEW k \in 1 .. n + 1 PROVE b[k] = c[k]
  <2>1. CASE k = n + 1
    BY <1>2, <1>4, <1>6, <2>1
  <2>2. CASE k # n + 1
    <3>1. k \in 1 .. n
      BY <2>2
    <3>2. b[k] = more[k].blocks /\ more[k] = items[k]
      BY <1>2, <1>4, <3>1
    <3>3. c[k] = items[k].blocks
      BY <1>3, <1>6, <3>1
    <3> QED BY <3>2, <3>3
  <2> QED BY <2>1, <2>2
<1>8. b = c
  BY <1>4, <1>6, <1>7, SeqEqual
<1> QED BY <1>2, <1>3, <1>4, <1>6, <1>8

LEMMA RestOfAppend ==
  ASSUME NEW items \in Seq(Item), NEW e \in Item, NEW n \in 0 .. Len(items)
  PROVE  /\ SubSeq(items, n + 1, Len(items)) \in Seq(Item)
         /\ SubSeq(Append(items, e), n + 1, Len(Append(items, e))) = Append(SubSeq(items, n + 1, Len(items)), e)
<1>1. PICK l \in Nat : l = Len(items)
  BY LenProperties
<1>2. PICK more \in Seq(Item) : more = Append(items, e) /\ Len(more) = l + 1 /\ more[l + 1] = e /\ \A k \in 1 .. l : more[k] = items[k]
  <2>1. /\ Append(items, e) \in Seq(Item) /\ Len(Append(items, e)) = l + 1 /\ Append(items, e)[l + 1] = e
        /\ \A k \in 1 .. l : Append(items, e)[k] = items[k]
    BY <1>1, AppendProperties
  <2> QED BY <2>1
<1>3. PICK m \in Nat : m = l - n /\ l = n + m
  <2>1. n \in 0 .. l
    BY <1>1, Zenon
  <2>2. l - n \in Nat /\ l = n + (l - n)
    BY <2>1
  <2> QED BY <2>2
<1>4. PICK a \in Seq(Item) : a = SubSeq(items, n + 1, l) /\ Len(a) = m /\ \A k \in 1 .. m : a[k] = items[n + k]
  <2>1. /\ SubSeq(items, n + 1, l) \in Seq(Item) /\ Len(SubSeq(items, n + 1, l)) = m
        /\ \A k \in 1 .. m : SubSeq(items, n + 1, l)[k] = items[n + k]
    BY <1>1, <1>3
  <2> QED BY <2>1
<1>5. PICK b \in Seq(Item) : b = SubSeq(more, n + 1, l + 1) /\ Len(b) = m + 1 /\ \A k \in 1 .. m + 1 : b[k] = more[n + k]
  <2>1. /\ SubSeq(more, n + 1, l + 1) \in Seq(Item) /\ Len(SubSeq(more, n + 1, l + 1)) = m + 1
        /\ \A k \in 1 .. m + 1 : SubSeq(more, n + 1, l + 1)[k] = more[n + k]
    <3>1. n \in Nat
      BY <1>1
    <3>2. l + 1 = n + 1 + m
      BY <1>3, <3>1
    <3>3. \A x \in n + 1 .. l + 1 : more[x] \in Item
      BY <1>2, <3>1
    <3>4. n + 1 \in Int /\ l + 1 \in Int /\ n + 1 <= l + 1 /\ (l + 1) - (n + 1) + 1 = m + 1
          /\ \A x \in 1 .. m + 1 : (n + 1) + x - 1 = n + x
      BY <3>1, <3>2
    <3> QED BY <3>3, <3>4, SubSeqProperties
  <2> QED BY <2>1
<1>6. PICK c \in Seq(Item) : c = Append(a, e) /\ Len(c) = m + 1 /\ c[m + 1] = e /\ \A k \in 1 .. m : c[k] = a[k]
  <2>1. /\ Append(a, e) \in Seq(Item) /\ Len(Append(a, e)) = m + 1 /\ Append(a, e)[m + 1] = e
        /\ \A k \in 1 .. m : Append(a, e)[k] = a[k]
    BY <1>4, AppendProperties
  <2> QED BY <2>1
<1>7. ASSUME NEW k \in 1 .. m + 1 PROVE b[k] = c[k]
  <2>1. CASE k = m + 1
    <3>1. n + k = l + 1
      BY <1>1, <1>3, <2>1
    <3> QED BY <1>2, <1>5, <1>6, <2>1, <3>1
  <2>2. CASE k # m + 1
    <3>1. k \in 1 .. m
      BY <2>2
    <3>2. n + k \in 1 .. l
      BY <1>3, <3>1
    <3>3. b[k] = items[n + k]
      BY <1>2, <1>5, <3>2
    <3> QED BY <1>4, <1>6, <3>1, <3>3
  <2> QED BY <2>1, <2>2
<1>8. b = c
  BY <1>5, <1>6, <1>7, SeqEqual
<1> QED BY <1>1, <1>2, <1>4, <1>5, <1>6, <1>8

LEMMA UntaggedIsBlock ==
  ASSUME NEW b \in Block
  PROVE  \E c \in Block : c = [b EXCEPT !.file_id = {}] /\ c.size = b.size
<1>1. PICK c : c = [b EXCEPT !.file_id = {}]
  OBVIOUS
<1>2. c \in Block /\ c.size = b.size
  BY <1>1, TagsAreSets, Retagged
<1> QED BY <1>1, <1>2

LEMMA UntaggedOfOneMore ==
  ASSUME NEW u \in Seq(Block), NEW b \in Block, NEW c \in Block, c = [b EXCEPT !.file_id = {}]
  PROVE  Untagged(Append(u, b)) = Append(Untagged(u), c)
<1>1. PICK n \in Nat : n = Len(u)
  BY LenProperties
<1>2. PICK v \in Seq(Block) : v = Append(u, b) /\ Len(v) = n + 1 /\ v[n + 1] = b /\ \A k \in 1 .. n : v[k] = u[k]
  <2>1. /\ Append(u, b) \in Seq(Block) /\ Len(Append(u, b)) = n + 1 /\ Append(u, b)[n + 1] = b
        /\ \A k \in 1 .. n : Append(u, b)[k] = u[k]
    BY <1>1, AppendProperties
  <2> QED BY <2>1
<1>3. PICK x \in Seq(Block) : /\ x = Untagged(v) /\ Len(x) = n + 1
                              /\ \A k \in 1 .. n + 1 : x[k] = [v[k] EXCEPT !.file_id = {}]
  <2>1. /\ Untagged(v) \in Seq(Block) /\ Len(Untagged(v)) = Len(v)
        /\ \A k \in 1 .. Len(v) : Untagged(v)[k] = [v[k] EXCEPT !.file_id = {}]
    BY UntaggedIs
  <2>2. Len(v) = n + 1
    BY <1>2
  <2> QED BY <2>1, <2>2
<1>4. PICK y \in Seq(Block) : /\ y = Untagged(u) /\ Len(y) = n
                              /\ \A k \in 1 .. n : y[k] = [u[k] EXCEPT !.file_id = {}]
  BY <1>1, UntaggedIs
<1>5. PICK z \in Seq(Block) : z = Append(y, c) /\ Len(z) = n + 1 /\ z[n + 1] = c /\ \A k \in 1 .. n : z[k] = y[k]
  <2>1. /\ Append(y, c) \in Seq(Block) /\ Len(Append(y, c)) = n + 1 /\ Append(y, c)[n + 1] = c
        /\ \A k \in 1 .. n : Append(y, c)[k] = y[k]
    BY <1>4, AppendProperties
  <2> QED BY <2>1
<1>6. ASSUME NEW k \in 1 .. n + 1 PROVE x[k] = z[k]
  <2>1. CASE k = n + 1
    BY <1>2, <1>3, <1>5, <2>1
  <2>2. CASE k # n + 1
    <3>1. k \in 1 .. n
      BY <2>2
    <3>2. x[k] = [u[k] EXCEPT !.file_id = {}]
      BY <1>2, <1>3, <3>1
    <3>3. z[k] = [u[k] EXCEPT !.file_id = {}]
      BY <1>4, <1>5, <3>1
    <3> QED BY <3>2, <3>3
  <2> QED BY <2>1, <2>2
<1>7. x = z
  BY <1>3, <1>5, <1>6, EqualTraces
<1> QED BY <1>2, <1>3, <1>4, <1>5, <1>7

\* A segment takes its blocks from the records that are left.
LEMMA SegmentTakes ==
  ASSUME NEW t \in Seq(Block)
  PROVE  /\ Len(NonEmpty(t)) = Len(SegmentBlocks(t)) + Len(NonEmpty(AfterSegment(t)))
         /\ TotalSize(t) = TotalSize(SegmentBlocks(t)) + TotalSize(AfterSegment(t))
<1>1. PICK f \in Seq(Block), a \in Seq(Block) : f = SubSeq(t, 1, SegmentLen(t)) /\ a = AfterSegment(t) /\ t = f \o a
  BY SegmentAndAfter
<1>2. PICK x \in Seq(Block), y \in Seq(Block) : x = NonEmpty(f) /\ y = NonEmpty(a)
  BY NonEmptyOfAppend
<1>3. NonEmpty(t) = x \o y
  <2>1. NonEmpty(f \o a) = NonEmpty(f) \o NonEmpty(a)
    BY NonEmptyOfConcat
  <2> QED BY <1>1, <1>2, <2>1, Zenon
<1>4. SegmentBlocks(t) = Untagged(x) /\ Len(Untagged(x)) = Len(x)
  BY <1>1, <1>2, UntaggedIs DEF SegmentBlocks
<1>5. Len(x \o y) = Len(x) + Len(y)
  BY ConcatProperties
<1>6. TotalSize(Untagged(x)) = TotalSize(x)
  <2> DEFINE P == {u \in Seq(Block) : TotalSize(Untagged(u)) = TotalSize(u)}
  <2>1. <<>> \in P
    BY UntaggedNothing, EmptySeq
  <2>2. ASSUME NEW u \in Seq(Block), NEW b \in Block, u \in P PROVE Append(u, b) \in P
    <3>1. PICK c \in Block : c = [b EXCEPT !.file_id = {}] /\ c.size = b.size
      BY UntaggedIsBlock
    <3>2. Untagged(Append(u, b)) = Append(Untagged(u), c)
      BY <3>1, UntaggedOfOneMore
    <3>3. Untagged(u) \in Seq(Block) /\ Append(u, b) \in Seq(Block)
      BY UntaggedIs
    <3>4. TotalSize(Append(Untagged(u), c)) = TotalSize(Untagged(u)) + c.size
      BY <3>3, TotalSizeOfAppend
    <3>5. TotalSize(Append(u, b)) = TotalSize(u) + b.size
      BY TotalSizeOfAppend
    <3> QED BY <2>2, <3>1, <3>2, <3>3, <3>4, <3>5
  <2>3. \A u \in Seq(Block) : u \in P
    <3> HIDE DEF P
    <3> QED BY <2>1, <2>2, SeqIsInductive
  <2> QED BY <2>3
<1>7. TotalSize(x) = TotalSize(f)
  BY <1>2, TotalSizeOfNonEmpty
<1>8. TotalSize(t) = TotalSize(f) + TotalSize(a)
  BY <1>1, TotalSizeOfConcat
<1> QED BY <1>1, <1>2, <1>3, <1>4, <1>5, <1>6, <1>7, <1>8

LEMMA GoodSegmentsAreSegments == \A s \in Seq(GoodSegment) : s \in Seq(Seq(Block))
<1>1. GoodSegment \subseteq Seq(Block)
  BY FileOfIsNumber
<1> QED BY <1>1, SeqMonotonic

\* How far a run of eb_segment has got, when it has cut the segments of read.
WrittenSoFar(read) ==
  /\ Segments(log) = read \o Segments(is)
  /\ blocks + Len(NonEmpty(is)) = Len(NonEmpty(log))
  /\ bytes + TotalSize(is) = TotalSize(log)
  /\ \A p \in FileNumbers : WrittenTo(p) = IF p \in opened THEN OfFile(read, p) ELSE <<>>

WrittenInv == program = "segment" => \E read \in Seq(GoodSegment) : WrittenSoFar(read)

LEMMA WrittenIs ==
  ASSUME BinningTypes, program = "segment", NEW p \in FileNumbers
  PROVE  /\ files[p] \in Seq(Item) /\ start[p] \in 0 .. Len(files[p])
         /\ SubSeq(files[p], start[p] + 1, Len(files[p])) \in Seq(Item)
         /\ WrittenTo(p) = BlocksOf(SubSeq(files[p], start[p] + 1, Len(files[p])))
<1>1. PICK f \in Seq(Item), n \in Nat : f = files[p] /\ n = start[p] /\ n <= Len(f)
  BY DEF BinningTypes, WholeFrom
<1>2. n \in 0 .. Len(f)
  BY <1>1, LenProperties
<1>3. SubSeq(f, n + 1, Len(f)) \in Seq(Item)
  BY <1>2
<1> QED BY <1>1, <1>2, <1>3 DEF WrittenTo, BlocksOf

LEMMA WrittenOpen ==
  ASSUME BinningTypes, OpenLog
  PROVE  WrittenInv'
<1>1. PICK l \in Seq(LogBlock) : l = log' /\ l = is' /\ l \in Seq(Block)
  BY LogsHaveLogBlocks, SegmentIsGood DEF OpenLog
<1>2. PICK none \in Seq(GoodSegment) : none = <<>>
  BY EmptySeq
<1>3. Segments(l) = none \o Segments(l)
  <2>1. Segments(l) \in Seq(GoodSegment)
    BY SegmentsAreGood
  <2> QED BY <1>2, <2>1, ConcatEmptySeq
<1>4. Len(NonEmpty(l)) \in Nat /\ TotalSize(l) \in Nat
  <2>1. NonEmpty(l) \in Seq(Block) /\ TotalSize(l) \in Nat
    BY <1>1, NonEmptyOfAppend, TotalSizeOfAppend
  <2> QED BY <2>1, LenProperties
<1>5. ASSUME NEW p \in FileNumbers PROVE WrittenTo(p)' = <<>> /\ OfFile(none, p) = <<>>
  <2>1. PICK f \in Seq(Item) : f = files[p] /\ files'[p] = f
    BY DEF BinningTypes, OpenLog
  <2>2. PICK n \in Nat : n = Len(f)
    BY LenProperties
  <2>3. start'[p] = n
    BY <2>1, <2>2 DEF OpenLog
  <2>4. SubSeq(f, n + 1, n) = <<>>
    <3>1. n + 1 \in Int /\ n \in Int /\ n < n + 1
      OBVIOUS
    <3> QED BY <3>1, SubSeqEmpty
  <2>5. DOMAIN <<>> = {}
    BY EmptySeq
  <2>6. [k \in {} |-> <<>>[k].blocks] = <<>>
    OBVIOUS
  <2>7. OfFile(none, p) = <<>>
    BY <1>2, OfFileOfAppend
  <2> QED BY <2>1, <2>2, <2>3, <2>4, <2>5, <2>6, <2>7 DEF WrittenTo
<1>6. blocks' = 0 /\ bytes' = 0
  BY DEF OpenLog
<1>7. WrittenSoFar(none)'
  BY <1>1, <1>3, <1>4, <1>5, <1>6 DEF WrittenSoFar
<1> QED BY <1>2, <1>7 DEF WrittenInv

LEMMA WrittenStore ==
  ASSUME BinningTypes, WrittenInv, StoreSegment
  PROVE  WrittenInv'
<1>1. PICK read \in Seq(GoodSegment) : WrittenSoFar(read)
  BY DEF WrittenInv, StoreSegment
<1>2. PICK seg \in GoodSegment : seg = SegmentBlocks(is)
  BY Stored
<1>3. PICK l \in Seq(LogBlock), r \in Seq(LogBlock), a \in Seq(LogBlock) : l = log /\ r = is /\ a = is' /\ a = AfterSegment(r)
  BY Stored DEF BinningTypes
<1>4. l \in Seq(Block) /\ r \in Seq(Block) /\ a \in Seq(Block)
  BY SegmentIsGood
<1>5. PICK more \in Seq(GoodSegment) : more = Append(read, seg)
  BY AppendProperties
<1>6. Segments(l) = more \o Segments(a)
  <2>1. seg = SegmentBlocks(r) /\ seg # <<>>
    BY <1>2, <1>3 DEF GoodSegment
  <2>2. Segments(r) = <<seg>> \o Segments(a)
    BY <1>3, <1>4, <2>1, SegmentsUnfold
  <2>3. PICK s \in Seq(GoodSegment) : s = Segments(a)
    BY SegmentsAreGood
  <2>4. <<seg>> \in Seq(GoodSegment) /\ Append(read, seg) = read \o <<seg>>
    BY AppendIsConcat
  <2>5. (read \o <<seg>>) \o s = read \o (<<seg>> \o s)
    BY <2>4, ConcatAssociative
  <2> QED BY <1>1, <1>3, <1>5, <2>2, <2>3, <2>4, <2>5 DEF WrittenSoFar
<1>7. blocks' + Len(NonEmpty(a)) = Len(NonEmpty(l)) /\ bytes' + TotalSize(a) = TotalSize(l)
  <2>1. Len(NonEmpty(r)) = Len(seg) + Len(NonEmpty(a)) /\ TotalSize(r) = TotalSize(seg) + TotalSize(a)
    BY <1>2, <1>3, <1>4, SegmentTakes
  <2>2. blocks' = blocks + Len(seg) /\ bytes' = bytes + TotalSize(seg)
    BY <1>2 DEF StoreSegment
  <2>3. seg \in Seq(Block) /\ NonEmpty(a) \in Seq(Block)
    BY <1>4, FileOfIsNumber, NonEmptyOfAppend
  <2>4. blocks \in Nat /\ bytes \in Nat /\ Len(seg) \in Nat /\ TotalSize(seg) \in Nat
        /\ Len(NonEmpty(a)) \in Nat /\ TotalSize(a) \in Nat
    BY <1>4, <2>3, LenProperties, TotalSizeOfAppend DEF BinningTypes
  <2>5. blocks + Len(NonEmpty(r)) = Len(NonEmpty(l)) /\ bytes + TotalSize(r) = TotalSize(l)
    BY <1>1, <1>3 DEF WrittenSoFar
  <2> QED BY <2>1, <2>2, <2>4, <2>5
<1>8. ASSUME NEW p \in FileNumbers
      PROVE  WrittenTo(p)' = IF p \in opened' THEN OfFile(more, p) ELSE <<>>
  <2>1. PICK f \in Seq(Item), n \in Nat : f = files[p] /\ n = start[p] /\ start'[p] = n /\ n \in 0 .. Len(f)
    <3>1. program = "segment" /\ start' = start
      BY DEF StoreSegment
    <3>2. files[p] \in Seq(Item) /\ start[p] \in 0 .. Len(files[p]) /\ start'[p] = start[p]
      BY <3>1, WrittenIs
    <3>3. start[p] \in Nat
      BY <3>2, LenProperties
    <3> QED BY <3>2, <3>3, Zenon
  <2>2. PICK w \in Seq(Item) : w = SubSeq(f, n + 1, Len(f)) /\ BlocksOf(w) = IF p \in opened THEN OfFile(read, p) ELSE <<>>
    <3>1. SubSeq(f, n + 1, Len(f)) \in Seq(Item) /\ WrittenTo(p) = BlocksOf(SubSeq(f, n + 1, Len(f)))
      BY <2>1, WrittenIs DEF StoreSegment
    <3> QED BY <1>1, <3>1 DEF WrittenSoFar
  <2>3. BinningTypes' /\ program' = "segment" /\ opened' = opened
    BY TypesStore DEF StoreSegment
  <2>4. WrittenTo(p)' = BlocksOf(SubSeq(files'[p], n + 1, Len(files'[p])))
    BY <2>1, <2>3 DEF WrittenTo, BlocksOf
  <2>5. OfFile(more, p) = IF FileOf(seg) = p THEN Append(OfFile(read, p), seg) ELSE OfFile(read, p)
    <3>1. read \in Seq(Seq(Block)) /\ seg \in Seq(Block)
      BY GoodSegmentsAreSegments, FileOfIsNumber
    <3> QED BY <1>5, <3>1, OfFileOfAppend
  <2>6. CASE p = FileOf(seg) /\ p \in opened
    <3>1. PICK item \in Item : item = StoredItem /\ item.blocks = seg
      BY <1>2, Stored
    <3>2. files'[p] = Append(f, item)
      BY <1>2, <2>1, <2>6, <3>1, Stored
    <3>3. SubSeq(Append(f, item), n + 1, Len(Append(f, item))) = Append(w, item)
      BY <2>1, <2>2, RestOfAppend
    <3>4. BlocksOf(Append(w, item)) = Append(BlocksOf(w), item.blocks)
      BY BlocksOfAppend
    <3> QED BY <2>2, <2>3, <2>4, <2>5, <2>6, <3>1, <3>2, <3>3, <3>4
  <2>7. CASE ~(p = FileOf(seg) /\ p \in opened)
    <3>1. files'[p] = f
      BY <1>2, <2>1, <2>7, Stored
    <3> QED BY <2>2, <2>3, <2>4, <2>5, <2>7, <3>1
  <2> QED BY <2>6, <2>7
<1>9. WrittenSoFar(more)'
  <2>1. log' = l /\ is' = a
    BY <1>3 DEF StoreSegment
  <2> QED BY <1>6, <1>7, <1>8, <2>1 DEF WrittenSoFar
<1> QED BY <1>9 DEF WrittenInv

LEMMA WrittenStep == BinningTypes /\ WrittenInv /\ [BinningNext]_binningVars => WrittenInv'
<1> SUFFICES ASSUME BinningTypes, WrittenInv, [BinningNext]_binningVars PROVE WrittenInv'
  OBVIOUS
<1>1. CASE OpenLog
  BY <1>1, WrittenOpen
<1>2. CASE StoreSegment
  BY <1>2, WrittenStore
<1>3. CASE program' # "segment"
  BY <1>3 DEF WrittenInv
<1>4. CASE UNCHANGED binningVars
  <2>1. program' = program /\ log' = log /\ is' = is /\ blocks' = blocks /\ bytes' = bytes
        /\ files' = files /\ start' = start /\ opened' = opened
    BY <1>4 DEF binningVars, segmentVars, summary
  <2>2. \A p : WrittenTo(p)' = WrittenTo(p)
    BY <2>1 DEF WrittenTo
  <2>3. \A read : WrittenSoFar(read) => WrittenSoFar(read)'
    BY <2>1, <2>2 DEF WrittenSoFar
  <2> QED BY <2>1, <2>3 DEF WrittenInv
<1>5. CloseLog \/ KillSegmenting \/ OpenFile \/ ReadSegment \/ ReadMisread \/ EndOfFile \/ PrintBins
      => program' # "segment"
  BY DEF CloseLog, KillSegmenting, OpenFile, ReadSegment, ReadMisread, EndOfFile, PrintBins
<1> QED BY <1>1, <1>2, <1>3, <1>4, <1>5 DEF BinningNext

LEMMA WrittenAlways == BinningSpec => [](BinningTypes /\ WrittenInv)
<1>1. BinningInit => WrittenInv
  BY DEF BinningInit, WrittenInv
<1> QED BY <1>1, BinningTypesInit, BinningTypesStep, WrittenStep, PTL DEF BinningSpec

\* At any time in a run of eb_segment, its summary is that of the log, and
\* the files have, in order, the segments whose file opened, each in its own
\* file and no other.
THEOREM FilesHaveSegments == BinningSpec => []SummaryAndFiles
<1>1. BinningTypes /\ WrittenInv => SummaryAndFiles
  <2> SUFFICES ASSUME BinningTypes, WrittenInv, program = "segment" PROVE SummaryAndFiles
    BY DEF SummaryAndFiles
  <2>1. PICK read \in Seq(GoodSegment) : WrittenSoFar(read)
    BY DEF WrittenInv
  <2>2. PICK l \in Seq(LogBlock), r \in Seq(LogBlock) : l = log /\ r = is /\ l \in Seq(Block) /\ r \in Seq(Block)
    BY SegmentIsGood DEF BinningTypes
  <2>3. PICK s \in Seq(GoodSegment) : s = Segments(r) /\ Segments(l) = read \o s
    BY <2>1, <2>2, SegmentsAreGood DEF WrittenSoFar
  <2>4. SegmentsRead = read
    <3>1. PICK m \in Nat, n \in Nat : m = Len(read) /\ n = Len(s)
      BY LenProperties
    <3>2. PICK all \in Seq(GoodSegment) : /\ all = read \o s /\ Len(all) = m + n
                                         /\ \A k \in 1 .. m + n : all[k] = IF k <= m THEN read[k] ELSE s[k - m]
      <4>1. /\ read \o s \in Seq(GoodSegment) /\ Len(read \o s) = m + n
            /\ \A k \in 1 .. m + n : (read \o s)[k] = IF k <= m THEN read[k] ELSE s[k - m]
        BY <3>1, ConcatProperties
      <4> QED BY <4>1
    <3>3. (m + n) - n = m
      BY <3>1
    <3>4. SegmentsRead = SubSeq(all, 1, m)
      BY <2>2, <2>3, <3>1, <3>2, <3>3 DEF SegmentsRead
    <3>5. PICK front \in Seq(GoodSegment) : front = SubSeq(all, 1, m) /\ Len(front) = m /\ \A k \in 1 .. m : front[k] = all[k]
      <4>1. m <= m + n
        BY <3>1
      <4>2. /\ SubSeq(all, 1, m) \in Seq(GoodSegment) /\ Len(SubSeq(all, 1, m)) = m
            /\ \A k \in 1 .. m : SubSeq(all, 1, m)[k] = all[k]
        BY <3>2, <4>1
      <4> QED BY <4>2
    <3>6. \A k \in 1 .. m : front[k] = read[k]
      <4> SUFFICES ASSUME NEW k \in 1 .. m PROVE front[k] = read[k]
        OBVIOUS
      <4>1. k \in 1 .. m + n /\ k <= m
        BY <3>1
      <4> QED BY <3>2, <3>5, <4>1
    <3>7. front = read
      BY <3>1, <3>5, <3>6, SeqEqual
    <3> QED BY <3>4, <3>5, <3>7
  <2>5. blocks = Len(NonEmpty(l)) - Len(NonEmpty(r)) /\ bytes = TotalSize(l) - TotalSize(r)
    <3>1. NonEmpty(l) \in Seq(Block) /\ NonEmpty(r) \in Seq(Block)
      BY <2>2, NonEmptyOfAppend
    <3>2. blocks \in Nat /\ bytes \in Nat /\ Len(NonEmpty(l)) \in Nat /\ Len(NonEmpty(r)) \in Nat
          /\ TotalSize(l) \in Nat /\ TotalSize(r) \in Nat
      BY <2>2, <3>1, LenProperties, TotalSizeOfAppend DEF BinningTypes
    <3>3. blocks + Len(NonEmpty(r)) = Len(NonEmpty(l)) /\ bytes + TotalSize(r) = TotalSize(l)
      BY <2>1, <2>2 DEF WrittenSoFar
    <3> QED BY <3>2, <3>3
  <2> QED BY <2>1, <2>2, <2>4, <2>5 DEF WrittenSoFar, SummaryAndFiles
<1> QED BY <1>1, WrittenAlways, PTL

-----------------------------------------------------------------------------
(* Sorting the blocks of a bin *)

BeforeIn(sorted, blk, behind) ==
  {k \in DOMAIN sorted : IF behind THEN sorted[k].cksum <= blk.cksum ELSE sorted[k].cksum < blk.cksum}

Inserted(sorted, blk, behind) == InsertAt(sorted, Cardinality(BeforeIn(sorted, blk, behind)) + 1, blk)

\* Where a block goes, whether or not the others are sorted.
LEMMA PlaceIs ==
  ASSUME NEW s \in Seq(Block), NEW blk, NEW behind
  PROVE  Cardinality(BeforeIn(s, blk, behind)) \in 0 .. Len(s)
<1>1. PICK l \in Nat : l = Len(s) /\ DOMAIN s = 1 .. l
  BY LenProperties
<1>2. BeforeIn(s, blk, behind) \in SUBSET (1 .. l)
  BY <1>1 DEF BeforeIn
<1>3. IsFiniteSet(1 .. l) /\ Cardinality(1 .. l) = l
  BY FS_Interval
<1>4. Cardinality(BeforeIn(s, blk, behind)) <= l /\ IsFiniteSet(BeforeIn(s, blk, behind))
  BY <1>2, <1>3, FS_Subset
<1>5. Cardinality(BeforeIn(s, blk, behind)) \in Nat
  BY <1>4, FS_CardinalityType
<1> QED BY <1>1, <1>4, <1>5

\* The records r are those of s with one more after the first n.
OneMoreAfter(r, s, n, blk) ==
  /\ r \in Seq(Block) /\ Len(r) = Len(s) + 1
  /\ \A k \in 1 .. Len(s) + 1 : r[k] = IF k <= n THEN s[k] ELSE IF k = n + 1 THEN blk ELSE s[k - 1]

PutBetween(r, s, blk) == \E a, c \in Seq(Block) : s = a \o c /\ r = Append(a, blk) \o c

LEMMA InsertedIs ==
  ASSUME NEW s \in Seq(Block), NEW blk \in Block, NEW behind, NEW n \in Nat, n = Cardinality(BeforeIn(s, blk, behind)),
         NEW r, r = Inserted(s, blk, behind)
  PROVE  PutBetween(r, s, blk) /\ OneMoreAfter(r, s, n, blk)
<1>1. PICK l \in Nat : l = Len(s)
  BY LenProperties
<1>2. n \in 0 .. l
  BY <1>1, PlaceIs
<1>3. (n + 1) - 1 = n
  BY <1>2
<1>4. PICK a \in Seq(Block) : a = SubSeq(s, 1, n) /\ Len(a) = n /\ \A k \in 1 .. n : a[k] = s[k]
  <2>1. SubSeq(s, 1, n) \in Seq(Block) /\ Len(SubSeq(s, 1, n)) = n /\ \A k \in 1 .. n : SubSeq(s, 1, n)[k] = s[k]
    BY <1>1, <1>2
  <2> QED BY <2>1
<1>5. PICK c \in Seq(Block) : c = SubSeq(s, n + 1, l) /\ Len(c) = l - n /\ \A k \in 1 .. l - n : c[k] = s[n + k]
  <2>1. /\ SubSeq(s, n + 1, l) \in Seq(Block) /\ Len(SubSeq(s, n + 1, l)) = l - n
        /\ \A k \in 1 .. l - n : SubSeq(s, n + 1, l)[k] = s[n + k]
    BY <1>1, <1>2, RestIs DEF RestFrom
  <2> QED BY <2>1
<1>6. s = a \o c
  <2>1. SubSeq(s, 1, n) \o SubSeq(s, n + 1, l) = SubSeq(s, 1, l)
    <3>1. 1 \in 1 .. Len(s) + 1 /\ n \in 1 - 1 .. Len(s) /\ l \in n .. Len(s)
      BY <1>1, <1>2
    <3> QED BY <3>1, ConcatAdjacentSubSeq
  <2> QED BY <1>1, <1>4, <1>5, <2>1, SubSeqFull
<1>7. PICK x \in Seq(Block) : x = a \o <<blk>> /\ Len(x) = n + 1 /\ x[n + 1] = blk /\ \A k \in 1 .. n : x[k] = a[k]
  <2>1. Append(a, blk) = a \o <<blk>>
    BY AppendIsConcat
  <2>2. /\ Append(a, blk) \in Seq(Block) /\ Len(Append(a, blk)) = n + 1 /\ Append(a, blk)[n + 1] = blk
        /\ \A k \in 1 .. n : Append(a, blk)[k] = a[k]
    BY <1>4, AppendProperties
  <2> QED BY <2>1, <2>2
<1>8. PICK y \in Seq(Block) : /\ y = x \o c /\ Len(y) = l + 1
                             /\ \A k \in 1 .. l + 1 : y[k] = IF k <= n + 1 THEN x[k] ELSE c[k - (n + 1)]
  <2>1. /\ x \o c \in Seq(Block) /\ Len(x \o c) = (n + 1) + (l - n)
        /\ \A k \in 1 .. (n + 1) + (l - n) : (x \o c)[k] = IF k <= n + 1 THEN x[k] ELSE c[k - (n + 1)]
    <3>1. Len(x) = n + 1 /\ Len(c) = l - n
      BY <1>5, <1>7
    <3>2. /\ x \o c \in Seq(Block) /\ Len(x \o c) = Len(x) + Len(c)
          /\ \A k \in 1 .. Len(x) + Len(c) : (x \o c)[k] = IF k <= Len(x) THEN x[k] ELSE c[k - Len(x)]
      BY ConcatProperties
    <3> QED BY <3>1, <3>2, Zenon
  <2>2. (n + 1) + (l - n) = l + 1
    BY <1>2
  <2> QED BY <2>1, <2>2
<1>9. r = y
  BY <1>1, <1>3, <1>4, <1>5, <1>7, <1>8 DEF Inserted, InsertAt
<1>10. ASSUME NEW k \in 1 .. l + 1
       PROVE  y[k] = IF k <= n THEN s[k] ELSE IF k = n + 1 THEN blk ELSE s[k - 1]
  <2>1. CASE k <= n
    <3>1. k \in 1 .. n /\ k <= n + 1
      BY <1>2, <2>1
    <3> QED BY <1>4, <1>7, <1>8, <2>1, <3>1
  <2>2. CASE k = n + 1
    <3>1. ~(k <= n) /\ k <= n + 1
      BY <1>2, <2>2
    <3> QED BY <1>7, <1>8, <2>2, <3>1
  <2>3. CASE k > n + 1
    <3>1. ~(k <= n) /\ ~(k <= n + 1) /\ k # n + 1
      BY <2>3
    <3>2. c[k - (n + 1)] = s[k - 1]
      <4>1. PICK d \in 1 .. l - n : d = k - (n + 1) /\ n + d = k - 1
        <5>1. k - (n + 1) \in 1 .. l - n
          BY <1>2, <2>3
        <5>2. n + (k - (n + 1)) = k - 1
          OBVIOUS
        <5> QED BY <5>1, <5>2
      <4> QED BY <1>5, <4>1
    <3> QED BY <1>8, <3>1, <3>2
  <2>4. k <= n \/ k = n + 1 \/ k > n + 1
    BY <1>2
  <2> QED BY <2>1, <2>2, <2>3, <2>4
<1>11. a \o <<blk>> \in Seq(Block) /\ r = (a \o <<blk>>) \o c
  BY <1>7, <1>8, <1>9
<1>12. r \in Seq(Block) /\ Len(r) = l + 1
       /\ \A k \in 1 .. l + 1 : r[k] = IF k <= n THEN s[k] ELSE IF k = n + 1 THEN blk ELSE s[k - 1]
  BY <1>8, <1>9, <1>10
<1>13. PutBetween(r, s, blk)
  <2>1. Append(a, blk) = a \o <<blk>>
    BY AppendIsConcat
  <2>2. r = Append(a, blk) \o c
    BY <1>11, <2>1, Zenon
  <2> QED BY <1>6, <2>2 DEF PutBetween
<1>14. Len(r) = Len(s) + 1
       /\ \A k \in 1 .. Len(s) + 1 : r[k] = IF k <= n THEN s[k] ELSE IF k = n + 1 THEN blk ELSE s[k - 1]
  BY <1>1, <1>12, Zenon
<1>15. OneMoreAfter(r, s, n, blk)
  BY <1>12, <1>14 DEF OneMoreAfter
<1> QED BY <1>13, <1>15

\* A set that has all numbers below those it has is an interval.
LEMMA DownToOne ==
  ASSUME NEW l \in Nat, NEW T \in SUBSET (1 .. l), \A j \in T, k \in 1 .. l : k < j => k \in T
  PROVE  T = 1 .. Cardinality(T)
<1>1. CASE T = {}
  <2>1. Cardinality(T) = 0 /\ 1 .. 0 = {}
    BY <1>1, FS_EmptySet
  <2> QED BY <1>1, <2>1
<1>2. CASE T # {}
  <2>1. PICK m \in T : \A j \in T : j <= m
    <3>1. T \in SUBSET Nat /\ \A j \in T : j <= l
      OBVIOUS
    <3> QED BY <1>2, <3>1, GreatestNat
  <2>2. T = 1 .. m
    <3>1. m \in 1 .. l
      OBVIOUS
    <3>2. \A j \in 1 .. m : j \in T
      <4> SUFFICES ASSUME NEW j \in 1 .. m PROVE j \in T
        OBVIOUS
      <4>1. j \in 1 .. l /\ (j < m \/ j = m)
        BY <3>1
      <4> QED BY <4>1
    <3>3. \A j \in T : j \in 1 .. m
      BY <2>1
    <3> QED BY <3>2, <3>3
  <2>3. m \in Nat
    BY <2>1
  <2>4. Cardinality(1 .. m) = m
    BY <2>3, FS_Interval
  <2> QED BY <2>2, <2>4
<1> QED BY <1>1, <1>2

\* A block that is inserted among sorted ones is where it belongs.
LEMMA InsertedSorted ==
  ASSUME NEW s \in Seq(Block), NEW blk \in Block, NEW behind \in BOOLEAN, Sorted(s)
  PROVE  Sorted(Inserted(s, blk, behind))
<1> DEFINE T == BeforeIn(s, blk, behind)
<1>1. PICK l \in Nat : l = Len(s) /\ DOMAIN s = 1 .. l
  BY LenProperties
<1>2. PICK n \in 0 .. l : n = Cardinality(T)
  BY <1>1, PlaceIs
<1>3. PICK r \in Seq(Block) : /\ r = Inserted(s, blk, behind) /\ Len(r) = l + 1
                             /\ \A k \in 1 .. l + 1 : r[k] = IF k <= n THEN s[k] ELSE IF k = n + 1 THEN blk ELSE s[k - 1]
  <2>1. PICK r : r = Inserted(s, blk, behind)
    OBVIOUS
  <2>2. n \in Nat /\ n = Cardinality(BeforeIn(s, blk, behind))
    BY <1>2
  <2> HIDE DEF T
  <2>3. OneMoreAfter(r, s, n, blk)
    BY <2>1, <2>2, InsertedIs
  <2> QED BY <1>1, <2>1, <2>3 DEF OneMoreAfter
<1>4. \A k \in 1 .. l : s[k].cksum \in Int
  <2>1. \A k \in 1 .. l : s[k] \in Block
    BY <1>1
  <2> QED BY <2>1 DEF Block
<1>5. blk.cksum \in Int
  BY DEF Block
<1>6. \A j, k \in 1 .. l : j < k => s[j].cksum <= s[k].cksum
  BY <1>1 DEF Sorted
<1>7. T \in SUBSET (1 .. l)
  BY <1>1 DEF BeforeIn
<1>8. \A j \in T, k \in 1 .. l : k < j => k \in T
  <2> SUFFICES ASSUME NEW j \in T, NEW k \in 1 .. l, k < j PROVE k \in T
    OBVIOUS
  <2>1. j \in 1 .. l /\ s[k].cksum <= s[j].cksum /\ s[k].cksum \in Int /\ s[j].cksum \in Int
    BY <1>4, <1>6, <1>7
  <2> QED BY <1>1, <1>5, <2>1 DEF BeforeIn
<1>9. T = 1 .. n
  <2> HIDE DEF T
  <2> QED BY <1>2, <1>7, <1>8, DownToOne
<1>10. \A k \in 1 .. l : IF k <= n THEN s[k].cksum <= blk.cksum ELSE blk.cksum <= s[k].cksum
  <2> SUFFICES ASSUME NEW k \in 1 .. l PROVE IF k <= n THEN s[k].cksum <= blk.cksum ELSE blk.cksum <= s[k].cksum
    OBVIOUS
  <2>1. s[k].cksum \in Int
    BY <1>4
  <2>2. k <= n <=> k \in T
    <3>1. k \in 1 .. n <=> k <= n
      OBVIOUS
    <3> QED BY <1>9, <3>1, Zenon
  <2>3. k \in T <=> IF behind THEN s[k].cksum <= blk.cksum ELSE s[k].cksum < blk.cksum
    BY <1>1 DEF BeforeIn
  <2> HIDE DEF T
  <2> QED BY <1>5, <2>1, <2>2, <2>3
<1>11. ASSUME NEW j \in 1 .. l + 1, NEW k \in 1 .. l + 1, j < k PROVE r[j].cksum <= r[k].cksum
  <2>1. CASE k <= n
    <3>1. j \in 1 .. l /\ k \in 1 .. l /\ j <= n
      BY <1>2, <1>11, <2>1
    <3> QED BY <1>3, <1>6, <1>11, <2>1, <3>1
  <2>2. CASE k = n + 1
    <3>1. j <= n /\ j \in 1 .. l
      BY <1>2, <1>11, <2>2
    <3>2. r[k] = blk /\ r[j] = s[j]
      BY <1>2, <1>3, <2>2, <3>1
    <3> QED BY <1>10, <3>1, <3>2
  <2>3. CASE k > n + 1
    <3>1. k - 1 \in 1 .. l /\ ~(k <= n) /\ k # n + 1 /\ ~(k - 1 <= n)
      BY <1>2, <2>3
    <3>2. r[k] = s[k - 1]
      BY <1>3, <3>1
    <3>3. CASE j <= n
      <4>1. j \in 1 .. l /\ j < k - 1
        BY <1>2, <2>3, <3>3
      <4>2. r[j] = s[j]
        BY <1>3, <3>3
      <4> QED BY <1>6, <3>1, <3>2, <4>1, <4>2
    <3>4. CASE j = n + 1
      <4>1. ~(j <= n)
        BY <1>2, <3>4
      <4>2. r[j] = blk
        BY <1>3, <3>4, <4>1
      <4> QED BY <1>10, <3>1, <3>2, <4>2
    <3>5. CASE j > n + 1
      <4>1. j - 1 \in 1 .. l /\ ~(j <= n) /\ j # n + 1 /\ j - 1 < k - 1
        BY <1>2, <1>11, <3>5
      <4>2. r[j] = s[j - 1]
        BY <1>3, <4>1
      <4> QED BY <1>6, <3>1, <3>2, <4>1, <4>2
    <3>6. j <= n \/ j = n + 1 \/ j > n + 1
      BY <1>2
    <3> QED BY <3>3, <3>4, <3>5, <3>6
  <2>4. k <= n \/ k = n + 1 \/ k > n + 1
    BY <1>2
  <2> QED BY <2>1, <2>2, <2>3, <2>4
<1>12. DOMAIN r = 1 .. l + 1
  BY <1>3, LenProperties
<1> QED BY <1>3, <1>11, <1>12 DEF Sorted


LEMMA RangeOfAppend ==
  ASSUME NEW S, NEW s \in Seq(S), NEW e \in S
  PROVE  Range(Append(s, e)) = Range(s) \union {e}
<1>1. PICK l \in Nat : l = Len(s) /\ DOMAIN s = 1 .. l
  BY LenProperties
<1>2. PICK r \in Seq(S) : /\ r = Append(s, e) /\ Len(r) = l + 1 /\ DOMAIN r = 1 .. l + 1
                          /\ r[l + 1] = e /\ \A k \in 1 .. l : r[k] = s[k]
  <2>1. /\ Append(s, e) \in Seq(S) /\ Len(Append(s, e)) = l + 1 /\ Append(s, e)[l + 1] = e
        /\ \A k \in 1 .. l : Append(s, e)[k] = s[k]
    BY <1>1, AppendProperties
  <2> QED BY <2>1, LenProperties
<1>3. \A k \in 1 .. l : k \in 1 .. l + 1
  OBVIOUS
<1>4. l + 1 \in 1 .. l + 1 /\ \A k \in 1 .. l + 1 : k \in 1 .. l \/ k = l + 1
  OBVIOUS
<1>5. Range(s) \union {e} \subseteq Range(r)
  BY <1>1, <1>2, <1>3, <1>4 DEF Range
<1>6. Range(r) \subseteq Range(s) \union {e}
  BY <1>1, <1>2, <1>4 DEF Range
<1> QED BY <1>2, <1>5, <1>6

\* The records of r and those of s.
LEMMA InsertedRange ==
  ASSUME NEW s \in Seq(Block), NEW blk \in Block, NEW behind, NEW r, r = Inserted(s, blk, behind)
  PROVE  /\ r \in Seq(Block) /\ Len(r) = Len(s) + 1
         /\ TotalSize(r) = TotalSize(s) + blk.size
         /\ Range(r) = Range(s) \union {blk}
<1>1. PICK l \in Nat : l = Len(s) /\ DOMAIN s = 1 .. l
  BY LenProperties
<1>2. PICK n \in 0 .. l : n = Cardinality(BeforeIn(s, blk, behind))
  BY <1>1, PlaceIs
<1>3. PutBetween(r, s, blk) /\ OneMoreAfter(r, s, n, blk)
  <2>1. n \in Nat /\ n = Cardinality(BeforeIn(s, blk, behind))
    BY <1>2
  <2> QED BY <2>1, InsertedIs, Zenon
<1>4. PICK a \in Seq(Block), c \in Seq(Block), x \in Seq(Block) :
        s = a \o c /\ x = Append(a, blk) /\ r = x \o c
  <2>1. PICK a \in Seq(Block), c \in Seq(Block) : s = a \o c /\ r = Append(a, blk) \o c
    BY <1>3 DEF PutBetween
  <2>2. Append(a, blk) \in Seq(Block)
    BY AppendProperties
  <2> QED BY <2>1, <2>2
<1>5. TotalSize(r) = TotalSize(s) + blk.size
  <2>1. TotalSize(a) \in Nat /\ TotalSize(c) \in Nat /\ blk.size \in Nat
    BY TotalSizeOfAppend DEF Block
  <2>2. TotalSize(x) = TotalSize(a) + blk.size
    BY <1>4, TotalSizeOfAppend
  <2>3. TotalSize(r) = TotalSize(x) + TotalSize(c) /\ TotalSize(s) = TotalSize(a) + TotalSize(c)
    BY <1>4, TotalSizeOfConcat
  <2> QED BY <2>1, <2>2, <2>3
<1>6. DOMAIN r = 1 .. l + 1
  BY <1>1, <1>3, LenProperties DEF OneMoreAfter
<1>7. \A k \in 1 .. l + 1 : r[k] = IF k <= n THEN s[k] ELSE IF k = n + 1 THEN blk ELSE s[k - 1]
  BY <1>1, <1>3 DEF OneMoreAfter
<1>8. Range(r) \subseteq Range(s) \union {blk}
  <2> SUFFICES ASSUME NEW k \in 1 .. l + 1 PROVE r[k] \in Range(s) \union {blk}
    BY <1>6 DEF Range
  <2>1. CASE k <= n
    <3>1. k \in 1 .. l /\ r[k] = s[k]
      BY <1>7, <2>1
    <3> QED BY <1>1, <3>1 DEF Range
  <2>2. CASE k = n + 1
    <3>1. r[k] = blk
      BY <1>7, <2>2
    <3> QED BY <3>1
  <2>3. CASE ~(k <= n) /\ k # n + 1
    <3>1. k - 1 \in 1 .. l /\ r[k] = s[k - 1]
      BY <1>7, <2>3
    <3> QED BY <1>1, <3>1 DEF Range
  <2> QED BY <2>1, <2>2, <2>3
<1>9. blk \in Range(r)
  <2>1. n + 1 \in 1 .. l + 1 /\ ~(n + 1 <= n)
    OBVIOUS
  <2>2. r[n + 1] = blk
    BY <1>7, <2>1
  <2> QED BY <1>6, <2>1, <2>2 DEF Range
<1>10. Range(s) \subseteq Range(r)
  <2> SUFFICES ASSUME NEW k \in 1 .. l PROVE s[k] \in Range(r)
    BY <1>1 DEF Range
  <2>1. CASE k <= n
    <3>1. k \in 1 .. l + 1 /\ r[k] = s[k]
      BY <1>7, <2>1
    <3> QED BY <1>6, <3>1 DEF Range
  <2>2. CASE ~(k <= n)
    <3>1. k + 1 \in 1 .. l + 1 /\ ~(k + 1 <= n) /\ k + 1 # n + 1 /\ (k + 1) - 1 = k
      BY <2>2
    <3>2. r[k + 1] = s[k]
      BY <1>7, <3>1
    <3> QED BY <1>6, <3>1, <3>2 DEF Range
  <2> QED BY <2>1, <2>2
<1> QED BY <1>3, <1>5, <1>8, <1>9, <1>10 DEF OneMoreAfter

\* The fold of SortedBlocks, record by record.
IsSortedTable(row, s, behind) ==
  /\ row[0] = <<>>
  /\ \A k \in 1 .. Len(s) : row[k] = Inserted(row[k - 1], s[k], behind)
  /\ SortedBlocks(s, behind) = row[Len(s)]

LEMMA SortedRows ==
  ASSUME NEW s \in Seq(Block), NEW behind
  PROVE  \E row \in [0 .. Len(s) -> Seq(Block)] : IsSortedTable(row, s, behind)
<1> DEFINE n == Len(s)
           Kept(a, k) == Inserted(a, s[k], behind)
           it == CHOOSE g : g = [t \in SUBSET DOMAIN s |->
                                   IF t = {} THEN <<>> ELSE Kept(g[t \ {Max(t)}], Max(t))]
<1>1. n \in Nat /\ DOMAIN s = 1 .. n /\ \A k \in 1 .. n : s[k] \in Block
  OBVIOUS
<1>2. SortedBlocks(s, behind) = it[DOMAIN s]
  BY DEF SortedBlocks, Inserted, BeforeIn, FoldLeft, MapThenFoldSet
<1>3. \A a \in Seq(Block), k \in 1 .. n : Kept(a, k) \in Seq(Block)
  BY <1>1, InsertedRange
<1>4. PICK op \in [Seq(Block) \X (1 .. n) -> Seq(Block)] :
        \A a \in Seq(Block), k \in 1 .. n : op[<<a, k>>] = Kept(a, k)
  <2> DEFINE f == [ak \in Seq(Block) \X (1 .. n) |-> Kept(ak[1], ak[2])]
  <2> HIDE DEF Kept, n
  <2>1. f \in [Seq(Block) \X (1 .. n) -> Seq(Block)]
    BY <1>3
  <2>2. \A a \in Seq(Block), k \in 1 .. n : f[<<a, k>>] = Kept(a, k)
    OBVIOUS
  <2> HIDE DEF f
  <2> QED BY <2>1, <2>2
<1>5. PICK h \in [SUBSET (1 .. n) -> Seq(Block)] : IsFold(h, <<>>, op, n)
  <2>1. <<>> \in Seq(Block)
    OBVIOUS
  <2> HIDE DEF n
  <2> QED BY <1>1, <2>1, FoldExists, Zenon
<1>6. h = [t \in SUBSET DOMAIN s |-> IF t = {} THEN <<>> ELSE Kept(h[t \ {Max(t)}], Max(t))]
  <2>1. ASSUME NEW t \in SUBSET (1 .. n), t # {}
        PROVE  h[t] = Kept(h[t \ {Max(t)}], Max(t))
    <3>1. Max(t) \in 1 .. n
      BY <1>1, <2>1, MaxOfSubset
    <3>2. h[t \ {Max(t)}] \in Seq(Block)
      OBVIOUS
    <3> HIDE DEF n, Kept
    <3> QED BY <1>4, <1>5, <2>1, <3>1, <3>2 DEF IsFold
  <2> HIDE DEF n, Kept
  <2> QED BY <1>1, <1>5, <2>1 DEF IsFold
<1>7. it = [t \in SUBSET DOMAIN s |-> IF t = {} THEN <<>> ELSE Kept(it[t \ {Max(t)}], Max(t))]
  <2> HIDE DEF Kept
  <2> QED BY <1>6, Zenon
<1> HIDE DEF it, Kept
<1>8. it[{}] = <<>>
  BY <1>1, <1>7
<1>9. \A k \in 1 .. n : it[1 .. k] = Kept(it[1 .. (k - 1)], k)
  <2> SUFFICES ASSUME NEW k \in 1 .. n PROVE it[1 .. k] = Kept(it[1 .. (k - 1)], k)
    OBVIOUS
  <2>1. (1 .. k) \in SUBSET DOMAIN s /\ 1 .. k # {}
    <3>1. \A j \in 1 .. k : j \in 1 .. n
      BY <1>1
    <3>2. k \in 1 .. k
      BY <1>1
    <3> HIDE DEF n
    <3> QED BY <1>1, <3>1, <3>2
  <2>2. Max(1 .. k) = k /\ (1 .. k) \ {Max(1 .. k)} = 1 .. (k - 1)
    BY <1>1, MaxOfUpTo
  <2>3. it[1 .. k] = Kept(it[(1 .. k) \ {Max(1 .. k)}], Max(1 .. k))
    BY <1>7, <2>1
  <2> QED BY <2>2, <2>3
<1> DEFINE Typed == {k \in 0 .. n : it[1 .. k] \in Seq(Block)}
<1>10. \A k \in 0 .. n : k \in Typed
  <2>1. 0 \in Typed
    <3>1. 1 .. 0 = {} /\ 0 \in 0 .. n
      BY <1>1
    <3> HIDE DEF n
    <3>2. it[1 .. 0] = <<>>
      BY <1>8, <3>1, Zenon
    <3>3. it[1 .. 0] \in Seq(Block)
      BY <3>2, EmptySeq
    <3> QED BY <3>1, <3>3
  <2>2. ASSUME NEW k \in 0 .. n - 1, k \in Typed PROVE k + 1 \in Typed
    <3>1. k + 1 \in 1 .. n /\ (k + 1) - 1 = k
      BY <1>1
    <3>2. it[1 .. (k + 1)] = Kept(it[1 .. k], k + 1)
      BY <1>9, <3>1
    <3>3. it[1 .. k] \in Seq(Block)
      BY <2>2
    <3>4. it[1 .. (k + 1)] \in Seq(Block)
      BY <1>3, <3>1, <3>2, <3>3
    <3>5. k + 1 \in 0 .. n
      BY <1>1
    <3> QED BY <3>4, <3>5
  <2> HIDE DEF Typed
  <2> QED BY <1>1, <2>1, <2>2, UpToIsInductive
<1> DEFINE row == [k \in 0 .. n |-> it[1 .. k]]
<1>11. row \in [0 .. n -> Seq(Block)] /\ row[0] = <<>> /\ row[n] = it[DOMAIN s]
  BY <1>1, <1>8, <1>10
<1>12. \A k \in 1 .. n : row[k] = Kept(row[k - 1], k)
  BY <1>1, <1>9
<1> HIDE DEF row
<1> QED BY <1>2, <1>11, <1>12 DEF Kept, IsSortedTable

LEMMA SortedOfAppend ==
  ASSUME NEW behind
  PROVE  /\ SortedBlocks(<<>>, behind) = <<>>
         /\ \A s \in Seq(Block), e \in Block :
              SortedBlocks(Append(s, e), behind) = Inserted(SortedBlocks(s, behind), e, behind)
<1>1. SortedBlocks(<<>>, behind) = <<>>
  <2>1. PICK s \in Seq(Block) : s = <<>> /\ Len(s) = 0
    BY EmptySeq
  <2>2. PICK row \in [0 .. Len(s) -> Seq(Block)] : IsSortedTable(row, s, behind)
    BY SortedRows
  <2> QED BY <2>1, <2>2 DEF IsSortedTable
<1>2. ASSUME NEW s \in Seq(Block), NEW e \in Block
      PROVE  SortedBlocks(Append(s, e), behind) = Inserted(SortedBlocks(s, behind), e, behind)
  <2>1. PICK n \in Nat : n = Len(s)
    BY LenProperties
  <2>2. PICK r \in Seq(Block) : /\ r = Append(s, e) /\ Len(r) = n + 1 /\ r[n + 1] = e
                                /\ \A k \in 1 .. n : r[k] = s[k]
    <3>1. /\ Append(s, e) \in Seq(Block) /\ Len(Append(s, e)) = n + 1 /\ Append(s, e)[n + 1] = e
          /\ \A k \in 1 .. n : Append(s, e)[k] = s[k]
      BY <2>1, AppendProperties
    <3> QED BY <3>1
  <2>3. PICK f \in [0 .. Len(s) -> Seq(Block)] : IsSortedTable(f, s, behind)
    BY SortedRows
  <2>4. PICK g \in [0 .. Len(r) -> Seq(Block)] : IsSortedTable(g, r, behind)
    BY SortedRows
  <2>5. f[n] = g[n]
    <3>1. ASSUME NEW k \in 1 .. n, f[k - 1] = g[k - 1] PROVE f[k] = g[k]
      <4>1. k \in 1 .. Len(s) /\ k \in 1 .. Len(r) /\ r[k] = s[k]
        BY <2>1, <2>2
      <4>2. f[k] = Inserted(f[k - 1], s[k], behind)
        BY <2>3, <4>1 DEF IsSortedTable
      <4>3. g[k] = Inserted(g[k - 1], r[k], behind)
        BY <2>4, <4>1 DEF IsSortedTable
      <4> QED BY <3>1, <4>1, <4>2, <4>3
    <3>2. f[0] = g[0]
      BY <2>3, <2>4 DEF IsSortedTable
    <3> QED BY <3>1, <3>2, RowsAgree, Zenon
  <2>6. n + 1 \in 1 .. n + 1 /\ (n + 1) - 1 = n
    OBVIOUS
  <2>7. SortedBlocks(r, behind) = Inserted(g[n], e, behind)
    BY <2>2, <2>4, <2>6 DEF IsSortedTable
  <2> QED BY <2>1, <2>2, <2>3, <2>5, <2>7 DEF IsSortedTable
<1> QED BY <1>1, <1>2

\* Sorting loses no block and adds none.
LEMMA SortedIs ==
  ASSUME NEW behind \in BOOLEAN, NEW s \in Seq(Block)
  PROVE  /\ SortedBlocks(s, behind) \in Seq(Block)
         /\ Len(SortedBlocks(s, behind)) = Len(s)
         /\ TotalSize(SortedBlocks(s, behind)) = TotalSize(s)
         /\ Range(SortedBlocks(s, behind)) = Range(s)
         /\ Sorted(SortedBlocks(s, behind))
<1> DEFINE Good(u, r) == /\ r \in Seq(Block) /\ Len(r) = Len(u) /\ TotalSize(r) = TotalSize(u)
                         /\ Range(r) = Range(u) /\ Sorted(r)
           P == {u \in Seq(Block) : Good(u, SortedBlocks(u, behind))}
<1>1. <<>> \in P
  <2>1. <<>> \in Seq(Block) /\ Sorted(<<>>)
    BY EmptySeq DEF Sorted
  <2> QED BY <2>1, SortedOfAppend
<1>2. ASSUME NEW u \in Seq(Block), NEW b \in Block, u \in P PROVE Append(u, b) \in P
  <2>1. PICK q \in Seq(Block) : q = SortedBlocks(u, behind)
    BY <1>2
  <2>2. Good(u, q)
    BY <1>2, <2>1
  <2>3. PICK r : r = Inserted(q, b, behind)
    OBVIOUS
  <2>4. r = SortedBlocks(Append(u, b), behind)
    BY <2>1, <2>3, SortedOfAppend
  <2>5. PICK v \in Seq(Block) : v = Append(u, b) /\ Len(v) = Len(u) + 1
    BY AppendProperties
  <2>6. TotalSize(v) = TotalSize(u) + b.size
    BY <2>5, TotalSizeOfAppend
  <2>7. Range(v) = Range(u) \union {b}
    BY <2>5, RangeOfAppend
  <2>8. /\ r \in Seq(Block) /\ Len(r) = Len(q) + 1 /\ TotalSize(r) = TotalSize(q) + b.size
        /\ Range(r) = Range(q) \union {b} /\ Sorted(r)
    BY <2>2, <2>3, InsertedRange, InsertedSorted
  <2>9. Good(v, r)
    BY <2>2, <2>5, <2>6, <2>7, <2>8
  <2> HIDE DEF Good
  <2> QED BY <2>4, <2>5, <2>9
<1>3. \A u \in Seq(Block) : u \in P
  <2> HIDE DEF P
  <2> QED BY <1>1, <1>2, SeqIsInductive
<1> QED BY <1>3


-----------------------------------------------------------------------------
(* Counting the sorted blocks of a bin *)

Numbers(r) == [k \in DOMAIN r |-> k]

OneMore(bin, blk, new) ==
  [num_blocks       |-> Plus(bin.num_blocks, 1),
   size             |-> Plus(bin.size, blk.size),
   num_dedup_blocks |-> IF new THEN Plus(bin.num_dedup_blocks, 1) ELSE bin.num_dedup_blocks,
   dedup_size       |-> IF new THEN Plus(bin.dedup_size, blk.size) ELSE bin.dedup_size]

CountedIn(r, bin, k) == OneMore(bin, r[k], k = 1 \/ r[k - 1].cksum # r[k].cksum)

CountedBin(r) == FoldLeft(LAMBDA bin, k : CountedIn(r, bin, k), EmptyBin, Numbers(r))

BinCounts == [num_blocks : Nat, size : Nat, num_dedup_blocks : Nat, dedup_size : Nat]

LEMMA DeduplicationIs ==
  ASSUME NEW s, NEW behind, NEW r, r = SortedBlocks(s, behind)
  PROVE  Deduplication(s, behind) = CountedBin(r)
<1>1. Deduplication(s, behind) = CountedBin(SortedBlocks(s, behind))
  BY DEF Deduplication, CountedBin, CountedIn, OneMore, Numbers, FoldLeft, MapThenFoldSet
<1> QED BY <1>1, Zenon

LEMMA PlusType ==
  ASSUME NEW m \in Nat, NEW n \in Nat
  PROVE  Plus(m, n) \in 0 .. CounterSize - 1 /\ Plus(m, n) \in Nat
<1>1. PICK k \in Nat : k = m + n
  OBVIOUS
<1>2. k % CounterSize \in 0 .. CounterSize - 1
  BY BinningAssumption, QuotientAndRemainder
<1> QED BY <1>1, <1>2 DEF Plus

LEMMA OneMoreType ==
  ASSUME NEW bin \in BinCounts, NEW blk \in Block, NEW new
  PROVE  OneMore(bin, blk, new) \in BinCounts
<1>1. /\ bin.num_blocks \in Nat /\ bin.size \in Nat /\ bin.num_dedup_blocks \in Nat /\ bin.dedup_size \in Nat
      /\ blk.size \in Nat
  BY DEF BinCounts, Block
<1>2. /\ Plus(bin.num_blocks, 1) \in Nat /\ Plus(bin.size, blk.size) \in Nat
      /\ Plus(bin.num_dedup_blocks, 1) \in Nat /\ Plus(bin.dedup_size, blk.size) \in Nat
  BY <1>1, PlusType
<1> QED BY <1>1, <1>2 DEF BinCounts, OneMore

\* The fold of Deduplication, block by block.
IsCountTable(row, r) ==
  /\ row[0] = EmptyBin
  /\ \A k \in 1 .. Len(Numbers(r)) : row[k] = CountedIn(r, row[k - 1], Numbers(r)[k])
  /\ CountedBin(r) = row[Len(Numbers(r))]

LEMMA CountRows ==
  ASSUME NEW r \in Seq(Block)
  PROVE  \E row \in [0 .. Len(Numbers(r)) -> BinCounts] : IsCountTable(row, r)
<1> DEFINE n == Len(Numbers(r))
           Kept(a, k) == CountedIn(r, a, Numbers(r)[k])
           it == CHOOSE g : g = [t \in SUBSET DOMAIN Numbers(r) |->
                                   IF t = {} THEN EmptyBin ELSE Kept(g[t \ {Max(t)}], Max(t))]
<1>1. n \in Nat /\ DOMAIN Numbers(r) = 1 .. n /\ \A k \in 1 .. n : Numbers(r)[k] \in DOMAIN r
  BY DEF Numbers
<1>2. CountedBin(r) = it[DOMAIN Numbers(r)]
  BY DEF CountedBin, FoldLeft, MapThenFoldSet
<1>3. \A a \in BinCounts, k \in 1 .. n : Kept(a, k) \in BinCounts
  <2> SUFFICES ASSUME NEW a \in BinCounts, NEW k \in 1 .. n PROVE Kept(a, k) \in BinCounts
    OBVIOUS
  <2>1. r[Numbers(r)[k]] \in Block
    BY <1>1
  <2> QED BY <2>1, OneMoreType DEF CountedIn
<1>4. PICK op \in [BinCounts \X (1 .. n) -> BinCounts] :
        \A a \in BinCounts, k \in 1 .. n : op[<<a, k>>] = Kept(a, k)
  <2> DEFINE f == [ak \in BinCounts \X (1 .. n) |-> Kept(ak[1], ak[2])]
  <2> HIDE DEF Kept, n
  <2>1. f \in [BinCounts \X (1 .. n) -> BinCounts]
    BY <1>3
  <2>2. \A a \in BinCounts, k \in 1 .. n : f[<<a, k>>] = Kept(a, k)
    OBVIOUS
  <2> HIDE DEF f
  <2> QED BY <2>1, <2>2
<1>5. PICK h \in [SUBSET (1 .. n) -> BinCounts] : IsFold(h, EmptyBin, op, n)
  <2>1. EmptyBin \in BinCounts
    BY DEF EmptyBin, BinCounts
  <2> HIDE DEF n
  <2> QED BY <1>1, <2>1, FoldExists, Zenon
<1>6. h = [t \in SUBSET DOMAIN Numbers(r) |-> IF t = {} THEN EmptyBin ELSE Kept(h[t \ {Max(t)}], Max(t))]
  <2>1. ASSUME NEW t \in SUBSET (1 .. n), t # {}
        PROVE  h[t] = Kept(h[t \ {Max(t)}], Max(t))
    <3>1. Max(t) \in 1 .. n
      BY <1>1, <2>1, MaxOfSubset
    <3>2. h[t \ {Max(t)}] \in BinCounts
      OBVIOUS
    <3> HIDE DEF n, Kept
    <3> QED BY <1>4, <1>5, <2>1, <3>1, <3>2 DEF IsFold
  <2> HIDE DEF n, Kept
  <2> QED BY <1>1, <1>5, <2>1 DEF IsFold
<1>7. it = [t \in SUBSET DOMAIN Numbers(r) |-> IF t = {} THEN EmptyBin ELSE Kept(it[t \ {Max(t)}], Max(t))]
  <2> HIDE DEF Kept
  <2> QED BY <1>6, Zenon
<1> HIDE DEF it, Kept
<1>8. it[{}] = EmptyBin
  BY <1>1, <1>7
<1>9. \A k \in 1 .. n : it[1 .. k] = Kept(it[1 .. (k - 1)], k)
  <2> SUFFICES ASSUME NEW k \in 1 .. n PROVE it[1 .. k] = Kept(it[1 .. (k - 1)], k)
    OBVIOUS
  <2>1. (1 .. k) \in SUBSET DOMAIN Numbers(r) /\ 1 .. k # {}
    <3>1. \A j \in 1 .. k : j \in 1 .. n
      BY <1>1
    <3>2. k \in 1 .. k
      BY <1>1
    <3> HIDE DEF n
    <3> QED BY <1>1, <3>1, <3>2
  <2>2. Max(1 .. k) = k /\ (1 .. k) \ {Max(1 .. k)} = 1 .. (k - 1)
    BY <1>1, MaxOfUpTo
  <2>3. it[1 .. k] = Kept(it[(1 .. k) \ {Max(1 .. k)}], Max(1 .. k))
    BY <1>7, <2>1
  <2> QED BY <2>2, <2>3
<1> DEFINE Typed == {k \in 0 .. n : it[1 .. k] \in BinCounts}
<1>10. \A k \in 0 .. n : k \in Typed
  <2>1. 0 \in Typed
    <3>1. 1 .. 0 = {} /\ 0 \in 0 .. n
      BY <1>1
    <3> HIDE DEF n
    <3>2. it[1 .. 0] = EmptyBin
      BY <1>8, <3>1, Zenon
    <3>3. it[1 .. 0] \in BinCounts
      BY <3>2 DEF EmptyBin, BinCounts
    <3> QED BY <3>1, <3>3
  <2>2. ASSUME NEW k \in 0 .. n - 1, k \in Typed PROVE k + 1 \in Typed
    <3>1. k + 1 \in 1 .. n /\ (k + 1) - 1 = k
      BY <1>1
    <3>2. it[1 .. (k + 1)] = Kept(it[1 .. k], k + 1)
      BY <1>9, <3>1
    <3>3. it[1 .. k] \in BinCounts
      BY <2>2
    <3>4. it[1 .. (k + 1)] \in BinCounts
      BY <1>3, <3>1, <3>2, <3>3
    <3>5. k + 1 \in 0 .. n
      BY <1>1
    <3> QED BY <3>4, <3>5
  <2> HIDE DEF Typed
  <2> QED BY <1>1, <2>1, <2>2, UpToIsInductive
<1> DEFINE row == [k \in 0 .. n |-> it[1 .. k]]
<1>11. row \in [0 .. n -> BinCounts] /\ row[0] = EmptyBin /\ row[n] = it[DOMAIN Numbers(r)]
  BY <1>1, <1>8, <1>10
<1>12. \A k \in 1 .. n : row[k] = Kept(row[k - 1], k)
  BY <1>1, <1>9
<1> HIDE DEF row
<1> QED BY <1>2, <1>11, <1>12 DEF Kept, IsCountTable

LEMMA CountsOf ==
  ASSUME NEW r \in Seq(Block)
  PROVE  \E row \in [0 .. Len(r) -> BinCounts] :
           /\ row[0] = EmptyBin
           /\ \A k \in 1 .. Len(r) : row[k] = CountedIn(r, row[k - 1], k)
           /\ CountedBin(r) = row[Len(r)]
<1>1. PICK l \in Nat : l = Len(r) /\ DOMAIN r = 1 .. l
  BY LenProperties
<1>2. Len(Numbers(r)) = l /\ \A k \in 1 .. l : Numbers(r)[k] = k
  BY <1>1 DEF Numbers
<1>3. PICK row \in [0 .. Len(Numbers(r)) -> BinCounts] : IsCountTable(row, r)
  BY CountRows
<1>4. \A k \in 1 .. l : row[k] = CountedIn(r, row[k - 1], k)
  BY <1>2, <1>3 DEF IsCountTable
<1> QED BY <1>1, <1>2, <1>3, <1>4 DEF IsCountTable

LEMMA CountedOfAppend ==
  /\ CountedBin(<<>>) = EmptyBin
  /\ \A s \in Seq(Block) : CountedBin(s) \in BinCounts
  /\ \A s \in Seq(Block), e \in Block :
       CountedBin(Append(s, e)) =
         OneMore(CountedBin(s), e, Len(s) = 0 \/ s[Len(s)].cksum # e.cksum)
<1>1. CountedBin(<<>>) = EmptyBin
  <2>1. PICK s \in Seq(Block) : s = <<>> /\ Len(s) = 0
    BY EmptySeq
  <2> QED BY <2>1, CountsOf
<1>2. \A s \in Seq(Block) : CountedBin(s) \in BinCounts
  <2> SUFFICES ASSUME NEW s \in Seq(Block) PROVE CountedBin(s) \in BinCounts
    OBVIOUS
  <2>1. PICK row \in [0 .. Len(s) -> BinCounts] : CountedBin(s) = row[Len(s)]
    BY CountsOf
  <2>2. Len(s) \in 0 .. Len(s)
    BY LenProperties
  <2> QED BY <2>1, <2>2
<1>3. ASSUME NEW s \in Seq(Block), NEW e \in Block
      PROVE  CountedBin(Append(s, e)) =
               OneMore(CountedBin(s), e, Len(s) = 0 \/ s[Len(s)].cksum # e.cksum)
  <2>1. PICK n \in Nat : n = Len(s)
    BY LenProperties
  <2>2. PICK r \in Seq(Block) : /\ r = Append(s, e) /\ Len(r) = n + 1 /\ r[n + 1] = e
                                /\ \A k \in 1 .. n : r[k] = s[k]
    <3>1. /\ Append(s, e) \in Seq(Block) /\ Len(Append(s, e)) = n + 1 /\ Append(s, e)[n + 1] = e
          /\ \A k \in 1 .. n : Append(s, e)[k] = s[k]
      BY <2>1, AppendProperties
    <3> QED BY <3>1
  <2>3. PICK f \in [0 .. n -> BinCounts] : /\ f[0] = EmptyBin /\ CountedBin(s) = f[n]
                                           /\ \A k \in 1 .. n : f[k] = CountedIn(s, f[k - 1], k)
    BY <2>1, CountsOf
  <2>4. PICK g \in [0 .. n + 1 -> BinCounts] : /\ g[0] = EmptyBin /\ CountedBin(r) = g[n + 1]
                                               /\ \A k \in 1 .. n + 1 : g[k] = CountedIn(r, g[k - 1], k)
    <3>1. PICK g \in [0 .. Len(r) -> BinCounts] : /\ g[0] = EmptyBin
                                                  /\ \A k \in 1 .. Len(r) : g[k] = CountedIn(r, g[k - 1], k)
                                                  /\ CountedBin(r) = g[Len(r)]
      BY CountsOf
    <3> QED BY <2>2, <3>1
  <2>5. f[n] = g[n]
    <3>1. ASSUME NEW k \in 1 .. n, f[k - 1] = g[k - 1] PROVE f[k] = g[k]
      <4>1. k \in 1 .. n + 1 /\ r[k] = s[k] /\ (k # 1 => r[k - 1] = s[k - 1])
        <5>1. k # 1 => k - 1 \in 1 .. n
          OBVIOUS
        <5> QED BY <2>2, <5>1
      <4>2. f[k] = CountedIn(s, f[k - 1], k)
        BY <2>3
      <4>3. g[k] = CountedIn(r, g[k - 1], k)
        BY <2>4, <4>1
      <4>4. (k = 1 \/ s[k - 1].cksum # s[k].cksum) <=> (k = 1 \/ r[k - 1].cksum # r[k].cksum)
        BY <4>1
      <4>5. CountedIn(s, f[k - 1], k) = CountedIn(r, g[k - 1], k)
        BY <3>1, <4>1, <4>4 DEF CountedIn, OneMore
      <4> QED BY <4>2, <4>3, <4>5
    <3>2. f[0] = g[0]
      BY <2>3, <2>4
    <3> QED BY <3>1, <3>2, RowsAgree, Zenon
  <2>6. n + 1 \in 1 .. n + 1 /\ (n + 1) - 1 = n
    OBVIOUS
  <2>7. g[n + 1] = CountedIn(r, g[n], n + 1)
    BY <2>4, <2>6
  <2>8. (n + 1 = 1 \/ r[(n + 1) - 1].cksum # r[n + 1].cksum) <=> (Len(s) = 0 \/ s[Len(s)].cksum # e.cksum)
    <3>1. n # 0 => n \in 1 .. n
      OBVIOUS
    <3>2. n + 1 = 1 <=> n = 0
      OBVIOUS
    <3> QED BY <2>1, <2>2, <2>6, <3>1, <3>2
  <2>9. CountedIn(r, g[n], n + 1) = OneMore(f[n], e, Len(s) = 0 \/ s[Len(s)].cksum # e.cksum)
    BY <2>2, <2>5, <2>8 DEF CountedIn, OneMore
  <2> QED BY <2>2, <2>3, <2>4, <2>7, <2>9
<1> QED BY <1>1, <1>2, <1>3

\* What one has of each content: the size of a block of it.
OneOfEach(z, s) ==
  /\ z \in [Contents(s) -> Nat]
  /\ \A c \in Contents(s) : \E b \in Range(s) : b.cksum = c /\ z[c] = b.size

\* The counts of a bin are those of its blocks, but for the wraps.
HasCounts(bin, s) ==
  /\ bin.num_blocks = Len(s) % CounterSize
  /\ bin.size = TotalSize(s) % CounterSize
  /\ bin.num_dedup_blocks = Cardinality(Contents(s)) % CounterSize
  /\ \E z : OneOfEach(z, s) /\ SumFunction(z) <= TotalSize(s) /\ bin.dedup_size = SumFunction(z) % CounterSize

LEMMA ContentsAreFinite ==
  ASSUME NEW s \in Seq(Block)
  PROVE  IsFiniteSet(Contents(s)) /\ Contents(s) = {b.cksum : b \in Range(s)}
<1>1. PICK l \in Nat : l = Len(s) /\ DOMAIN s = 1 .. l
  BY LenProperties
<1> DEFINE f == [k \in 1 .. l |-> s[k].cksum]
<1>2. Contents(s) = {f[k] : k \in 1 .. l}
  BY <1>1 DEF Contents
<1>3. IsFiniteSet(1 .. l)
  BY FS_Interval
<1>4. IsFiniteSet(Contents(s))
  <2>1. f \in [1 .. l -> Contents(s)] /\ \A c \in Contents(s) : \E k \in 1 .. l : f[k] = c
    BY <1>2
  <2>2. f \in Surjection(1 .. l, Contents(s))
    BY <2>1 DEF Surjection
  <2> QED BY <1>3, <2>2, FS_Surjection
<1>5. Contents(s) = {b.cksum : b \in Range(s)}
  BY DEF Contents, Range
<1> QED BY <1>4, <1>5

\* Of sorted blocks one is new if it does not equal the last.
LEMMA NewAmongSorted ==
  ASSUME NEW s \in Seq(Block), NEW e \in Block, Sorted(Append(s, e))
  PROVE  /\ Sorted(s)
         /\ (Len(s) = 0 \/ s[Len(s)].cksum # e.cksum) <=> e.cksum \notin Contents(s)
<1>1. PICK l \in Nat : l = Len(s) /\ DOMAIN s = 1 .. l
  BY LenProperties
<1>2. PICK r \in Seq(Block) : /\ r = Append(s, e) /\ DOMAIN r = 1 .. l + 1
                              /\ r[l + 1] = e /\ \A k \in 1 .. l : r[k] = s[k]
  <2>1. /\ Append(s, e) \in Seq(Block) /\ Len(Append(s, e)) = l + 1 /\ Append(s, e)[l + 1] = e
        /\ \A k \in 1 .. l : Append(s, e)[k] = s[k]
    BY <1>1, AppendProperties
  <2> QED BY <2>1, LenProperties
<1>3. \A j, k \in 1 .. l + 1 : j < k => r[j].cksum <= r[k].cksum
  BY <1>2 DEF Sorted
<1>4. \A k \in 1 .. l : k \in 1 .. l + 1 /\ k < l + 1
  OBVIOUS
<1>5. \A j, k \in 1 .. l : j < k => s[j].cksum <= s[k].cksum
  BY <1>2, <1>3, <1>4
<1>6. \A k \in 1 .. l : s[k].cksum <= e.cksum
  <2>1. l + 1 \in 1 .. l + 1
    OBVIOUS
  <2> QED BY <1>2, <1>3, <1>4, <2>1
<1>7. e.cksum \in Int /\ \A k \in 1 .. l : s[k].cksum \in Int
  <2>1. \A k \in 1 .. l : s[k] \in Block
    BY <1>1
  <2> QED BY <2>1 DEF Block
<1>8. ASSUME l # 0, s[l].cksum # e.cksum, NEW k \in 1 .. l PROVE s[k].cksum # e.cksum
  <2>1. l \in 1 .. l
    BY <1>8
  <2>2. s[l].cksum < e.cksum
    BY <1>6, <1>7, <1>8, <2>1
  <2>3. s[k].cksum <= s[l].cksum
    <3>1. k < l \/ k = l
      OBVIOUS
    <3> QED BY <1>5, <1>7, <2>1, <3>1
  <2> QED BY <1>7, <2>1, <2>2, <2>3
<1>9. ASSUME l # 0, s[l].cksum = e.cksum PROVE e.cksum \in Contents(s)
  <2>1. l \in DOMAIN s
    BY <1>1, <1>9
  <2> QED BY <1>9, <2>1 DEF Contents
<1>10. l = 0 => Contents(s) = {}
  BY <1>1 DEF Contents
<1>11. (l # 0 /\ s[l].cksum # e.cksum) => e.cksum \notin Contents(s)
  BY <1>1, <1>8 DEF Contents
<1>12. Sorted(s)
  BY <1>1, <1>5 DEF Sorted
<1> QED BY <1>1, <1>9, <1>10, <1>11, <1>12

\* One more content.
LEMMA OneOfEachMore ==
  ASSUME NEW s \in Seq(Block), NEW e \in Block, NEW z, OneOfEach(z, s), NEW r \in Seq(Block), r = Append(s, e)
  PROVE  /\ e.cksum \in Contents(s) => OneOfEach(z, r)
         /\ e.cksum \notin Contents(s) => \E y : OneOfEach(y, r) /\ SumFunction(y) = SumFunction(z) + e.size
<1>1. Range(r) = Range(s) \union {e}
  BY RangeOfAppend
<1>2. Contents(r) = Contents(s) \union {e.cksum}
  BY <1>1, ContentsAreFinite
<1>3. CASE e.cksum \in Contents(s)
  <2>1. Contents(r) = Contents(s)
    BY <1>2, <1>3
  <2> QED BY <1>1, <1>3, <2>1 DEF OneOfEach
<1>4. CASE e.cksum \notin Contents(s)
  <2> DEFINE y == [c \in Contents(s) \union {e.cksum} |-> IF c = e.cksum THEN e.size ELSE z[c]]
  <2>1. e.size \in Nat
    BY DEF Block
  <2>2. y \in [Contents(r) -> Nat] /\ y[e.cksum] = e.size /\ \A c \in Contents(s) : y[c] = z[c]
    BY <1>2, <1>4, <2>1 DEF OneOfEach
  <2>3. [c \in Contents(s) |-> y[c]] = z
    BY <2>2 DEF OneOfEach
  <2> HIDE DEF y
  <2>4. SumFunction(y) = SumFunction(z) + e.size
    <3>1. y \in [Contents(s) \union {e.cksum} -> Int]
      BY <1>2, <2>2
    <3>2. IsFiniteSet(Contents(s))
      BY ContentsAreFinite
    <3>3. SumFunction(y) = SumFunction([c \in Contents(s) |-> y[c]]) + y[e.cksum]
      BY <1>4, <3>1, <3>2, SumOfOneMore
    <3> QED BY <2>2, <2>3, <3>3
  <2>5. OneOfEach(y, r)
    BY <1>1, <1>2, <2>2 DEF OneOfEach
  <2> QED BY <1>4, <2>4, <2>5
<1> QED BY <1>3, <1>4

LEMMA AddToCount ==
  ASSUME NEW m \in Nat, NEW n \in Nat
  PROVE  Plus(m % CounterSize, n) = (m + n) % CounterSize
  BY BinningAssumption, AddRemainder DEF Plus

\* So the counts of sorted blocks are right.
LEMMA CountsAreRight ==
  ASSUME NEW s \in Seq(Block), Sorted(s)
  PROVE  HasCounts(CountedBin(s), s)
<1> DEFINE P == {u \in Seq(Block) : Sorted(u) => HasCounts(CountedBin(u), u)}
<1>1. <<>> \in P
  <2>1. <<>> \in Seq(Block) /\ Len(<<>>) = 0 /\ TotalSize(<<>>) = 0 /\ CountedBin(<<>>) = EmptyBin
    BY EmptySeq, TotalSizeOfAppend, CountedOfAppend
  <2>2. Contents(<<>>) = {} /\ Cardinality({}) = 0
    BY FS_EmptySet DEF Contents
  <2>3. 0 % CounterSize = 0
    BY BinningAssumption
  <2>4. PICK z : z \in [{} -> Nat]
    <3>1. [c \in {} |-> 0] \in [{} -> Nat]
      OBVIOUS
    <3> QED BY <3>1
  <2>5. OneOfEach(z, <<>>) /\ SumFunction(z) = 0
    <3>1. z \in [{} -> Int] /\ DOMAIN z = {}
      BY <2>4
    <3>2. SumFunction(z) = 0
      BY <3>1, SumOfNothing
    <3>3. \A c \in Contents(<<>>) : \E b \in Range(<<>>) : b.cksum = c /\ z[c] = b.size
      BY <2>2
    <3>4. z \in [Contents(<<>>) -> Nat]
      BY <2>2, <2>4, Zenon
    <3> QED BY <3>2, <3>3, <3>4, Zenon DEF OneOfEach
  <2>6. PICK u \in Seq(Block) : u = <<>>
    BY <2>1
  <2>7. /\ Len(u) = 0 /\ TotalSize(u) = 0 /\ CountedBin(u) = EmptyBin /\ Cardinality(Contents(u)) = 0
        /\ OneOfEach(z, u) /\ SumFunction(z) = 0
    BY <2>1, <2>2, <2>5, <2>6
  <2>8. HasCounts(CountedBin(u), u)
    BY <2>3, <2>7 DEF HasCounts, EmptyBin
  <2> QED BY <2>6, <2>8
<1>2. ASSUME NEW u \in Seq(Block), NEW e \in Block, u \in P PROVE Append(u, e) \in P
  <2>1. PICK r \in Seq(Block) : r = Append(u, e) /\ Len(r) = Len(u) + 1
    BY AppendProperties
  <2> SUFFICES ASSUME Sorted(r) PROVE HasCounts(CountedBin(r), r)
    BY <2>1
  <2>2. Sorted(u) /\ ((Len(u) = 0 \/ u[Len(u)].cksum # e.cksum) <=> e.cksum \notin Contents(u))
    BY <2>1, NewAmongSorted
  <2>3. PICK bin \in BinCounts : bin = CountedBin(u) /\ HasCounts(bin, u)
    BY <1>2, <2>2, CountedOfAppend
  <2>4. PICK new \in BOOLEAN : new <=> e.cksum \notin Contents(u)
    OBVIOUS
  <2>5. CountedBin(r) = OneMore(bin, e, new)
    <3>1. CountedBin(r) = OneMore(bin, e, Len(u) = 0 \/ u[Len(u)].cksum # e.cksum)
      BY <2>1, <2>3, CountedOfAppend
    <3> QED BY <2>2, <2>4, <3>1 DEF OneMore
  <2>6. PICK z : OneOfEach(z, u) /\ SumFunction(z) <= TotalSize(u) /\ bin.dedup_size = SumFunction(z) % CounterSize
    BY <2>3 DEF HasCounts
  <2>7. SumFunction(z) \in Nat
    BY <2>6, ContentsAreFinite, SumOfNat DEF OneOfEach
  <2>8. /\ TotalSize(r) = TotalSize(u) + e.size /\ TotalSize(u) \in Nat /\ e.size \in Nat /\ Len(u) \in Nat
    BY <2>1, TotalSizeOfAppend, LenProperties DEF Block
  <2>9. PICK y : /\ OneOfEach(y, r)
                 /\ SumFunction(y) = IF new THEN SumFunction(z) + e.size ELSE SumFunction(z)
    BY <2>1, <2>4, <2>6, OneOfEachMore
  <2>10. SumFunction(y) <= TotalSize(r)
    BY <2>6, <2>7, <2>8, <2>9
  <2>11. CountedBin(r).dedup_size = SumFunction(y) % CounterSize
    <3>1. Plus(bin.dedup_size, e.size) = (SumFunction(z) + e.size) % CounterSize
      BY <2>6, <2>7, <2>8, AddToCount
    <3> QED BY <2>5, <2>6, <2>9, <3>1 DEF OneMore
  <2>12. Contents(r) = Contents(u) \union {e.cksum}
    <3>1. Range(r) = Range(u) \union {e}
      BY <2>1, RangeOfAppend
    <3> QED BY <3>1, ContentsAreFinite
  <2>13. CountedBin(r).num_dedup_blocks = Cardinality(Contents(r)) % CounterSize
    <3>1. IsFiniteSet(Contents(u)) /\ Cardinality(Contents(u)) \in Nat
      BY ContentsAreFinite, FS_CardinalityType
    <3>2. Cardinality(Contents(r)) = IF new THEN Cardinality(Contents(u)) + 1 ELSE Cardinality(Contents(u))
      BY <2>4, <2>12, <3>1, FS_AddElement
    <3>3. Plus(bin.num_dedup_blocks, 1) = (Cardinality(Contents(u)) + 1) % CounterSize
      BY <2>3, <3>1, AddToCount DEF HasCounts
    <3> QED BY <2>3, <2>5, <3>2, <3>3 DEF OneMore, HasCounts
  <2>14. CountedBin(r).num_blocks = Len(r) % CounterSize /\ CountedBin(r).size = TotalSize(r) % CounterSize
    <3>1. Plus(bin.num_blocks, 1) = (Len(u) + 1) % CounterSize /\ Plus(bin.size, e.size) = (TotalSize(u) + e.size) % CounterSize
      BY <2>3, <2>8, AddToCount DEF HasCounts
    <3> QED BY <2>1, <2>5, <2>8, <3>1 DEF OneMore
  <2> QED BY <2>9, <2>10, <2>11, <2>13, <2>14 DEF HasCounts
<1>3. \A u \in Seq(Block) : u \in P
  <2> HIDE DEF P
  <2> QED BY <1>1, <1>2, SeqIsInductive
<1> QED BY <1>3

\* Of the bin's blocks, in whatever order the sort leaves equal ones.
LEMMA DeduplicationIsRight ==
  ASSUME NEW s \in Seq(Block), NEW behind \in BOOLEAN
  PROVE  HasCounts(Deduplication(s, behind), s)
<1>1. PICK r \in Seq(Block) : r = SortedBlocks(s, behind) /\ Len(r) = Len(s) /\ TotalSize(r) = TotalSize(s)
                              /\ Range(r) = Range(s) /\ Sorted(r)
  BY SortedIs
<1>2. HasCounts(CountedBin(r), r)
  BY <1>1, CountsAreRight
<1>3. Deduplication(s, behind) = CountedBin(r)
  BY <1>1, DeduplicationIs
<1>4. Contents(r) = Contents(s)
  BY <1>1, ContentsAreFinite
<1> QED BY <1>1, <1>2, <1>3, <1>4 DEF HasCounts, OneOfEach

-----------------------------------------------------------------------------
(* The summary of eb_dedup and its bins *)

LEMMA SmallRemainder ==
  ASSUME NEW n \in Nat \ {0}, NEW a \in 0 .. n - 1
  PROVE  a % n = a
<1>1. PICK q \in Int : a % n \in 0 .. n - 1 /\ a = n * q + (a % n)
  <2>1. a \in Int
    OBVIOUS
  <2> QED BY <2>1, QuotientAndRemainder
<1>2. n * 0 + a = n * q + (a % n)
  BY <1>1
<1> QED BY <1>1, <1>2, OneRemainder

\* Only one of the terms of a sum grows, or one is added.
GrowsAt(g, f, S, m, v) ==
  /\ g \in [S \union {m} -> Int]
  /\ \A x \in S : x # m => g[x] = f[x]
  /\ g[m] = IF m \in S THEN f[m] + v ELSE v

LEMMA SumGrows ==
  ASSUME NEW S, IsFiniteSet(S), NEW f \in [S -> Int], NEW m, NEW v \in Int, NEW g, GrowsAt(g, f, S, m, v)
  PROVE  SumFunction(g) = SumFunction(f) + v
<1> USE DEF GrowsAt
<1> DEFINE T == S \ {m}
           h == [x \in T |-> f[x]]
<1>1. IsFiniteSet(T) /\ m \notin T
  BY FS_RemoveElement
<1>2. T \union {m} = S \union {m}
  OBVIOUS
<1>3. h = [x \in T |-> g[x]] /\ h \in [T -> Int]
  OBVIOUS
<1>4. g \in [T \union {m} -> Int]
  BY <1>2
<1> HIDE DEF T, h
<1>5. SumFunction(g) = SumFunction(h) + g[m]
  BY <1>1, <1>3, <1>4, SumOfOneMore
<1>6. SumFunction(h) \in Int
  BY <1>1, <1>3, SumIsInt
<1>7. CASE m \in S
  <2>1. f \in [T \union {m} -> Int] /\ f[m] \in Int
    BY <1>7 DEF T
  <2>2. SumFunction(f) = SumFunction(h) + f[m]
    BY <1>1, <2>1, SumOfOneMore DEF h
  <2> QED BY <1>5, <1>6, <1>7, <2>1, <2>2
<1>8. CASE m \notin S
  <2>1. f = h
    BY <1>8 DEF T, h
  <2> QED BY <1>5, <1>8, <2>1
<1> QED BY <1>7, <1>8

\* A sum is not less than any of its terms.
LEMMA TermOfSum ==
  ASSUME NEW S, IsFiniteSet(S), NEW f \in [S -> Nat], NEW x \in S
  PROVE  f[x] <= SumFunction(f)
<1> DEFINE T == S \ {x}
           h == [y \in T |-> f[y]]
<1>1. IsFiniteSet(T) /\ x \notin T
  BY FS_RemoveElement
<1>2. f \in [T \union {x} -> Int] /\ h \in [T -> Nat] /\ f[x] \in Nat
  <2>1. T \union {x} = S
    OBVIOUS
  <2> QED BY <2>1
<1> HIDE DEF T
<1>3. SumFunction(f) = SumFunction(h) + f[x]
  BY <1>1, <1>2, SumOfOneMore
<1> HIDE DEF h
<1>4. SumFunction(h) \in Nat
  BY <1>1, <1>2, SumOfNat
<1> QED BY <1>2, <1>3, <1>4

\* A sum of remainders is the sum, but for the remainder.
LEMMA SumOfRemainders ==
  ASSUME NEW S, IsFiniteSet(S), NEW f \in [S -> Int], NEW g \in [S -> Int], NEW n \in Nat \ {0},
         \A x \in S : g[x] = f[x] % n
  PROVE  SumFunction(g) % n = SumFunction(f) % n
<1>1. PICK a \in [SUBSET S -> Int] : AddsUp(a, f, S) /\ PartSums(a, f, S)
  BY SumOfParts
<1>2. PICK b \in [SUBSET S -> Int] : AddsUp(b, g, S) /\ PartSums(b, g, S)
  BY SumOfParts
<1> DEFINE C == {t \in SUBSET S : b[t] % n = a[t] % n}
<1>3. {} \in C
  <2>1. b[{}] = a[{}]
    BY <1>1, <1>2 DEF AddsUp
  <2> QED BY <2>1
<1>4. ASSUME NEW t \in SUBSET S, NEW x \in S, t \in C, x \notin t PROVE t \union {x} \in C
  <2>1. PICK k \in Int, l \in Int, u \in Int : k = a[t] /\ l = b[t] /\ u = f[x]
    OBVIOUS
  <2>2. a[t \union {x}] = k + u /\ b[t \union {x}] = l + (u % n)
    BY <1>1, <1>2, <1>4, <2>1 DEF AddsUp
  <2>3. l % n = k % n
    BY <1>4, <2>1
  <2>4. (l + (u % n)) % n = (k + u) % n
    <3>1. PICK r \in Int : r = u % n
      <4>1. u % n \in 0 .. n - 1
        BY QuotientAndRemainder
      <4> QED BY <4>1
    <3>2. (r + l) % n = (u + l) % n /\ ((l % n) + u) % n = (l + u) % n /\ ((k % n) + u) % n = (k + u) % n
      BY <3>1, AddRemainder
    <3>3. l + r = r + l /\ u + l = l + u
      OBVIOUS
    <3> QED BY <2>3, <3>1, <3>2, <3>3
  <2> QED BY <2>2, <2>4
<1>5. S \in C
  <2> HIDE DEF C
  <2>1. \A t \in SUBSET S : t \in C
    BY <1>3, <1>4, FiniteIsInductive
  <2> QED BY <2>1
<1>6. SumFunction(f) = a[S] /\ SumFunction(g) = b[S]
  <2>1. [x \in S |-> f[x]] = f /\ [x \in S |-> g[x]] = g
    OBVIOUS
  <2> QED BY <1>1, <1>2, <2>1 DEF PartSums
<1> QED BY <1>5, <1>6

BinSizes(bins) == [m \in DOMAIN bins |-> TotalSize(bins[m].blocklist)]

BinBlocks(bins) == [m \in DOMAIN bins |-> Len(bins[m].blocklist)]

LEMMA BinSumsTypes ==
  ASSUME NEW bins, bins \in [DOMAIN bins -> Bin], IsFiniteSet(DOMAIN bins)
  PROVE  /\ BinSizes(bins) \in [DOMAIN bins -> Nat] /\ BinBlocks(bins) \in [DOMAIN bins -> Nat]
         /\ SumFunction(BinSizes(bins)) \in Nat /\ SumFunction(BinBlocks(bins)) \in Nat
<1>1. \A m \in DOMAIN bins : TotalSize(bins[m].blocklist) \in Nat /\ Len(bins[m].blocklist) \in Nat
  <2> SUFFICES ASSUME NEW m \in DOMAIN bins
               PROVE  TotalSize(bins[m].blocklist) \in Nat /\ Len(bins[m].blocklist) \in Nat
    OBVIOUS
  <2>1. bins[m].blocklist \in Seq(Block)
    BY DEF Bin
  <2> QED BY <2>1, TotalSizeOfAppend, LenProperties
<1>2. BinSizes(bins) \in [DOMAIN bins -> Nat] /\ BinBlocks(bins) \in [DOMAIN bins -> Nat]
  BY <1>1 DEF BinSizes, BinBlocks
<1>3. \A S, v : IsFiniteSet(S) /\ v \in [S -> Nat] => SumFunction(v) \in Nat
  BY SumOfNat
<1> QED BY <1>2, <1>3

\* What a segment adds to the sums.
LEMMA BinSumsGrow ==
  ASSUME NEW bins, bins \in [DOMAIN bins -> Bin], IsFiniteSet(DOMAIN bins), NEW seg \in Seq(Block),
         NEW m, NEW new, new = AddToBin(bins, m, seg)
  PROVE  /\ SumFunction(BinSizes(new)) = SumFunction(BinSizes(bins)) + TotalSize(seg)
         /\ SumFunction(BinBlocks(new)) = SumFunction(BinBlocks(bins)) + Len(seg)
<1>1. IsWithSegment(new, bins, seg, m)
  BY AddToBinIs
<1>2. /\ DOMAIN new = DOMAIN bins \union {m} /\ IsFiniteSet(DOMAIN new) /\ new \in [DOMAIN new -> Bin]
      /\ \A h \in DOMAIN bins : h # m => new[h] = bins[h]
      /\ new[m] = IF m \in DOMAIN bins
                    THEN [num_segments |-> (bins[m].num_segments + 1) % CounterSize,
                          blocklist |-> bins[m].blocklist \o seg]
                    ELSE [num_segments |-> 1 % CounterSize, blocklist |-> seg]
  BY <1>1 DEF IsWithSegment
<1>3. new[m].blocklist = IF m \in DOMAIN bins THEN bins[m].blocklist \o seg ELSE seg
  BY <1>2
<1>4. TotalSize(seg) \in Int /\ Len(seg) \in Int
  BY TotalSizeOfAppend, LenProperties
<1>5. m \in DOMAIN bins => bins[m].blocklist \in Seq(Block)
  BY DEF Bin
<1>6. /\ BinSizes(new)[m] = IF m \in DOMAIN bins THEN BinSizes(bins)[m] + TotalSize(seg) ELSE TotalSize(seg)
      /\ \A h \in DOMAIN bins : h # m => BinSizes(new)[h] = BinSizes(bins)[h]
  <2>1. m \in DOMAIN bins => TotalSize(bins[m].blocklist \o seg) = TotalSize(bins[m].blocklist) + TotalSize(seg)
    BY <1>5, TotalSizeOfConcat
  <2> QED BY <1>2, <1>3, <2>1 DEF BinSizes
<1>7. /\ BinBlocks(new)[m] = IF m \in DOMAIN bins THEN BinBlocks(bins)[m] + Len(seg) ELSE Len(seg)
      /\ \A h \in DOMAIN bins : h # m => BinBlocks(new)[h] = BinBlocks(bins)[h]
  <2>1. m \in DOMAIN bins => Len(bins[m].blocklist \o seg) = Len(bins[m].blocklist) + Len(seg)
    BY <1>5, ConcatProperties
  <2> QED BY <1>2, <1>3, <2>1 DEF BinBlocks
<1>8. /\ BinSizes(bins) \in [DOMAIN bins -> Int] /\ BinBlocks(bins) \in [DOMAIN bins -> Int]
      /\ BinSizes(new) \in [DOMAIN bins \union {m} -> Int] /\ BinBlocks(new) \in [DOMAIN bins \union {m} -> Int]
  <2>1. BinSizes(bins) \in [DOMAIN bins -> Nat] /\ BinBlocks(bins) \in [DOMAIN bins -> Nat]
    BY BinSumsTypes
  <2>2. BinSizes(new) \in [DOMAIN new -> Nat] /\ BinBlocks(new) \in [DOMAIN new -> Nat]
    BY <1>2, BinSumsTypes
  <2> QED BY <1>2, <2>1, <2>2
<1>9. SumFunction(BinSizes(new)) = SumFunction(BinSizes(bins)) + TotalSize(seg)
  <2>1. PICK f \in [DOMAIN bins -> Int], g \in [DOMAIN bins \union {m} -> Int], v \in Int :
          f = BinSizes(bins) /\ g = BinSizes(new) /\ v = TotalSize(seg)
    BY <1>4, <1>8
  <2>2. GrowsAt(g, f, DOMAIN bins, m, v)
    BY <1>6, <2>1 DEF GrowsAt
  <2> QED BY <2>1, <2>2, SumGrows
<1>10. SumFunction(BinBlocks(new)) = SumFunction(BinBlocks(bins)) + Len(seg)
  <2>1. PICK f \in [DOMAIN bins -> Int], g \in [DOMAIN bins \union {m} -> Int], v \in Int :
          f = BinBlocks(bins) /\ g = BinBlocks(new) /\ v = Len(seg)
    BY <1>4, <1>8
  <2>2. GrowsAt(g, f, DOMAIN bins, m, v)
    BY <1>7, <2>1 DEF GrowsAt
  <2> QED BY <2>1, <2>2, SumGrows
<1> QED BY <1>9, <1>10

\* What has been read is what is in the bins.
ReadInv ==
  program \in {"read", "bins"} =>
    bytes = SumFunction(BinSizes(binmap)) /\ blocks = SumFunction(BinBlocks(binmap))

LEMMA ReadStays ==
  ASSUME BinningTypes, ReadInv, program = "read", program' = "read", NEW seg \in Seq(Block),
         NEW m, binmap' = AddToBin(binmap, m, seg), blocks' = blocks + Len(seg), bytes' = bytes + TotalSize(seg)
  PROVE  ReadInv'
<1>1. binmap \in [DOMAIN binmap -> Bin] /\ IsFiniteSet(DOMAIN binmap)
  BY DEF BinningTypes
<1>2. PICK new : new = AddToBin(binmap, m, seg)
  OBVIOUS
<1>3. /\ SumFunction(BinSizes(new)) = SumFunction(BinSizes(binmap)) + TotalSize(seg)
      /\ SumFunction(BinBlocks(new)) = SumFunction(BinBlocks(binmap)) + Len(seg)
  BY <1>1, <1>2, BinSumsGrow
<1>4. bytes' = SumFunction(BinSizes(new)) /\ blocks' = SumFunction(BinBlocks(new))
  BY <1>3 DEF ReadInv
<1>5. BinSizes(binmap)' = BinSizes(new) /\ BinBlocks(binmap)' = BinBlocks(new)
  BY <1>2 DEF BinSizes, BinBlocks
<1> QED BY <1>4, <1>5 DEF ReadInv

LEMMA ReadStep == BinningTypes /\ ReadInv /\ [BinningNext]_binningVars => ReadInv'
<1> SUFFICES ASSUME BinningTypes, ReadInv, [BinningNext]_binningVars PROVE ReadInv'
  OBVIOUS
<1>1. CASE OpenFile
  <2>1. bytes' = 0 /\ blocks' = 0 /\ binmap' = <<>>
    BY <1>1 DEF OpenFile
  <2>2. DOMAIN BinSizes(<<>>) = {} /\ DOMAIN BinBlocks(<<>>) = {}
        /\ BinSizes(<<>>) \in [{} -> Int] /\ BinBlocks(<<>>) \in [{} -> Int]
    BY DEF BinSizes, BinBlocks
  <2>3. SumFunction(BinSizes(<<>>)) = 0 /\ SumFunction(BinBlocks(<<>>)) = 0
    BY <2>2, SumOfNothing
  <2>4. BinSizes(binmap)' = BinSizes(<<>>) /\ BinBlocks(binmap)' = BinBlocks(<<>>)
    BY <2>1 DEF BinSizes, BinBlocks
  <2> QED BY <2>1, <2>3, <2>4 DEF ReadInv
<1>2. CASE ReadSegment
  <2>1. Head(rest) \in Item
    BY <1>2, HeadTailProperties DEF BinningTypes, ReadSegment
  <2>2. Head(rest).blocks \in Seq(Block)
    BY <2>1 DEF Item
  <2> QED BY <1>2, <2>2, ReadStays DEF ReadSegment
<1>3. CASE ReadMisread
  <2> PICK seg \in Seq(Block) : \E m : /\ binmap' = AddToBin(binmap, m, seg)
                                       /\ blocks' = blocks + Len(seg)
                                       /\ bytes' = bytes + TotalSize(seg)
    BY <1>3, MisreadIs
  <2>1. PICK m : binmap' = AddToBin(binmap, m, seg) /\ blocks' = blocks + Len(seg) /\ bytes' = bytes + TotalSize(seg)
    OBVIOUS
  <2>2. program = "read" /\ program' = "read"
    BY <1>3 DEF ReadMisread
  <2> QED BY <2>1, <2>2, ReadStays
<1>4. CASE EndOfFile \/ UNCHANGED binningVars
  <2>1. binmap' = binmap /\ bytes' = bytes /\ blocks' = blocks /\ program' \in {program, "bins"}
        /\ (EndOfFile => program = "read") /\ (UNCHANGED binningVars => program' = program)
    BY <1>4 DEF EndOfFile, binningVars, summary, dedupVars
  <2> QED BY <1>4, <2>1 DEF ReadInv, BinSizes, BinBlocks
<1>5. CASE program' \notin {"read", "bins"}
  BY <1>5 DEF ReadInv
<1>6. OpenLog \/ StoreSegment \/ CloseLog \/ KillSegmenting \/ PrintBins => program' \notin {"read", "bins"}
  BY DEF OpenLog, StoreSegment, CloseLog, KillSegmenting, PrintBins
<1> QED BY <1>1, <1>2, <1>3, <1>4, <1>5, <1>6 DEF BinningNext

\* A bin that is printed right.
LEMMA PrintedBinIsRight ==
  ASSUME NEW s \in Seq(Block), NEW bin, HasCounts(bin, s), TotalSize(s) < CounterSize
  PROVE  bin.dedup_size <= bin.size
<1>1. PICK z : OneOfEach(z, s) /\ SumFunction(z) <= TotalSize(s) /\ bin.dedup_size = SumFunction(z) % CounterSize
  BY DEF HasCounts
<1>2. SumFunction(z) \in Nat
  BY <1>1, ContentsAreFinite, SumOfNat DEF OneOfEach
<1>3. TotalSize(s) \in 0 .. CounterSize - 1 /\ SumFunction(z) \in 0 .. CounterSize - 1
  BY <1>1, <1>2, TotalSizeOfAppend, BinningAssumption
<1>4. TotalSize(s) % CounterSize = TotalSize(s) /\ SumFunction(z) % CounterSize = SumFunction(z)
  BY <1>3, BinningAssumption, SmallRemainder
<1> QED BY <1>1, <1>4 DEF HasCounts

SummaryOf(p) ==
  LET bins == printed[p].bins
  IN  /\ printed[p].bytes % CounterSize =
           SumFunction([m \in DOMAIN bins |-> bins[m].size]) % CounterSize
      /\ printed[p].blocks % CounterSize =
           SumFunction([m \in DOMAIN bins |-> bins[m].num_blocks]) % CounterSize
      /\ printed[p].bytes < CounterSize =>
           \A m \in DOMAIN bins : bins[m].dedup_size <= bins[m].size

LEMMA SummaryPrinted ==
  ASSUME BinningTypes, ReadInv, SummaryIsSumOfBins, PrintBins
  PROVE  SummaryIsSumOfBins'
<1>1. SummaryIsSumOfBins' = \A p \in DOMAIN printed' : SummaryOf(p)'
  BY DEF SummaryIsSumOfBins, SummaryOf
<1>2. PICK behind \in BOOLEAN :
        printed' = [p \in DOMAIN printed \union {part} |->
          IF p # part THEN printed[p]
          ELSE [blocks |-> blocks, bytes |-> bytes,
                segments |-> [m \in DOMAIN binmap |-> binmap[m].num_segments],
                bins  |-> [m \in DOMAIN binmap |-> Deduplication(binmap[m].blocklist, behind)]]]
  BY DEF PrintBins
<1>3. DOMAIN printed' = DOMAIN printed \union {part}
  BY <1>2
<1>4. ASSUME NEW p \in DOMAIN printed, p # part PROVE SummaryOf(p)'
  <2>1. printed'[p] = printed[p]
    BY <1>2, <1>4
  <2>2. SummaryOf(p)
    BY DEF SummaryIsSumOfBins, SummaryOf
  <2> QED BY <2>1, <2>2 DEF SummaryOf
<1>5. ASSUME NEW p, p = part PROVE SummaryOf(p)'
  <2> DEFINE D == DOMAIN binmap
             bins == [m \in D |-> Deduplication(binmap[m].blocklist, behind)]
             sizes == [m \in D |-> bins[m].size]
             counts == [m \in D |-> bins[m].num_blocks]
  <2>1. PICK q : /\ q = printed'[p]
                 /\ q.bytes = bytes /\ q.blocks = blocks /\ q.bins = bins
    <3>1. printed'[p] = [blocks |-> blocks, bytes |-> bytes,
                         segments |-> [m \in DOMAIN binmap |-> binmap[m].num_segments],
                         bins  |-> bins]
      BY <1>2, <1>5
    <3> QED BY <3>1
  <2>2. binmap \in [D -> Bin] /\ IsFiniteSet(D)
    BY DEF BinningTypes
  <2>3. \A m \in D : binmap[m].blocklist \in Seq(Block)
    BY <2>2 DEF Bin
  <2>4. \A m \in D : HasCounts(bins[m], binmap[m].blocklist)
    BY <2>3, DeduplicationIsRight
  <2>5. CounterSize \in Nat \ {0}
    BY BinningAssumption
  <2>6. /\ BinSizes(binmap) \in [D -> Nat] /\ BinBlocks(binmap) \in [D -> Nat]
        /\ SumFunction(BinSizes(binmap)) \in Nat /\ SumFunction(BinBlocks(binmap)) \in Nat
    BY <2>2, BinSumsTypes
  <2>7. bytes = SumFunction(BinSizes(binmap)) /\ blocks = SumFunction(BinBlocks(binmap))
    BY DEF ReadInv, PrintBins
  <2>8. /\ \A m \in D : sizes[m] = BinSizes(binmap)[m] % CounterSize
        /\ \A m \in D : counts[m] = BinBlocks(binmap)[m] % CounterSize
    BY <2>4 DEF HasCounts, BinSizes, BinBlocks
  <2>9. sizes \in [D -> Int] /\ counts \in [D -> Int]
    <3>1. \A m \in D : BinSizes(binmap)[m] % CounterSize \in Int /\ BinBlocks(binmap)[m] % CounterSize \in Int
      <4> SUFFICES ASSUME NEW m \in D
                   PROVE  BinSizes(binmap)[m] % CounterSize \in Int /\ BinBlocks(binmap)[m] % CounterSize \in Int
        OBVIOUS
      <4>1. PICK u \in Int, v \in Int : u = BinSizes(binmap)[m] /\ v = BinBlocks(binmap)[m]
        BY <2>6
      <4>2. u % CounterSize \in 0 .. CounterSize - 1 /\ v % CounterSize \in 0 .. CounterSize - 1
        BY <2>5, QuotientAndRemainder
      <4> QED BY <4>1, <4>2
    <3> QED BY <2>8, <3>1
  <2> HIDE DEF sizes, counts, D
  <2>10. SumFunction(sizes) % CounterSize = bytes % CounterSize
    <3>1. BinSizes(binmap) \in [D -> Int]
      BY <2>6
    <3> QED BY <2>2, <2>5, <2>7, <2>8, <2>9, <3>1, SumOfRemainders
  <2>11. SumFunction(counts) % CounterSize = blocks % CounterSize
    <3>1. BinBlocks(binmap) \in [D -> Int]
      BY <2>6
    <3> QED BY <2>2, <2>5, <2>7, <2>8, <2>9, <3>1, SumOfRemainders
  <2>12. ASSUME bytes < CounterSize, NEW m \in D PROVE bins[m].dedup_size <= bins[m].size
    <3>1. BinSizes(binmap)[m] <= bytes
      BY <2>2, <2>6, <2>7, TermOfSum
    <3>2. TotalSize(binmap[m].blocklist) = BinSizes(binmap)[m] /\ BinSizes(binmap)[m] \in Nat
      BY <2>6 DEF BinSizes, D
    <3>3. bytes \in Nat
      BY <2>6, <2>7
    <3>4. TotalSize(binmap[m].blocklist) < CounterSize
      BY <2>5, <2>12, <3>1, <3>2, <3>3
    <3>5. PICK s \in Seq(Block) : s = binmap[m].blocklist /\ HasCounts(bins[m], s)
      BY <2>3, <2>4
    <3> QED BY <3>4, <3>5, PrintedBinIsRight
  <2>13. DOMAIN bins = D
    OBVIOUS
  <2>14. [m \in DOMAIN q.bins |-> q.bins[m].size] = sizes /\ [m \in DOMAIN q.bins |-> q.bins[m].num_blocks] = counts
    BY <2>1, <2>13 DEF sizes, counts
  <2>15. \A m \in DOMAIN q.bins : q.bytes < CounterSize => q.bins[m].dedup_size <= q.bins[m].size
    BY <2>1, <2>12, <2>13
  <2> QED BY <2>1, <2>10, <2>11, <2>14, <2>15 DEF SummaryOf
<1> QED BY <1>1, <1>3, <1>4, <1>5

LEMMA SummaryStep == BinningTypes /\ ReadInv /\ SummaryIsSumOfBins /\ [BinningNext]_binningVars => SummaryIsSumOfBins'
<1> SUFFICES ASSUME BinningTypes, ReadInv, SummaryIsSumOfBins, [BinningNext]_binningVars PROVE SummaryIsSumOfBins'
  OBVIOUS
<1>1. CASE PrintBins
  BY <1>1, SummaryPrinted
<1>2. CASE printed' = <<>>
  BY <1>2 DEF SummaryIsSumOfBins
<1>3. CASE printed' = printed
  BY <1>3 DEF SummaryIsSumOfBins
<1>4. OpenLog => printed' = <<>>
  BY DEF OpenLog
<1>5. (StoreSegment \/ CloseLog \/ KillSegmenting \/ OpenFile \/ ReadSegment \/ ReadMisread \/ EndOfFile
        \/ UNCHANGED binningVars)
          => printed' = printed
  BY DEF StoreSegment, CloseLog, KillSegmenting, OpenFile, ReadSegment, ReadMisread, EndOfFile, binningVars
<1> QED BY <1>1, <1>2, <1>3, <1>4, <1>5 DEF BinningNext

\* Whatever a file holds, the summary of eb_dedup is the sum of its bins but
\* for the wraps of their counters, and where it shows that none has wrapped,
\* no bin has more new bytes than bytes.
THEOREM SummaryAgreesWithBins == BinningSpec => []SummaryIsSumOfBins
<1>1. BinningInit => ReadInv /\ SummaryIsSumOfBins
  BY DEF BinningInit, ReadInv, SummaryIsSumOfBins
<1> QED BY <1>1, BinningTypesInit, BinningTypesStep, ReadStep, SummaryStep, PTL DEF BinningSpec

-----------------------------------------------------------------------------
(* Weights of segments *)

\* What some segments weigh together.  Weights of all kinds say how often a
\* segment is there, and how many segments, blocks and bytes a bin has.
Weight(segs, w) == SumFunction([k \in DOMAIN segs |-> w[segs[k]]])

LEMMA WeightOfAppend ==
  ASSUME NEW w \in [GoodSegment -> Nat]
  PROVE  /\ Weight(<<>>, w) = 0
         /\ \A s \in Seq(GoodSegment) : Weight(s, w) \in Nat
         /\ \A s \in Seq(GoodSegment), e \in GoodSegment : Weight(Append(s, e), w) = Weight(s, w) + w[e]
<1>1. Weight(<<>>, w) = 0
  <2> DEFINE f == [k \in DOMAIN <<>> |-> w[<<>>[k]]]
  <2>1. DOMAIN f = {} /\ f \in [{} -> Int]
    OBVIOUS
  <2> HIDE DEF f
  <2>2. SumFunction(f) = 0
    BY <2>1, SumOfNothing
  <2> QED BY <2>2 DEF Weight, f
<1>2. ASSUME NEW s \in Seq(GoodSegment) PROVE Weight(s, w) \in Nat
  <2> DEFINE f == [k \in DOMAIN s |-> w[s[k]]]
  <2>1. PICK n \in Nat : n = Len(s) /\ DOMAIN s = 1 .. n
    BY LenProperties
  <2>2. IsFiniteSet(1 .. n)
    BY FS_Interval
  <2>3. f \in [1 .. n -> Nat]
    BY <2>1
  <2> HIDE DEF f
  <2>4. SumFunction(f) \in Nat
    BY <2>2, <2>3, SumOfNat
  <2> QED BY <2>4 DEF Weight, f
<1>3. ASSUME NEW s \in Seq(GoodSegment), NEW e \in GoodSegment
      PROVE  Weight(Append(s, e), w) = Weight(s, w) + w[e]
  <2>1. PICK n \in Nat : n = Len(s) /\ DOMAIN s = 1 .. n
    BY LenProperties
  <2>2. PICK r \in Seq(GoodSegment) : /\ r = Append(s, e) /\ DOMAIN r = 1 .. n + 1
                                      /\ r[n + 1] = e /\ \A k \in 1 .. n : r[k] = s[k]
    <3>1. /\ Append(s, e) \in Seq(GoodSegment) /\ Len(Append(s, e)) = n + 1 /\ Append(s, e)[n + 1] = e
          /\ \A k \in 1 .. n : Append(s, e)[k] = s[k]
      BY <2>1, AppendProperties
    <3> QED BY <3>1, LenProperties
  <2> DEFINE f == [k \in DOMAIN r |-> w[r[k]]]
             T == 1 .. n
  <2>3. IsFiniteSet(T) /\ n + 1 \notin T
    BY FS_Interval
  <2>4. T \union {n + 1} = 1 .. n + 1
    OBVIOUS
  <2>5. f \in [T \union {n + 1} -> Int] /\ f[n + 1] = w[e]
    <3>1. f \in [1 .. n + 1 -> Nat]
      BY <2>2
    <3>2. n + 1 \in 1 .. n + 1
      OBVIOUS
    <3> QED BY <2>2, <2>4, <3>1, <3>2
  <2>6. [k \in T |-> f[k]] = [k \in DOMAIN s |-> w[s[k]]]
    <3>1. \A k \in T : k \in DOMAIN r /\ f[k] = w[s[k]]
      BY <2>2
    <3> QED BY <2>1, <3>1
  <2> HIDE DEF f, T
  <2>7. SumFunction(f) = SumFunction([k \in T |-> f[k]]) + f[n + 1]
    BY <2>3, <2>5, SumOfOneMore
  <2>8. Weight(r, w) = SumFunction(f)
    BY DEF Weight, f
  <2> QED BY <2>2, <2>5, <2>6, <2>7, <2>8 DEF Weight
<1> QED BY <1>1, <1>2, <1>3

LEMMA WeightOfConcat ==
  ASSUME NEW w \in [GoodSegment -> Nat], NEW s \in Seq(GoodSegment), NEW t \in Seq(GoodSegment)
  PROVE  s \o t \in Seq(GoodSegment) /\ Weight(s \o t, w) = Weight(s, w) + Weight(t, w)
<1> DEFINE P == {u \in Seq(GoodSegment) : Weight(s \o u, w) = Weight(s, w) + Weight(u, w)}
<1>1. <<>> \in P
  <2>1. s \o <<>> = s /\ Weight(s, w) + 0 = Weight(s, w)
    BY WeightOfAppend, ConcatEmptySeq
  <2> QED BY <2>1, WeightOfAppend, EmptySeq
<1>2. ASSUME NEW u \in Seq(GoodSegment), NEW e \in GoodSegment, u \in P PROVE Append(u, e) \in P
  <2>1. PICK c \in Seq(GoodSegment) : c = s \o u
    BY ConcatProperties
  <2>2. s \o Append(u, e) = Append(c, e)
    <3>1. Append(u, e) = u \o <<e>> /\ Append(c, e) = c \o <<e>>
      BY AppendIsConcat
    <3>2. <<e>> \in Seq(GoodSegment)
      OBVIOUS
    <3>3. (s \o u) \o <<e>> = s \o (u \o <<e>>)
      BY <3>2, ConcatAssociative
    <3> QED BY <2>1, <3>1, <3>3
  <2>3. Weight(Append(c, e), w) = Weight(c, w) + w[e] /\ Weight(Append(u, e), w) = Weight(u, w) + w[e]
    BY WeightOfAppend
  <2>4. Weight(s, w) \in Nat /\ Weight(u, w) \in Nat /\ w[e] \in Nat
    BY WeightOfAppend
  <2>5. Weight(c, w) = Weight(s, w) + Weight(u, w)
    BY <1>2, <2>1
  <2>6. Append(u, e) \in Seq(GoodSegment)
    BY AppendProperties
  <2>7. Weight(s \o Append(u, e), w) = Weight(s, w) + Weight(Append(u, e), w)
    BY <2>2, <2>3, <2>4, <2>5
  <2> QED BY <2>6, <2>7
<1>3. \A u \in Seq(GoodSegment) : u \in P
  <2> HIDE DEF P
  <2> QED BY <1>1, <1>2, SeqIsInductive
<1> QED BY <1>3, ConcatProperties

\* The weights that only the segments of file p have.
WeightsIn(p) == {w \in [GoodSegment -> Nat] : \A s \in GoodSegment : FileOf(s) # p => w[s] = 0}

LEMMA WeightOfOfFile ==
  ASSUME NEW p, NEW w \in WeightsIn(p), NEW s \in Seq(GoodSegment)
  PROVE  OfFile(s, p) \in Seq(GoodSegment) /\ Weight(OfFile(s, p), w) = Weight(s, w)
<1> DEFINE P == {u \in Seq(GoodSegment) : OfFile(u, p) \in Seq(GoodSegment) /\ Weight(OfFile(u, p), w) = Weight(u, w)}
<1>1. w \in [GoodSegment -> Nat] /\ \A u \in GoodSegment : FileOf(u) # p => w[u] = 0
  BY DEF WeightsIn
<1>2. <<>> \in P
  BY OfFileOfAppend, EmptySeq
<1>3. ASSUME NEW u \in Seq(GoodSegment), NEW e \in GoodSegment, u \in P PROVE Append(u, e) \in P
  <2>1. u \in Seq(Seq(Block)) /\ e \in Seq(Block)
    BY GoodSegmentsAreSegments, FileOfIsNumber
  <2>2. PICK k \in Seq(GoodSegment) : k = OfFile(u, p) /\ Weight(k, w) = Weight(u, w)
    BY <1>3
  <2>3. OfFile(Append(u, e), p) = IF FileOf(e) = p THEN Append(k, e) ELSE k
    BY <2>1, <2>2, OfFileOfAppend
  <2>4. PICK v \in Seq(GoodSegment) : v = Append(u, e)
    BY AppendProperties
  <2>5. Weight(v, w) = Weight(u, w) + w[e] /\ Weight(u, w) \in Nat
    BY <1>1, <2>4, WeightOfAppend
  <2>6. CASE FileOf(e) = p
    <3>1. Append(k, e) \in Seq(GoodSegment) /\ Weight(Append(k, e), w) = Weight(k, w) + w[e]
      BY <1>1, WeightOfAppend, AppendProperties
    <3> QED BY <2>2, <2>3, <2>4, <2>5, <2>6, <3>1
  <2>7. CASE FileOf(e) # p
    <3>1. w[e] = 0
      BY <1>1, <2>7
    <3> QED BY <2>2, <2>3, <2>4, <2>5, <2>7, <3>1
  <2> QED BY <2>6, <2>7
<1>4. \A u \in Seq(GoodSegment) : u \in P
  <2> HIDE DEF P
  <2> QED BY <1>2, <1>3, SeqIsInductive
<1> QED BY <1>4

\* The weight that only segment e has.
Only(e) == [s \in GoodSegment |-> IF s = e THEN 1 ELSE 0]

LEMMA WeightOfOne ==
  ASSUME NEW e \in GoodSegment, NEW s \in Seq(GoodSegment)
  PROVE  /\ Only(e) \in WeightsIn(FileOf(e))
         /\ e \in Range(s) <=> Weight(s, Only(e)) # 0
<1> DEFINE w == Only(e)
           P == {u \in Seq(GoodSegment) : e \in Range(u) <=> Weight(u, w) # 0}
<1>1. w \in [GoodSegment -> Nat] /\ w[e] = 1 /\ \A u \in GoodSegment : u # e => w[u] = 0
  BY DEF Only
<1>2. w \in WeightsIn(FileOf(e))
  BY <1>1 DEF WeightsIn
<1> HIDE DEF w
<1>3. <<>> \in P
  <2>1. Range(<<>>) = {}
    BY DEF Range
  <2> QED BY <1>1, <2>1, WeightOfAppend, EmptySeq
<1>4. ASSUME NEW u \in Seq(GoodSegment), NEW d \in GoodSegment, u \in P PROVE Append(u, d) \in P
  <2>1. Append(u, d) \in Seq(GoodSegment) /\ Range(Append(u, d)) = Range(u) \union {d}
    BY RangeOfAppend, AppendProperties
  <2>2. Weight(Append(u, d), w) = Weight(u, w) + w[d] /\ Weight(u, w) \in Nat
    BY <1>1, WeightOfAppend
  <2> QED BY <1>1, <1>4, <2>1, <2>2
<1>5. \A u \in Seq(GoodSegment) : u \in P
  <2> HIDE DEF P
  <2> QED BY <1>3, <1>4, SeqIsInductive
<1> QED BY <1>2, <1>5 DEF w

LEMMA WeightAtMost ==
  ASSUME NEW v \in [GoodSegment -> Nat], NEW w \in [GoodSegment -> Nat], \A e \in GoodSegment : v[e] <= w[e],
         NEW s \in Seq(GoodSegment)
  PROVE  Weight(s, v) <= Weight(s, w)
<1> DEFINE P == {u \in Seq(GoodSegment) : Weight(u, v) <= Weight(u, w)}
<1>1. <<>> \in P
  <2>1. Weight(<<>>, v) = 0 /\ Weight(<<>>, w) = 0
    BY WeightOfAppend
  <2> QED BY <2>1, EmptySeq
<1>2. ASSUME NEW u \in Seq(GoodSegment), NEW e \in GoodSegment, u \in P PROVE Append(u, e) \in P
  <2>1. Append(u, e) \in Seq(GoodSegment)
    BY AppendProperties
  <2>2. /\ Weight(Append(u, e), v) = Weight(u, v) + v[e] /\ Weight(Append(u, e), w) = Weight(u, w) + w[e]
        /\ Weight(u, v) \in Nat /\ Weight(u, w) \in Nat /\ v[e] \in Nat /\ w[e] \in Nat /\ v[e] <= w[e]
    BY WeightOfAppend
  <2>3. Weight(u, v) <= Weight(u, w)
    BY <1>2
  <2>4. Weight(Append(u, e), v) <= Weight(Append(u, e), w)
    BY <2>2, <2>3
  <2> QED BY <2>1, <2>4
<1>3. \A u \in Seq(GoodSegment) : u \in P
  <2> HIDE DEF P
  <2> QED BY <1>1, <1>2, SeqIsInductive
<1> QED BY <1>3

LEMMA BlocksHaveBytes ==
  ASSUME NEW s \in Seq(GoodBlock)
  PROVE  s \in Seq(Block) /\ Len(s) <= TotalSize(s)
<1>1. GoodBlock \subseteq Block /\ \A b \in GoodBlock : b.size \in Nat \ {0}
  BY DEF GoodBlock, LogBlock, Block
<1>2. \A u \in Seq(GoodBlock) : u \in Seq(Block)
  BY <1>1, SeqMonotonic
<1> DEFINE P == {u \in Seq(GoodBlock) : Len(u) <= TotalSize(u)}
<1>3. <<>> \in P
  <2>1. TotalSize(<<>>) = 0 /\ Len(<<>>) = 0 /\ <<>> \in Seq(GoodBlock)
    BY TotalSizeOfAppend, EmptySeq
  <2> QED BY <2>1
<1>4. ASSUME NEW u \in Seq(GoodBlock), NEW b \in GoodBlock, u \in P PROVE Append(u, b) \in P
  <2>1. /\ TotalSize(Append(u, b)) = TotalSize(u) + b.size /\ TotalSize(u) \in Nat /\ b.size \in Nat \ {0}
        /\ Len(Append(u, b)) = Len(u) + 1 /\ Len(u) \in Nat /\ Append(u, b) \in Seq(GoodBlock)
    BY <1>1, <1>2, TotalSizeOfAppend, AppendProperties, LenProperties
  <2>2. Len(u) <= TotalSize(u)
    BY <1>4
  <2>3. Len(Append(u, b)) <= TotalSize(Append(u, b))
    BY <2>1, <2>2
  <2> QED BY <2>1, <2>3
<1>5. \A u \in Seq(GoodBlock) : u \in P
  <2> HIDE DEF P
  <2> QED BY <1>3, <1>4, SeqIsInductive
<1> QED BY <1>2, <1>5

\* What a bin has of a segment.
CountOf(m)  == [s \in GoodSegment |-> IF GetMinHash(s) = m THEN 1 ELSE 0]
BlocksIn(m) == [s \in GoodSegment |-> IF GetMinHash(s) = m THEN Len(s) ELSE 0]
BytesIn(m)  == [s \in GoodSegment |-> IF GetMinHash(s) = m THEN TotalSize(s) ELSE 0]

ContentsIn(segs, m) == {c \in Int : \E s \in Range(segs) : GetMinHash(s) = m /\ c \in Contents(s)}

LEMMA BinWeights ==
  ASSUME NEW m
  PROVE  /\ CountOf(m) \in [GoodSegment -> Nat] /\ BlocksIn(m) \in [GoodSegment -> Nat]
         /\ BytesIn(m) \in [GoodSegment -> Nat]
         /\ \A s \in GoodSegment : CountOf(m)[s] <= BlocksIn(m)[s] /\ BlocksIn(m)[s] <= BytesIn(m)[s]
         /\ \A p : m \in HashesOf(p) =>
              CountOf(m) \in WeightsIn(p) /\ BlocksIn(m) \in WeightsIn(p) /\ BytesIn(m) \in WeightsIn(p)
<1>1. \A s \in GoodSegment : Len(s) \in Nat \ {0} /\ TotalSize(s) \in Nat /\ Len(s) <= TotalSize(s)
  BY FileOfIsNumber, BlocksHaveBytes, TotalSizeOfAppend
<1>2. /\ CountOf(m) \in [GoodSegment -> Nat] /\ BlocksIn(m) \in [GoodSegment -> Nat]
      /\ BytesIn(m) \in [GoodSegment -> Nat]
  BY <1>1 DEF CountOf, BlocksIn, BytesIn
<1>3. \A s \in GoodSegment : CountOf(m)[s] <= BlocksIn(m)[s] /\ BlocksIn(m)[s] <= BytesIn(m)[s]
  BY <1>1 DEF CountOf, BlocksIn, BytesIn
<1>4. ASSUME NEW p, m \in HashesOf(p), NEW s \in GoodSegment, FileOf(s) # p
      PROVE  CountOf(m)[s] = 0 /\ BlocksIn(m)[s] = 0 /\ BytesIn(m)[s] = 0
  <2>1. GetMinHash(s) # m
    BY <1>4 DEF FileOf, HashesOf
  <2> QED BY <2>1 DEF CountOf, BlocksIn, BytesIn
<1> QED BY <1>2, <1>3, <1>4 DEF WeightsIn

\* The weight w is f of the segments of one bin.
IsInBin(w, f, m) == \A s \in GoodSegment : w[s] = IF GetMinHash(s) = m THEN f[s] ELSE 0

\* The sum over the segments of one bin is a weight.
LEMMA SimilarWeigh ==
  ASSUME NEW segs \in Seq(GoodSegment), NEW m, NEW w \in [GoodSegment -> Nat], NEW f \in [GoodSegment -> Nat],
         IsInBin(w, f, m)
  PROVE  SumFunction([k \in Similar(segs, m) |-> f[segs[k]]]) = Weight(segs, w)
<1>1. PICK n \in Nat : n = Len(segs) /\ DOMAIN segs = 1 .. n
  BY LenProperties
<1>2. IsFiniteSet(1 .. n)
  BY FS_Interval
<1> DEFINE g == [k \in DOMAIN segs |-> w[segs[k]]]
           T == Similar(segs, m)
<1>3. \A k \in 1 .. n : segs[k] \in GoodSegment
  BY <1>1
<1>4. g \in [1 .. n -> Int]
  BY <1>1, <1>3
<1>5. T \in SUBSET (1 .. n) /\ \A k \in (1 .. n) \ T : g[k] = 0
  BY <1>1, <1>3 DEF Similar, IsInBin
<1>6. [k \in T |-> g[k]] = [k \in T |-> f[segs[k]]]
  <2>1. \A k \in T : k \in DOMAIN segs /\ g[k] = f[segs[k]]
    BY <1>1, <1>3 DEF Similar, IsInBin
  <2> QED BY <2>1
<1> HIDE DEF g, T
<1>7. SumFunction(g) = SumFunction([k \in T |-> g[k]])
  BY <1>2, <1>4, <1>5, SumOfSupport
<1>8. Weight(segs, w) = SumFunction(g)
  BY DEF Weight, g
<1> QED BY <1>6, <1>7, <1>8 DEF T

\* How many elements a finite set has, as a sum.
LEMMA SumOfOnes ==
  ASSUME NEW S, IsFiniteSet(S), NEW f \in [S -> Int], \A x \in S : f[x] = 1
  PROVE  SumFunction(f) = Cardinality(S)
<1>1. PICK a \in [SUBSET S -> Int] : AddsUp(a, f, S) /\ a[S] = SumFunction(f)
  BY SumsAddUp
<1> DEFINE C == {t \in SUBSET S : a[t] = Cardinality(t)}
<1>2. {} \in C
  BY <1>1, FS_EmptySet DEF AddsUp
<1>3. ASSUME NEW t \in SUBSET S, NEW x \in S, t \in C, x \notin t PROVE t \union {x} \in C
  <2>1. IsFiniteSet(t)
    BY FS_Subset
  <2>2. Cardinality(t \union {x}) = Cardinality(t) + 1
    BY <1>3, <2>1, FS_AddElement
  <2>3. a[t \union {x}] = a[t] + 1
    BY <1>1, <1>3 DEF AddsUp
  <2> QED BY <1>3, <2>2, <2>3
<1>4. S \in C
  <2> HIDE DEF C
  <2>1. \A t \in SUBSET S : t \in C
    BY <1>2, <1>3, FiniteIsInductive
  <2> QED BY <2>1
<1> QED BY <1>1, <1>4

LEMMA BinOfIs ==
  ASSUME NEW segs \in Seq(GoodSegment), NEW m
  PROVE  /\ Cardinality(Similar(segs, m)) = Weight(segs, CountOf(m))
         /\ BinOf(segs, m).num_blocks = Weight(segs, BlocksIn(m))
         /\ BinOf(segs, m).size = Weight(segs, BytesIn(m))
         /\ BinOf(segs, m).num_dedup_blocks = Cardinality(ContentsIn(segs, m))
         /\ BinOf(segs, m).dedup_size = SumFunction([c \in ContentsIn(segs, m) |-> SizeOf[c]])
<1>1. PICK n \in Nat : n = Len(segs) /\ DOMAIN segs = 1 .. n
  BY LenProperties
<1>2. \A k \in 1 .. n : segs[k] \in GoodSegment
  BY <1>1
<1>3. Similar(segs, m) \in SUBSET (1 .. n) /\ IsFiniteSet(Similar(segs, m))
  <2>1. Similar(segs, m) \in SUBSET (1 .. n)
    BY <1>1 DEF Similar
  <2>2. IsFiniteSet(1 .. n)
    BY FS_Interval
  <2> HIDE DEF Similar
  <2>3. \A T \in SUBSET (1 .. n) : IsFiniteSet(T)
    BY <2>2, FS_Subset
  <2> QED BY <2>1, <2>3
<1>4. Cardinality(Similar(segs, m)) = Weight(segs, CountOf(m))
  <2> DEFINE f == [s \in GoodSegment |-> 1]
             ones == [k \in Similar(segs, m) |-> f[segs[k]]]
  <2>1. ones \in [Similar(segs, m) -> Int] /\ \A k \in Similar(segs, m) : ones[k] = 1
    BY <1>2, <1>3
  <2>2. f \in [GoodSegment -> Nat] /\ IsInBin(CountOf(m), f, m)
    BY DEF CountOf, IsInBin
  <2>3. CountOf(m) \in [GoodSegment -> Nat]
    BY BinWeights
  <2> HIDE DEF f
  <2>4. SumFunction([k \in Similar(segs, m) |-> f[segs[k]]]) = Weight(segs, CountOf(m))
    BY <2>2, <2>3, SimilarWeigh
  <2>5. SumFunction(ones) = Weight(segs, CountOf(m))
    BY <2>4
  <2> HIDE DEF ones
  <2> QED BY <1>3, <2>1, <2>5, SumOfOnes
<1>5. SumFunction([k \in Similar(segs, m) |-> Len(segs[k])]) = Weight(segs, BlocksIn(m))
  <2> DEFINE f == [s \in GoodSegment |-> Len(s)]
  <2>1. f \in [GoodSegment -> Nat] /\ IsInBin(BlocksIn(m), f, m)
    BY FileOfIsNumber DEF BlocksIn, IsInBin
  <2>2. [k \in Similar(segs, m) |-> Len(segs[k])] = [k \in Similar(segs, m) |-> f[segs[k]]]
    BY <1>2, <1>3
  <2>3. BlocksIn(m) \in [GoodSegment -> Nat]
    BY BinWeights
  <2> HIDE DEF f
  <2>4. SumFunction([k \in Similar(segs, m) |-> f[segs[k]]]) = Weight(segs, BlocksIn(m))
    BY <2>1, <2>3, SimilarWeigh
  <2> QED BY <2>2, <2>4
<1>6. SumFunction([k \in Similar(segs, m) |-> TotalSize(segs[k])]) = Weight(segs, BytesIn(m))
  <2> DEFINE f == [s \in GoodSegment |-> TotalSize(s)]
  <2>1. f \in [GoodSegment -> Nat] /\ IsInBin(BytesIn(m), f, m)
    BY FileOfIsNumber, TotalSizeOfAppend DEF BytesIn, IsInBin
  <2>2. [k \in Similar(segs, m) |-> TotalSize(segs[k])] = [k \in Similar(segs, m) |-> f[segs[k]]]
    BY <1>2, <1>3
  <2>3. BytesIn(m) \in [GoodSegment -> Nat]
    BY BinWeights
  <2> HIDE DEF f
  <2>4. SumFunction([k \in Similar(segs, m) |-> f[segs[k]]]) = Weight(segs, BytesIn(m))
    BY <2>1, <2>3, SimilarWeigh
  <2> QED BY <2>2, <2>4
<1>7. UNION {Contents(segs[k]) : k \in Similar(segs, m)} = ContentsIn(segs, m)
  <2>1. \A k \in 1 .. n : Contents(segs[k]) \subseteq Int
    <3> SUFFICES ASSUME NEW k \in 1 .. n PROVE Contents(segs[k]) \subseteq Int
      OBVIOUS
    <3>1. segs[k] \in Seq(Block)
      BY <1>2, FileOfIsNumber
    <3>2. \A j \in DOMAIN segs[k] : segs[k][j] \in Block
      BY <3>1
    <3> QED BY <3>2 DEF Contents, Block
  <2> QED BY <1>1, <2>1 DEF ContentsIn, Similar, Range
<1>8. ASSUME NEW c \in ContentsIn(segs, m) PROVE SizeOfContent(segs, c) = SizeOf[c]
  <2> DEFINE B == UNION {Range(segs[k]) : k \in DOMAIN segs}
  <2>1. B \subseteq GoodBlock
    <3> SUFFICES ASSUME NEW k \in 1 .. n PROVE Range(segs[k]) \subseteq GoodBlock
      BY <1>1
    <3>1. segs[k] \in Seq(GoodBlock)
      BY <1>2, FileOfIsNumber
    <3> QED BY <3>1 DEF Range
  <2>2. PICK b \in B : b.cksum = c
    <3>1. PICK s \in Range(segs) : c \in Contents(s)
      BY DEF ContentsIn
    <3>2. PICK k \in DOMAIN segs : s = segs[k]
      BY <3>1 DEF Range
    <3>3. PICK j \in DOMAIN s : s[j].cksum = c
      BY <3>1 DEF Contents
    <3> QED BY <3>2, <3>3 DEF Range
  <2> DEFINE d == CHOOSE blk \in B : blk.cksum = c
  <2>3. d \in B /\ d.cksum = c
    BY <2>2
  <2>4. SizeOfContent(segs, c) = d.size
    BY DEF SizeOfContent
  <2> HIDE DEF d, B
  <2>5. d \in GoodBlock
    BY <2>1, <2>3
  <2> QED BY <2>3, <2>4, <2>5 DEF GoodBlock, LogBlock
<1>9. [c \in ContentsIn(segs, m) |-> SizeOfContent(segs, c)] = [c \in ContentsIn(segs, m) |-> SizeOf[c]]
  BY <1>8
<1> QED BY <1>4, <1>5, <1>6, <1>7, <1>9 DEF BinOf

-----------------------------------------------------------------------------
(* What a file has, for what its logs have *)

LEMMA LeastOfSet ==
  ASSUME NEW S \in SUBSET Int, IsFiniteSet(S), S # {}
  PROVE  Min(S) \in S
<1> DEFINE C == {t \in SUBSET S : t = {} \/ \E x \in t : \A y \in t : x <= y}
<1>1. {} \in C
  OBVIOUS
<1>2. ASSUME NEW t \in SUBSET S, NEW e \in S, t \in C, e \notin t PROVE t \union {e} \in C
  <2>1. e \in Int /\ \A y \in t : y \in Int
    OBVIOUS
  <2>2. CASE t = {}
    BY <2>1, <2>2
  <2>3. CASE t # {}
    <3>1. PICK x \in t : \A y \in t : x <= y
      BY <1>2, <2>3
    <3>2. CASE e <= x
      <4>1. \A y \in t \union {e} : e <= y
        BY <2>1, <3>1, <3>2
      <4> QED BY <4>1
    <3>3. CASE ~(e <= x)
      <4>1. \A y \in t \union {e} : x <= y
        BY <2>1, <3>1, <3>3
      <4> QED BY <3>1, <4>1
    <3> QED BY <3>2, <3>3
  <2> QED BY <2>2, <2>3
<1>3. S \in C
  <2> HIDE DEF C
  <2>1. \A t \in SUBSET S : t \in C
    BY <1>1, <1>2, FiniteIsInductive
  <2> QED BY <2>1
<1>4. \E x \in S : \A y \in S : x <= y
  BY <1>3
<1> QED BY <1>4 DEF Min

LEMMA MinHashIsContent ==
  ASSUME NEW seg \in GoodSegment
  PROVE  GetMinHash(seg) \in Contents(seg) /\ GetMinHash(seg) \in DOMAIN Middle4Bytes
<1>1. seg \in Seq(Block) /\ Len(seg) \in Nat \ {0} /\ Contents(seg) \subseteq DOMAIN Middle4Bytes
  BY FileOfIsNumber
<1>2. IsFiniteSet(Contents(seg))
  BY <1>1, ContentsAreFinite
<1>3. DOMAIN seg = 1 .. Len(seg) /\ \A k \in 1 .. Len(seg) : seg[k].cksum \in Int
  <2>1. \A k \in 1 .. Len(seg) : seg[k] \in Block
    BY <1>1, ElementOfSeq
  <2> QED BY <1>1, <2>1, LenProperties DEF Block
<1>4. Contents(seg) \in SUBSET Int
  BY <1>3 DEF Contents
<1>5. Contents(seg) # {}
  <2>1. 1 \in DOMAIN seg
    BY <1>1, <1>3
  <2> QED BY <2>1 DEF Contents
<1>6. GetMinHash(seg) \in Contents(seg)
  BY <1>2, <1>4, <1>5, LeastOfSet DEF GetMinHash
<1> QED BY <1>1, <1>6

\* The first segments of some weigh no more than all of them.
LEMMA WeightOfStart ==
  ASSUME NEW s \in Seq(GoodSegment), NEW n \in 0 .. Len(s), NEW w \in [GoodSegment -> Nat]
  PROVE  SubSeq(s, 1, n) \in Seq(GoodSegment) /\ Weight(SubSeq(s, 1, n), w) <= Weight(s, w)
<1>1. PICK l \in Nat : l = Len(s) /\ DOMAIN s = 1 .. l
  BY LenProperties
<1>2. SubSeq(s, 1, n) \in Seq(GoodSegment) /\ SubSeq(s, n + 1, l) \in Seq(GoodSegment)
  <2>1. \A k \in 1 .. l : s[k] \in GoodSegment
    BY <1>1
  <2>2. n \in Nat /\ n <= l
    BY <1>1
  <2>3. \A k \in 1 .. n : s[k] \in GoodSegment
    BY <2>1, <2>2
  <2>4. \A k \in n + 1 .. l : s[k] \in GoodSegment
    BY <2>1, <2>2
  <2> QED BY <2>2, <2>3, <2>4, SubSeqProperties
<1>3. SubSeq(s, 1, n) \o SubSeq(s, n + 1, l) = SubSeq(s, 1, l)
  <2>1. 1 \in 1 .. Len(s) + 1 /\ n \in 1 - 1 .. Len(s) /\ l \in n .. Len(s)
    BY <1>1
  <2> QED BY <2>1, ConcatAdjacentSubSeq
<1>4. SubSeq(s, 1, l) = s
  BY <1>1, SubSeqFull
<1>5. PICK a \in Seq(GoodSegment), b \in Seq(GoodSegment) : a = SubSeq(s, 1, n) /\ s = a \o b
  BY <1>2, <1>3, <1>4
<1>6. Weight(s, w) = Weight(a, w) + Weight(b, w) /\ Weight(a, w) \in Nat /\ Weight(b, w) \in Nat
  <2>1. Weight(a \o b, w) = Weight(a, w) + Weight(b, w)
    BY WeightOfConcat
  <2>2. Weight(a, w) \in Nat /\ Weight(b, w) \in Nat
    BY WeightOfAppend
  <2> QED BY <1>5, <2>1, <2>2
<1> QED BY <1>5, <1>6

WholeFile(file) == \A k \in DOMAIN file : ~Torn(file[k])

\* What is not torn is a segment of some log, in its own file.
GoodFile(file, p) ==
  \A k \in DOMAIN file : ~Torn(file[k]) => file[k].blocks \in GoodSegment /\ FileOf(file[k].blocks) = p

LEMMA WholeFileIs ==
  ASSUME NEW file \in Seq(Item), NEW p, GoodFile(file, p), WholeFile(file)
  PROVE  BlocksOf(file) \in Seq(GoodSegment) /\ \A s \in Range(BlocksOf(file)) : FileOf(s) = p
<1>1. PICK l \in Nat : l = Len(file) /\ DOMAIN file = 1 .. l
  BY LenProperties
<1>2. \A k \in 1 .. l : file[k].blocks \in GoodSegment /\ FileOf(file[k].blocks) = p
  BY <1>1 DEF GoodFile, WholeFile
<1>3. BlocksOf(file) = [k \in 1 .. l |-> file[k].blocks]
  BY <1>1 DEF BlocksOf
<1>4. BlocksOf(file) \in Seq(GoodSegment)
  BY <1>2, <1>3
<1>5. \A s \in Range(BlocksOf(file)) : FileOf(s) = p
  <2>1. \A s \in Range(BlocksOf(file)) : \E k \in 1 .. l : s = file[k].blocks
    BY <1>3 DEF Range
  <2> QED BY <1>2, <2>1
<1> QED BY <1>4, <1>5

LEMMA StartOfFile ==
  ASSUME NEW file \in Seq(Item), NEW n \in 0 .. Len(file)
  PROVE  /\ SubSeq(file, 1, n) \in Seq(Item) /\ Len(SubSeq(file, 1, n)) = n
         /\ \A k \in 1 .. n : SubSeq(file, 1, n)[k] = file[k]
         /\ BlocksOf(SubSeq(file, 1, n)) = SubSeq(BlocksOf(file), 1, n)
<1>1. PICK l \in Nat : l = Len(file)
  BY LenProperties
<1>2. /\ SubSeq(file, 1, n) \in Seq(Item) /\ Len(SubSeq(file, 1, n)) = n
      /\ \A k \in 1 .. n : SubSeq(file, 1, n)[k] = file[k]
  BY <1>1
<1>3. PICK a \in Seq(Item) : a = SubSeq(file, 1, n) /\ Len(a) = n /\ \A k \in 1 .. n : a[k] = file[k]
  BY <1>2
<1>4. PICK b \in Seq(Seq(Block)) : b = BlocksOf(file) /\ Len(b) = l /\ \A k \in 1 .. l : b[k] = file[k].blocks
  BY <1>1, BlocksOfIs
<1>5. PICK c \in Seq(Seq(Block)) : c = BlocksOf(a) /\ Len(c) = n /\ \A k \in 1 .. n : c[k] = a[k].blocks
  BY <1>3, BlocksOfIs
<1>6. PICK d \in Seq(Seq(Block)) : d = SubSeq(b, 1, n) /\ Len(d) = n /\ \A k \in 1 .. n : d[k] = b[k]
  <2>1. /\ SubSeq(b, 1, n) \in Seq(Seq(Block)) /\ Len(SubSeq(b, 1, n)) = n
        /\ \A k \in 1 .. n : SubSeq(b, 1, n)[k] = b[k]
    BY <1>1, <1>4
  <2> QED BY <2>1
<1>7. n \in 0 .. l
  BY <1>1, Zenon
<1>8. \A k \in 1 .. n : c[k] = d[k]
  <2>1. \A k \in 1 .. n : k \in 1 .. l
    BY <1>7
  <2> QED BY <1>3, <1>4, <1>5, <1>6, <2>1
<1>9. c = d
  BY <1>5, <1>6, <1>8, SeqEqual
<1> QED BY <1>2, <1>3, <1>4, <1>5, <1>6, <1>9

LEMMA SegmentsWeigh ==
  ASSUME NEW t \in Seq(LogBlock), NEW w \in [GoodSegment -> Nat]
  PROVE  /\ Segments(t) \in Seq(GoodSegment)
         /\ SegmentBlocks(t) = <<>> => Weight(Segments(t), w) = 0
         /\ SegmentBlocks(t) # <<>> =>
              Weight(Segments(t), w) = w[SegmentBlocks(t)] + Weight(Segments(AfterSegment(t)), w)
<1>1. t \in Seq(Block) /\ SegmentBlocks(t) \in Seq(GoodBlock) /\ AfterSegment(t) \in Seq(LogBlock)
  BY SegmentIsGood
<1>2. PICK a \in Seq(GoodSegment) : a = Segments(t)
  BY SegmentsAreGood
<1>3. PICK b \in Seq(GoodSegment) : b = Segments(AfterSegment(t))
  BY <1>1, SegmentsAreGood
<1>4. ASSUME SegmentBlocks(t) = <<>> PROVE Weight(a, w) = 0
  <2>1. a = <<>>
    BY <1>1, <1>2, <1>4, SegmentsUnfold
  <2> QED BY <2>1, WeightOfAppend
<1>5. ASSUME SegmentBlocks(t) # <<>> PROVE Weight(a, w) = w[SegmentBlocks(t)] + Weight(b, w)
  <2>1. PICK seg \in GoodSegment : seg = SegmentBlocks(t)
    BY <1>1, <1>5 DEF GoodSegment
  <2>2. a = <<seg>> \o b
    BY <1>1, <1>2, <1>3, <1>5, <2>1, SegmentsUnfold
  <2>3. PICK one \in Seq(GoodSegment) : one = <<seg>> /\ Weight(one, w) = w[seg]
    <3>1. Append(<<>>, seg) = <<seg>> /\ <<seg>> \in Seq(GoodSegment) /\ <<>> \in Seq(GoodSegment)
      OBVIOUS
    <3>2. PICK none \in Seq(GoodSegment) : none = <<>> /\ Append(none, seg) = <<seg>>
      BY <3>1
    <3>3. Weight(Append(none, seg), w) = Weight(none, w) + w[seg] /\ w[seg] \in Nat
      BY WeightOfAppend
    <3>4. Weight(none, w) = 0
      BY <3>2, WeightOfAppend
    <3>5. Weight(Append(none, seg), w) = w[seg]
      BY <3>3, <3>4
    <3>6. Weight(<<seg>>, w) = w[seg]
      BY <3>2, <3>5
    <3> QED BY <3>1, <3>6
  <2>4. Weight(one \o b, w) = Weight(one, w) + Weight(b, w)
    BY WeightOfConcat
  <2> QED BY <2>1, <2>2, <2>3, <2>4
<1> QED BY <1>2, <1>3, <1>4, <1>5

\* A file has what is sure to be there, and what may be there besides at most.
InBounds(segs, sure, more, w) ==
  Weight(sure, w) <= Weight(segs, w) /\ Weight(segs, w) <= Weight(sure, w) + Weight(more, w)

\* So it will be, when a run has written what is left of its log.
WillBeInBounds(segs, left, sure, more, all, w) ==
  /\ Weight(sure, w) + Weight(all, w) <= Weight(segs, w) + Weight(left, w)
  /\ Weight(segs, w) + Weight(left, w) <= Weight(sure, w) + Weight(all, w) + Weight(more, w)

FileIsRight(p) ==
  LET segs == BlocksOf(files[p])
  IN  \A w \in WeightsIn(p) :
        /\ program = "segment" /\ p \in opened =>
             WillBeInBounds(segs, Segments(is), finished[p], killed[p], Segments(log), w)
        /\ ~(program = "segment" /\ p \in opened) => InBounds(segs, finished[p], killed[p], w)
        /\ program = "segment" => Weight(finished[p], w) <= Weight(SubSeq(segs, 1, start[p]), w)

FilesInv ==
  \A p \in FileNumbers :
    GoodFile(files[p], p) /\ (WholeFile(files[p]) => FileIsRight(p))

LEMMA FilesInit == BinningInit => FilesInv
<1> SUFFICES ASSUME BinningInit, NEW p \in FileNumbers
             PROVE  GoodFile(files[p], p) /\ (WholeFile(files[p]) => FileIsRight(p))
  BY DEF FilesInv
<1>1. files[p] = <<>> /\ finished[p] = <<>> /\ killed[p] = <<>> /\ program = "idle"
  BY DEF BinningInit
<1>2. GoodFile(files[p], p)
  BY <1>1 DEF GoodFile
<1>3. BlocksOf(<<>>) = <<>>
  BY DEF BlocksOf
<1>4. \A w \in WeightsIn(p) : Weight(<<>>, w) = 0
  BY WeightOfAppend DEF WeightsIn
<1> QED BY <1>1, <1>2, <1>3, <1>4 DEF FileIsRight, InBounds

LEMMA FilesOpen ==
  ASSUME BinningTypes, FilesInv, OpenLog
  PROVE  FilesInv'
<1> SUFFICES ASSUME NEW p \in FileNumbers
             PROVE  GoodFile(files'[p], p) /\ (WholeFile(files'[p]) => FileIsRight(p)')
  BY DEF FilesInv, FileIsRight
<1>1. /\ files' = files /\ finished' = finished /\ killed' = killed /\ program = "idle" /\ program' = "segment"
      /\ log' \in Logs /\ is' = log' /\ start'[p] = Len(files[p])
  BY DEF OpenLog
<1>2. GoodFile(files'[p], p)
  BY <1>1 DEF FilesInv
<1>3. ASSUME WholeFile(files[p]), NEW w \in WeightsIn(p)
      PROVE  /\ WillBeInBounds(BlocksOf(files[p]), Segments(log'), finished[p], killed[p], Segments(log'), w)
             /\ InBounds(BlocksOf(files[p]), finished[p], killed[p], w)
             /\ Weight(finished[p], w) <= Weight(SubSeq(BlocksOf(files[p]), 1, Len(files[p])), w)
  <2>1. InBounds(BlocksOf(files[p]), finished[p], killed[p], w)
    BY <1>1, <1>3 DEF FilesInv, FileIsRight
  <2>2. files[p] \in Seq(Item) /\ GoodFile(files[p], p)
    BY DEF BinningTypes, FilesInv
  <2>3. PICK segs \in Seq(GoodSegment) : segs = BlocksOf(files[p]) /\ Len(segs) = Len(files[p])
    BY <1>3, <2>2, WholeFileIs, BlocksOfIs
  <2>4. SubSeq(segs, 1, Len(segs)) = segs
    BY SubSeqFull
  <2>5. PICK sure \in Seq(GoodSegment), more \in Seq(GoodSegment), all \in Seq(GoodSegment) :
          sure = finished[p] /\ more = killed[p] /\ all = Segments(log')
    BY <1>1, LogsHaveLogBlocks, SegmentsAreGood DEF BinningTypes
  <2>6. w \in [GoodSegment -> Nat]
    BY DEF WeightsIn
  <2>7. Weight(sure, w) \in Nat /\ Weight(more, w) \in Nat /\ Weight(all, w) \in Nat /\ Weight(segs, w) \in Nat
    BY <2>6, WeightOfAppend
  <2>8. Weight(sure, w) <= Weight(segs, w) /\ Weight(segs, w) <= Weight(sure, w) + Weight(more, w)
    BY <2>1, <2>3, <2>5 DEF InBounds
  <2>9. WillBeInBounds(segs, all, sure, more, all, w)
    BY <2>7, <2>8 DEF WillBeInBounds
  <2> QED BY <2>1, <2>3, <2>4, <2>5, <2>8, <2>9
<1> QED BY <1>1, <1>2, <1>3 DEF FileIsRight

\* A file that has one segment more.
LEMMA FileGrows ==
  ASSUME NEW file \in Seq(Item), NEW item \in Item, ~Torn(item), item.blocks \in GoodSegment,
         NEW p, FileOf(item.blocks) = p, GoodFile(file, p), NEW more, more = Append(file, item)
  PROVE  /\ GoodFile(more, p)
         /\ WholeFile(more) => WholeFile(file)
         /\ BlocksOf(more) = Append(BlocksOf(file), item.blocks)
<1>1. PICK l \in Nat : l = Len(file) /\ DOMAIN file = 1 .. l
  BY LenProperties
<1>2. /\ more \in Seq(Item) /\ Len(more) = l + 1 /\ more[l + 1] = item /\ \A k \in 1 .. l : more[k] = file[k]
  <2>1. /\ Append(file, item) \in Seq(Item) /\ Len(Append(file, item)) = l + 1 /\ Append(file, item)[l + 1] = item
        /\ \A k \in 1 .. l : Append(file, item)[k] = file[k]
    BY <1>1, AppendProperties
  <2> QED BY <2>1
<1>3. DOMAIN more = 1 .. l + 1
  BY <1>2, LenProperties
<1>4. GoodFile(more, p)
  <2> SUFFICES ASSUME NEW k \in 1 .. l + 1, ~Torn(more[k])
               PROVE  more[k].blocks \in GoodSegment /\ FileOf(more[k].blocks) = p
    BY <1>3 DEF GoodFile
  <2>1. CASE k = l + 1
    BY <1>2, <2>1
  <2>2. CASE k # l + 1
    <3>1. k \in 1 .. l
      BY <2>2
    <3>2. more[k] = file[k] /\ k \in DOMAIN file
      BY <1>1, <1>2, <3>1
    <3> QED BY <3>2 DEF GoodFile
  <2> QED BY <2>1, <2>2
<1>5. WholeFile(more) => WholeFile(file)
  <2>1. \A k \in 1 .. l : k \in DOMAIN more /\ more[k] = file[k]
    BY <1>2, <1>3
  <2> QED BY <1>1, <2>1 DEF WholeFile
<1>6. BlocksOf(more) = Append(BlocksOf(file), item.blocks)
  BY BlocksOfAppend
<1> QED BY <1>4, <1>5, <1>6

LEMMA StartOfMore ==
  ASSUME NEW S, NEW s \in Seq(S), NEW e \in S, NEW n \in 0 .. Len(s)
  PROVE  SubSeq(Append(s, e), 1, n) = SubSeq(s, 1, n)
<1>1. PICK l \in Nat : l = Len(s) /\ n <= l
  BY LenProperties
<1>2. PICK a \in Seq(S) : a = Append(s, e) /\ Len(a) = l + 1 /\ \A k \in 1 .. l : a[k] = s[k]
  <2>1. /\ Append(s, e) \in Seq(S) /\ Len(Append(s, e)) = l + 1
        /\ \A k \in 1 .. l : Append(s, e)[k] = s[k]
    BY <1>1, AppendProperties
  <2> QED BY <2>1
<1>3. PICK b \in Seq(S) : b = SubSeq(s, 1, n) /\ Len(b) = n /\ \A k \in 1 .. n : b[k] = s[k]
  <2>1. /\ SubSeq(s, 1, n) \in Seq(S) /\ Len(SubSeq(s, 1, n)) = n
        /\ \A k \in 1 .. n : SubSeq(s, 1, n)[k] = s[k]
    BY <1>1
  <2> QED BY <2>1
<1>4. PICK c \in Seq(S) : c = SubSeq(a, 1, n) /\ Len(c) = n /\ \A k \in 1 .. n : c[k] = a[k]
  <2>1. n \in Nat /\ n <= Len(a)
    BY <1>1, <1>2
  <2>2. /\ SubSeq(a, 1, n) \in Seq(S) /\ Len(SubSeq(a, 1, n)) = n
        /\ \A k \in 1 .. n : SubSeq(a, 1, n)[k] = a[k]
    BY <2>1
  <2> QED BY <2>2
<1>5. \A k \in 1 .. n : c[k] = b[k]
  <2>1. \A k \in 1 .. n : k \in 1 .. l
    BY <1>1
  <2> QED BY <1>2, <1>3, <1>4, <2>1
<1>6. c = b
  BY <1>3, <1>4, <1>5, SeqEqual
<1> QED BY <1>2, <1>3, <1>4, <1>6

LEMMA FilesStore ==
  ASSUME BinningTypes, FilesInv, StoreSegment
  PROVE  FilesInv'
<1> SUFFICES ASSUME NEW p \in FileNumbers
             PROVE  GoodFile(files'[p], p) /\ (WholeFile(files'[p]) => FileIsRight(p)')
  BY DEF FilesInv, FileIsRight
<1>1. /\ opened' = opened /\ log' = log /\ finished' = finished /\ killed' = killed /\ start' = start
      /\ program = "segment" /\ program' = "segment" /\ SegmentBlocks(is) # <<>>
  BY DEF StoreSegment
<1>2. PICK file \in Seq(Item) : file = files[p] /\ GoodFile(file, p)
  BY DEF BinningTypes, FilesInv
<1>3. PICK seg \in GoodSegment : seg = SegmentBlocks(is)
  BY Stored
<1>4. PICK item \in Item : item = StoredItem /\ ~Torn(item) /\ item.blocks = seg
  BY <1>3, Stored
<1>5. files'[p] = IF p = FileOf(seg) /\ p \in opened THEN Append(file, item) ELSE file
  BY <1>2, <1>3, <1>4, Stored
<1>6. PICK n \in Nat : n = start[p] /\ n <= Len(file)
  <2>1. start[p] \in Nat /\ WholeFrom(files[p], start[p])
    BY <1>1 DEF BinningTypes
  <2> QED BY <1>2, <2>1 DEF WholeFrom
<1>7. PICK sure \in Seq(GoodSegment), more \in Seq(GoodSegment), all \in Seq(GoodSegment), left \in Seq(GoodSegment) :
        /\ sure = finished[p] /\ more = killed[p] /\ all = Segments(log) /\ left = Segments(is)
        /\ \A w \in [GoodSegment -> Nat] : Weight(left, w) = w[seg] + Weight(Segments(is'), w)
        /\ Segments(is') \in Seq(GoodSegment)
  <2>1. log \in Seq(LogBlock) /\ is \in Seq(LogBlock) /\ is' \in Seq(LogBlock) /\ is' = AfterSegment(is)
    BY Stored DEF BinningTypes
  <2>2. finished[p] \in Seq(GoodSegment) /\ killed[p] \in Seq(GoodSegment)
    BY DEF BinningTypes
  <2>3. Segments(log) \in Seq(GoodSegment) /\ Segments(is) \in Seq(GoodSegment) /\ Segments(is') \in Seq(GoodSegment)
    BY <2>1, SegmentsAreGood
  <2>4. \A w \in [GoodSegment -> Nat] : Weight(Segments(is), w) = w[seg] + Weight(Segments(is'), w)
    BY <1>1, <1>3, <2>1, SegmentsWeigh
  <2> QED BY <2>2, <2>3, <2>4
<1>8. PICK next \in Seq(GoodSegment) : next = Segments(is') /\ \A w \in [GoodSegment -> Nat] : Weight(left, w) = w[seg] + Weight(next, w)
  BY <1>7
<1>9. CASE p = FileOf(seg) /\ p \in opened
  <2>1. PICK new : new = Append(file, item) /\ files'[p] = new
    BY <1>5, <1>9
  <2>2. GoodFile(new, p) /\ (WholeFile(new) => WholeFile(file)) /\ BlocksOf(new) = Append(BlocksOf(file), seg)
    BY <1>2, <1>3, <1>4, <1>9, <2>1, FileGrows
  <2>3. ASSUME WholeFile(file), NEW w \in WeightsIn(p)
        PROVE  /\ WillBeInBounds(BlocksOf(new), next, sure, more, all, w)
               /\ Weight(sure, w) <= Weight(SubSeq(BlocksOf(new), 1, n), w)
    <3>1. PICK segs \in Seq(GoodSegment) : segs = BlocksOf(file) /\ Len(segs) = Len(file)
      BY <1>2, <2>3, WholeFileIs, BlocksOfIs
    <3>2. WillBeInBounds(segs, left, sure, more, all, w) /\ Weight(sure, w) <= Weight(SubSeq(segs, 1, n), w)
      BY <1>1, <1>2, <1>6, <1>7, <1>9, <2>3, <3>1 DEF FilesInv, FileIsRight
    <3>3. w \in [GoodSegment -> Nat]
      BY DEF WeightsIn
    <3>4. Weight(Append(segs, seg), w) = Weight(segs, w) + w[seg]
      BY <3>3, WeightOfAppend
    <3>5. Weight(left, w) = w[seg] + Weight(next, w)
      BY <1>8, <3>3
    <3>6. Weight(segs, w) \in Nat /\ Weight(next, w) \in Nat /\ w[seg] \in Nat
      BY <3>3, WeightOfAppend
    <3>7. WillBeInBounds(Append(segs, seg), next, sure, more, all, w)
      BY <3>2, <3>4, <3>5, <3>6 DEF WillBeInBounds
    <3>8. SubSeq(Append(segs, seg), 1, n) = SubSeq(segs, 1, n)
      <4>1. n \in 0 .. Len(segs)
        BY <1>6, <3>1
      <4> QED BY <4>1, StartOfMore
    <3> QED BY <2>2, <3>1, <3>2, <3>7, <3>8
  <2> QED BY <1>1, <1>6, <1>7, <1>8, <1>9, <2>1, <2>2, <2>3 DEF FileIsRight
<1>10. CASE ~(p = FileOf(seg) /\ p \in opened)
  <2>1. files'[p] = file
    BY <1>5, <1>10
  <2>2. ASSUME WholeFile(file), NEW w \in WeightsIn(p), p \in opened
        PROVE  WillBeInBounds(BlocksOf(file), next, sure, more, all, w)
    <3>1. WillBeInBounds(BlocksOf(file), left, sure, more, all, w)
      BY <1>1, <1>2, <1>7, <2>2 DEF FilesInv, FileIsRight
    <3>2. w \in [GoodSegment -> Nat] /\ w[seg] = 0
      BY <1>10, <2>2 DEF WeightsIn
    <3>3. Weight(left, w) = Weight(next, w)
      <4>1. Weight(left, w) = w[seg] + Weight(next, w) /\ Weight(next, w) \in Nat
        BY <1>8, <3>2, WeightOfAppend
      <4> QED BY <3>2, <4>1
    <3> QED BY <3>1, <3>3 DEF WillBeInBounds
  <2> QED BY <1>1, <1>2, <1>7, <1>8, <2>1, <2>2 DEF FilesInv, FileIsRight
<1> QED BY <1>9, <1>10

LEMMA FilesClose ==
  ASSUME BinningTypes, FilesInv, CloseLog
  PROVE  FilesInv'
<1> SUFFICES ASSUME NEW p \in FileNumbers
             PROVE  GoodFile(files'[p], p) /\ (WholeFile(files'[p]) => FileIsRight(p)')
  BY DEF FilesInv, FileIsRight
<1>1. /\ files' = files /\ killed' = killed /\ finished' = Ended(finished)
      /\ program = "segment" /\ program' = "idle" /\ SegmentBlocks(is) = <<>>
  BY DEF CloseLog
<1>2. GoodFile(files'[p], p) /\ files[p] \in Seq(Item)
  BY <1>1 DEF FilesInv, BinningTypes
<1>3. PICK sure \in Seq(GoodSegment), more \in Seq(GoodSegment), all \in Seq(GoodSegment) :
        /\ sure = finished[p] /\ more = killed[p] /\ all = Segments(log)
        /\ Ended(finished)[p] = IF p \in opened THEN sure \o all ELSE sure
        /\ \A w \in [GoodSegment -> Nat] : Weight(Segments(is), w) = 0
  <2>1. log \in Seq(LogBlock) /\ is \in Seq(LogBlock)
    BY DEF BinningTypes
  <2>2. finished[p] \in Seq(GoodSegment) /\ killed[p] \in Seq(GoodSegment)
    BY DEF BinningTypes
  <2>3. Segments(log) \in Seq(GoodSegment)
    BY <2>1, SegmentsAreGood
  <2>4. \A w \in [GoodSegment -> Nat] : Weight(Segments(is), w) = 0
    BY <1>1, <2>1, SegmentsWeigh
  <2> QED BY <2>2, <2>3, <2>4 DEF Ended
<1>4. ASSUME WholeFile(files[p]), NEW w \in WeightsIn(p)
      PROVE  InBounds(BlocksOf(files[p]), Ended(finished)[p], more, w)
  <2>1. w \in [GoodSegment -> Nat]
    BY DEF WeightsIn
  <2>2. PICK segs \in Seq(GoodSegment) : segs = BlocksOf(files[p])
    BY <1>1, <1>2, <1>4, WholeFileIs
  <2>3. Weight(sure, w) \in Nat /\ Weight(more, w) \in Nat /\ Weight(all, w) \in Nat /\ Weight(segs, w) \in Nat
    BY <2>1, WeightOfAppend
  <2>4. CASE p \in opened
    <3>1. WillBeInBounds(segs, Segments(is), sure, more, all, w)
      BY <1>1, <1>3, <1>4, <2>2, <2>4 DEF FilesInv, FileIsRight
    <3>2. Weight(Segments(is), w) = 0
      BY <1>3, <2>1
    <3>3. Weight(sure \o all, w) = Weight(sure, w) + Weight(all, w)
      BY <2>1, WeightOfConcat
    <3>4. InBounds(segs, sure \o all, more, w)
      BY <2>3, <3>1, <3>2, <3>3 DEF InBounds, WillBeInBounds
    <3> QED BY <1>3, <2>2, <2>4, <3>4
  <2>5. CASE p \notin opened
    BY <1>1, <1>3, <1>4, <2>2, <2>5 DEF FilesInv, FileIsRight
  <2> QED BY <2>4, <2>5
<1> QED BY <1>1, <1>2, <1>3, <1>4 DEF FileIsRight

\* What a kill leaves of a file, if it is not torn.
LEMMA LeftWhole ==
  ASSUME NEW file \in Seq(Item), NEW n \in Nat, WholeFrom(file, n), NEW p, GoodFile(file, p), NEW f \in LeftOf(file, n)
  PROVE  /\ GoodFile(f, p)
         /\ WholeFile(f) => /\ WholeFile(file)
                            /\ \E k \in n .. Len(file) : BlocksOf(f) = SubSeq(BlocksOf(file), 1, k)
<1>1. PICK l \in Nat : l = Len(file) /\ DOMAIN file = 1 .. l /\ n <= l
  BY LenProperties DEF WholeFrom
<1>2. f \in Seq(Item)
  BY LeftIs
<1>3. PICK k \in n .. l : \/ f = SubSeq(file, 1, k)
                          \/ Len(f) = k /\ k > n /\ Torn(f[k]) /\ \A j \in 1 .. k - 1 : f[j] = file[j]
  BY <1>1, LeftIs
<1>4. k \in Nat /\ k <= l /\ k \in 0 .. Len(file)
  BY <1>1
<1>5. CASE f = SubSeq(file, 1, k)
  <2>1. Len(f) = k /\ DOMAIN f = 1 .. k /\ (\A j \in 1 .. k : f[j] = file[j])
    BY <1>2, <1>4, <1>5, StartOfFile, LenProperties
  <2>2. BlocksOf(f) = SubSeq(BlocksOf(file), 1, k)
    BY <1>4, <1>5, StartOfFile
  <2>3. \A j \in 1 .. k : j \in DOMAIN file
    BY <1>1, <1>4
  <2>4. GoodFile(f, p)
    BY <2>1, <2>3 DEF GoodFile
  <2>5. ASSUME WholeFile(f), NEW j \in 1 .. l PROVE ~Torn(file[j])
    <3>1. CASE j <= k
      <4>1. j \in 1 .. k
        BY <1>4, <3>1
      <4> QED BY <2>1, <2>5, <4>1 DEF WholeFile
    <3>2. CASE ~(j <= k)
      <4>1. j \in n + 1 .. Len(file) /\ j \in 1 .. Len(file)
        BY <1>1, <1>4, <3>2
      <4>2. file[j].num_blocks = Len(file[j].blocks) /\ file[j] \in Item
        BY <4>1, ElementOfSeq DEF WholeFrom, Whole
      <4>3. Len(file[j].blocks) \in Nat
        BY <4>2, LenProperties DEF Item
      <4> QED BY <4>2, <4>3 DEF Torn
    <3> QED BY <3>1, <3>2
  <2>6. WholeFile(f) => WholeFile(file)
    BY <1>1, <2>5 DEF WholeFile
  <2> QED BY <1>1, <2>2, <2>4, <2>6
<1>6. CASE Len(f) = k /\ k > n /\ Torn(f[k]) /\ \A j \in 1 .. k - 1 : f[j] = file[j]
  <2>1. DOMAIN f = 1 .. k /\ k \in 1 .. k
    BY <1>2, <1>4, <1>6, LenProperties
  <2>2. ~WholeFile(f)
    BY <1>6, <2>1 DEF WholeFile
  <2>3. \A j \in 1 .. k : j # k => j \in 1 .. k - 1 /\ j \in DOMAIN file
    BY <1>1, <1>4
  <2>4. GoodFile(f, p)
    BY <1>6, <2>1, <2>3 DEF GoodFile
  <2> QED BY <2>2, <2>4
<1> QED BY <1>3, <1>5, <1>6

LEMMA FilesKill ==
  ASSUME BinningTypes, FilesInv, KillSegmenting
  PROVE  FilesInv'
<1> SUFFICES ASSUME NEW p \in FileNumbers
             PROVE  GoodFile(files'[p], p) /\ (WholeFile(files'[p]) => FileIsRight(p)')
  BY DEF FilesInv, FileIsRight
<1>1. /\ finished' = finished /\ killed' = Ended(killed)
      /\ program = "segment" /\ program' = "idle"
  BY DEF KillSegmenting
<1>2. PICK file \in Seq(Item), n \in Nat : file = files[p] /\ n = start[p] /\ WholeFrom(file, n) /\ files'[p] \in LeftOf(file, n)
  BY KillLeaves
<1>3. GoodFile(file, p)
  BY <1>2 DEF FilesInv
<1>4. PICK f : f = files'[p] /\ f \in LeftOf(file, n)
  BY <1>2
<1>5. /\ GoodFile(f, p)
      /\ WholeFile(f) => /\ WholeFile(file)
                         /\ \E k \in n .. Len(file) : BlocksOf(f) = SubSeq(BlocksOf(file), 1, k)
  BY <1>2, <1>3, <1>4, LeftWhole
<1>6. PICK sure \in Seq(GoodSegment), more \in Seq(GoodSegment), all \in Seq(GoodSegment), left \in Seq(GoodSegment) :
        /\ sure = finished[p] /\ more = killed[p] /\ all = Segments(log) /\ left = Segments(is)
        /\ Ended(killed)[p] = IF p \in opened THEN more \o all ELSE more
  <2>1. log \in Seq(LogBlock) /\ is \in Seq(LogBlock)
    BY DEF BinningTypes
  <2>2. finished[p] \in Seq(GoodSegment) /\ killed[p] \in Seq(GoodSegment)
    BY DEF BinningTypes
  <2>3. Segments(log) \in Seq(GoodSegment) /\ Segments(is) \in Seq(GoodSegment)
    BY <2>1, SegmentsAreGood
  <2> QED BY <2>2, <2>3 DEF Ended
<1>7. ASSUME WholeFile(f), NEW w \in WeightsIn(p)
      PROVE  InBounds(BlocksOf(f), sure, Ended(killed)[p], w)
  <2>1. w \in [GoodSegment -> Nat]
    BY DEF WeightsIn
  <2>2. WholeFile(file)
    BY <1>5, <1>7
  <2>3. PICK segs \in Seq(GoodSegment) : segs = BlocksOf(file) /\ Len(segs) = Len(file)
    BY <1>3, <2>2, WholeFileIs, BlocksOfIs
  <2>4. PICK k \in n .. Len(file) : BlocksOf(f) = SubSeq(segs, 1, k)
    BY <1>5, <1>7, <2>3
  <2>5. k \in 0 .. Len(segs) /\ k \in Nat /\ n <= k
    <3>1. Len(file) \in Nat
      BY LenProperties
    <3> QED BY <2>3, <3>1
  <2>6. PICK begin \in Seq(GoodSegment) : begin = SubSeq(segs, 1, k) /\ Len(begin) = k /\ Weight(begin, w) <= Weight(segs, w)
    <3>1. SubSeq(segs, 1, k) \in Seq(GoodSegment) /\ Weight(SubSeq(segs, 1, k), w) <= Weight(segs, w)
      BY <2>1, <2>5, WeightOfStart
    <3>2. Len(SubSeq(segs, 1, k)) = k
      BY <2>5
    <3> QED BY <3>1, <3>2
  <2>7. SubSeq(begin, 1, n) = SubSeq(segs, 1, n)
    <3>1. n \in 0 .. Len(begin)
      BY <2>5, <2>6
    <3>2. \A j \in 1 .. k : begin[j] = segs[j]
      BY <2>5, <2>6
    <3>3. /\ SubSeq(begin, 1, n) \in Seq(GoodSegment) /\ Len(SubSeq(begin, 1, n)) = n
          /\ \A j \in 1 .. n : SubSeq(begin, 1, n)[j] = begin[j]
      BY <3>1
    <3>4. n <= Len(segs)
      BY <2>5
    <3>5. /\ SubSeq(segs, 1, n) \in Seq(GoodSegment) /\ Len(SubSeq(segs, 1, n)) = n
          /\ \A j \in 1 .. n : SubSeq(segs, 1, n)[j] = segs[j]
      BY <3>4
    <3>6. \A j \in 1 .. n : j \in 1 .. k
      BY <2>5
    <3> QED BY <3>2, <3>3, <3>5, <3>6, SeqEqual
  <2>8. Weight(SubSeq(begin, 1, n), w) <= Weight(begin, w)
    <3>1. n \in 0 .. Len(begin)
      BY <2>5, <2>6
    <3> QED BY <2>1, <3>1, WeightOfStart
  <2>9. Weight(sure, w) <= Weight(SubSeq(segs, 1, n), w)
    BY <1>1, <1>2, <1>6, <2>2, <2>3 DEF FilesInv, FileIsRight
  <2>10. /\ Weight(sure, w) \in Nat /\ Weight(more, w) \in Nat /\ Weight(all, w) \in Nat /\ Weight(left, w) \in Nat
         /\ Weight(segs, w) \in Nat /\ Weight(begin, w) \in Nat
    BY <2>1, WeightOfAppend
  <2>11. Weight(sure, w) <= Weight(begin, w)
    <3>1. SubSeq(begin, 1, n) \in Seq(GoodSegment)
      <4>1. n \in 0 .. Len(begin)
        BY <2>5, <2>6
      <4> QED BY <2>1, <4>1, WeightOfStart
    <3>2. PICK u \in Nat : u = Weight(SubSeq(begin, 1, n), w)
      BY <2>1, <3>1, WeightOfAppend
    <3>3. Weight(sure, w) <= u /\ u <= Weight(begin, w)
      BY <2>7, <2>8, <2>9, <3>2, Zenon
    <3> QED BY <2>10, <3>3
  <2>12. CASE p \in opened
    <3>1. WillBeInBounds(segs, left, sure, more, all, w)
      BY <1>1, <1>2, <1>6, <2>2, <2>3, <2>12 DEF FilesInv, FileIsRight
    <3>2. Weight(more \o all, w) = Weight(more, w) + Weight(all, w)
      BY <2>1, WeightOfConcat
    <3>3. Weight(begin, w) <= Weight(sure, w) + Weight(more \o all, w)
      BY <2>6, <2>10, <3>1, <3>2 DEF WillBeInBounds
    <3> QED BY <1>6, <2>4, <2>6, <2>11, <2>12, <3>3 DEF InBounds
  <2>13. CASE p \notin opened
    <3>1. Weight(segs, w) <= Weight(sure, w) + Weight(more, w)
      BY <1>1, <1>2, <1>6, <2>2, <2>3, <2>13 DEF FilesInv, FileIsRight, InBounds
    <3>2. Weight(begin, w) <= Weight(sure, w) + Weight(more, w)
      BY <2>6, <2>10, <3>1
    <3> QED BY <1>6, <2>4, <2>6, <2>11, <2>13, <3>2 DEF InBounds
  <2> QED BY <2>12, <2>13
<1> QED BY <1>1, <1>4, <1>5, <1>6, <1>7 DEF FileIsRight

LEMMA FilesStep == BinningTypes /\ FilesInv /\ [BinningNext]_binningVars => FilesInv'
<1> SUFFICES ASSUME BinningTypes, FilesInv, [BinningNext]_binningVars PROVE FilesInv'
  OBVIOUS
<1>1. CASE OpenLog
  BY <1>1, FilesOpen
<1>2. CASE StoreSegment
  BY <1>2, FilesStore
<1>3. CASE CloseLog
  BY <1>3, FilesClose
<1>4. CASE KillSegmenting
  BY <1>4, FilesKill
<1>5. CASE OpenFile \/ ReadSegment \/ ReadMisread \/ EndOfFile \/ PrintBins \/ UNCHANGED binningVars
  <2>1. /\ files' = files /\ finished' = finished /\ killed' = killed
        /\ program' = "segment" => UNCHANGED <<program, opened, log, is, start>>
        /\ program = "segment" => program' = program
    BY <1>5 DEF OpenFile, ReadSegment, ReadMisread, EndOfFile, PrintBins, binningVars, segmentVars
  <2>2. ASSUME NEW p \in FileNumbers, FileIsRight(p) PROVE FileIsRight(p)'
    BY <2>1, <2>2 DEF FileIsRight
  <2> QED BY <2>1, <2>2 DEF FilesInv
<1> QED BY <1>1, <1>2, <1>3, <1>4, <1>5 DEF BinningNext

-----------------------------------------------------------------------------
(* What the bins have, for what has been read *)

\* What is there for a smallest checksum, if there is a bin.
BinAt(bins, m) == IF m \in DOMAIN bins THEN bins[m] ELSE [num_segments |-> 0, blocklist |-> <<>>]

BinHolds(bin, segs, m) ==
  /\ bin.blocklist \in Seq(GoodBlock)
  /\ bin.num_segments = Weight(segs, CountOf(m)) % CounterSize
  /\ Len(bin.blocklist) = Weight(segs, BlocksIn(m))
  /\ TotalSize(bin.blocklist) = Weight(segs, BytesIn(m))
  /\ Contents(bin.blocklist) = ContentsIn(segs, m)

BinsHold(bins, segs) ==
  /\ \A m : m \in DOMAIN bins <=> \E s \in Range(segs) : m = GetMinHash(s)
  /\ \A m : BinHolds(BinAt(bins, m), segs, m)

LEMMA NoBins == BinsHold(<<>>, <<>>)
<1>1. DOMAIN <<>> = {} /\ Range(<<>>) = {} /\ <<>> \in Seq(GoodBlock) /\ <<>> \in Seq(Block) /\ Len(<<>>) = 0
  BY EmptySeq DEF Range
<1>2. TotalSize(<<>>) = 0
  BY TotalSizeOfAppend
<1>3. 0 % CounterSize = 0
  BY BinningAssumption, SmallRemainder
<1>4. ASSUME NEW m PROVE BinHolds(BinAt(<<>>, m), <<>>, m)
  <2>1. BinAt(<<>>, m) = [num_segments |-> 0, blocklist |-> <<>>]
    BY <1>1 DEF BinAt
  <2>2. Weight(<<>>, CountOf(m)) = 0 /\ Weight(<<>>, BlocksIn(m)) = 0 /\ Weight(<<>>, BytesIn(m)) = 0
    <3>1. /\ CountOf(m) \in [GoodSegment -> Nat] /\ BlocksIn(m) \in [GoodSegment -> Nat]
          /\ BytesIn(m) \in [GoodSegment -> Nat]
      BY BinWeights
    <3>2. \A w \in [GoodSegment -> Nat] : Weight(<<>>, w) = 0
      BY WeightOfAppend
    <3> QED BY <3>1, <3>2
  <2>3. Contents(<<>>) = {} /\ ContentsIn(<<>>, m) = {}
    BY <1>1 DEF Contents, ContentsIn
  <2>4. PICK bin : bin = BinAt(<<>>, m) /\ bin.num_segments = 0 /\ bin.blocklist = <<>>
    BY <2>1
  <2>5. BinHolds(bin, <<>>, m)
    BY <1>1, <1>2, <1>3, <2>2, <2>3, <2>4 DEF BinHolds
  <2> QED BY <2>4, <2>5
<1> QED BY <1>1, <1>4 DEF BinsHold

\* A bin that gets no segment, and one that does.
LEMMA OtherBinHolds ==
  ASSUME NEW segs \in Seq(GoodSegment), NEW seg \in GoodSegment, NEW m, m # GetMinHash(seg), NEW bin, BinHolds(bin, segs, m)
  PROVE  BinHolds(bin, Append(segs, seg), m)
<1>1. CountOf(m) \in [GoodSegment -> Nat] /\ BlocksIn(m) \in [GoodSegment -> Nat] /\ BytesIn(m) \in [GoodSegment -> Nat]
  BY BinWeights
<1>2. CountOf(m)[seg] = 0 /\ BlocksIn(m)[seg] = 0 /\ BytesIn(m)[seg] = 0
  BY DEF CountOf, BlocksIn, BytesIn
<1>3. \A w \in [GoodSegment -> Nat] : w[seg] = 0 => Weight(Append(segs, seg), w) = Weight(segs, w)
  <2> SUFFICES ASSUME NEW w \in [GoodSegment -> Nat], w[seg] = 0
               PROVE  Weight(Append(segs, seg), w) = Weight(segs, w)
    OBVIOUS
  <2>1. Weight(Append(segs, seg), w) = Weight(segs, w) + w[seg] /\ Weight(segs, w) \in Nat
    BY WeightOfAppend
  <2> QED BY <2>1
<1>4. ContentsIn(Append(segs, seg), m) = ContentsIn(segs, m)
  <2>1. Range(Append(segs, seg)) = Range(segs) \union {seg}
    BY RangeOfAppend
  <2> QED BY <2>1 DEF ContentsIn
<1> QED BY <1>1, <1>2, <1>3, <1>4 DEF BinHolds

LEMMA ItsBinHolds ==
  ASSUME NEW segs \in Seq(GoodSegment), NEW seg \in GoodSegment, NEW m, m = GetMinHash(seg), NEW bin, BinHolds(bin, segs, m),
         NEW new, new = [num_segments |-> (bin.num_segments + 1) % CounterSize, blocklist |-> bin.blocklist \o seg]
  PROVE  BinHolds(new, Append(segs, seg), m)
<1>1. CountOf(m) \in [GoodSegment -> Nat] /\ BlocksIn(m) \in [GoodSegment -> Nat] /\ BytesIn(m) \in [GoodSegment -> Nat]
  BY BinWeights
<1>2. CountOf(m)[seg] = 1 /\ BlocksIn(m)[seg] = Len(seg) /\ BytesIn(m)[seg] = TotalSize(seg)
  BY DEF CountOf, BlocksIn, BytesIn
<1>3. /\ Weight(Append(segs, seg), CountOf(m)) = Weight(segs, CountOf(m)) + 1
      /\ Weight(Append(segs, seg), BlocksIn(m)) = Weight(segs, BlocksIn(m)) + Len(seg)
      /\ Weight(Append(segs, seg), BytesIn(m)) = Weight(segs, BytesIn(m)) + TotalSize(seg)
      /\ Weight(segs, CountOf(m)) \in Nat
  <2>1. \A w \in [GoodSegment -> Nat] :
          Weight(Append(segs, seg), w) = Weight(segs, w) + w[seg] /\ Weight(segs, w) \in Nat
    BY WeightOfAppend
  <2> QED BY <1>1, <1>2, <2>1
<1>4. PICK list \in Seq(GoodBlock) : list = bin.blocklist /\ list \in Seq(Block)
  BY BlocksHaveBytes DEF BinHolds
<1>5. seg \in Seq(GoodBlock) /\ seg \in Seq(Block) /\ Contents(seg) \subseteq DOMAIN Middle4Bytes
  BY FileOfIsNumber
<1>6. PICK more \in Seq(GoodBlock) : more = list \o seg /\ Len(more) = Len(list) + Len(seg)
  BY <1>5, ConcatProperties
<1>7. TotalSize(more) = TotalSize(list) + TotalSize(seg)
  BY <1>4, <1>5, <1>6, TotalSizeOfConcat
<1>8. Contents(more) = Contents(list) \union Contents(seg)
  BY <1>4, <1>5, <1>6, ContentsOfConcat
<1>9. ContentsIn(Append(segs, seg), m) = ContentsIn(segs, m) \union Contents(seg)
  <2>1. Range(Append(segs, seg)) = Range(segs) \union {seg}
    BY RangeOfAppend
  <2>2. Contents(seg) \subseteq Int
    <3>1. \A k \in DOMAIN seg : seg[k] \in Block
      BY <1>5
    <3> QED BY <3>1 DEF Contents, Block
  <2> QED BY <2>1, <2>2 DEF ContentsIn
<1>10. (bin.num_segments + 1) % CounterSize = (Weight(segs, CountOf(m)) + 1) % CounterSize
  <2>1. PICK u \in Nat : u = Weight(segs, CountOf(m)) /\ bin.num_segments = u % CounterSize
    BY <1>3 DEF BinHolds
  <2>2. ((u % CounterSize) + 1) % CounterSize = (u + 1) % CounterSize
    BY BinningAssumption, AddRemainder
  <2> QED BY <2>1, <2>2
<1>11. /\ Len(list) = Weight(segs, BlocksIn(m)) /\ TotalSize(list) = Weight(segs, BytesIn(m))
       /\ Contents(list) = ContentsIn(segs, m)
  BY <1>4 DEF BinHolds
<1>12. new.num_segments = Weight(Append(segs, seg), CountOf(m)) % CounterSize /\ new.blocklist = more
  BY <1>3, <1>4, <1>6, <1>10
<1> QED BY <1>3, <1>6, <1>7, <1>8, <1>9, <1>11, <1>12 DEF BinHolds

LEMMA BinsHoldMore ==
  ASSUME NEW bins, bins \in [DOMAIN bins -> Bin], IsFiniteSet(DOMAIN bins),
         NEW segs \in Seq(GoodSegment), BinsHold(bins, segs), NEW seg \in GoodSegment,
         NEW new, new = AddToBin(bins, GetMinHash(seg), seg)
  PROVE  BinsHold(new, Append(segs, seg))
<1>1. PICK m : m = GetMinHash(seg)
  OBVIOUS
<1>2. seg \in Seq(Block)
  BY FileOfIsNumber
<1>3. IsWithSegment(new, bins, seg, m)
  BY <1>1, <1>2, AddToBinIs
<1>4. Range(Append(segs, seg)) = Range(segs) \union {seg}
  BY RangeOfAppend
<1>5. ASSUME NEW h PROVE h \in DOMAIN new <=> \E s \in Range(Append(segs, seg)) : h = GetMinHash(s)
  BY <1>1, <1>3, <1>4 DEF IsWithSegment, BinsHold
<1>6. ASSUME NEW h, h # m PROVE BinHolds(BinAt(new, h), Append(segs, seg), h)
  <2>1. BinAt(new, h) = BinAt(bins, h)
    BY <1>3, <1>6 DEF IsWithSegment, BinAt
  <2>2. BinHolds(BinAt(bins, h), segs, h)
    BY DEF BinsHold
  <2> QED BY <1>1, <1>6, <2>1, <2>2, OtherBinHolds
<1>7. BinHolds(BinAt(new, m), Append(segs, seg), m)
  <2>1. PICK bin : bin = BinAt(bins, m) /\ BinHolds(bin, segs, m)
    BY DEF BinsHold
  <2>2. BinAt(new, m) = new[m]
    BY <1>3 DEF IsWithSegment, BinAt
  <2>3. new[m] = [num_segments |-> (bin.num_segments + 1) % CounterSize, blocklist |-> bin.blocklist \o seg]
    <3>1. CASE m \in DOMAIN bins
      BY <1>3, <2>1, <3>1 DEF IsWithSegment, BinAt
    <3>2. CASE m \notin DOMAIN bins
      <4>1. bin.num_segments = 0 /\ bin.blocklist = <<>>
        BY <2>1, <3>2 DEF BinAt
      <4>2. <<>> \o seg = seg
        BY <1>2, ConcatEmptySeq
      <4>3. 0 + 1 = 1
        OBVIOUS
      <4>4. new[m] = [num_segments |-> 1 % CounterSize, blocklist |-> seg]
        BY <1>3, <3>2 DEF IsWithSegment
      <4> QED BY <4>1, <4>2, <4>3, <4>4
    <3> QED BY <3>1, <3>2
  <2>4. PICK b : b = new[m]
    OBVIOUS
  <2>5. BinHolds(b, Append(segs, seg), m)
    BY <1>1, <2>1, <2>3, <2>4, ItsBinHolds
  <2> QED BY <2>2, <2>4, <2>5
<1> QED BY <1>5, <1>6, <1>7 DEF BinsHold

LEMMA HeadOfFile ==
  ASSUME NEW file \in Seq(Item), file # <<>>
  PROVE  /\ 1 \in DOMAIN file /\ Head(file) = file[1] /\ Head(file) \in Item
         /\ WholeFile(file) => WholeFile(Tail(file)) /\ ~Torn(Head(file))
         /\ BlocksOf(file) = <<Head(file).blocks>> \o BlocksOf(Tail(file))
<1>1. PICK l \in Nat : Len(file) = l + 1 /\ DOMAIN file = 1 .. l + 1
  <2>1. Len(file) \in Nat \ {0} /\ DOMAIN file = 1 .. Len(file)
    BY EmptySeq, LenProperties
  <2>2. Len(file) - 1 \in Nat /\ Len(file) = (Len(file) - 1) + 1
    BY <2>1
  <2> QED BY <2>1, <2>2
<1>2. Head(file) = file[1] /\ Head(file) \in Item
  BY HeadTailProperties
<1>3. PICK tail \in Seq(Item) : tail = Tail(file) /\ Len(tail) = l /\ DOMAIN tail = 1 .. l /\ \A k \in 1 .. l : tail[k] = file[k + 1]
  <2>1. /\ Tail(file) \in Seq(Item) /\ Len(Tail(file)) = l
        /\ \A k \in 1 .. l : Tail(file)[k] = file[k + 1]
    BY <1>1, HeadTailProperties
  <2> QED BY <2>1, LenProperties
<1>4. 1 \in DOMAIN file /\ \A k \in 1 .. l : k + 1 \in DOMAIN file
  BY <1>1
<1>5. WholeFile(file) => WholeFile(tail) /\ ~Torn(Head(file))
  BY <1>2, <1>3, <1>4 DEF WholeFile
<1>6. BlocksOf(file) = <<Head(file).blocks>> \o BlocksOf(tail)
  <2>1. PICK b \in Seq(Seq(Block)) : b = BlocksOf(file) /\ Len(b) = l + 1 /\ \A k \in 1 .. l + 1 : b[k] = file[k].blocks
    BY <1>1, BlocksOfIs
  <2>2. PICK c \in Seq(Seq(Block)) : c = BlocksOf(tail) /\ Len(c) = l /\ \A k \in 1 .. l : c[k] = tail[k].blocks
    BY <1>3, BlocksOfIs
  <2>3. PICK one \in Seq(Seq(Block)) : one = <<Head(file).blocks>> /\ Len(one) = 1 /\ one[1] = Head(file).blocks
    <3>1. PICK b1 \in Seq(Block) : b1 = Head(file).blocks
      BY <1>2 DEF Item
    <3>2. <<b1>> \in Seq(Seq(Block)) /\ Len(<<b1>>) = 1 /\ <<b1>>[1] = b1
      OBVIOUS
    <3> QED BY <3>1, <3>2
  <2>4. PICK d \in Seq(Seq(Block)) : d = one \o c /\ Len(d) = l + 1 /\ \A k \in 1 .. l + 1 : d[k] = IF k <= 1 THEN one[k] ELSE c[k - 1]
    <3>1. 1 + l = l + 1
      OBVIOUS
    <3>2. /\ one \o c \in Seq(Seq(Block)) /\ Len(one \o c) = l + 1
          /\ \A k \in 1 .. l + 1 : (one \o c)[k] = IF k <= 1 THEN one[k] ELSE c[k - 1]
      BY <2>2, <2>3, <3>1, ConcatProperties
    <3> QED BY <3>2
  <2>5. ASSUME NEW k \in 1 .. l + 1 PROVE b[k] = d[k]
    <3>1. CASE k = 1
      BY <1>2, <2>1, <2>3, <2>4, <3>1
    <3>2. CASE k # 1
      <4>1. k - 1 \in 1 .. l /\ (k - 1) + 1 = k /\ ~(k <= 1)
        BY <3>2
      <4>2. d[k] = tail[k - 1].blocks
        BY <2>2, <2>4, <4>1
      <4>3. tail[k - 1] = file[k]
        BY <1>3, <4>1
      <4> QED BY <2>1, <4>2, <4>3
    <3> QED BY <3>1, <3>2
  <2>6. b = d
    BY <2>1, <2>4, <2>5, SeqEqual
  <2> QED BY <2>1, <2>2, <2>3, <2>4, <2>6
<1> QED BY <1>2, <1>3, <1>4, <1>5, <1>6

\* Of a file that is not torn the bins hold what has been read.
BinsInv ==
  program \in {"read", "bins"} /\ WholeFile(files[part]) =>
    /\ aligned /\ WholeFile(rest) /\ BlocksOf(rest) \in Seq(GoodSegment)
    /\ program = "bins" => rest = <<>>
    /\ \E read \in Seq(GoodSegment) : BinsHold(binmap, read) /\ BlocksOf(files[part]) = read \o BlocksOf(rest)

LEMMA BinsOpen ==
  ASSUME BinningTypes, FilesInv, OpenFile
  PROVE  BinsInv'
<1> SUFFICES ASSUME NEW p, p = part', WholeFile(files[p])
             PROVE  /\ BlocksOf(files[p]) \in Seq(GoodSegment)
                    /\ \E read \in Seq(GoodSegment) :
                         BinsHold(<<>>, read) /\ BlocksOf(files[p]) = read \o BlocksOf(files[p])
  BY DEF OpenFile, BinsInv, segmentVars
<1>1. p \in FileNumbers /\ files[p] \in Seq(Item)
  BY DEF OpenFile, BinningTypes
<1>2. PICK segs \in Seq(GoodSegment) : segs = BlocksOf(files[p])
  BY <1>1, WholeFileIs DEF FilesInv
<1>3. <<>> \in Seq(GoodSegment) /\ <<>> \o segs = segs
  BY ConcatEmptySeq, EmptySeq
<1> QED BY <1>2, <1>3, NoBins

LEMMA BinsRead ==
  ASSUME BinningTypes, BinsInv, ReadSegment
  PROVE  BinsInv'
<1> SUFFICES ASSUME WholeFile(files[part])
             PROVE  /\ aligned /\ WholeFile(rest') /\ BlocksOf(rest') \in Seq(GoodSegment)
                    /\ \E read \in Seq(GoodSegment) :
                         BinsHold(binmap', read) /\ BlocksOf(files[part]) = read \o BlocksOf(rest')
  BY DEF ReadSegment, BinsInv, segmentVars
<1>1. PICK read \in Seq(GoodSegment) : BinsHold(binmap, read) /\ BlocksOf(files[part]) = read \o BlocksOf(rest)
  BY DEF ReadSegment, BinsInv
<1>2. aligned /\ WholeFile(rest) /\ BlocksOf(rest) \in Seq(GoodSegment)
  BY DEF ReadSegment, BinsInv
<1>3. rest \in Seq(Item) /\ rest # <<>>
  BY DEF BinningTypes, ReadSegment
<1>4. PICK tail \in Seq(Item) : tail = Tail(rest) /\ tail = rest'
  BY <1>3, HeadTailProperties DEF ReadSegment
<1>5. PICK seg \in Seq(Block) : seg = Head(rest).blocks
  BY <1>3, HeadOfFile DEF Item
<1>6. WholeFile(tail) /\ BlocksOf(rest) = <<seg>> \o BlocksOf(tail)
  BY <1>2, <1>3, <1>4, <1>5, HeadOfFile
<1>7. seg \in GoodSegment /\ BlocksOf(tail) \in Seq(GoodSegment)
  <2>1. PICK b \in Seq(Seq(Block)), l \in Nat : b = BlocksOf(tail) /\ l = Len(b)
    BY BlocksOfIs, LenProperties
  <2>2. PICK all \in Seq(GoodSegment) : all = BlocksOf(rest) /\ all = <<seg>> \o b
    BY <1>2, <1>6, <2>1
  <2>3. Len(<<seg>> \o b) = 1 + l /\ \A k \in 1 .. 1 + l : (<<seg>> \o b)[k] = IF k <= 1 THEN <<seg>>[k] ELSE b[k - 1]
    <3>1. PICK one \in Seq(Seq(Block)) : one = <<seg>> /\ Len(one) = 1
      <4>1. <<seg>> \in Seq(Seq(Block)) /\ Len(<<seg>>) = 1
        OBVIOUS
      <4> QED BY <4>1
    <3>2. Len(one \o b) = 1 + l /\ \A k \in 1 .. 1 + l : (one \o b)[k] = IF k <= 1 THEN one[k] ELSE b[k - 1]
      BY <2>1, <3>1, ConcatProperties
    <3> QED BY <3>1, <3>2
  <2>4. Len(all) = 1 + l /\ \A k \in 1 .. 1 + l : all[k] \in GoodSegment
    <3>1. Len(all) = 1 + l
      BY <2>2, <2>3
    <3> QED BY <3>1, ElementOfSeq
  <2>5. seg \in GoodSegment
    <3>1. 1 \in 1 .. 1 + l
      BY <2>1
    <3>2. all[1] = seg
      BY <2>2, <2>3, <3>1
    <3> QED BY <2>4, <3>1, <3>2
  <2>6. \A k \in 1 .. l : b[k] \in GoodSegment
    <3> SUFFICES ASSUME NEW k \in 1 .. l PROVE b[k] \in GoodSegment
      OBVIOUS
    <3>1. k + 1 \in 1 .. 1 + l /\ ~(k + 1 <= 1) /\ (k + 1) - 1 = k
      OBVIOUS
    <3>2. all[k + 1] = b[k]
      BY <2>2, <2>3, <3>1
    <3> QED BY <2>4, <3>1, <3>2
  <2>7. b \in Seq(GoodSegment)
    <3>1. SubSeq(b, 1, l) = b
      BY <2>1, SubSeqFull
    <3>2. SubSeq(b, 1, l) \in Seq(GoodSegment)
      BY <2>6, SubSeqProperties
    <3> QED BY <3>1, <3>2
  <2> QED BY <2>1, <2>5, <2>7
<1>8. binmap' = AddToBin(binmap, GetMinHash(seg), seg)
  BY <1>5 DEF ReadSegment
<1>9. PICK more \in Seq(GoodSegment) : more = Append(read, seg) /\ BinsHold(binmap', more)
  <2>1. binmap \in [DOMAIN binmap -> Bin] /\ IsFiniteSet(DOMAIN binmap)
    BY DEF BinningTypes
  <2>2. BinsHold(binmap', Append(read, seg))
    BY <1>1, <1>7, <1>8, <2>1, BinsHoldMore
  <2>3. Append(read, seg) \in Seq(GoodSegment)
    BY <1>7, AppendProperties
  <2> QED BY <2>2, <2>3
<1>10. read \o BlocksOf(rest) = more \o BlocksOf(tail)
  <2>1. PICK left \in Seq(GoodSegment) : left = BlocksOf(tail)
    BY <1>7
  <2>2. <<seg>> \in Seq(GoodSegment)
    BY <1>7
  <2>3. (read \o <<seg>>) \o left = read \o (<<seg>> \o left)
    BY <2>2, ConcatAssociative
  <2>4. more = read \o <<seg>>
    BY <1>7, <1>9, AppendIsConcat
  <2> QED BY <1>6, <2>1, <2>3, <2>4
<1> QED BY <1>1, <1>2, <1>4, <1>6, <1>7, <1>9, <1>10

LEMMA BinsStep == BinningTypes /\ FilesInv /\ BinsInv /\ [BinningNext]_binningVars => BinsInv'
<1> SUFFICES ASSUME BinningTypes, FilesInv, BinsInv, [BinningNext]_binningVars PROVE BinsInv'
  OBVIOUS
<1>1. CASE OpenFile
  BY <1>1, BinsOpen
<1>2. CASE ReadSegment
  BY <1>2, BinsRead
<1>3. ASSUME program = "read", WholeFile(files[part])
      PROVE  aligned /\ (rest # <<>> => ~Torn(Head(rest)))
  <2>1. aligned /\ WholeFile(rest) /\ rest \in Seq(Item)
    BY <1>3 DEF BinsInv, BinningTypes
  <2> QED BY <2>1, HeadOfFile
<1>4. CASE ReadMisread
  <2>1. aligned => Len(rest) > 1 /\ Torn(Head(rest))
    BY <1>4 DEF ReadMisread, Astray
  <2>2. aligned => rest # <<>>
    BY <2>1, EmptySeq
  <2>3. program = "read" /\ UNCHANGED <<files, part>>
    BY <1>4 DEF ReadMisread, segmentVars
  <2>4. ~WholeFile(files[part])
    BY <1>3, <2>1, <2>2, <2>3
  <2> QED BY <2>3, <2>4 DEF BinsInv
<1>5. CASE EndOfFile
  <2>1. WholeFile(files[part]) => aligned /\ rest = <<>>
    BY <1>3, <1>5 DEF EndOfFile
  <2>2. rest' = <<>> /\ program = "read" /\ program' = "bins" /\ UNCHANGED <<files, part, aligned, binmap>>
    BY <1>5 DEF EndOfFile, segmentVars
  <2> QED BY <2>1, <2>2 DEF BinsInv
<1>6. CASE UNCHANGED binningVars
  BY <1>6 DEF BinsInv, binningVars, segmentVars, dedupVars
<1>7. CASE OpenLog \/ StoreSegment \/ CloseLog \/ KillSegmenting \/ PrintBins
  <2>1. program' \notin {"read", "bins"}
    BY <1>7 DEF OpenLog, StoreSegment, CloseLog, KillSegmenting, PrintBins
  <2> QED BY <2>1 DEF BinsInv
<1> QED BY <1>1, <1>2, <1>4, <1>5, <1>6, <1>7 DEF BinningNext

-----------------------------------------------------------------------------
(* The bins are those of the logs *)

LEMMA FewContents ==
  ASSUME NEW s \in Seq(Block)
  PROVE  Cardinality(Contents(s)) \in Nat /\ Cardinality(Contents(s)) <= Len(s)
<1>1. PICK l \in Nat : l = Len(s) /\ DOMAIN s = 1 .. l
  BY LenProperties
<1> DEFINE f == [k \in 1 .. l |-> s[k].cksum]
<1>2. Contents(s) = {f[k] : k \in 1 .. l}
  BY <1>1 DEF Contents
<1>3. IsFiniteSet(1 .. l) /\ Cardinality(1 .. l) = l
  <2>1. (IF 1 > l THEN 0 ELSE l - 1 + 1) = l
    OBVIOUS
  <2> QED BY <2>1, FS_Interval
<1>4. f \in Surjection(1 .. l, Contents(s))
  <2>1. f \in [1 .. l -> Contents(s)] /\ \A c \in Contents(s) : \E k \in 1 .. l : f[k] = c
    BY <1>2
  <2> QED BY <2>1 DEF Surjection
<1>5. IsFiniteSet(Contents(s)) /\ Cardinality(Contents(s)) <= Cardinality(1 .. l)
  BY <1>3, <1>4, FS_Surjection
<1> QED BY <1>1, <1>3, <1>5, FS_CardinalityType

LEMMA ContentsInFinite ==
  ASSUME NEW s \in Seq(GoodSegment), NEW m
  PROVE  IsFiniteSet(ContentsIn(s, m)) /\ ContentsIn(s, m) \subseteq DOMAIN Middle4Bytes
<1> DEFINE P == {u \in Seq(GoodSegment) : IsFiniteSet(ContentsIn(u, m)) /\ ContentsIn(u, m) \subseteq DOMAIN Middle4Bytes}
<1>1. <<>> \in P
  <2>1. ContentsIn(<<>>, m) = {}
    BY DEF ContentsIn, Range
  <2> QED BY <2>1, FS_EmptySet, EmptySeq
<1>2. ASSUME NEW u \in Seq(GoodSegment), NEW e \in GoodSegment, u \in P PROVE Append(u, e) \in P
  <2>1. Append(u, e) \in Seq(GoodSegment) /\ Range(Append(u, e)) = Range(u) \union {e}
    BY RangeOfAppend, AppendProperties
  <2>2. ContentsIn(Append(u, e), m) \subseteq ContentsIn(u, m) \union Contents(e)
    BY <2>1 DEF ContentsIn
  <2>3. IsFiniteSet(Contents(e)) /\ Contents(e) \subseteq DOMAIN Middle4Bytes
    BY FileOfIsNumber, ContentsAreFinite
  <2>4. IsFiniteSet(ContentsIn(u, m) \union Contents(e))
    BY <1>2, <2>3, FS_Union
  <2>5. IsFiniteSet(ContentsIn(Append(u, e), m))
    BY <2>2, <2>4, FS_Subset
  <2> QED BY <1>2, <2>1, <2>2, <2>3, <2>5
<1>3. \A u \in Seq(GoodSegment) : u \in P
  <2> HIDE DEF P
  <2> QED BY <1>1, <1>2, SeqIsInductive
<1> QED BY <1>3

LEMMA SumOfMore ==
  ASSUME NEW S, IsFiniteSet(S), NEW T \in SUBSET S, NEW f \in [S -> Nat]
  PROVE  SumFunction([x \in T |-> f[x]]) <= SumFunction(f)
<1> DEFINE g == [x \in S |-> IF x \in T THEN f[x] ELSE 0]
<1>1. g \in [S -> Int] /\ (\A x \in S \ T : g[x] = 0) /\ \A x \in S : g[x] <= f[x]
  OBVIOUS
<1>2. [x \in T |-> g[x]] = [x \in T |-> f[x]]
  OBVIOUS
<1>3. f \in [S -> Int]
  OBVIOUS
<1> HIDE DEF g
<1>4. SumFunction(g) = SumFunction([x \in T |-> g[x]])
  BY <1>1, SumOfSupport
<1>5. SumFunction(g) <= SumFunction(f)
  BY <1>1, <1>3, SumOfAtMost
<1> QED BY <1>2, <1>4, <1>5

\* What fits into its counters is counted right.
LEMMA FittingBinIs ==
  ASSUME NEW segs \in Seq(GoodSegment), NEW m, NEW bin, BinHolds(bin, segs, m),
         NEW counts \in BinCounts, HasCounts(counts, bin.blocklist), BinOf(segs, m).size < CounterSize
  PROVE  counts = BinOf(segs, m) /\ bin.num_segments = Cardinality(Similar(segs, m))
<1>1. PICK list \in Seq(GoodBlock) : /\ list = bin.blocklist /\ list \in Seq(Block)
                                     /\ Len(list) \in Nat /\ Len(list) <= TotalSize(list)
  <2>1. bin.blocklist \in Seq(GoodBlock)
    BY DEF BinHolds
  <2> QED BY <2>1, BlocksHaveBytes, LenProperties
<1>2. PICK n \in Nat, b \in Nat, y \in Nat :
        /\ n = Weight(segs, CountOf(m)) /\ b = Weight(segs, BlocksIn(m)) /\ y = Weight(segs, BytesIn(m))
        /\ n <= b /\ b <= y
  <2>1. /\ CountOf(m) \in [GoodSegment -> Nat] /\ BlocksIn(m) \in [GoodSegment -> Nat]
        /\ BytesIn(m) \in [GoodSegment -> Nat]
        /\ \A s \in GoodSegment : CountOf(m)[s] <= BlocksIn(m)[s]
        /\ \A s \in GoodSegment : BlocksIn(m)[s] <= BytesIn(m)[s]
    BY BinWeights
  <2>2. \A w \in [GoodSegment -> Nat] : Weight(segs, w) \in Nat
    BY WeightOfAppend
  <2>3. Weight(segs, CountOf(m)) <= Weight(segs, BlocksIn(m))
    BY <2>1, WeightAtMost
  <2>4. Weight(segs, BlocksIn(m)) <= Weight(segs, BytesIn(m))
    BY <2>1, WeightAtMost
  <2> QED BY <2>1, <2>2, <2>3, <2>4
<1>3. y < CounterSize
  BY <1>2, BinOfIs
<1>4. \A u \in Nat : u <= y => u % CounterSize = u
  <2> SUFFICES ASSUME NEW u \in Nat, u <= y PROVE u % CounterSize = u
    OBVIOUS
  <2>1. CounterSize \in Nat \ {0}
    BY BinningAssumption
  <2>2. u \in 0 .. CounterSize - 1
    BY <1>3, <2>1
  <2> QED BY <2>1, <2>2, SmallRemainder
<1>5. /\ Len(list) = b /\ TotalSize(list) = y /\ bin.num_segments = n % CounterSize
      /\ Contents(list) = ContentsIn(segs, m)
  BY <1>1, <1>2 DEF BinHolds
<1>6. PICK z : /\ OneOfEach(z, list) /\ SumFunction(z) <= y /\ counts.dedup_size = SumFunction(z) % CounterSize
  BY <1>1, <1>5 DEF HasCounts
<1>7. z = [c \in ContentsIn(segs, m) |-> SizeOf[c]]
  <2>1. \A c \in Contents(list) : z[c] = SizeOf[c]
    <3> SUFFICES ASSUME NEW c \in Contents(list) PROVE z[c] = SizeOf[c]
      OBVIOUS
    <3>1. PICK blk \in Range(list) : blk.cksum = c /\ z[c] = blk.size
      BY <1>6 DEF OneOfEach
    <3>2. blk \in GoodBlock
      BY <1>1 DEF Range
    <3> QED BY <3>1, <3>2 DEF GoodBlock, LogBlock
  <2> QED BY <1>5, <1>6, <2>1 DEF OneOfEach
<1>8. SumFunction(z) \in Nat
  BY <1>1, <1>6, ContentsAreFinite, SumOfNat DEF OneOfEach
<1>9. counts.dedup_size = SumFunction([c \in ContentsIn(segs, m) |-> SizeOf[c]])
  <2>1. SumFunction(z) % CounterSize = SumFunction(z)
    BY <1>4, <1>6, <1>8
  <2> QED BY <1>6, <1>7, <2>1
<1>10. counts.num_dedup_blocks = Cardinality(ContentsIn(segs, m))
  <2>1. PICK d \in Nat : d = Cardinality(Contents(list)) /\ d <= b
    BY <1>1, <1>5, FewContents
  <2>2. d % CounterSize = d
    BY <1>2, <1>4, <2>1
  <2> QED BY <1>1, <1>5, <2>1, <2>2 DEF HasCounts
<1>11. counts.num_blocks = b /\ counts.size = y /\ bin.num_segments = n
  <2>1. n % CounterSize = n /\ b % CounterSize = b /\ y % CounterSize = y
    BY <1>2, <1>4
  <2> QED BY <1>1, <1>5, <2>1 DEF HasCounts
<1>12. /\ Cardinality(Similar(segs, m)) = n /\ BinOf(segs, m).num_blocks = b /\ BinOf(segs, m).size = y
       /\ BinOf(segs, m).num_dedup_blocks = counts.num_dedup_blocks /\ BinOf(segs, m).dedup_size = counts.dedup_size
  BY <1>2, <1>9, <1>10, BinOfIs
<1>13. counts = BinOf(segs, m)
  <2>1. counts = [num_blocks |-> counts.num_blocks, size |-> counts.size,
                  num_dedup_blocks |-> counts.num_dedup_blocks, dedup_size |-> counts.dedup_size]
    BY DEF BinCounts
  <2>2. BinOf(segs, m) = [num_blocks |-> BinOf(segs, m).num_blocks, size |-> BinOf(segs, m).size,
                          num_dedup_blocks |-> BinOf(segs, m).num_dedup_blocks, dedup_size |-> BinOf(segs, m).dedup_size]
    BY DEF BinOf
  <2> QED BY <1>11, <1>12, <2>1, <2>2
<1> QED BY <1>11, <1>12, <1>13

\* What some have of file p, others have as well.
HasOfFile(s, t, p) ==
  /\ \A w \in WeightsIn(p) : Weight(s, w) <= Weight(t, w)
  /\ \A e \in Range(s) : FileOf(e) = p => e \in Range(t)

LEMMA HasByWeight ==
  ASSUME NEW s \in Seq(GoodSegment), NEW t \in Seq(GoodSegment), NEW p, \A w \in WeightsIn(p) : Weight(s, w) <= Weight(t, w)
  PROVE  HasOfFile(s, t, p)
<1> SUFFICES ASSUME NEW e \in Range(s), FileOf(e) = p PROVE e \in Range(t)
  BY DEF HasOfFile
<1>1. e \in GoodSegment
  BY DEF Range
<1>2. Only(e) \in WeightsIn(p) /\ Weight(s, Only(e)) # 0
  BY <1>1, WeightOfOne
<1>3. Only(e) \in [GoodSegment -> Nat]
  BY <1>2 DEF WeightsIn
<1>4. PICK u \in Nat, v \in Nat : u = Weight(s, Only(e)) /\ v = Weight(t, Only(e))
  BY <1>3, WeightOfAppend
<1>5. v # 0
  BY <1>2, <1>4
<1> QED BY <1>1, <1>4, <1>5, WeightOfOne

LEMMA BinOfMore ==
  ASSUME NEW s \in Seq(GoodSegment), NEW t \in Seq(GoodSegment), NEW p, NEW m \in HashesOf(p), HasOfFile(s, t, p)
  PROVE  AtMost(BinOf(s, m), BinOf(t, m)) /\ Cardinality(Similar(s, m)) <= Cardinality(Similar(t, m))
<1>1. CountOf(m) \in WeightsIn(p) /\ BlocksIn(m) \in WeightsIn(p) /\ BytesIn(m) \in WeightsIn(p)
  BY BinWeights
<1>2. /\ Weight(s, CountOf(m)) <= Weight(t, CountOf(m)) /\ Weight(s, BlocksIn(m)) <= Weight(t, BlocksIn(m))
      /\ Weight(s, BytesIn(m)) <= Weight(t, BytesIn(m))
  BY <1>1 DEF HasOfFile
<1>3. \A e \in Range(s) : GetMinHash(e) = m => FileOf(e) = p
  BY DEF FileOf, HashesOf
<1>4. ContentsIn(s, m) \in SUBSET ContentsIn(t, m)
  BY <1>3 DEF ContentsIn, HasOfFile
<1>5. PICK C : C = ContentsIn(t, m) /\ IsFiniteSet(C) /\ C \subseteq DOMAIN Middle4Bytes
  BY ContentsInFinite
<1>6. PICK B : B = ContentsIn(s, m) /\ B \in SUBSET C
  BY <1>4, <1>5
<1>7. Cardinality(B) <= Cardinality(C)
  BY <1>5, <1>6, FS_Subset
<1>8. SumFunction([c \in B |-> SizeOf[c]]) <= SumFunction([c \in C |-> SizeOf[c]])
  <2> DEFINE f == [c \in C |-> SizeOf[c]]
  <2>1. f \in [C -> Nat]
    BY <1>5, LogsHaveLogBlocks
  <2>2. [c \in B |-> f[c]] = [c \in B |-> SizeOf[c]]
    BY <1>6
  <2> HIDE DEF f
  <2>3. SumFunction([c \in B |-> f[c]]) <= SumFunction(f)
    BY <1>5, <1>6, <2>1, SumOfMore
  <2> QED BY <2>2, <2>3 DEF f
<1>9. /\ BinOf(s, m).num_blocks <= BinOf(t, m).num_blocks /\ BinOf(s, m).size <= BinOf(t, m).size
      /\ BinOf(s, m).num_dedup_blocks <= BinOf(t, m).num_dedup_blocks /\ BinOf(s, m).dedup_size <= BinOf(t, m).dedup_size
      /\ Cardinality(Similar(s, m)) <= Cardinality(Similar(t, m))
  BY <1>2, <1>5, <1>6, <1>7, <1>8, BinOfIs
<1>10. DOMAIN BinOf(s, m) = {"num_blocks", "size", "num_dedup_blocks", "dedup_size"}
  BY DEF BinOf
<1> QED BY <1>9, <1>10 DEF AtMost

IsBySimilarity(bins, segments, sure, all, p) ==
  /\ MinHashes(sure) \intersect HashesOf(p) \subseteq DOMAIN bins
  /\ DOMAIN bins \subseteq MinHashes(all) \intersect HashesOf(p)
  /\ \A m \in DOMAIN bins :
       BinOf(all, m).size < CounterSize =>
         /\ Cardinality(Similar(sure, m)) <= segments[m]
         /\ segments[m] <= Cardinality(Similar(all, m))
         /\ AtMost(BinOf(sure, m), bins[m])
         /\ AtMost(bins[m], BinOf(all, m))

LEMMA FileIsBySimilarity ==
  ASSUME NEW p, NEW segs \in Seq(GoodSegment), NEW sure \in Seq(GoodSegment), NEW all \in Seq(GoodSegment),
         \A s \in Range(segs) : FileOf(s) = p, HasOfFile(sure, segs, p), HasOfFile(segs, all, p),
         NEW binmap0, BinsHold(binmap0, segs), NEW bins, NEW segments,
         DOMAIN bins = DOMAIN binmap0,
         \A m \in DOMAIN binmap0 : /\ bins[m] \in BinCounts /\ HasCounts(bins[m], binmap0[m].blocklist)
                                   /\ segments[m] = binmap0[m].num_segments
  PROVE  IsBySimilarity(bins, segments, sure, all, p)
<1>1. ASSUME NEW m \in MinHashes(sure) \intersect HashesOf(p) PROVE m \in DOMAIN bins
  <2>1. PICK k \in DOMAIN sure : m = GetMinHash(sure[k])
    BY DEF MinHashes
  <2>2. sure[k] \in Range(sure) /\ FileOf(sure[k]) = p
    BY <2>1 DEF Range, FileOf, HashesOf
  <2>3. sure[k] \in Range(segs)
    BY <2>2 DEF HasOfFile
  <2> QED BY <2>1, <2>3 DEF BinsHold
<1>2. ASSUME NEW m \in DOMAIN bins PROVE m \in MinHashes(all) /\ m \in HashesOf(p)
  <2>1. PICK s \in Range(segs) : m = GetMinHash(s)
    BY DEF BinsHold
  <2>2. s \in GoodSegment /\ FileOf(s) = p
    BY DEF Range
  <2>3. m \in HashesOf(p)
    BY <2>1, <2>2, MinHashIsContent DEF FileOf, HashesOf
  <2>4. s \in Range(all)
    BY <2>2 DEF HasOfFile
  <2>5. m \in MinHashes(all)
    BY <2>1, <2>4 DEF MinHashes, Range
  <2> QED BY <2>3, <2>5
<1>3. ASSUME NEW m \in DOMAIN bins, BinOf(all, m).size < CounterSize
      PROVE  /\ Cardinality(Similar(sure, m)) <= segments[m]
             /\ segments[m] <= Cardinality(Similar(all, m))
             /\ AtMost(BinOf(sure, m), bins[m])
             /\ AtMost(bins[m], BinOf(all, m))
  <2>1. m \in HashesOf(p)
    BY <1>2
  <2>2. AtMost(BinOf(sure, m), BinOf(segs, m)) /\ Cardinality(Similar(sure, m)) <= Cardinality(Similar(segs, m))
    BY <2>1, BinOfMore
  <2>3. AtMost(BinOf(segs, m), BinOf(all, m)) /\ Cardinality(Similar(segs, m)) <= Cardinality(Similar(all, m))
    BY <2>1, BinOfMore
  <2>4. BinOf(segs, m).size < CounterSize
    <3>1. "size" \in DOMAIN BinOf(segs, m)
      BY DEF BinOf
    <3>2. BinOf(segs, m).size <= BinOf(all, m).size
      BY <2>3, <3>1 DEF AtMost
    <3>3. BytesIn(m) \in [GoodSegment -> Nat]
      BY BinWeights
    <3>4. BinOf(segs, m).size \in Nat /\ BinOf(all, m).size \in Nat
      <4>1. Weight(segs, BytesIn(m)) \in Nat /\ Weight(all, BytesIn(m)) \in Nat
        BY <3>3, WeightOfAppend
      <4> QED BY <4>1, BinOfIs
    <3> QED BY <1>3, <3>2, <3>4, BinningAssumption
  <2>5. PICK bin : bin = binmap0[m] /\ BinHolds(bin, segs, m)
    <3>1. BinAt(binmap0, m) = binmap0[m]
      BY DEF BinAt
    <3> QED BY <3>1 DEF BinsHold
  <2>6. PICK counts \in BinCounts : counts = bins[m] /\ HasCounts(counts, bin.blocklist)
    BY <2>5
  <2>7. counts = BinOf(segs, m) /\ bin.num_segments = Cardinality(Similar(segs, m))
    BY <2>4, <2>5, <2>6, FittingBinIs
  <2>8. segments[m] = Cardinality(Similar(segs, m))
    BY <2>5, <2>7
  <2> QED BY <2>2, <2>3, <2>6, <2>7, <2>8
<1> QED BY <1>1, <1>2, <1>3 DEF IsBySimilarity

BySimilarity(p) ==
  Intact(p) =>
    IsBySimilarity(printed[p].bins, printed[p].segments, finished[p], finished[p] \o killed[p], p)

LEMMA BinsPrinted ==
  ASSUME BinningTypes, FilesInv, BinsInv, BinsAreBySimilarity, PrintBins
  PROVE  BinsAreBySimilarity'
<1>1. BinsAreBySimilarity' = \A p \in DOMAIN printed' : BySimilarity(p)'
  BY DEF BinsAreBySimilarity, BySimilarity, IsBySimilarity
<1>2. PICK behind \in BOOLEAN :
        printed' = [p \in DOMAIN printed \union {part} |->
          IF p # part THEN printed[p]
          ELSE [blocks |-> blocks, bytes |-> bytes,
                segments |-> [m \in DOMAIN binmap |-> binmap[m].num_segments],
                bins  |-> [m \in DOMAIN binmap |-> Deduplication(binmap[m].blocklist, behind)]]]
  BY DEF PrintBins
<1>3. DOMAIN printed' = DOMAIN printed \union {part}
  BY <1>2
<1>4. UNCHANGED <<files, finished, killed>>
  BY DEF PrintBins, segmentVars
<1>5. ASSUME NEW p \in DOMAIN printed, p # part PROVE BySimilarity(p)'
  <2>1. printed'[p] = printed[p]
    BY <1>2, <1>5
  <2>2. BySimilarity(p)
    BY DEF BinsAreBySimilarity, BySimilarity, IsBySimilarity
  <2> QED BY <1>4, <2>1, <2>2 DEF BySimilarity, Intact
<1>6. ASSUME NEW p, p = part, WholeFile(files[p])
      PROVE  IsBySimilarity(printed'[p].bins, printed'[p].segments, finished[p], finished[p] \o killed[p], p)
  <2>1. p \in FileNumbers /\ program = "bins" /\ files[p] \in Seq(Item)
    BY <1>6 DEF PrintBins, BinningTypes
  <2>2. PICK segs \in Seq(GoodSegment) : /\ segs = BlocksOf(files[p]) /\ BinsHold(binmap, segs)
                                         /\ \A s \in Range(segs) : FileOf(s) = p
    <3>1. BlocksOf(files[p]) \in Seq(GoodSegment) /\ \A s \in Range(BlocksOf(files[p])) : FileOf(s) = p
      BY <1>6, <2>1, WholeFileIs DEF FilesInv
    <3>2. PICK read \in Seq(GoodSegment) : BinsHold(binmap, read) /\ BlocksOf(files[p]) = read \o BlocksOf(rest)
      BY <1>6, <2>1 DEF BinsInv
    <3>3. rest = <<>>
      BY <1>6, <2>1 DEF BinsInv
    <3>4. BlocksOf(<<>>) = <<>> /\ read \o <<>> = read
      BY ConcatEmptySeq DEF BlocksOf
    <3> QED BY <3>1, <3>2, <3>3, <3>4
  <2>3. PICK sure \in Seq(GoodSegment), more \in Seq(GoodSegment) : sure = finished[p] /\ more = killed[p]
    BY <2>1 DEF BinningTypes
  <2>4. \A w \in WeightsIn(p) : InBounds(segs, sure, more, w)
    BY <1>6, <2>1, <2>2, <2>3 DEF FilesInv, FileIsRight
  <2>5. PICK all \in Seq(GoodSegment) : /\ all = sure \o more
                                        /\ \A w \in [GoodSegment -> Nat] : Weight(all, w) = Weight(sure, w) + Weight(more, w)
    <3>1. sure \o more \in Seq(GoodSegment)
      BY ConcatProperties
    <3>2. \A w \in [GoodSegment -> Nat] : Weight(sure \o more, w) = Weight(sure, w) + Weight(more, w)
      BY WeightOfConcat
    <3> QED BY <3>1, <3>2
  <2>6. HasOfFile(sure, segs, p)
    <3>1. \A w \in WeightsIn(p) : Weight(sure, w) <= Weight(segs, w)
      BY <2>4 DEF InBounds
    <3> QED BY <3>1, HasByWeight
  <2>7. HasOfFile(segs, all, p)
    <3>1. \A w \in WeightsIn(p) : w \in [GoodSegment -> Nat]
      BY DEF WeightsIn
    <3>2. \A w \in WeightsIn(p) : Weight(segs, w) <= Weight(all, w)
      BY <2>4, <2>5, <3>1 DEF InBounds
    <3> QED BY <3>2, HasByWeight
  <2> DEFINE bins == [m \in DOMAIN binmap |-> Deduplication(binmap[m].blocklist, behind)]
             segments == [m \in DOMAIN binmap |-> binmap[m].num_segments]
  <2>8. printed'[p].bins = bins /\ printed'[p].segments = segments
    <3>1. printed'[p] = [blocks |-> blocks, bytes |-> bytes, segments |-> segments, bins  |-> bins]
      BY <1>2, <1>6
    <3> QED BY <3>1
  <2>9. ASSUME NEW m \in DOMAIN binmap
        PROVE  /\ bins[m] \in BinCounts /\ HasCounts(bins[m], binmap[m].blocklist)
               /\ segments[m] = binmap[m].num_segments
    <3>1. PICK list \in Seq(Block) : list = binmap[m].blocklist
      <4>1. binmap[m] \in Bin
        BY DEF BinningTypes
      <4> QED BY <4>1 DEF Bin
    <3>2. HasCounts(Deduplication(list, behind), list)
      BY DeduplicationIsRight
    <3>3. Deduplication(list, behind) \in BinCounts
      <4>1. SortedBlocks(list, behind) \in Seq(Block)
        BY SortedIs
      <4>2. CountedBin(SortedBlocks(list, behind)) \in BinCounts
        BY <4>1, CountedOfAppend
      <4> QED BY <4>2, DeduplicationIs
    <3> QED BY <3>1, <3>2, <3>3
  <2>10. DOMAIN bins = DOMAIN binmap
    OBVIOUS
  <2> HIDE DEF bins, segments
  <2>11. IsBySimilarity(bins, segments, sure, all, p)
    BY <2>2, <2>6, <2>7, <2>9, <2>10, FileIsBySimilarity
  <2> QED BY <2>3, <2>5, <2>8, <2>11
<1>7. ASSUME NEW p, p = part PROVE BySimilarity(p)'
  BY <1>4, <1>6, <1>7 DEF BySimilarity, Intact, WholeFile
<1> QED BY <1>1, <1>3, <1>5, <1>7

LEMMA SimilarityStep ==
  BinningTypes /\ FilesInv /\ BinsInv /\ BinsAreBySimilarity /\ [BinningNext]_binningVars => BinsAreBySimilarity'
<1> SUFFICES ASSUME BinningTypes, FilesInv, BinsInv, BinsAreBySimilarity, [BinningNext]_binningVars
             PROVE  BinsAreBySimilarity'
  OBVIOUS
<1>1. CASE PrintBins
  BY <1>1, BinsPrinted
<1>2. CASE OpenLog \/ StoreSegment \/ CloseLog \/ KillSegmenting
  <2>1. printed' = <<>>
    BY <1>2 DEF OpenLog, StoreSegment, CloseLog, KillSegmenting, BinningTypes
  <2> QED BY <2>1 DEF BinsAreBySimilarity
<1>3. CASE OpenFile \/ ReadSegment \/ ReadMisread \/ EndOfFile \/ UNCHANGED binningVars
  <2>1. UNCHANGED <<files, finished, killed, printed>>
    BY <1>3 DEF OpenFile, ReadSegment, ReadMisread, EndOfFile, binningVars, segmentVars
  <2> QED BY <2>1 DEF BinsAreBySimilarity, Intact
<1> QED BY <1>1, <1>2, <1>3 DEF BinningNext

\* All the segments of one smallest checksum are in one bin, and nothing else
\* is: what the runs that ended have of it, and no more than that and what
\* the killed ones have.  A run that is killed may tear a file, and of a torn
\* file nothing is said.
THEOREM BinsBySimilarity == BinningSpec => []BinsAreBySimilarity
<1>1. BinningInit => BinsInv /\ BinsAreBySimilarity
  BY DEF BinningInit, BinsInv, BinsAreBySimilarity
<1> QED BY <1>1, BinningTypesInit, BinningTypesStep, FilesInit, FilesStep, BinsStep, SimilarityStep, PTL DEF BinningSpec

=============================================================================
