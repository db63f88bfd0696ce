----------------------------- MODULE CacheProofs ----------------------------
(***************************************************************************)
(* The caches of the two simulators that have one, for snapshots, parents, *)
(* CDS files, sizes and clocks of any kind, over any number of runs and    *)
(* kills.  That of CdsLru keeps its capacity, keeps what was used          *)
(* recently, and with one CDS finds nothing that is not in it.  That of    *)
(* SimLru keeps its size, if every segment fits, and then finds all that   *)
(* is found without it, and never what the parent does not have.           *)
(***************************************************************************)
EXTENDS CdsLru, SimLru, CdsSimProofs

-----------------------------------------------------------------------------
(* Maps *)

LEMMA PutIsUpdate ==
  ASSUME NEW map, NEW c, NEW t
  PROVE  /\ DOMAIN Put(map, c, t) = DOMAIN map \union {c}
         /\ Put(map, c, t)[c] = t
         /\ \A d \in DOMAIN map : d # c => Put(map, c, t)[d] = map[d]
  BY DEF Put

\* What is left after RemoveItems is a part of the map.
LEMMA RemoveItemsLeaves ==
  ASSUME NEW m, NEW n, NEW r \in RemoveItems(m, n)
  PROVE  \E gone \in SUBSET DOMAIN m :
           /\ Cardinality(gone) = n
           /\ OldestEntries(m, gone)
           /\ DOMAIN r = DOMAIN m \ gone
           /\ \A c \in DOMAIN m \ gone : r[c] = m[c]
  BY DEF RemoveItems

LEMMA EvictedType ==
  ASSUME capacity \in Nat
  PROVE  Evicted \in Nat /\ Evicted <= capacity
<1>1. Tenth \in Nat /\ Tenth # 0
  BY TenthAssumption
<1> QED BY <1>1 DEF Evicted

\* How many entries an eviction leaves.
LEMMA EvictionLeaves ==
  ASSUME NEW S, IsFiniteSet(S), NEW gone \in SUBSET S
  PROVE  /\ IsFiniteSet(S \ gone)
         /\ Cardinality(S \ gone) \in Nat
         /\ Cardinality(S) \in Nat /\ Cardinality(gone) \in Nat
         /\ Cardinality(S \ gone) = Cardinality(S) - Cardinality(gone)
<1>1. IsFiniteSet(gone)
  BY FS_Subset
<1>2. S \intersect gone = gone
  OBVIOUS
<1>3. IsFiniteSet(S \ gone) /\ Cardinality(S \ gone) = Cardinality(S) - Cardinality(gone)
  BY <1>2, FS_Difference
<1> QED BY <1>1, <1>3, FS_CardinalityType

-----------------------------------------------------------------------------
(* Capacity *)

FilesAreFinite ==
  /\ old_cache = [n \in Capacities |-> old_cache[n]]
  /\ \A n \in Capacities : IsFiniteSet(old_cache[n])

CapacityInv ==
  /\ capacity \in Nat
  /\ IsFiniteSet(Entries)
  /\ FilesAreFinite
  /\ CapacityIsKept

\* Adding one entry, and evicting some when that is one too many.
LEMMA AddKeepsCapacity ==
  ASSUME CapacityInv, pc # "killed", NEW c, NEW t,
         Overflows(Put(cache, c, t)) => Evicted > 0,
         cache' \in IF Overflows(Put(cache, c, t)) THEN RemoveItems(Put(cache, c, t), Evicted)
                                                   ELSE {Put(cache, c, t)}
  PROVE  IsFiniteSet(Entries') /\ Cardinality(Entries') <= capacity
<1> DEFINE m == Put(cache, c, t)
           S == Entries \union {c}
<1>1. DOMAIN m = S
  BY PutIsUpdate DEF Entries
<1>2. capacity \in Nat
  BY DEF CapacityInv
<1>3. /\ IsFiniteSet(S) /\ Cardinality(S) \in Nat /\ Cardinality(S) <= capacity + 1
  <2>1. IsFiniteSet(Entries) /\ Cardinality(Entries) <= capacity /\ Cardinality(Entries) \in Nat
    BY FS_CardinalityType DEF CapacityInv, CapacityIsKept
  <2>2. /\ IsFiniteSet(S)
        /\ Cardinality(S) = IF c \in Entries THEN Cardinality(Entries) ELSE Cardinality(Entries) + 1
    BY <2>1, FS_AddElement
  <2> QED BY <1>2, <2>1, <2>2
<1>4. CASE ~Overflows(m)
  <2>1. DOMAIN cache' = S
    BY <1>1, <1>4
  <2>2. ~(Cardinality(S) > capacity)
    BY <1>1, <1>4 DEF Overflows
  <2> QED BY <1>2, <1>3, <2>1, <2>2 DEF Entries
<1>5. CASE Overflows(m)
  <2>1. Evicted > 0
    BY <1>5
  <2> HIDE DEF m
  <2>2. cache' \in RemoveItems(m, Evicted)
    BY <1>5 DEF m
  <2>3. PICK gone \in SUBSET DOMAIN m :
          /\ Cardinality(gone) = Evicted
          /\ OldestEntries(m, gone)
          /\ DOMAIN cache' = DOMAIN m \ gone
          /\ \A d \in DOMAIN m \ gone : cache'[d] = m[d]
    BY ONLY <2>2, RemoveItemsLeaves
  <2>4. /\ IsFiniteSet(S \ gone)
        /\ Cardinality(S \ gone) = Cardinality(S) - Evicted
    BY <1>1, <1>3, <2>3, EvictionLeaves
  <2>5. DOMAIN cache' = S \ gone
    BY <1>1, <2>3
  <2> QED BY <1>2, <1>3, <2>1, <2>4, <2>5, EvictedType DEF Entries
<1> QED BY <1>4, <1>5

\* Saving some of the entries keeps every file in its capacity.
LEMMA SavingKeepsCapacity ==
  ASSUME CapacityInv, pc # "killed", NEW saved \in SUBSET Entries,
         old_cache' = [old_cache EXCEPT ![capacity] = saved]
  PROVE  /\ FilesAreFinite'
         /\ \A n \in Capacities : Cardinality(old_cache'[n]) <= n
<1>1. IsFiniteSet(saved) /\ Cardinality(saved) <= capacity
  <2>1. IsFiniteSet(saved) /\ Cardinality(saved) <= Cardinality(Entries)
    BY FS_Subset DEF CapacityInv
  <2>2. Cardinality(Entries) \in Nat /\ Cardinality(saved) \in Nat /\ capacity \in Nat
    BY <2>1, FS_CardinalityType DEF CapacityInv
  <2> QED BY <2>1, <2>2 DEF CapacityInv, CapacityIsKept
<1>2. old_cache = [n \in Capacities |-> old_cache[n]]
  BY DEF CapacityInv, FilesAreFinite
<1>3. old_cache' = [n \in Capacities |-> IF n = capacity THEN saved ELSE old_cache[n]]
  BY <1>2
<1>4. \A n \in Capacities : old_cache'[n] = IF n = capacity THEN saved ELSE old_cache[n]
  BY <1>3
<1>5. FilesAreFinite'
  <2>1. old_cache' = [n \in Capacities |-> old_cache'[n]]
    BY <1>3
  <2>2. \A n \in Capacities : IsFiniteSet(old_cache'[n])
    BY <1>1, <1>4 DEF CapacityInv, FilesAreFinite
  <2> QED BY <2>1, <2>2 DEF FilesAreFinite
<1>6. \A n \in Capacities : Cardinality(old_cache'[n]) <= n
  BY <1>1, <1>4 DEF CapacityInv, CapacityIsKept
<1> QED BY <1>5, <1>6

LEMMA CapacityStep ==
  ASSUME CapacityInv, [LruNext]_lruVars
  PROVE  CapacityInv'
<1>1. CASE UNCHANGED <<capacity, cache, old_cache>> /\ (pc = "killed" => pc' = "killed")
  BY <1>1 DEF CapacityInv, CapacityIsKept, FilesAreFinite, Entries
<1>2. CASE LruOpen
  <2>1. /\ capacity' \in Capacities /\ capacity' \in Nat
        /\ DOMAIN cache' = old_cache[capacity'] /\ old_cache' = old_cache
    BY <1>2, CacheAssumption DEF LruOpen
  <2> QED BY <2>1 DEF CapacityInv, CapacityIsKept, FilesAreFinite, Entries
<1>3. CASE CacheHit
  <2>1. PICK c, t : c \in Entries /\ cache' = Put(cache, c, t)
    BY <1>3 DEF CacheHit
  <2>2. DOMAIN cache' = Entries
    <3>1. DOMAIN Put(cache, c, t) = DOMAIN cache \union {c}
      BY PutIsUpdate, Zenon
    <3> QED BY <2>1, <3>1 DEF Entries
  <2>3. pc # "killed" /\ UNCHANGED <<capacity, old_cache>>
    BY <1>3 DEF CacheHit
  <2> QED BY <2>2, <2>3 DEF CapacityInv, CapacityIsKept, FilesAreFinite, Entries
<1>4. CASE CdsHit
  <2>1. PICK c, t :
          /\ Overflows(Put(cache, c, t)) => Evicted > 0
          /\ cache' \in IF Overflows(Put(cache, c, t))
                          THEN RemoveItems(Put(cache, c, t), Evicted)
                          ELSE {Put(cache, c, t)}
    BY <1>4 DEF CdsHit
  <2>2. pc # "killed" /\ UNCHANGED <<capacity, old_cache>>
    BY <1>4 DEF CdsHit
  <2>3. IsFiniteSet(Entries') /\ Cardinality(Entries') <= capacity
    BY <2>1, <2>2, AddKeepsCapacity
  <2> QED BY <2>2, <2>3 DEF CapacityInv, CapacityIsKept, FilesAreFinite
<1>5. CASE Overrun
  <2>1. PICK c, t : cache' = Put(cache, c, t)
    BY <1>5 DEF Overrun
  <2>2. DOMAIN cache' = Entries \union {c}
    BY <2>1, PutIsUpdate DEF Entries
  <2>3. IsFiniteSet(Entries')
    BY <2>2, FS_AddElement DEF CapacityInv, Entries
  <2>4. pc' = "killed" /\ UNCHANGED <<capacity, old_cache>>
    BY <1>5 DEF Overrun, Kill
  <2> QED BY <2>3, <2>4 DEF CapacityInv, CapacityIsKept, FilesAreFinite
<1>6. CASE SaveCache \/ LruKill
  <2>1. CASE UNCHANGED old_cache
    <3>1. UNCHANGED <<capacity, cache, old_cache>> /\ (pc = "killed" => pc' = "killed")
      BY <1>6, <2>1 DEF SaveCache, LruKill, Kill
    <3> QED BY <1>1, <3>1
  <2>2. CASE ~ UNCHANGED old_cache
    <3>1. PICK saved \in SUBSET Entries : old_cache' = [old_cache EXCEPT ![capacity] = saved]
      BY <1>6, <2>2 DEF SaveCache, LruKill
    <3>2. pc # "killed" /\ UNCHANGED <<capacity, cache>>
      BY <1>6, <2>2 DEF SaveCache, LruKill
    <3>3. FilesAreFinite' /\ \A n \in Capacities : Cardinality(old_cache'[n]) <= n
      BY <3>1, <3>2, SavingKeepsCapacity
    <3> QED BY <3>2, <3>3 DEF CapacityInv, CapacityIsKept, Entries
  <2> QED BY <2>1, <2>2
<1>7. CASE CdsMiss \/ UNCHANGED lruVars
  <2>1. UNCHANGED <<capacity, cache, old_cache>> /\ (pc = "killed" => pc' = "killed")
    BY <1>7 DEF CdsMiss, lruVars, snapshotVars, cacheVars
  <2> QED BY <1>1, <2>1
<1>8. CASE /\ \/ LoadSegments \/ TagParent \/ TagDirty \/ WithoutParent \/ WriteSegment
              \/ EndOfSnapshot("save") \/ Close
           /\ UNCHANGED cacheVars
  <2>1. pc # "killed"
    BY <1>8 DEF LoadSegments, TagParent, TagDirty, WithoutParent, WriteSegment, EndOfSnapshot, Close
  <2> QED BY <1>1, <1>8, <2>1 DEF cacheVars
<1> QED BY <1>2, <1>3, <1>4, <1>5, <1>6, <1>7, <1>8 DEF LruNext

LEMMA CapacityInit == LruInit => CapacityInv
<1> SUFFICES ASSUME LruInit PROVE CapacityInv
  OBVIOUS
<1>1. Entries = {} /\ capacity = 0 /\ old_cache = [n \in Capacities |-> {}]
  BY DEF LruInit, Entries
<1>2. IsFiniteSet({}) /\ Cardinality({}) = 0
  BY FS_EmptySet
<1>3. \A n \in Capacities : n \in Nat
  BY CacheAssumption
<1> QED BY <1>1, <1>2, <1>3 DEF CapacityInv, CapacityIsKept, FilesAreFinite

\* After any number of runs, of different capacities, each of which may die
\* at any point, neither the cache of dedup_cds_lru.cpp nor a file it leaves
\* for a later run holds more entries than its capacity; the one exception
\* is the cache of a run that its own overflow has killed.
THEOREM Capacity == LruSpec => []CapacityIsKept
<1>1. LruInit => CapacityInv
  BY CapacityInit
<1>2. CapacityInv /\ [LruNext]_lruVars => CapacityInv'
  BY CapacityStep
<1>3. CapacityInv => CapacityIsKept
  BY DEF CapacityInv
<1> QED BY <1>1, <1>2, <1>3, PTL DEF LruSpec

-----------------------------------------------------------------------------
(* Recency *)

UsesKnown ==
  /\ capacity \in Nat
  /\ clock \in Nat
  /\ IsFiniteSet(DOMAIN used)
  /\ \A c \in DOMAIN used : used[c] \in Nat /\ used[c] <= clock

\* An entry carries the time of its last use.
EntriesAreUses ==
  /\ Entries \subseteq DOMAIN used
  /\ \A c \in Entries : cache[c] = used[c]

ManySince(c) == \E others \in SUBSET UsedSince(c) : Cardinality(others) > capacity - Evicted

\* What is no longer in the cache was used before many others.
GoneAreOld == \A c \in DOMAIN used \ Entries : ManySince(c)

RecencyInv == UsesKnown /\ EntriesAreUses /\ GoneAreOld

\* A set of more than n elements is found in no set of at most n.
LEMMA ManyIsMore ==
  ASSUME UsesKnown, NEW c \in DOMAIN used, ManySince(c)
  PROVE  ~(Cardinality(UsedSince(c)) <= capacity - Evicted)
<1>1. PICK others \in SUBSET UsedSince(c) : Cardinality(others) > capacity - Evicted
  BY DEF ManySince
<1>2. IsFiniteSet(UsedSince(c))
  BY FS_Subset DEF UsedSince, UsesKnown
<1>3. IsFiniteSet(others) /\ Cardinality(others) <= Cardinality(UsedSince(c))
  BY <1>2, FS_Subset
<1>4. Cardinality(others) \in Nat /\ Cardinality(UsedSince(c)) \in Nat
  BY <1>2, <1>3, FS_CardinalityType
<1>5. capacity \in Nat
  BY DEF UsesKnown
<1> QED BY <1>1, <1>3, <1>4, <1>5, EvictedType

\* A use of c at time t, after which the entries in gone are no longer there.
LEMMA UseKeepsRecency ==
  ASSUME RecencyInv, NEW c, NEW t \in Nat, t >= clock, clock' = t,
         capacity' = capacity, used' = Put(used, c, t),
         NEW gone \in SUBSET (Entries \union {c}),
         OldestEntries(Put(cache, c, t), gone),
         gone # {} => Cardinality((Entries \union {c}) \ gone) > capacity - Evicted,
         DOMAIN cache' = (Entries \union {c}) \ gone,
         \A d \in DOMAIN cache' : cache'[d] = Put(cache, c, t)[d]
  PROVE  RecencyInv'
<1>1. /\ DOMAIN used' = DOMAIN used \union {c}
      /\ used'[c] = t
      /\ \A d \in DOMAIN used : d # c => used'[d] = used[d]
  <2>1. /\ DOMAIN Put(used, c, t) = DOMAIN used \union {c}
        /\ Put(used, c, t)[c] = t
        /\ \A d \in DOMAIN used : d # c => Put(used, c, t)[d] = used[d]
    BY DEF Put
  <2> QED BY <2>1, Zenon
<1>2. /\ DOMAIN Put(cache, c, t) = Entries \union {c}
      /\ Put(cache, c, t)[c] = t
      /\ \A d \in Entries : d # c => Put(cache, c, t)[d] = cache[d]
  <2>1. /\ DOMAIN Put(cache, c, t) = DOMAIN cache \union {c}
        /\ Put(cache, c, t)[c] = t
        /\ \A d \in DOMAIN cache : d # c => Put(cache, c, t)[d] = cache[d]
    BY DEF Put
  <2> QED BY <2>1, Zenon DEF Entries
<1>3. \A d \in Entries \union {c} : Put(cache, c, t)[d] = used'[d]
  <2> SUFFICES ASSUME NEW d \in Entries, d # c PROVE Put(cache, c, t)[d] = used'[d]
    BY <1>1, <1>2
  <2>1. d \in DOMAIN used /\ cache[d] = used[d]
    BY DEF RecencyInv, EntriesAreUses
  <2> QED BY <2>1, <1>1, <1>2
<1>4. \A d \in DOMAIN used : used[d] \in Nat /\ used[d] <= clock /\ clock \in Nat
  BY DEF RecencyInv, UsesKnown
<1>5. \A d \in DOMAIN used' : used'[d] \in Nat /\ used'[d] <= t
  <2> SUFFICES ASSUME NEW d \in DOMAIN used, d # c PROVE used'[d] \in Nat /\ used'[d] <= t
    BY <1>1
  <2>1. used'[d] = used[d] /\ used[d] \in Nat /\ used[d] <= clock /\ clock \in Nat
    BY <1>1, <1>4
  <2> QED BY <2>1
<1>6. UsesKnown'
  <2>1. IsFiniteSet(DOMAIN used')
    BY <1>1, FS_AddElement DEF RecencyInv, UsesKnown
  <2> QED BY <1>5, <2>1 DEF UsesKnown, RecencyInv
<1>7. EntriesAreUses'
  <2>1. Entries' \subseteq DOMAIN used'
    BY <1>1 DEF Entries, RecencyInv, EntriesAreUses
  <2>2. \A d \in Entries' : cache'[d] = used'[d]
    BY <1>3 DEF Entries
  <2> QED BY <2>1, <2>2 DEF EntriesAreUses
<1>8. GoneAreOld'
  <2> SUFFICES ASSUME NEW d \in DOMAIN used', d \notin Entries'
               PROVE  ManySince(d)'
    BY DEF GoneAreOld
  <2>1. CASE d \in gone
    <3> DEFINE left == (Entries \union {c}) \ gone
    <3>1. \A x \in left : used'[x] >= used'[d]
      <4> SUFFICES ASSUME NEW x \in left PROVE used'[x] >= used'[d]
        OBVIOUS
      <4>1. Put(cache, c, t)[d] <= Put(cache, c, t)[x]
        BY <1>2, <2>1 DEF OldestEntries
      <4>2. used'[d] <= used'[x]
        BY <1>3, <2>1, <4>1
      <4>3. x \in DOMAIN used'
        BY <1>1 DEF RecencyInv, EntriesAreUses
      <4>4. used'[x] \in Nat /\ used'[d] \in Nat
        BY <1>5, <4>3
      <4> QED BY <4>2, <4>4
    <3>2. left \subseteq DOMAIN used' \ {d}
      BY <1>1, <2>1 DEF RecencyInv, EntriesAreUses
    <3>3. left \in SUBSET UsedSince(d)'
      BY <3>1, <3>2 DEF UsedSince
    <3>4. Cardinality(left) > capacity - Evicted
      BY <2>1
    <3> HIDE DEF left
    <3>5. \E others \in SUBSET UsedSince(d)' : Cardinality(others) > capacity - Evicted
      BY <3>3, <3>4
    <3> QED BY <3>5 DEF ManySince, Evicted
  <2>2. CASE d \notin gone
    <3>1. d # c /\ d \notin Entries /\ d \in DOMAIN used
      BY <1>1, <2>2 DEF Entries
    <3>2. ManySince(d)
      BY <3>1 DEF RecencyInv, GoneAreOld
    <3>3. PICK others \in SUBSET UsedSince(d) : Cardinality(others) > capacity - Evicted
      BY <3>2 DEF ManySince
    <3>4. \A x \in UsedSince(d) : x \in DOMAIN used' \ {d} /\ used'[x] >= used'[d]
      <4> SUFFICES ASSUME NEW x \in UsedSince(d)
                   PROVE  x \in DOMAIN used' \ {d} /\ used'[x] >= used'[d]
        OBVIOUS
      <4>1. x \in DOMAIN used /\ x # d /\ used[x] >= used[d]
        BY DEF UsedSince
      <4>2. used[x] \in Nat /\ used[d] \in Nat /\ used[d] <= clock /\ clock \in Nat
        BY <1>4, <3>1, <4>1
      <4>3. used'[d] = used[d] /\ (x = c => used'[x] = t) /\ (x # c => used'[x] = used[x])
        BY <1>1, <3>1, <4>1
      <4>4. CASE x = c
        BY <1>1, <4>1, <4>2, <4>3, <4>4
      <4>5. CASE x # c
        BY <1>1, <4>1, <4>2, <4>3, <4>5
      <4> QED BY <4>4, <4>5
    <3>5. others \in SUBSET UsedSince(d)'
      BY <3>3, <3>4 DEF UsedSince
    <3>6. \E o \in SUBSET UsedSince(d)' : Cardinality(o) > capacity - Evicted
      BY <3>3, <3>5
    <3> QED BY <3>6 DEF ManySince, Evicted
  <2> QED BY <2>1, <2>2
<1> QED BY <1>6, <1>7, <1>8 DEF RecencyInv

LEMMA ReadingsGrow ==
  ASSUME NEW t \in Readings, clock \in Nat
  PROVE  t \in Nat /\ t >= clock
  BY DEF Readings

\* A use that evicts nothing.
LEMMA PlainUse ==
  ASSUME RecencyInv, NEW c, NEW t \in Readings, clock' = t,
         capacity' = capacity, used' = Put(used, c, t), cache' = Put(cache, c, t)
  PROVE  RecencyInv'
<1>1. t \in Nat /\ t >= clock
  BY ReadingsGrow DEF RecencyInv, UsesKnown
<1>2. DOMAIN cache' = (Entries \union {c}) \ {}
  <2>1. DOMAIN Put(cache, c, t) = Entries \union {c}
    BY PutIsUpdate, Zenon DEF Entries
  <2> QED BY <2>1
<1>3. OldestEntries(Put(cache, c, t), {})
  BY DEF OldestEntries
<1> QED BY <1>1, <1>2, <1>3, UseKeepsRecency

LEMMA RecencyStep ==
  ASSUME RecencyInv, FilesAreFinite, [LruNext]_lruVars
  PROVE  RecencyInv'
<1>1. CASE UNCHANGED <<capacity, cache, clock, used>>
  BY <1>1 DEF RecencyInv, UsesKnown, EntriesAreUses, GoneAreOld, ManySince, UsedSince, Entries, Evicted
<1>2. CASE CacheHit
  <2> DEFINE c == current_seg[i].cksum
  <2>1. PICK t \in Readings : clock' = t /\ cache' = Put(cache, c, t) /\ used' = Put(used, c, t)
    BY <1>2, Zenon DEF CacheHit
  <2>2. capacity' = capacity
    BY <1>2 DEF CacheHit
  <2> HIDE DEF c
  <2> QED BY <2>1, <2>2, PlainUse
<1>3. CASE CdsHit
  <2> DEFINE c == current_seg[i].cksum
  <2>1. PICK t \in Readings :
          /\ clock' = t /\ used' = Put(used, c, t)
          /\ cache' \in IF Overflows(Put(cache, c, t))
                          THEN RemoveItems(Put(cache, c, t), Evicted)
                          ELSE {Put(cache, c, t)}
    BY <1>3, Zenon DEF CdsHit
  <2>4. capacity' = capacity /\ capacity \in Nat
    BY <1>3 DEF CdsHit, RecencyInv, UsesKnown
  <2> HIDE DEF c
  <2> DEFINE m == Put(cache, c, t)
             S == Entries \union {c}
  <2>2. CASE ~Overflows(m)
    <3>1. cache' = m
      BY <2>1, <2>2
    <3> QED BY <2>1, <2>4, <3>1, PlainUse
  <2>3. CASE Overflows(m)
    <3>1. DOMAIN m = S
      BY PutIsUpdate DEF Entries
    <3>2. cache' \in RemoveItems(m, Evicted)
      BY <2>1, <2>3
    <3> HIDE DEF m
    <3>3. PICK gone \in SUBSET DOMAIN m :
            /\ Cardinality(gone) = Evicted /\ OldestEntries(m, gone)
            /\ DOMAIN cache' = DOMAIN m \ gone
            /\ \A d \in DOMAIN m \ gone : cache'[d] = m[d]
      <4>1. \A r \in RemoveItems(m, Evicted) : \E gone \in SUBSET DOMAIN m :
              /\ Cardinality(gone) = Evicted /\ OldestEntries(m, gone)
              /\ DOMAIN r = DOMAIN m \ gone
              /\ \A d \in DOMAIN m \ gone : r[d] = m[d]
        BY DEF RemoveItems
      <4> QED BY <3>2, <4>1
    <3>4. IsFiniteSet(S)
      <4>1. IsFiniteSet(Entries)
        BY FS_Subset DEF RecencyInv, UsesKnown, EntriesAreUses
      <4> QED BY <4>1, FS_AddElement
    <3>5. Cardinality(S \ gone) = Cardinality(S) - Evicted /\ Cardinality(S) \in Nat
      BY <3>1, <3>3, <3>4, EvictionLeaves
    <3>6. Cardinality(S) > capacity
      BY <2>3, <3>1 DEF Overflows
    <3>7. Cardinality(S \ gone) > capacity - Evicted
      BY <2>4, <3>5, <3>6, EvictedType
    <3>8. t \in Nat /\ t >= clock
      BY ReadingsGrow DEF RecencyInv, UsesKnown
    <3>9. gone \in SUBSET S /\ DOMAIN cache' = S \ gone
      BY <3>1, <3>3
    <3>10. \A d \in DOMAIN cache' : cache'[d] = m[d]
      BY <3>3
    <3> HIDE DEF S
    <3> QED
      BY <2>1, <2>4, <3>3, <3>7, <3>8, <3>9, <3>10, UseKeepsRecency DEF m, S
  <2> QED BY <2>2, <2>3
<1>4. CASE Overrun
  <2> DEFINE c == current_seg[i].cksum
  <2>1. PICK t \in Readings : clock' = t /\ cache' = Put(cache, c, t) /\ used' = Put(used, c, t)
    BY <1>4, Zenon DEF Overrun
  <2>2. capacity' = capacity
    BY <1>4 DEF Overrun
  <2> HIDE DEF c
  <2> QED BY <2>1, <2>2, PlainUse
<1>5. CASE LruOpen
  <2>1. /\ clock' = 1 /\ used' = cache'
        /\ cache' = [c \in old_cache[capacity'] |-> 1] /\ capacity' \in Capacities
    BY <1>5 DEF LruOpen
  <2>2. UsesKnown'
    BY <2>1, CacheAssumption DEF UsesKnown, FilesAreFinite
  <2> QED BY <2>1, <2>2 DEF RecencyInv, EntriesAreUses, GoneAreOld, Entries
<1>6. CdsMiss \/ SaveCache \/ LruKill \/ UNCHANGED lruVars
        => UNCHANGED <<capacity, cache, clock, used>>
  BY DEF CdsMiss, SaveCache, LruKill, lruVars, cacheVars
<1>7. LruNext => \/ LruOpen \/ CacheHit \/ CdsHit \/ Overrun
                 \/ CdsMiss \/ SaveCache \/ LruKill
                 \/ UNCHANGED <<capacity, cache, clock, used>>
  BY DEF LruNext, cacheVars
<1> QED BY <1>1, <1>2, <1>3, <1>4, <1>5, <1>6, <1>7

LEMMA FileStaysFinite ==
  ASSUME RecencyInv, FilesAreFinite, [LruNext]_lruVars
  PROVE  FilesAreFinite'
<1>1. CASE UNCHANGED old_cache
  BY <1>1 DEF FilesAreFinite
<1>2. CASE ~ UNCHANGED old_cache
  <2>1. PICK saved \in SUBSET Entries : old_cache' = [old_cache EXCEPT ![capacity] = saved]
    BY <1>2 DEF LruNext, lruVars, cacheVars, LruOpen, CacheHit, CdsHit, CdsMiss, Overrun, SaveCache, LruKill
  <2>2. IsFiniteSet(saved)
    <3>1. IsFiniteSet(Entries)
      BY FS_Subset DEF RecencyInv, UsesKnown, EntriesAreUses
    <3> QED BY <3>1, FS_Subset
  <2>3. old_cache' = [n \in Capacities |-> IF n = capacity THEN saved ELSE old_cache[n]]
    <3>1. old_cache = [n \in Capacities |-> old_cache[n]]
      BY DEF FilesAreFinite
    <3> QED BY <2>1, <3>1
  <2>4. old_cache' = [n \in Capacities |-> old_cache'[n]]
    BY <2>3
  <2>5. \A n \in Capacities : IsFiniteSet(old_cache'[n])
    BY <2>2, <2>3 DEF FilesAreFinite
  <2> QED BY <2>4, <2>5 DEF FilesAreFinite
<1> QED BY <1>1, <1>2

LEMMA RecencyInit == LruInit => RecencyInv /\ FilesAreFinite
<1> SUFFICES ASSUME LruInit PROVE RecencyInv /\ FilesAreFinite
  OBVIOUS
<1>1. /\ DOMAIN cache = {} /\ DOMAIN used = {} /\ clock = 1 /\ capacity = 0
      /\ old_cache = [n \in Capacities |-> {}]
  BY DEF LruInit
<1>2. IsFiniteSet({})
  BY FS_EmptySet
<1> QED BY <1>1, <1>2 DEF RecencyInv, UsesKnown, EntriesAreUses, GoneAreOld, Entries, FilesAreFinite

\* An entry is evicted only after as many others as an eviction leaves were
\* used since its own last use: what was used recently is in the cache.  The
\* theorem asks nothing of the capacity or of the clock, which may stand
\* still for any number of uses.
THEOREM Recency == LruSpec => []RecentIsCached
<1> DEFINE Inv == RecencyInv /\ FilesAreFinite
<1>1. LruInit => Inv
  BY RecencyInit
<1>2. Inv /\ [LruNext]_lruVars => Inv'
  BY RecencyStep, FileStaysFinite
<1>3. Inv => RecentIsCached
  <2> SUFFICES ASSUME RecencyInv, NEW c \in DOMAIN used, c \notin Entries
               PROVE  ~(Cardinality(UsedSince(c)) <= capacity - Evicted)
    BY DEF RecentIsCached
  <2> QED BY ManyIsMore DEF RecencyInv, GoneAreOld
<1> QED BY <1>1, <1>2, <1>3, PTL DEF LruSpec

-----------------------------------------------------------------------------
(* The cache changes nothing but the mark *)

\* The abstract simulator computes segments and searches as this one does.
LEMMA SameOperators ==
  /\ \A t : Uncached!SegmentBlocks(t) = SegmentBlocks(t)
  /\ \A t : Uncached!AfterSegment(t) = AfterSegment(t)
  /\ \A t : Uncached!SegmentCksum(t) = SegmentCksum(t)
  /\ \A t : Uncached!Contents(t) = Contents(t)
  /\ \A t : Uncached!Prefixes(t) = Prefixes(t)
  /\ \A blk, bits : Uncached!Tagged(blk, bits) = Tagged(blk, bits)
  /\ \A blocks, c : Uncached!BinarySearch(blocks, c) = BinarySearch(blocks, c)
<1>1. \A t : Uncached!TotalSize(t) = TotalSize(t)
  BY DEF Uncached!TotalSize, TotalSize, Uncached!FoldLeft, FoldLeft,
         Uncached!MapThenFoldSet, MapThenFoldSet, Uncached!Max, Max
<1>2. \A t : Uncached!NonEmpty(t) = NonEmpty(t)
  BY DEF Uncached!NonEmpty, NonEmpty, Uncached!FoldLeft, FoldLeft,
         Uncached!MapThenFoldSet, MapThenFoldSet, Uncached!Max, Max
<1>3. \A t : Uncached!SegmentLen(t) = SegmentLen(t)
  BY <1>1 DEF Uncached!SegmentLen, SegmentLen, Uncached!RecordsToSize, RecordsToSize, Uncached!Min, Min
<1>4. \A t : Uncached!SegmentBlocks(t) = SegmentBlocks(t)
  BY <1>2, <1>3 DEF Uncached!SegmentBlocks, SegmentBlocks, Uncached!Untagged, Untagged
<1>5. \A t : Uncached!AfterSegment(t) = AfterSegment(t)
  BY <1>3 DEF Uncached!AfterSegment, AfterSegment
<1>6. \A t : Uncached!SegmentCksum(t) = SegmentCksum(t) /\ Uncached!Contents(t) = Contents(t)
  BY DEF Uncached!SegmentCksum, SegmentCksum, Uncached!Contents, Contents
<1>7. \A t : Uncached!Prefixes(t) = Prefixes(t)
  BY DEF Uncached!Prefixes, Prefixes
<1>8. \A blk, bits : Uncached!Tagged(blk, bits) = Tagged(blk, bits)
  BY DEF Uncached!Tagged, Tagged
<1>9. \A blocks, c : Uncached!BinarySearch(blocks, c) = BinarySearch(blocks, c)
  BY DEF Uncached!BinarySearch, BinarySearch
<1> QED BY <1>4, <1>5, <1>6, <1>7, <1>8, <1>9


\* A block without the mark of the cache.
Unmarked(b) == [b EXCEPT !.file_id = @ \ {3}]

LEMMA UnmarkedBlock ==
  ASSUME NEW b \in Block
  PROVE  /\ b.file_id \ {3} \in SUBSET Nat
         /\ Unmarked(b) = [b EXCEPT !.file_id = b.file_id \ {3}]
         /\ Unmarked(b) \in Block /\ Unmarked(b).cksum = b.cksum
         /\ Unmarked(b).file_id = b.file_id \ {3}
<1>1. b.file_id \ {3} \in SUBSET Nat
  BY DEF Block
<1>2. PICK r : r = Unmarked(b)
  OBVIOUS
<1>3. PICK tag \in SUBSET Nat : tag = b.file_id \ {3}
  BY <1>1
<1>4. r = [b EXCEPT !.file_id = tag]
  BY <1>2, <1>3 DEF Unmarked
<1>5. r \in Block /\ r.cksum = b.cksum /\ r.file_id = tag
  BY <1>4 DEF Block
<1> QED BY <1>2, <1>3, <1>4, <1>5

LEMMA RetaggedTwice ==
  ASSUME NEW b \in Block, NEW x \in SUBSET Nat, NEW y \in SUBSET Nat,
         NEW r, r = [b EXCEPT !.file_id = x]
  PROVE  [r EXCEPT !.file_id = y] = [b EXCEPT !.file_id = y]
<1> QED BY DEF Block

LEMMA UnmarkedOfTagged ==
  ASSUME NEW b \in Block, NEW bits \in SUBSET Nat
  PROVE  Unmarked(Tagged(b, bits)) = Tagged(Unmarked(b), bits \ {3})
<1>1. PICK all \in SUBSET Nat : all = b.file_id \union bits
  BY DEF Block
<1>2. PICK less \in SUBSET Nat : less = bits \ {3}
  OBVIOUS
<1>3. PICK tag \in SUBSET Nat : tag = all \ {3}
  OBVIOUS
<1>4. PICK r : r = Tagged(b, bits)
  OBVIOUS
<1>5. r = [b EXCEPT !.file_id = all]
  BY <1>1, <1>4, TaggedIsRetagged
<1>6. r \in Block /\ r.file_id = all
  BY <1>5 DEF Block
<1>7. Unmarked(r) = [r EXCEPT !.file_id = tag]
  BY <1>3, <1>6, UnmarkedBlock
<1>8. Unmarked(r) = [b EXCEPT !.file_id = tag]
  BY <1>5, <1>7, RetaggedTwice
<1>9. PICK own \in SUBSET Nat : own = b.file_id \ {3}
  BY UnmarkedBlock
<1>10. PICK u : u = Unmarked(b)
  OBVIOUS
<1>11. u \in Block /\ u.file_id = own /\ u = [b EXCEPT !.file_id = own]
  BY <1>9, <1>10, UnmarkedBlock
<1>12. Tagged(u, less) = [u EXCEPT !.file_id = u.file_id \union less]
  BY <1>11, TaggedIsRetagged
<1>13. u.file_id \union less = tag
  BY <1>1, <1>2, <1>3, <1>9, <1>11
<1>14. Tagged(u, less) = [b EXCEPT !.file_id = tag]
  BY <1>11, <1>12, <1>13, RetaggedTwice
<1> QED BY <1>2, <1>4, <1>8, <1>10, <1>14

LEMMA WithoutMarkIs ==
  ASSUME NEW s \in Seq(Block)
  PROVE  /\ WithoutMark(s) \in Seq(Block) /\ Len(WithoutMark(s)) = Len(s)
         /\ WithoutMark(s) = [k \in 1 .. Len(s) |-> Unmarked(s[k])]
         /\ \A k \in 1 .. Len(s) : WithoutMark(s)[k] = Unmarked(s[k])
<1>1. DOMAIN s = 1 .. Len(s) /\ \A k \in 1 .. Len(s) : s[k] \in Block
  OBVIOUS
<1>2. WithoutMark(s) = [k \in 1 .. Len(s) |-> Unmarked(s[k])]
  BY <1>1 DEF WithoutMark, Unmarked
<1>3. \A k \in 1 .. Len(s) : Unmarked(s[k]) \in Block
  BY <1>1, UnmarkedBlock
<1>4. WithoutMark(s) \in Seq(Block) /\ Len(WithoutMark(s)) = Len(s)
  <2> DEFINE r == WithoutMark(s)
  <2>1. r = [k \in 1 .. Len(s) |-> Unmarked(s[k])]
    BY <1>2
  <2> HIDE DEF r
  <2>2. r \in [1 .. Len(s) -> Block] /\ Len(s) \in Nat
    BY <1>3, <2>1
  <2>3. r \in Seq(Block)
    BY <2>2, SeqDef
  <2>4. Len(r) = Len(s)
    BY <2>2, <2>3, LenProperties
  <2> QED BY <2>3, <2>4 DEF r
<1> QED BY <1>2, <1>4

LEMMA WithoutMarkCksums ==
  ASSUME NEW s \in Seq(Block)
  PROVE  SegmentCksum(WithoutMark(s)) = SegmentCksum(s)
<1>1. DOMAIN s = 1 .. Len(s) /\ DOMAIN WithoutMark(s) = 1 .. Len(s)
  BY WithoutMarkIs, LenProperties
<1>2. \A k \in 1 .. Len(s) : WithoutMark(s)[k].cksum = s[k].cksum
  BY WithoutMarkIs, UnmarkedBlock
<1> QED BY <1>1, <1>2 DEF SegmentCksum

LEMMA WithoutMarkOfConcat ==
  ASSUME NEW s \in Seq(Block), NEW t \in Seq(Block)
  PROVE  WithoutMark(s \o t) = WithoutMark(s) \o WithoutMark(t)
<1> DEFINE l == WithoutMark(s \o t)
           r == WithoutMark(s) \o WithoutMark(t)
<1>1. /\ s \o t \in Seq(Block) /\ Len(s \o t) = Len(s) + Len(t)
      /\ \A k \in 1 .. Len(s) + Len(t) : (s \o t)[k] = IF k <= Len(s) THEN s[k] ELSE t[k - Len(s)]
  BY ConcatProperties
<1>2. /\ WithoutMark(s) \in Seq(Block) /\ Len(WithoutMark(s)) = Len(s)
      /\ WithoutMark(t) \in Seq(Block) /\ Len(WithoutMark(t)) = Len(t)
  BY WithoutMarkIs
<1>3. /\ r \in Seq(Block) /\ Len(r) = Len(s) + Len(t)
      /\ \A k \in 1 .. Len(s) + Len(t) :
           r[k] = IF k <= Len(s) THEN WithoutMark(s)[k] ELSE WithoutMark(t)[k - Len(s)]
  <2>1. PICK u \in Seq(Block), v \in Seq(Block) :
          u = WithoutMark(s) /\ v = WithoutMark(t) /\ Len(u) = Len(s) /\ Len(v) = Len(t)
    BY <1>2
  <2>2. /\ u \o v \in Seq(Block) /\ Len(u \o v) = Len(u) + Len(v)
        /\ \A k \in 1 .. Len(u) + Len(v) : (u \o v)[k] = IF k <= Len(u) THEN u[k] ELSE v[k - Len(u)]
    BY ConcatProperties
  <2> QED BY <2>1, <2>2
<1>4. /\ l \in Seq(Block) /\ Len(l) = Len(s) + Len(t)
      /\ \A k \in 1 .. Len(s) + Len(t) : l[k] = Unmarked((s \o t)[k])
  BY <1>1, WithoutMarkIs
<1> HIDE DEF l, r
<1>5. \A k \in 1 .. Len(s) + Len(t) : l[k] = r[k]
  <2> SUFFICES ASSUME NEW k \in 1 .. Len(s) + Len(t) PROVE l[k] = r[k]
    OBVIOUS
  <2>1. Len(s) \in Nat /\ Len(t) \in Nat
    BY LenProperties
  <2>2. CASE k <= Len(s)
    <3>1. k \in 1 .. Len(s)
      BY <2>1, <2>2
    <3>2. WithoutMark(s)[k] = Unmarked(s[k])
      BY <3>1, WithoutMarkIs
    <3> QED BY <1>1, <1>3, <1>4, <2>2, <3>2
  <2>3. CASE ~(k <= Len(s))
    <3>1. k - Len(s) \in 1 .. Len(t)
      BY <2>1, <2>3
    <3>2. WithoutMark(t)[k - Len(s)] = Unmarked(t[k - Len(s)])
      BY <3>1, WithoutMarkIs
    <3> QED BY <1>1, <1>3, <1>4, <2>3, <3>2
  <2> QED BY <2>2, <2>3
<1>6. l = r
  BY <1>3, <1>4, <1>5, SeqEqual
<1> QED BY <1>6 DEF l, r

LEMMA WithoutMarkOfPrefix ==
  ASSUME NEW s \in Seq(Block), NEW p \in Prefixes(s)
  PROVE  WithoutMark(p) \in Prefixes(WithoutMark(s))
<1>1. PICK n \in 0 .. Len(s) : p = SubSeq(s, 1, n)
  BY DEF Prefixes
<1>2. p \in Seq(Block) /\ Len(p) = n /\ \A k \in 1 .. n : p[k] = s[k] /\ k \in 1 .. Len(s)
  BY <1>1
<1>3. PICK w : w = WithoutMark(s)
  OBVIOUS
<1>4. w \in Seq(Block) /\ Len(w) = Len(s) /\ \A k \in 1 .. Len(s) : w[k] = Unmarked(s[k])
  BY <1>3, WithoutMarkIs
<1>5. /\ SubSeq(w, 1, n) \in Seq(Block) /\ Len(SubSeq(w, 1, n)) = n
      /\ \A k \in 1 .. n : SubSeq(w, 1, n)[k] = w[k]
  BY <1>4
<1>6. /\ WithoutMark(p) \in Seq(Block) /\ Len(WithoutMark(p)) = n
      /\ \A k \in 1 .. n : WithoutMark(p)[k] = Unmarked(p[k])
  BY <1>2, WithoutMarkIs
<1>7. \A k \in 1 .. n : WithoutMark(p)[k] = SubSeq(w, 1, n)[k]
  BY <1>2, <1>4, <1>5, <1>6
<1>8. WithoutMark(p) = SubSeq(w, 1, n)
  BY <1>5, <1>6, <1>7, SeqEqual
<1> QED BY <1>3, <1>4, <1>8 DEF Prefixes

LEMMA WithoutMarkOfSegment ==
  ASSUME NEW t \in Seq(Block)
  PROVE  WithoutMark(SegmentBlocks(t)) = SegmentBlocks(t)
<1>1. PICK s \in Seq(Block) : s = SegmentBlocks(t)
  BY NextSegment
<1>2. \A k \in 1 .. Len(s) : s[k] \in Block /\ s[k].file_id = {}
  BY <1>1, NextSegmentContents
<1>3. \A k \in 1 .. Len(s) : Unmarked(s[k]) = s[k]
  <2> SUFFICES ASSUME NEW k \in 1 .. Len(s) PROVE Unmarked(s[k]) = s[k]
    OBVIOUS
  <2>1. PICK b \in Block : b = s[k] /\ b.file_id = {}
    BY <1>2
  <2>2. b = [b EXCEPT !.file_id = {}]
    BY <2>1 DEF Block
  <2> QED BY <2>1, <2>2 DEF Unmarked
<1>4. s = [k \in 1 .. Len(s) |-> s[k]]
  OBVIOUS
<1> QED BY <1>1, <1>3, <1>4, WithoutMarkIs

LEMMA WithoutMarkOfNothing == WithoutMark(<<>>) = <<>>
<1>1. WithoutMark(<<>>) \in Seq(Block) /\ Len(WithoutMark(<<>>)) = 0
  BY NothingIsASeq, WithoutMarkIs, EmptySeq
<1> QED BY <1>1, EmptySeq


\* What is in the cache, or in a file it left, is in every CDS a run may be
\* given; there is but one when this is used.
CachedIsInCds ==
  /\ pc # "idle" => cds \in CdsFiles
  /\ old_cache = [n \in Capacities |-> old_cache[n]]
  /\ \A f \in CdsFiles, c \in Entries : BinarySearch(f, c)
  /\ \A f \in CdsFiles, n \in Capacities : \A c \in old_cache[n] : BinarySearch(f, c)

MarkInv == SnapshotTypes /\ CachedIsInCds

OneCds == \A f, g \in CdsFiles : f = g

LEMMA CacheUseRetags ==
  ASSUME SnapshotTypes, CacheHit \/ CdsHit \/ CdsMiss
  PROVE  RetagStep
<1>1. PICK bits \in SUBSET Nat : TagNext(bits)
  BY TagsAreSets DEF CacheHit, CdsHit, CdsMiss
<1> QED BY <1>1, TagNextRetags DEF SnapshotTypes, RetagStep, TagNext

LEMMA LruTypesStep ==
  ASSUME SnapshotTypes, [LruNext]_lruVars
  PROVE  SnapshotTypes'
<1>1. CASE LruOpen
  BY <1>1, OpenTypes DEF LruOpen
<1>2. CASE LoadSegments
  BY <1>2, LoadTypes
<1>3. CASE TagParent \/ TagDirty \/ WithoutParent \/ CacheHit \/ CdsHit \/ CdsMiss
  <2>1. RetagStep
    BY <1>3, TagsRetag, CacheUseRetags
  <2> QED BY <2>1, RetagTypes DEF RetagStep
<1>4. CASE WriteSegment
  BY <1>4, WriteTypes
<1>5. CASE EndOfSnapshot("save")
  BY <1>5, EndTypes
<1>6. CASE Overrun \/ LruKill
  BY <1>6, KillTypes DEF Overrun, LruKill
<1>7. CASE Close \/ SaveCache \/ UNCHANGED lruVars
  <2>1. UNCHANGED <<inVars, current_seg, parent_seg, i, output>>
    BY <1>7 DEF Close, SaveCache, lruVars, snapshotVars
  <2> QED BY <2>1 DEF SnapshotTypes, inVars, argVars
<1> QED BY <1>1, <1>2, <1>3, <1>4, <1>5, <1>6, <1>7 DEF LruNext

\* A block that the CDS has is added, others may go.
LEMMA AddedIsInCds ==
  ASSUME OneCds, MarkInv, pc = "cds", NEW blk, InCds(blk), Entries' \subseteq Entries \union {blk.cksum}
  PROVE  \A f \in CdsFiles, c \in Entries' : BinarySearch(f, c)
<1>1. cds \in CdsFiles /\ BinarySearch(cds, blk.cksum)
  BY DEF MarkInv, CachedIsInCds, InCds
<1>2. \A f \in CdsFiles : BinarySearch(f, blk.cksum)
  BY <1>1 DEF OneCds
<1> QED BY <1>2 DEF MarkInv, CachedIsInCds

LEMMA SavedIsInCds ==
  ASSUME MarkInv, NEW saved \in SUBSET Entries, old_cache' = [old_cache EXCEPT ![capacity] = saved]
  PROVE  /\ old_cache' = [n \in Capacities |-> old_cache'[n]]
         /\ \A f \in CdsFiles, n \in Capacities : \A c \in old_cache'[n] : BinarySearch(f, c)
<1>1. old_cache' = [n \in Capacities |-> IF n = capacity THEN saved ELSE old_cache[n]]
  <2>1. old_cache = [n \in Capacities |-> old_cache[n]]
    BY DEF MarkInv, CachedIsInCds
  <2> QED BY <2>1
<1>2. old_cache' = [n \in Capacities |-> old_cache'[n]]
  BY <1>1
<1>3. \A n \in Capacities : old_cache'[n] \subseteq Entries \/ old_cache'[n] = old_cache[n]
  BY <1>1
<1> QED BY <1>2, <1>3 DEF MarkInv, CachedIsInCds

LEMMA CachedStep ==
  ASSUME OneCds, MarkInv, [LruNext]_lruVars
  PROVE  CachedIsInCds'
<1>1. CachedIsInCds
  BY DEF MarkInv
<1>2. CASE LruOpen
  <2>1. /\ cds' \in CdsFiles /\ capacity' \in Capacities /\ old_cache' = old_cache
        /\ Entries' = old_cache[capacity']
    BY <1>2 DEF LruOpen, Open, Entries
  <2> QED BY <1>1, <2>1 DEF CachedIsInCds
<1>3. CASE CacheHit
  <2>1. /\ pc = "cds" /\ pc' = "cds" /\ cds' = cds /\ old_cache' = old_cache
        /\ current_seg[i].cksum \in Entries
    BY <1>3 DEF CacheHit, TagNext, inVars, argVars
  <2>2. PICK t : cache' = Put(cache, current_seg[i].cksum, t)
    BY <1>3, Zenon DEF CacheHit
  <2>3. Entries' = Entries
    BY <2>1, <2>2 DEF Put, Entries
  <2> QED BY <1>1, <2>1, <2>3 DEF CachedIsInCds
<1>4. CASE CdsHit \/ Overrun
  <2>1. /\ pc = "cds" /\ pc' # "idle" /\ cds' = cds /\ old_cache' = old_cache
        /\ InCds(current_seg[i])
    BY <1>4 DEF CdsHit, Overrun, Kill, TagNext, inVars, argVars
  <2>2. PICK t, m : /\ m = Put(cache, current_seg[i].cksum, t)
                    /\ cache' = m \/ cache' \in RemoveItems(m, Evicted)
    BY <1>4 DEF CdsHit, Overrun
  <2>3. DOMAIN m = Entries \union {current_seg[i].cksum}
    BY <2>2 DEF Put, Entries
  <2>4. Entries' \subseteq DOMAIN m
    <3>1. \A r \in RemoveItems(m, Evicted) : DOMAIN r \subseteq DOMAIN m
      BY DEF RemoveItems
    <3> QED BY <2>2, <3>1 DEF Entries
  <2>5. \A f \in CdsFiles, c \in Entries' : BinarySearch(f, c)
    BY <2>1, <2>3, <2>4, AddedIsInCds
  <2> QED BY <1>1, <2>1, <2>5 DEF CachedIsInCds
<1>5. CASE SaveCache \/ LruKill
  <2>1. pc # "idle" /\ cds' = cds /\ cache' = cache
    BY <1>5 DEF SaveCache, LruKill, Kill, Stopped, inVars, argVars
  <2>2. old_cache' = old_cache \/ \E saved \in SUBSET Entries : old_cache' = [old_cache EXCEPT ![capacity] = saved]
    BY <1>5 DEF SaveCache, LruKill
  <2>3. /\ old_cache' = [n \in Capacities |-> old_cache'[n]]
        /\ \A f \in CdsFiles, n \in Capacities : \A c \in old_cache'[n] : BinarySearch(f, c)
    BY <1>1, <2>2, SavedIsInCds DEF CachedIsInCds
  <2> QED BY <1>1, <2>1, <2>3 DEF CachedIsInCds, Entries
<1>6. CASE UNCHANGED <<cache, old_cache, cds>> /\ (pc = "idle" => pc' = "idle")
  BY <1>1, <1>6 DEF CachedIsInCds, Entries
<1>7. CASE CdsMiss \/ UNCHANGED lruVars
  BY <1>6, <1>7 DEF CdsMiss, TagNext, lruVars, snapshotVars, inVars, argVars, cacheVars
<1>8. CASE /\ \/ LoadSegments \/ TagParent \/ TagDirty \/ WithoutParent \/ WriteSegment
              \/ EndOfSnapshot("save") \/ Close
           /\ UNCHANGED cacheVars
  <2>1. cds' = cds /\ pc # "idle"
    BY <1>8 DEF LoadSegments, TagParent, TagDirty, WithoutParent, WriteSegment, EndOfSnapshot, Close, inVars, argVars
  <2> QED BY <1>6, <1>8, <2>1 DEF cacheVars
<1> QED BY <1>2, <1>3, <1>4, <1>5, <1>7, <1>8 DEF LruNext


\* A step that puts bits on one block, seen without the mark.
LEMMA UncachedTagNext ==
  ASSUME SnapshotTypes, NEW bits \in SUBSET Nat, TagNext(bits),
         bits \ {3} = IF InCds(current_seg[i]) THEN IN_CDS ELSE {}
  PROVE  Uncached!SearchCds
<1> DEFINE seg == WithoutMark(current_seg)
<1>1. /\ current_seg \in Seq(Block) /\ i \in 1 .. Len(current_seg)
      /\ current_seg' = [current_seg EXCEPT ![i] = Tagged(current_seg[i], bits)]
  BY LenProperties DEF SnapshotTypes, TagNext
<1>2. PICK b \in Block : b = current_seg[i]
  BY <1>1
<1>3. /\ seg \in Seq(Block) /\ Len(seg) = Len(current_seg)
      /\ \A k \in 1 .. Len(current_seg) : seg[k] = Unmarked(current_seg[k])
  BY <1>1, WithoutMarkIs
<1>4. Unmarked(b) \in Block /\ Unmarked(b).cksum = b.cksum
  BY UnmarkedBlock
<1>5. PICK less : less = bits \ {3}
  OBVIOUS
<1>6. WithoutMark(current_seg') = [seg EXCEPT ![i] = Tagged(seg[i], less)]
  <2>1. /\ current_seg' \in Seq(Block) /\ Len(current_seg') = Len(current_seg)
        /\ \A k \in 1 .. Len(current_seg) : current_seg'[k] = IF k = i THEN Tagged(b, bits) ELSE current_seg[k]
    <3>1. IsRetagged(current_seg', current_seg)
      BY TagNextRetags DEF SnapshotTypes
    <3>2. current_seg' \in Seq(Block) /\ Len(current_seg') = Len(current_seg)
      BY <1>1, <3>1, RetaggedSeq
    <3> QED BY <1>1, <1>2, <3>2
  <2>2. WithoutMark(current_seg') = [k \in 1 .. Len(current_seg) |-> Unmarked(current_seg'[k])]
    BY <2>1, WithoutMarkIs
  <2>3. Unmarked(Tagged(b, bits)) = Tagged(Unmarked(b), less)
    BY <1>5, UnmarkedOfTagged
  <2>4. \A k \in 1 .. Len(current_seg) :
          Unmarked(current_seg'[k]) = IF k = i THEN Tagged(seg[i], less) ELSE seg[k]
    BY <1>1, <1>2, <1>3, <2>1, <2>3
  <2>5. [seg EXCEPT ![i] = Tagged(seg[i], less)]
          = [k \in 1 .. Len(current_seg) |-> IF k = i THEN Tagged(seg[i], less) ELSE seg[k]]
    <3> HIDE DEF seg
    <3>1. seg = [k \in 1 .. Len(current_seg) |-> seg[k]]
      BY <1>3
    <3> QED BY <3>1
  <2> HIDE DEF seg
  <2> QED BY <2>2, <2>4, <2>5
<1> HIDE DEF seg
<1>7. seg[i].cksum = current_seg[i].cksum
  BY <1>1, <1>2, <1>3, <1>4
<1>8. less = IF i <= Len(seg) /\ Uncached!InCds(seg[i]) THEN IN_CDS ELSE {}
  BY <1>1, <1>3, <1>5, <1>7, SameOperators DEF InCds, Uncached!InCds
<1>9. Uncached!TagNext(less)
  <2>1. /\ pc = "cds" /\ i <= Len(seg) /\ i' = i + 1 /\ pc' = pc
        /\ UNCHANGED <<inVars, has_parent, parent_seg, output>>
    BY <1>1, <1>3 DEF TagNext
  <2> QED BY <1>6, <2>1, SameOperators
          DEF Uncached!TagNext, Uncached!inVars, Uncached!argVars, inVars, argVars, seg
<1> QED BY <1>8, <1>9 DEF Uncached!SearchCds, Uncached!IN_CDS, IN_CDS, seg


\* Without the mark, segments are compared with the parent's as before.
LEMMA SameComparison ==
  ASSUME SnapshotTypes
  PROVE  /\ Uncached!SegmentUnchanged <=> SegmentUnchanged
         /\ \A k \in 1 .. Len(current_seg) :
              Uncached!InParentSeg(WithoutMark(current_seg)[k]) <=> InParentSeg(current_seg[k])
<1>1. current_seg \in Seq(Block)
  BY DEF SnapshotTypes
<1>2. SegmentCksum(WithoutMark(current_seg)) = SegmentCksum(current_seg)
  BY <1>1, WithoutMarkCksums
<1>3. \A k \in 1 .. Len(current_seg) : WithoutMark(current_seg)[k].cksum = current_seg[k].cksum
  BY <1>1, WithoutMarkIs, UnmarkedBlock
<1> QED BY <1>2, <1>3, SameOperators
      DEF Uncached!SegmentUnchanged, SegmentUnchanged, Uncached!InParentSeg, InParentSeg

PartlyTagged(s, hits, bits) ==
  [k \in 1 .. Len(s) |-> IF k \in hits THEN Tagged(s[k], bits) ELSE s[k]]

\* Level 1 and level 2 leave no mark and take none away.
LEMMA UncachedTagAll ==
  ASSUME NEW s \in Seq(Block), NEW hits, NEW bits \in SUBSET Nat, 3 \notin bits
  PROVE  WithoutMark(PartlyTagged(s, hits, bits)) = PartlyTagged(WithoutMark(s), hits, bits)
<1>1. \A k \in 1 .. Len(s) : s[k] \in Block
  OBVIOUS
<1>2. PICK r : r = PartlyTagged(s, hits, bits)
  OBVIOUS
<1>3. /\ \A k \in 1 .. Len(s) : r[k] = IF k \in hits THEN Tagged(s[k], bits) ELSE s[k]
      /\ r = [k \in 1 .. Len(s) |-> r[k]]
  BY <1>2 DEF PartlyTagged
<1>4. \A k \in 1 .. Len(s) : \E tag \in SUBSET Nat : r[k] = [s[k] EXCEPT !.file_id = tag]
  <2> SUFFICES ASSUME NEW k \in 1 .. Len(s)
               PROVE  \E tag \in SUBSET Nat : r[k] = [s[k] EXCEPT !.file_id = tag]
    OBVIOUS
  <2>1. PICK b \in Block : b = s[k]
    BY <1>1
  <2>2. b.file_id \in SUBSET Nat /\ b = [b EXCEPT !.file_id = b.file_id]
    BY DEF Block
  <2>3. b.file_id \union bits \in SUBSET Nat /\ Tagged(b, bits) = [b EXCEPT !.file_id = b.file_id \union bits]
    BY TaggedIsRetagged
  <2> QED BY <1>3, <2>1, <2>2, <2>3
<1>5. IsRetagged(r, s)
  BY <1>3, <1>4 DEF IsRetagged
<1>6. r \in Seq(Block) /\ Len(r) = Len(s)
  BY <1>5, RetaggedSeq
<1>7. WithoutMark(r) = [k \in 1 .. Len(s) |-> Unmarked(r[k])]
  BY <1>6, WithoutMarkIs
<1>8. bits \ {3} = bits
  OBVIOUS
<1>9. \A k \in 1 .. Len(s) : Unmarked(Tagged(s[k], bits)) = Tagged(WithoutMark(s)[k], bits)
  BY <1>1, <1>8, UnmarkedOfTagged, WithoutMarkIs
<1>10. \A k \in 1 .. Len(s) : Unmarked(s[k]) = WithoutMark(s)[k]
  BY WithoutMarkIs
<1>11. \A k \in 1 .. Len(s) :
         Unmarked(r[k]) = IF k \in hits THEN Tagged(WithoutMark(s)[k], bits) ELSE WithoutMark(s)[k]
  BY <1>3, <1>9, <1>10
<1>12. Len(WithoutMark(s)) = Len(s)
  BY WithoutMarkIs
<1> QED BY <1>2, <1>7, <1>11, <1>12 DEF PartlyTagged

LEMMA UncachedTagParent ==
  ASSUME SnapshotTypes, TagParent
  PROVE  Uncached!TagParent
<1> DEFINE seg == WithoutMark(current_seg)
<1>1. current_seg \in Seq(Block) /\ DOMAIN current_seg = 1 .. Len(current_seg)
  BY DEF SnapshotTypes
<1>2. current_seg' = [k \in 1 .. Len(current_seg) |-> Tagged(current_seg[k], IN_PARENT)]
  BY <1>1 DEF TagParent
<1>3. IN_PARENT \in SUBSET Nat /\ 3 \notin IN_PARENT
  BY DEF IN_PARENT
<1>4. WithoutMark(current_seg') = [k \in 1 .. Len(current_seg) |-> Tagged(seg[k], IN_PARENT)]
  <2> DEFINE hits == 1 .. Len(current_seg)
  <2>1. current_seg' = PartlyTagged(current_seg, hits, IN_PARENT)
    BY <1>2 DEF PartlyTagged
  <2>2. WithoutMark(current_seg') = PartlyTagged(seg, hits, IN_PARENT)
    BY <1>1, <1>3, <2>1, UncachedTagAll, Zenon
  <2>3. Len(seg) = Len(current_seg)
    BY <1>1, WithoutMarkIs
  <2> QED BY <2>2, <2>3 DEF PartlyTagged
<1>5. DOMAIN seg = 1 .. Len(current_seg)
  BY <1>1, WithoutMarkIs, LenProperties
<1> QED BY <1>4, <1>5, SameOperators, SameComparison
      DEF Uncached!TagParent, TagParent, Uncached!inVars, Uncached!argVars, inVars, argVars,
          Uncached!IN_PARENT, IN_PARENT


LEMMA UncachedTagDirty ==
  ASSUME SnapshotTypes, TagDirty
  PROVE  Uncached!TagDirty
<1> DEFINE seg == WithoutMark(current_seg)
           hits == {k \in 1 .. Len(current_seg) : InParentSeg(current_seg[k])}
<1>1. current_seg \in Seq(Block) /\ DOMAIN current_seg = 1 .. Len(current_seg)
  BY DEF SnapshotTypes
<1>2. current_seg' = [k \in 1 .. Len(current_seg) |->
                        IF k \in hits THEN Tagged(current_seg[k], IN_DIRTY_SEG) ELSE current_seg[k]]
  BY <1>1 DEF TagDirty
<1>3. IN_DIRTY_SEG \in SUBSET Nat /\ 3 \notin IN_DIRTY_SEG
  BY DEF IN_DIRTY_SEG
<1>4. WithoutMark(current_seg') = [k \in 1 .. Len(current_seg) |->
                                     IF k \in hits THEN Tagged(seg[k], IN_DIRTY_SEG) ELSE seg[k]]
  <2> HIDE DEF hits
  <2>1. current_seg' = PartlyTagged(current_seg, hits, IN_DIRTY_SEG)
    BY <1>2 DEF PartlyTagged
  <2>2. WithoutMark(current_seg') = PartlyTagged(seg, hits, IN_DIRTY_SEG)
    BY <1>1, <1>3, <2>1, UncachedTagAll, Zenon
  <2>3. Len(seg) = Len(current_seg)
    BY <1>1, WithoutMarkIs
  <2> QED BY <2>2, <2>3 DEF PartlyTagged
<1>5. DOMAIN seg = 1 .. Len(current_seg)
  BY <1>1, WithoutMarkIs, LenProperties
<1>6. \A k \in 1 .. Len(current_seg) : k \in hits <=> Uncached!InParentSeg(seg[k])
  BY SameComparison
<1> HIDE DEF seg, hits
<1>7. WithoutMark(current_seg') = [k \in DOMAIN seg |->
        IF Uncached!InParentSeg(seg[k]) THEN Uncached!Tagged(seg[k], Uncached!IN_DIRTY_SEG) ELSE seg[k]]
  BY <1>4, <1>5, <1>6, SameOperators DEF Uncached!IN_DIRTY_SEG, IN_DIRTY_SEG
<1> QED BY <1>7, SameOperators, SameComparison
      DEF Uncached!TagDirty, TagDirty, Uncached!inVars, Uncached!argVars, inVars, argVars, seg

LEMMA UncachedOpen ==
  ASSUME Open
  PROVE  Uncached!Open
<1>1. WithoutMark(current_seg') = <<>> /\ WithoutMark(output') = <<>>
  BY WithoutMarkOfNothing DEF Open
<1>2. pc \in {"idle", "done", "killed"} /\ pc' = "load"
  BY DEF Open, Stopped
<1> QED BY <1>1, <1>2 DEF Open, Uncached!Open, Uncached!Stopped

LEMMA UncachedLoad ==
  ASSUME SnapshotTypes, LoadSegments
  PROVE  Uncached!LoadSegments
<1>1. /\ pc = "load" /\ pc' = "tag" /\ output' = output /\ UNCHANGED <<argVars, has_parent>>
      /\ current_seg' = SegmentBlocks(current_input)
  BY DEF LoadSegments
<1>2. WithoutMark(current_seg') = SegmentBlocks(current_input)
  BY <1>1, WithoutMarkOfSegment DEF SnapshotTypes
<1> QED BY <1>1, <1>2, SameOperators
      DEF LoadSegments, Uncached!LoadSegments, NextParentSeg, Uncached!NextParentSeg, argVars, Uncached!argVars

LEMMA UncachedWrite ==
  ASSUME SnapshotTypes, WriteSegment
  PROVE  Uncached!WriteSegment
<1>1. output' = output \o current_seg /\ output \in Seq(Block) /\ current_seg \in Seq(Block)
  BY DEF SnapshotTypes, WriteSegment
<1>2. WithoutMark(output') = WithoutMark(output) \o WithoutMark(current_seg)
  BY <1>1, WithoutMarkOfConcat
<1>3. Len(WithoutMark(current_seg)) = Len(current_seg)
  BY <1>1, WithoutMarkIs
<1> QED BY <1>2, <1>3 DEF WriteSegment, Uncached!WriteSegment, inVars, argVars, Uncached!inVars, Uncached!argVars

LEMMA UncachedEnd ==
  ASSUME EndOfSnapshot("save")
  PROVE  Uncached!EndOfSnapshot("close")
<1>1. WithoutMark(current_seg') = <<>>
  BY WithoutMarkOfNothing DEF EndOfSnapshot
<1> QED BY <1>1, SameOperators DEF EndOfSnapshot, Uncached!EndOfSnapshot, argVars, Uncached!argVars

LEMMA UncachedKill ==
  ASSUME SnapshotTypes, Kill
  PROVE  Uncached!Kill
<1>1. WithoutMark(output') \in Prefixes(WithoutMark(output))
  BY WithoutMarkOfPrefix DEF SnapshotTypes, Kill
<1> QED BY <1>1, SameOperators
      DEF Kill, Uncached!Kill, Stopped, Uncached!Stopped, inVars, argVars, Uncached!inVars, Uncached!argVars

LEMMA UncachedStep ==
  ASSUME OneCds, MarkInv, [LruNext]_lruVars
  PROVE  [Uncached!Next]_(Uncached!vars)
<1>1. SnapshotTypes
  BY DEF MarkInv
<1>2. CASE LruOpen
  BY <1>2, UncachedOpen DEF LruOpen, Uncached!Next
<1>3. CASE LoadSegments
  BY <1>1, <1>3, UncachedLoad DEF Uncached!Next
<1>4. CASE TagParent
  BY <1>1, <1>4, UncachedTagParent DEF Uncached!Next
<1>5. CASE TagDirty
  BY <1>1, <1>5, UncachedTagDirty DEF Uncached!Next
<1>6. CASE WithoutParent
  BY <1>6 DEF WithoutParent, Uncached!WithoutParent, Uncached!Next,
              inVars, argVars, Uncached!inVars, Uncached!argVars
<1>7. CASE WriteSegment
  BY <1>1, <1>7, UncachedWrite DEF Uncached!Next
<1>8. CASE EndOfSnapshot("save")
  BY <1>8, UncachedEnd DEF Uncached!Next
<1>9. CASE Close
  BY <1>9 DEF Close, Uncached!Close, Uncached!Next, inVars, argVars, Uncached!inVars, Uncached!argVars
<1>10. CASE CacheHit
  <2>1. TagNext(IN_CDS_CACHE) /\ pc = "cds" /\ current_seg[i].cksum \in Entries
    BY <1>10 DEF CacheHit
  <2>2. InCds(current_seg[i])
    BY <2>1 DEF MarkInv, CachedIsInCds, InCds
  <2>3. IN_CDS_CACHE \ {3} = IN_CDS
    BY DEF IN_CDS_CACHE, IN_CDS
  <2> QED BY <1>1, <2>1, <2>2, <2>3, TagsAreSets, UncachedTagNext DEF Uncached!Next
<1>11. CASE CdsHit
  <2>1. TagNext(IN_CDS) /\ InCds(current_seg[i])
    BY <1>11 DEF CdsHit
  <2>2. IN_CDS \ {3} = IN_CDS
    BY DEF IN_CDS
  <2> QED BY <1>1, <2>1, <2>2, TagsAreSets, UncachedTagNext DEF Uncached!Next
<1>12. CASE CdsMiss
  <2>1. TagNext({}) /\ ~InCds(current_seg[i])
    BY <1>12 DEF CdsMiss
  <2> QED BY <1>1, <2>1, TagsAreSets, UncachedTagNext DEF Uncached!Next
<1>13. CASE Overrun \/ LruKill
  BY <1>1, <1>13, UncachedKill DEF Overrun, LruKill, Uncached!Next
<1>14. CASE SaveCache \/ UNCHANGED lruVars
  <2>1. /\ UNCHANGED <<inVars, has_parent, current_seg, parent_seg, i, output>>
        /\ pc' = pc \/ (pc = "save" /\ pc' = "close")
    BY <1>14 DEF SaveCache, lruVars, snapshotVars
  <2> QED BY <2>1 DEF Uncached!vars, Uncached!snapshotVars, Uncached!inVars, Uncached!argVars, inVars, argVars
<1> QED BY <1>2, <1>3, <1>4, <1>5, <1>6, <1>7, <1>8, <1>9, <1>10, <1>11, <1>12, <1>13, <1>14 DEF LruNext

LEMMA UncachedInit ==
  ASSUME LruInit
  PROVE  Uncached!Init /\ MarkInv
<1>1. Uncached!Init
  BY WithoutMarkOfNothing DEF LruInit, Init, Uncached!Init
<1>2. MarkInv
  BY TypesInit DEF LruInit, Init, MarkInv, CachedIsInCds, Entries
<1> QED BY <1>1, <1>2

\* When all runs are given the same CDS, the cache of dedup_cds_lru.cpp, what
\* is evicted from it, and what is saved for later runs and loaded by them,
\* or is lost on the way, makes no difference but the mark of where a block
\* was found: every behaviour is one of dedup_cds_sim.cpp.
THEOREM CacheIsTransparent ==
  ASSUME OneCds
  PROVE  LruSpec => ImplementsCdsSim
<1>1. LruInit => Uncached!Init /\ MarkInv
  BY UncachedInit
<1>2. MarkInv /\ [LruNext]_lruVars => MarkInv'
  BY LruTypesStep, CachedStep DEF MarkInv
<1>3. MarkInv /\ [LruNext]_lruVars => [Uncached!Next]_(Uncached!vars)
  BY UncachedStep
<1> QED BY <1>1, <1>2, <1>3, PTL DEF LruSpec, ImplementsCdsSim, Uncached!Spec


-----------------------------------------------------------------------------
(* What the report makes of the mark *)

CacheTags == CdsTags \union {tag \union IN_CDS_CACHE : tag \in LevelTags}

LEMMA MarkedTagsStep ==
  ASSUME SnapshotTypes, StagedTags(CacheTags), [LruNext]_lruVars
  PROVE  StagedTags(CacheTags)'
<1>1. CASE CacheHit \/ CdsHit \/ CdsMiss
  <2>1. PICK bits \in {{}, IN_CDS, IN_CDS_CACHE} : TagNext(bits)
    BY <1>1 DEF CacheHit, CdsHit, CdsMiss
  <2>2. \A tag \in LevelTags : tag \union bits \in CacheTags
    BY <2>1 DEF CacheTags, CdsTags
  <2> QED BY <2>1, <2>2, TagsAreSets, StagedTagsOfLevel3
<1>2. CASE TagParent \/ TagDirty \/ WithoutParent
  BY <1>2, StagedTagsOfSegment
<1>3. CASE \/ LruOpen \/ LoadSegments \/ WriteSegment \/ EndOfSnapshot("save") \/ Close
           \/ Overrun \/ LruKill
  <2>1. \/ Open \/ LoadSegments \/ WriteSegment \/ EndOfSnapshot("save") \/ Close \/ Kill
    BY <1>3 DEF LruOpen, Overrun, LruKill
  <2>2. "save" \notin {"tag", "cds"}
    OBVIOUS
  <2> QED BY <2>1, <2>2, StagedTagsOfRest
<1>4. CASE SaveCache \/ UNCHANGED lruVars
  BY <1>4, StagedTagsOfRest DEF SaveCache, lruVars, snapshotVars
<1> QED BY <1>1, <1>2, <1>3, <1>4 DEF LruNext

\* Where the cache found a block it has no class, and without the mark it has.
LEMMA ClassesOfMarkedTags ==
  ASSUME NEW tag \in CacheTags
  PROVE  IF 3 \in tag THEN ClassOf(tag) = "other" /\ ClassOf(tag \ {3}) \in {"L1", "L2", "L3"}
                      ELSE ClassOf(tag) # "other"
<1>1. CASE tag \in CdsTags
  BY <1>1, ClassesOfTags
<1>2. CASE tag \in {base \union IN_CDS_CACHE : base \in LevelTags}
  <2>1. PICK base \in LevelTags : tag = base \union IN_CDS_CACHE
    BY <1>2
  <2>2. 3 \in tag /\ tag \ {3} = base \union {1}
    BY <2>1 DEF LevelTags, IN_PARENT, IN_DIRTY_SEG, IN_CDS_CACHE
  <2>3. tag \notin CdsTags /\ tag # {}
    <3>1. \A t \in CdsTags : 3 \notin t
      BY ClassesOfTags
    <3> QED BY <2>2, <3>1
  <2>4. ClassOf(tag) = "other"
    BY <2>3 DEF ClassOf, CdsTags, LevelTags
  <2>5. ClassOf(base \union {1}) \in {"L1", "L2", "L3"}
    BY <2>1 DEF ClassOf, LevelTags, IN_PARENT, IN_DIRTY_SEG, IN_CDS
  <2> QED BY <2>2, <2>4, <2>5
<1> QED BY <1>1, <1>2 DEF CacheTags

\* Whatever runs came before: dedup_analysis counts for no class the blocks
\* dedup_cds_lru.cpp found in its cache, and no others; each of them would be
\* of level 1, 2 or 3 if it were not for the mark.
THEOREM CachedAreOther == LruSpec => []OtherIsCached
<1> DEFINE Inv == SnapshotTypes /\ StagedTags(CacheTags)
<1>1. LruInit => Inv
  BY TypesInit, StagedTagsInit DEF LruInit
<1>2. Inv /\ [LruNext]_lruVars => Inv'
  BY LruTypesStep, MarkedTagsStep
<1>3. Inv => OtherIsCached
  <2> SUFFICES ASSUME Inv PROVE OtherIsCached
    OBVIOUS
  <2>1. \A k \in DOMAIN output : output[k].file_id \in CacheTags
    BY DEF SnapshotTypes, StagedTags
  <2> QED BY <2>1, ClassesOfMarkedTags DEF OtherIsCached
<1> QED BY <1>1, <1>2, <1>3, PTL DEF LruSpec

-----------------------------------------------------------------------------
(* SimLru: the vector as a bag *)

IsBag(b) == IsFiniteSet(DOMAIN b) /\ b \in [DOMAIN b -> Nat \ {0}]

LEMMA BagSizeType ==
  ASSUME NEW b, IsBag(b)
  PROVE  SumFunction(b) \in Nat
<1>1. IsFiniteSet(DOMAIN b) /\ b \in [DOMAIN b -> Nat]
  BY DEF IsBag
<1> QED BY <1>1, SumOfNat

LEMMA BagAdds ==
  ASSUME NEW a, IsBag(a), NEW b, IsBag(b)
  PROVE  /\ IsBag(a (+) b)
         /\ DOMAIN (a (+) b) = DOMAIN a \union DOMAIN b
         /\ SumFunction(a (+) b) = SumFunction(a) + SumFunction(b)
<1> DEFINE S == DOMAIN a \union DOMAIN b
           f == [x \in S |-> IF x \in DOMAIN a THEN a[x] ELSE 0]
           h == [x \in S |-> IF x \in DOMAIN b THEN b[x] ELSE 0]
<1>1. IsFiniteSet(DOMAIN a) /\ IsFiniteSet(DOMAIN b) /\ IsFiniteSet(S)
  BY FS_Union DEF IsBag
<1>2. a \in [DOMAIN a -> Nat \ {0}] /\ b \in [DOMAIN b -> Nat \ {0}]
  BY DEF IsBag
<1>3. f \in [S -> Int] /\ h \in [S -> Int]
  BY <1>2
<1>4. PICK r : r = a (+) b
  OBVIOUS
<1>5. /\ r \in [S -> Nat \ {0}] /\ DOMAIN r = S
      /\ \A x \in S : r[x] = f[x] + h[x]
  BY <1>2, <1>4 DEF (+)
<1>6. a \in [DOMAIN a -> Int] /\ b \in [DOMAIN b -> Int] /\ r \in [S -> Int]
  BY <1>2, <1>5
<1>7. DOMAIN a \in SUBSET S /\ DOMAIN b \in SUBSET S
  OBVIOUS
<1>8. /\ \A x \in S : f[x] = IF x \in DOMAIN a THEN a[x] ELSE 0
      /\ \A x \in S : h[x] = IF x \in DOMAIN b THEN b[x] ELSE 0
  OBVIOUS
<1> HIDE DEF S, f, h
<1>9. SumFunction(f) = SumFunction(a)
  BY <1>1, <1>3, <1>6, <1>7, <1>8, SumWithZeros
<1>10. SumFunction(h) = SumFunction(b)
  BY <1>1, <1>3, <1>6, <1>7, <1>8, SumWithZeros
<1>11. SumFunction(r) = SumFunction(f) + SumFunction(h)
  BY <1>1, <1>3, <1>5, <1>6, SumOfSums
<1>12. IsBag(r)
  BY <1>1, <1>5 DEF IsBag
<1> QED BY <1>4, <1>5, <1>9, <1>10, <1>11, <1>12 DEF S

LEMMA BagLoses ==
  ASSUME NEW a, IsBag(a), NEW gone, DOMAIN gone \subseteq DOMAIN a, gone \in [DOMAIN gone -> Nat],
         \A x \in DOMAIN gone : gone[x] <= a[x]
  PROVE  /\ IsBag(a (-) gone)
         /\ DOMAIN (a (-) gone) \subseteq DOMAIN a
         /\ DOMAIN a \ DOMAIN gone \subseteq DOMAIN (a (-) gone)
         /\ SumFunction(a (-) gone) = SumFunction(a) - SumFunction(gone)
         /\ SumFunction(gone) \in Nat
<1> DEFINE S == DOMAIN a
           G == DOMAIN gone
           h == [x \in S |-> IF x \in G THEN gone[x] ELSE 0]
           d == [x \in S |-> IF x \in G THEN a[x] - gone[x] ELSE a[x]]
           T == {x \in S : d[x] > 0}
<1>1. IsFiniteSet(S) /\ a \in [S -> Nat \ {0}] /\ G \in SUBSET S /\ T \in SUBSET S
  BY DEF IsBag
<1>2. IsFiniteSet(G) /\ IsFiniteSet(T)
  BY <1>1, FS_Subset
<1>3. \A x \in S : h[x] \in Nat /\ d[x] \in Nat
  BY <1>1
<1>4. h \in [S -> Int] /\ d \in [S -> Int] /\ a \in [S -> Int] /\ gone \in [G -> Int]
  BY <1>1, <1>3
<1>5. \A x \in S : a[x] = d[x] + h[x]
  BY <1>1
<1>6. \A x \in S : h[x] = IF x \in G THEN gone[x] ELSE 0
  OBVIOUS
<1>7. PICK r : r = a (-) gone
  OBVIOUS
<1>8. DOMAIN r = T /\ \A x \in T : r[x] = d[x]
  BY <1>7 DEF (-)
<1>9. r = [x \in T |-> d[x]]
  BY <1>7 DEF (-)
<1>10. r \in [T -> Nat \ {0}]
  <2>1. \A x \in T : d[x] \in Nat \ {0}
    BY <1>3
  <2> QED BY <1>9, <2>1
<1>11. \A x \in S : x \notin G => d[x] > 0
  BY <1>1
<1>12. \A x \in S \ T : d[x] = 0
  BY <1>3
<1>13. S \ G \subseteq T
  BY <1>11
<1> HIDE DEF S, G, h, d, T
<1>14. SumFunction(h) = SumFunction(gone)
  BY <1>1, <1>4, <1>6, SumWithZeros
<1>15. SumFunction(a) = SumFunction(d) + SumFunction(h)
  BY <1>1, <1>4, <1>5, SumOfSums
<1>16. SumFunction(d) = SumFunction(r)
  BY <1>1, <1>4, <1>9, <1>12, SumOfSupport
<1>17. SumFunction(d) \in Int /\ SumFunction(h) \in Int
  BY <1>1, <1>4, SumIsInt
<1>18. SumFunction(gone) \in Nat
  BY <1>2, SumOfNat DEF G
<1>19. IsBag(r)
  BY <1>2, <1>8, <1>10 DEF IsBag
<1>20. SumFunction(r) = SumFunction(a) - SumFunction(gone)
  BY <1>14, <1>15, <1>16, <1>17
<1> QED BY <1>1, <1>7, <1>8, <1>13, <1>18, <1>19, <1>20 DEF S, G

LEMMA OneEntry ==
  ASSUME NEW e
  PROVE  /\ IsBag(SetToBag({e})) /\ DOMAIN SetToBag({e}) = {e}
         /\ SetToBag({e})[e] = 1
         /\ SumFunction(SetToBag({e})) = 1
<1>1. PICK b : b = SetToBag({e})
  OBVIOUS
<1>2. DOMAIN b = {e} /\ b[e] = 1 /\ b \in [{e} -> Nat \ {0}] /\ b \in [{} \union {e} -> Int]
  BY <1>1 DEF SetToBag
<1>3. IsFiniteSet({}) /\ IsFiniteSet({e}) /\ e \notin {}
  BY FS_EmptySet, FS_Singleton
<1>4. SumFunction(b) = SumFunction([y \in {} |-> b[y]]) + b[e]
  BY <1>2, <1>3, SumOfOneMore
<1>5. SumFunction([y \in {} |-> b[y]]) = 0
  BY SumOfNothing
<1>6. IsBag(b)
  BY <1>2, <1>3 DEF IsBag
<1> QED BY <1>1, <1>2, <1>4, <1>5, <1>6

LEMMA EmptyBagIs == IsBag(EmptyBag) /\ DOMAIN EmptyBag = {} /\ SumFunction(EmptyBag) = 0
<1>1. PICK b : b = EmptyBag
  OBVIOUS
<1>2. DOMAIN b = {} /\ b \in [{} -> Nat \ {0}] /\ b \in [{} -> Int]
  BY <1>1 DEF EmptyBag, SetToBag
<1>3. IsFiniteSet({})
  BY FS_EmptySet
<1>4. SumFunction(b) = 0
  BY <1>2, SumOfNothing
<1> QED BY <1>1, <1>2, <1>3, <1>4 DEF IsBag

-----------------------------------------------------------------------------
(* The entries of a segment *)

Entry(c, t) == [cksum |-> c, time |-> t]

LEMMA EntryFields ==
  ASSUME NEW c, NEW t
  PROVE  Entry(c, t).cksum = c /\ Entry(c, t).time = t
  BY DEF Entry

\* Where in s the content c is.
Places(s, c) == {k \in 1 .. Len(s) : s[k].cksum = c}

LEMMA PlacesAreFinite ==
  ASSUME NEW s \in Seq(Block), NEW c
  PROVE  IsFiniteSet(Places(s, c)) /\ Cardinality(Places(s, c)) \in Nat
<1>1. IsFiniteSet(1 .. Len(s)) /\ Places(s, c) \subseteq 1 .. Len(s)
  BY FS_Interval, LenProperties DEF Places
<1>2. IsFiniteSet(Places(s, c))
  BY <1>1, FS_Subset
<1> QED BY <1>2, FS_CardinalityType

LEMMA PlacesOfAppend ==
  ASSUME NEW s \in Seq(Block), NEW b \in Block, NEW c
  PROVE  /\ c = b.cksum => Cardinality(Places(Append(s, b), c)) = Cardinality(Places(s, c)) + 1
         /\ c # b.cksum => Places(Append(s, b), c) = Places(s, c)
<1> DEFINE r == Append(s, b)
           n == Len(s)
<1>1. /\ Len(r) = n + 1 /\ n \in Nat /\ r[n + 1] = b
      /\ \A k \in 1 .. n : r[k] = s[k]
  OBVIOUS
<1> HIDE DEF r, n
<1>2. \A k \in 1 .. n + 1 : k = n + 1 \/ k \in 1 .. n
  BY <1>1
<1>3. n + 1 \in 1 .. n + 1 /\ n + 1 \notin 1 .. n /\ \A k \in 1 .. n : k \in 1 .. n + 1
  BY <1>1
<1>4. Places(r, c) = {k \in 1 .. n + 1 : r[k].cksum = c} /\ Places(s, c) = {k \in 1 .. n : s[k].cksum = c}
  BY <1>1 DEF Places, n
<1>5. ASSUME c = b.cksum
      PROVE  Cardinality(Places(r, c)) = Cardinality(Places(s, c)) + 1
  <2>1. Places(r, c) = Places(s, c) \union {n + 1} /\ n + 1 \notin Places(s, c)
    BY <1>1, <1>2, <1>3, <1>4, <1>5
  <2>2. IsFiniteSet(Places(s, c))
    BY PlacesAreFinite
  <2> QED BY <2>1, <2>2, FS_AddElement
<1>6. ASSUME c # b.cksum
      PROVE  Places(r, c) = Places(s, c)
  BY <1>1, <1>2, <1>3, <1>4, <1>6
<1> QED BY <1>5, <1>6 DEF r

LEMMA AsEntriesIs ==
  ASSUME NEW s \in Seq(Block), NEW t
  PROVE  /\ DOMAIN AsEntries(s, t) = {Entry(c, t) : c \in Contents(s)}
         /\ \A c \in Contents(s) : AsEntries(s, t)[Entry(c, t)] = Cardinality(Places(s, c))
<1>1. DOMAIN s = 1 .. Len(s)
  OBVIOUS
<1>2. DOMAIN AsEntries(s, t) = {Entry(c, t) : c \in Contents(s)}
  BY DEF AsEntries, Entry
<1>3. ASSUME NEW c \in Contents(s)
      PROVE  AsEntries(s, t)[Entry(c, t)] = Cardinality(Places(s, c))
  <2>1. PICK e : e = Entry(c, t) /\ e.cksum = c
    BY EntryFields
  <2>2. e \in {Entry(d, t) : d \in Contents(s)}
    BY <1>3, <2>1
  <2>3. AsEntries(s, t)[e] = Cardinality({k \in DOMAIN s : s[k].cksum = e.cksum})
    BY <2>2 DEF AsEntries, Entry
  <2> QED BY <1>1, <2>1, <2>3 DEF Places
<1> QED BY <1>2, <1>3

LEMMA AsEntriesOfAppend ==
  ASSUME NEW s \in Seq(Block), NEW b \in Block, NEW t
  PROVE  AsEntries(Append(s, b), t) = AsEntries(s, t) (+) SetToBag({Entry(b.cksum, t)})
<1>1. PICK r \in Seq(Block) : r = Append(s, b)
  <2>1. Append(s, b) \in Seq(Block)
    BY AppendProperties
  <2> QED BY <2>1
<1>2. PICK e : e = Entry(b.cksum, t) /\ e.cksum = b.cksum
  BY EntryFields
<1>3. PICK one : one = SetToBag({e}) /\ DOMAIN one = {e} /\ one[e] = 1
  BY OneEntry
<1>4. PICK old : old = AsEntries(s, t) /\ DOMAIN old = {Entry(c, t) : c \in Contents(s)}
                 /\ \A c \in Contents(s) : old[Entry(c, t)] = Cardinality(Places(s, c))
  BY AsEntriesIs
<1>5. PICK new : new = AsEntries(r, t) /\ DOMAIN new = {Entry(c, t) : c \in Contents(r)}
                 /\ \A c \in Contents(r) : new[Entry(c, t)] = Cardinality(Places(r, c))
  BY AsEntriesIs
<1>6. Contents(r) = Contents(s) \union {b.cksum}
  <2>1. /\ DOMAIN r = 1 .. Len(s) + 1 /\ DOMAIN s = 1 .. Len(s) /\ r[Len(s) + 1] = b
        /\ \A k \in 1 .. Len(s) : r[k] = s[k]
    BY <1>1
  <2>2. \A k \in 1 .. Len(s) + 1 : k = Len(s) + 1 \/ k \in 1 .. Len(s)
    BY LenProperties
  <2>3. Len(s) + 1 \in 1 .. Len(s) + 1 /\ \A k \in 1 .. Len(s) : k \in 1 .. Len(s) + 1
    BY LenProperties
  <2> HIDE <1>1
  <2> QED BY <2>1, <2>2, <2>3 DEF Contents
<1>7. DOMAIN new = DOMAIN old \union DOMAIN one
  BY <1>2, <1>3, <1>4, <1>5, <1>6
<1>8. PICK sum : sum = old (+) one
  OBVIOUS
<1>9. /\ sum = [x \in DOMAIN new |-> (IF x \in DOMAIN old THEN old[x] ELSE 0)
                                       + (IF x \in DOMAIN one THEN one[x] ELSE 0)]
      /\ DOMAIN sum = DOMAIN new
  BY <1>7, <1>8 DEF (+)
<1>10. new = [x \in DOMAIN new |-> new[x]]
  BY <1>5 DEF AsEntries
<1>11. ASSUME NEW x \in DOMAIN new PROVE new[x] = sum[x]
  <2>1. PICK c \in Contents(r) : x = Entry(c, t)
    BY <1>5
  <2>2. new[x] = Cardinality(Places(r, c)) /\ Cardinality(Places(s, c)) \in Nat
    BY <1>5, <2>1, PlacesAreFinite
  <2>3. /\ c = b.cksum => Cardinality(Places(r, c)) = Cardinality(Places(s, c)) + 1
        /\ c # b.cksum => Places(r, c) = Places(s, c)
    BY <1>1, PlacesOfAppend
  <2>4. c \in Contents(s) => x \in DOMAIN old /\ old[x] = Cardinality(Places(s, c))
    BY <1>4, <2>1
  <2>5. c \notin Contents(s) => x \notin DOMAIN old /\ Cardinality(Places(s, c)) = 0
    <3> SUFFICES ASSUME c \notin Contents(s)
                 PROVE  x \notin DOMAIN old /\ Cardinality(Places(s, c)) = 0
      OBVIOUS
    <3>1. \A d \in Contents(s) : Entry(d, t) # x
      BY <2>1, EntryFields
    <3>2. Places(s, c) = {}
      BY DEF Places, Contents
    <3> QED BY <1>4, <3>1, <3>2, FS_EmptySet
  <2>6. x \in DOMAIN one <=> c = b.cksum
    BY <1>2, <1>3, <2>1, EntryFields
  <2>7. sum[x] = (IF x \in DOMAIN old THEN old[x] ELSE 0) + (IF x \in DOMAIN one THEN one[x] ELSE 0)
    BY <1>9
  <2>8. c = b.cksum => one[x] = 1
    BY <1>2, <1>3, <2>1
  <2>9. c # b.cksum => c \in Contents(s)
    BY <1>6
  <2>10. CASE c = b.cksum /\ c \in Contents(s)
    BY <2>2, <2>3, <2>4, <2>6, <2>7, <2>8, <2>10
  <2>11. CASE c = b.cksum /\ c \notin Contents(s)
    BY <2>2, <2>3, <2>5, <2>6, <2>7, <2>8, <2>11
  <2>12. CASE c # b.cksum
    BY <2>2, <2>3, <2>4, <2>6, <2>7, <2>9, <2>12
  <2> QED BY <2>10, <2>11, <2>12
<1>12. sum = [x \in DOMAIN new |-> sum[x]]
  BY <1>9
<1>13. new = sum
  BY <1>10, <1>11, <1>12
<1> QED BY <1>1, <1>2, <1>3, <1>4, <1>5, <1>8, <1>13

\* As many entries as there are blocks.
LEMMA SizeOfEntries ==
  ASSUME NEW t, NEW s \in Seq(Block)
  PROVE  IsBag(AsEntries(s, t)) /\ SumFunction(AsEntries(s, t)) = Len(s)
<1> DEFINE P == {u \in Seq(Block) : IsBag(AsEntries(u, t)) /\ SumFunction(AsEntries(u, t)) = Len(u)}
<1>1. <<>> \in P
  <2>1. PICK none \in Seq(Block) : none = <<>> /\ Len(none) = 0
    BY EmptySeq
  <2>2. Contents(none) = {}
    BY <2>1 DEF Contents
  <2>3. PICK b : b = AsEntries(none, t)
    OBVIOUS
  <2>4. DOMAIN b = {}
    BY <2>1, <2>2, <2>3, AsEntriesIs
  <2>5. b \in [{} -> Nat \ {0}] /\ b \in [{} -> Int]
    BY <2>3, <2>4 DEF AsEntries
  <2>6. IsFiniteSet({})
    BY FS_EmptySet
  <2>7. IsBag(b) /\ SumFunction(b) = 0
    BY <2>4, <2>5, <2>6, SumOfNothing DEF IsBag
  <2> QED BY <2>1, <2>3, <2>7
<1>2. ASSUME NEW u \in Seq(Block), NEW b \in Block, u \in P
      PROVE  Append(u, b) \in P
  <2>1. PICK r \in Seq(Block) : r = Append(u, b) /\ Len(r) = Len(u) + 1
    <3>1. Append(u, b) \in Seq(Block) /\ Len(Append(u, b)) = Len(u) + 1
      BY AppendProperties
    <3> QED BY <3>1
  <2>2. PICK old, one : old = AsEntries(u, t) /\ one = SetToBag({Entry(b.cksum, t)})
    OBVIOUS
  <2>3. IsBag(old) /\ SumFunction(old) = Len(u) /\ IsBag(one) /\ SumFunction(one) = 1
    BY <1>2, <2>2, OneEntry
  <2>4. IsBag(old (+) one) /\ SumFunction(old (+) one) = SumFunction(old) + SumFunction(one)
    BY <2>3, BagAdds
  <2>5. AsEntries(r, t) = old (+) one
    BY <2>1, <2>2, AsEntriesOfAppend
  <2> QED BY <2>1, <2>3, <2>4, <2>5
<1> HIDE DEF P
<1>3. \A u \in Seq(Block) : u \in P
  BY <1>1, <1>2, SeqIsInductive
<1> QED BY <1>3 DEF P

-----------------------------------------------------------------------------
(* Segments that fit *)

\* All segments of the trace from the k-th record on fit in n.
FitFrom(t, k, n) ==
  \E from \in [0 .. Len(t) -> Seq(Seq(Block))] :
    /\ SegmentsFrom(t, from)
    /\ \A j \in 1 .. Len(from[k]) : Len(from[k][j]) <= n

LEMMA FitFromTheFirst ==
  ASSUME NEW t \in Seq(Block), NEW n, \A j \in DOMAIN Segments(t) : Len(Segments(t)[j]) <= n
  PROVE  FitFrom(t, 0, n)
<1>1. PICK from \in [0 .. Len(t) -> Seq(Seq(Block))] : SegmentsFrom(t, from) /\ Segments(t) = from[0]
  BY SegmentsExist
<1>2. 0 \in 0 .. Len(t)
  BY LenProperties
<1>3. DOMAIN from[0] = 1 .. Len(from[0])
  BY <1>2, LenProperties
<1> QED BY <1>1, <1>3 DEF FitFrom

\* Then the next one fits, and those after it.
LEMMA FitFromTheNext ==
  ASSUME NEW t \in Seq(Block), NEW k \in 0 .. Len(t), NEW n \in Nat, FitFrom(t, k, n)
  PROVE  LET rem == RestFrom(t, k)
         IN  /\ Len(SegmentBlocks(rem)) <= n
             /\ SegmentBlocks(rem) # <<>> => FitFrom(t, k + SegmentLen(rem), n)
<1>1. PICK from \in [0 .. Len(t) -> Seq(Seq(Block))] :
        /\ SegmentsFrom(t, from)
        /\ \A j \in 1 .. Len(from[k]) : Len(from[k][j]) <= n
  BY DEF FitFrom
<1>2. PICK rem \in Seq(Block) : rem = RestFrom(t, k)
  BY RestSegment
<1>3. PICK seg \in Seq(Block) : seg = SegmentBlocks(rem)
  BY <1>2, RestSegment
<1>4. PICK to \in 0 .. Len(t) : to = k + SegmentLen(rem)
  <2>1. k + SegmentLen(rem) \in k .. Len(t)
    BY <1>2, RestSegment
  <2>2. k \in Nat /\ Len(t) \in Nat
    BY LenProperties
  <2>3. k + SegmentLen(rem) \in 0 .. Len(t)
    <3> DEFINE m == k + SegmentLen(rem)
    <3> HIDE DEF m
    <3>1. m \in k .. Len(t)
      BY <2>1 DEF m
    <3>2. m \in 0 .. Len(t)
      BY <2>2, <3>1
    <3> QED BY <3>2 DEF m
  <2> QED BY <2>3
<1>5. from[k] = IF seg = <<>> THEN <<>> ELSE <<seg>> \o from[to]
  BY <1>1, <1>2, <1>3, <1>4 DEF SegmentsFrom, RestFrom
<1>6. CASE seg = <<>>
  <2>1. Len(seg) <= n
    BY <1>6, EmptySeq
  <2> QED BY <1>2, <1>3, <1>6, <2>1
<1>7. CASE seg # <<>>
  <2>1. PICK rest \in Seq(Seq(Block)) : rest = from[to]
    OBVIOUS
  <2>2. PICK one \in Seq(Seq(Block)) : one = <<seg>> /\ Len(one) = 1 /\ one[1] = seg
    <3>1. <<seg>> \in Seq(Seq(Block)) /\ Len(<<seg>>) = 1 /\ <<seg>>[1] = seg
      OBVIOUS
    <3> QED BY <3>1
  <2>3. /\ Len(one \o rest) = 1 + Len(rest)
        /\ \A j \in 1 .. 1 + Len(rest) : (one \o rest)[j] = IF j <= 1 THEN one[j] ELSE rest[j - 1]
    BY <2>2, ConcatProperties
  <2>4. PICK all : all = one \o rest /\ all = from[k]
    BY <1>5, <1>7, <2>1, <2>2
  <2>5. Len(all) = 1 + Len(rest) /\ Len(rest) \in Nat
    BY <2>3, <2>4, LenProperties
  <2>6. Len(seg) <= n
    <3>1. 1 \in 1 .. Len(all) /\ 1 \in 1 .. 1 + Len(rest)
      BY <2>5
    <3>2. all[1] = seg
      BY <2>2, <2>3, <2>4, <3>1
    <3> QED BY <1>1, <2>4, <3>1, <3>2
  <2>7. ASSUME NEW j \in 1 .. Len(rest) PROVE Len(rest[j]) <= n
    <3>1. j + 1 \in 1 .. Len(all) /\ j + 1 \in 1 .. 1 + Len(rest) /\ ~(j + 1 <= 1) /\ (j + 1) - 1 = j
      BY <2>5
    <3>2. all[j + 1] = rest[j]
      BY <2>3, <2>4, <3>1
    <3> QED BY <1>1, <2>4, <3>1, <3>2
  <2>8. FitFrom(t, to, n)
    BY <1>1, <2>1, <2>7 DEF FitFrom
  <2> QED BY <1>2, <1>3, <1>4, <2>6, <2>8
<1> QED BY <1>6, <1>7

-----------------------------------------------------------------------------
(* What the operations do to the cache *)

CacheEntry == [cksum : Int, time : Nat]

IsCache(b) == IsBag(b) /\ DOMAIN b \subseteq CacheEntry

CksumsOf(b) == {e.cksum : e \in DOMAIN b}

LEMMA CachedIs == Cached = CksumsOf(cache)
  BY DEF Cached, CksumsOf, BagToSet

LEMMA NewEntries ==
  ASSUME NEW s \in Seq(Block), NEW t \in Nat
  PROVE  /\ IsCache(AsEntries(s, t))
         /\ SumFunction(AsEntries(s, t)) = Len(s)
         /\ CksumsOf(AsEntries(s, t)) = Contents(s)
<1>1. PICK b : b = AsEntries(s, t)
  OBVIOUS
<1>2. IsBag(b) /\ SumFunction(b) = Len(s)
  BY <1>1, SizeOfEntries
<1>3. DOMAIN b = {Entry(c, t) : c \in Contents(s)}
  BY <1>1, AsEntriesIs
<1>4. \A c \in Contents(s) : c \in Int
  <2>1. \A k \in DOMAIN s : s[k] \in Block
    OBVIOUS
  <2> QED BY <2>1 DEF Contents, Block
<1>5. \A c \in Contents(s) : Entry(c, t) \in CacheEntry /\ Entry(c, t).cksum = c
  BY <1>4 DEF Entry, CacheEntry
<1>6. DOMAIN b \subseteq CacheEntry /\ CksumsOf(b) = Contents(s)
  BY <1>3, <1>5 DEF CksumsOf
<1> QED BY <1>1, <1>2, <1>6 DEF IsCache

LEMMA DiscardAndAdd ==
  ASSUME IsCache(cache), NEW n \in Nat, NEW gone \in Oldest(n), NEW s \in Seq(Block), NEW t \in Nat, NEW new,
         new = (cache (-) gone) (+) AsEntries(s, t)
  PROVE  /\ IsCache(new)
         /\ SumFunction(new) = Size - n + Len(s)
         /\ CksumsOf(new) \subseteq Cached \union Contents(s)
         /\ Contents(s) \subseteq CksumsOf(new)
<1>1. /\ gone \in [DOMAIN cache -> 0 .. n] /\ SumFunction(gone) = n
      /\ \A e \in DOMAIN cache : gone[e] <= cache[e]
  BY DEF Oldest, BagToSet
<1>2. /\ DOMAIN gone \subseteq DOMAIN cache /\ gone \in [DOMAIN gone -> Nat]
      /\ \A e \in DOMAIN gone : gone[e] <= cache[e]
  BY <1>1
<1>3. PICK kept : kept = cache (-) gone
  OBVIOUS
<1>4. PICK added : added = AsEntries(s, t)
  OBVIOUS
<1>5. IsBag(kept) /\ DOMAIN kept \subseteq DOMAIN cache /\ SumFunction(kept) = Size - n
  <2>1. IsBag(cache)
    BY DEF IsCache
  <2> QED BY <1>1, <1>2, <1>3, <2>1, BagLoses DEF Size
<1>6. IsCache(added) /\ SumFunction(added) = Len(s) /\ CksumsOf(added) = Contents(s) /\ IsBag(added)
  BY <1>4, NewEntries DEF IsCache
<1>7. IsBag(new) /\ DOMAIN new = DOMAIN kept \union DOMAIN added /\ SumFunction(new) = Size - n + Len(s)
  BY <1>3, <1>4, <1>5, <1>6, BagAdds
<1>8. IsCache(new)
  BY <1>5, <1>6, <1>7 DEF IsCache
<1>9. CksumsOf(new) = CksumsOf(kept) \union CksumsOf(added) /\ CksumsOf(kept) \subseteq CksumsOf(cache)
  BY <1>5, <1>7 DEF CksumsOf
<1> QED BY <1>6, <1>7, <1>8, <1>9, CachedIs

LEMMA Renewal ==
  ASSUME IsCache(cache), NEW e \in DOMAIN cache, NEW t \in Nat, NEW new,
         new = (cache (-) SetToBag({e})) (+) SetToBag({[e EXCEPT !.time = t]})
  PROVE  IsCache(new) /\ SumFunction(new) = Size /\ CksumsOf(new) = Cached
<1>1. PICK one : one = SetToBag({e}) /\ IsBag(one) /\ DOMAIN one = {e} /\ one[e] = 1 /\ SumFunction(one) = 1
  BY OneEntry
<1>2. PICK f \in CacheEntry : f = [e EXCEPT !.time = t] /\ f.cksum = e.cksum
  <2>1. e \in CacheEntry
    BY DEF IsCache
  <2>2. [e EXCEPT !.time = t] \in CacheEntry /\ [e EXCEPT !.time = t].cksum = e.cksum
    BY <2>1 DEF CacheEntry
  <2> QED BY <2>2
<1>3. PICK other : other = SetToBag({f}) /\ IsBag(other) /\ DOMAIN other = {f} /\ SumFunction(other) = 1
  BY OneEntry
<1>4. PICK kept : kept = cache (-) one
  OBVIOUS
<1>5. /\ IsBag(cache) /\ cache[e] \in Nat \ {0} /\ DOMAIN one \subseteq DOMAIN cache
      /\ one \in [DOMAIN one -> Nat] /\ \A x \in DOMAIN one : one[x] <= cache[x]
  BY <1>1 DEF IsCache, IsBag
<1>6. /\ IsBag(kept) /\ DOMAIN kept \subseteq DOMAIN cache /\ DOMAIN cache \ {e} \subseteq DOMAIN kept
      /\ SumFunction(kept) = Size - 1
  <2>1. /\ IsBag(cache (-) one) /\ DOMAIN (cache (-) one) \subseteq DOMAIN cache
        /\ DOMAIN cache \ DOMAIN one \subseteq DOMAIN (cache (-) one)
        /\ SumFunction(cache (-) one) = SumFunction(cache) - SumFunction(one)
    BY <1>5, BagLoses
  <2>2. SumFunction(cache) = Size
    BY DEF Size
  <2> QED BY <1>1, <1>4, <2>1, <2>2
<1>7. Size \in Nat
  BY <1>5, BagSizeType DEF Size
<1>8. IsBag(new) /\ DOMAIN new = DOMAIN kept \union {f} /\ SumFunction(new) = SumFunction(kept) + 1
  <2>1. new = kept (+) other
    BY <1>1, <1>2, <1>3, <1>4
  <2>2. /\ IsBag(kept (+) other) /\ DOMAIN (kept (+) other) = DOMAIN kept \union DOMAIN other
        /\ SumFunction(kept (+) other) = SumFunction(kept) + SumFunction(other)
    BY <1>3, <1>6, BagAdds
  <2> QED BY <1>3, <2>1, <2>2
<1>9. SumFunction(new) = Size
  BY <1>6, <1>7, <1>8
<1>10. IsCache(new)
  BY <1>2, <1>6, <1>8 DEF IsCache
<1>11. CksumsOf(new) = CksumsOf(cache)
  <2>1. ASSUME NEW x \in DOMAIN cache PROVE x.cksum \in CksumsOf(new)
    BY <1>2, <1>6, <1>8 DEF CksumsOf
  <2>2. ASSUME NEW x \in DOMAIN new PROVE x.cksum \in CksumsOf(cache)
    BY <1>2, <1>6, <1>8 DEF CksumsOf
  <2> QED BY <2>1, <2>2 DEF CksumsOf
<1> QED BY <1>9, <1>10, <1>11, CachedIs

-----------------------------------------------------------------------------
(* The size of the cache *)

\* What has been read of the parent, and that the rest fits.
ParentIsRead ==
  \E k \in 0 .. Len(ParentTrace) :
    /\ parent_input = RestFrom(ParentTrace, k)
    /\ SegmentsFit /\ has_parent => FitFrom(ParentTrace, k, capacity)

VectorTypes ==
  /\ SnapshotTypes
  /\ capacity \in Nat /\ clock \in Nat
  /\ IsCache(cache)

SizeInv ==
  /\ VectorTypes
  /\ ParentIsRead
  /\ SegmentsFit => Len(parent_seg) <= capacity
  /\ SizeIsKept

LEMMA ReadingsType ==
  ASSUME clock \in Nat, NEW t \in Readings
  PROVE  t \in Nat
  BY DEF Readings

\* What is read of a parent.
LEMMA SimLoadTypes ==
  ASSUME SnapshotTypes, SimLoadSegments
  PROVE  SnapshotTypes'
<1>1. /\ SegmentBlocks(current_input) \in Seq(Block) /\ AfterSegment(current_input) \in Seq(Block)
      /\ SegmentBlocks(parent_input) \in Seq(Block) /\ AfterSegment(parent_input) \in Seq(Block)
  BY NextSegment DEF SnapshotTypes
<1>2. parent_seg' \in Seq(Block) /\ parent_input' \in Seq(Block)
  BY <1>1 DEF SimLoadSegments, NextParentSeg, SnapshotTypes
<1> QED BY <1>1, <1>2 DEF SimLoadSegments, SnapshotTypes, argVars

TaggedAt(s, k, bits) == [s EXCEPT ![k] = Tagged(s[k], bits)]

LEMMA RetaggedAt ==
  ASSUME NEW s \in Seq(Block), NEW k \in 1 .. Len(s), NEW bits \in SUBSET Nat, NEW r,
         r = TaggedAt(s, k, bits)
  PROVE  /\ IsRetagged(r, s)
         /\ \A j \in 1 .. Len(s) : r[j] = IF j = k THEN Tagged(s[k], bits) ELSE s[j]
<1>2. s \in [1 .. Len(s) -> Block]
  BY LenProperties
<1>3. /\ r = [j \in 1 .. Len(s) |-> r[j]]
      /\ \A j \in 1 .. Len(s) : r[j] = IF j = k THEN Tagged(s[k], bits) ELSE s[j]
  BY <1>2 DEF TaggedAt
<1>4. ASSUME NEW j \in 1 .. Len(s)
      PROVE  \E all \in SUBSET Nat : r[j] = [s[j] EXCEPT !.file_id = all]
  <2>1. PICK b \in Block : b = s[j] /\ b.file_id \in SUBSET Nat
    BY <1>2 DEF Block
  <2>2. /\ Tagged(b, bits) = [b EXCEPT !.file_id = b.file_id \union bits]
        /\ b.file_id \union bits \in SUBSET Nat
        /\ b = [b EXCEPT !.file_id = b.file_id]
    BY TaggedIsRetagged
  <2>3. CASE j = k
    <3>1. r[j] = Tagged(b, bits)
      BY <1>3, <2>1, <2>3
    <3>2. PICK all \in SUBSET Nat : all = b.file_id \union bits
      BY <2>2
    <3> QED BY <2>1, <2>2, <3>1, <3>2
  <2>4. CASE j # k
    BY <1>3, <2>1, <2>2, <2>4
  <2> QED BY <2>3, <2>4
<1>5. IsRetagged(r, s)
  BY <1>3, <1>4 DEF IsRetagged
<1> QED BY <1>3, <1>5

LEMMA SearchHitRetags ==
  ASSUME SnapshotTypes, SearchHit
  PROVE  /\ i \in 1 .. Len(current_seg) /\ pc = "search" /\ i' = i + 1
         /\ IsRetagged(current_seg', current_seg)
         /\ \A j \in 1 .. Len(current_seg) :
              current_seg'[j] = IF j = i THEN Tagged(current_seg[i], IN_DIRTY_SEG) ELSE current_seg[j]
         /\ UNCHANGED <<inVars, pc, has_parent, parent_seg, output, capacity>>
<1>1. current_seg \in Seq(Block) /\ i \in 1 .. Len(current_seg)
  BY LenProperties DEF SnapshotTypes, SearchHit
<1>2. current_seg' = [current_seg EXCEPT ![i] = Tagged(@, IN_DIRTY_SEG)]
  BY DEF SearchHit
<1>3. IN_DIRTY_SEG \in SUBSET Nat
  BY TagsAreSets
<1>4. PICK s, k : s \in Seq(Block) /\ k \in 1 .. Len(s) /\ s = current_seg /\ k = i
  BY <1>1
<1>5. PICK r : r = TaggedAt(s, k, IN_DIRTY_SEG)
  OBVIOUS
<1>6. /\ IsRetagged(r, s)
      /\ \A j \in 1 .. Len(s) : r[j] = IF j = k THEN Tagged(s[k], IN_DIRTY_SEG) ELSE s[j]
  BY <1>3, <1>4, <1>5, RetaggedAt
<1>7. r = current_seg'
  BY <1>2, <1>4, <1>5 DEF TaggedAt
<1> QED BY <1>1, <1>4, <1>6, <1>7 DEF SearchHit

\* Discarding makes room, if the segment fits.
LEMMA ToDiscardIs ==
  ASSUME VectorTypes
  PROVE  /\ Size \in Nat /\ ToDiscard \in Nat
         /\ Size <= capacity /\ Len(parent_seg) <= capacity =>
              Size - ToDiscard + Len(parent_seg) <= capacity
<1>1. IsBag(cache) /\ capacity \in Nat /\ parent_seg \in Seq(Block)
  BY DEF VectorTypes, IsCache, SnapshotTypes
<1>2. PICK size \in Nat : size = Size
  BY <1>1, BagSizeType DEF Size
<1>3. PICK n \in Nat : n = Len(parent_seg)
  BY <1>1, LenProperties
<1>4. ToDiscard = IF size >= capacity THEN n
                  ELSE IF n + size > capacity THEN Min({size, n + size - capacity}) ELSE 0
  BY <1>2, <1>3 DEF ToDiscard, Full
<1>5. ASSUME ~(size >= capacity), n + size > capacity
      PROVE  /\ Min({size, n + size - capacity}) \in Nat
             /\ \/ Min({size, n + size - capacity}) = size
                \/ Min({size, n + size - capacity}) = n + size - capacity
  <2>1. {size, n + size - capacity} \in SUBSET Nat /\ {size, n + size - capacity} # {}
    BY <1>1, <1>5
  <2>2. Min({size, n + size - capacity}) \in {size, n + size - capacity}
    BY <2>1, MinOfNat
  <2> QED BY <2>1, <2>2
<1>6. CASE size >= capacity
  BY <1>1, <1>2, <1>3, <1>4, <1>6
<1>7. CASE ~(size >= capacity) /\ n + size > capacity
  <2>1. PICK d \in Nat : d = ToDiscard /\ (d = size \/ d = n + size - capacity)
    BY <1>4, <1>5, <1>7
  <2> QED BY <1>1, <1>2, <1>3, <2>1
<1>8. CASE ~(size >= capacity) /\ ~(n + size > capacity)
  BY <1>1, <1>2, <1>3, <1>4, <1>8
<1> QED BY <1>6, <1>7, <1>8

LEMMA AddItemsAdds ==
  ASSUME VectorTypes, AddItems
  PROVE  /\ IsCache(cache') /\ clock' \in Nat
         /\ Size' = Size - ToDiscard + Len(parent_seg)
         /\ Cached' \subseteq Cached \union Contents(parent_seg)
         /\ Contents(parent_seg) \subseteq Cached'
         /\ pc = "tag" /\ pc' = "search" /\ has_parent /\ ~SegmentUnchanged
         /\ UNCHANGED <<inVars, has_parent, current_seg, parent_seg, i, output, capacity>>
<1>1. PICK t \in Readings : \E gone \in Oldest(ToDiscard) :
        clock' = t /\ cache' = (cache (-) gone) (+) AddBlocks(t)
  BY DEF AddItems
<1>2. PICK gone \in Oldest(ToDiscard) : clock' = t /\ cache' = (cache (-) gone) (+) AsEntries(parent_seg, t)
  BY <1>1 DEF AddBlocks
<1>3. PICK new : new = cache'
  OBVIOUS
<1>4. PICK n \in Nat : n = ToDiscard
  BY ToDiscardIs
<1>5. IsCache(cache) /\ t \in Nat /\ parent_seg \in Seq(Block)
  BY ReadingsType DEF VectorTypes, SnapshotTypes
<1>6. new = (cache (-) gone) (+) AsEntries(parent_seg, t) /\ gone \in Oldest(n)
  BY <1>2, <1>3, <1>4
<1>7. /\ IsCache(new)
      /\ SumFunction(new) = Size - n + Len(parent_seg)
      /\ CksumsOf(new) \subseteq Cached \union Contents(parent_seg)
      /\ Contents(parent_seg) \subseteq CksumsOf(new)
  BY <1>5, <1>6, DiscardAndAdd
<1>8. Cached' = CksumsOf(new) /\ Size' = SumFunction(new)
  BY <1>3 DEF Cached, CksumsOf, BagToSet, Size
<1>9. /\ pc = "tag" /\ pc' = "search" /\ has_parent /\ ~SegmentUnchanged
      /\ UNCHANGED <<inVars, has_parent, current_seg, parent_seg, i, output, capacity>>
  BY DEF AddItems
<1> QED BY <1>2, <1>3, <1>4, <1>5, <1>7, <1>8, <1>9

LEMMA AddOverrunAdds ==
  ASSUME VectorTypes, AddOverrun
  PROVE  /\ IsCache(cache') /\ clock' \in Nat
         /\ Size' = Size
         /\ Cached' \subseteq Contents(parent_seg)
         /\ Size >= capacity /\ Len(parent_seg) > Size
         /\ pc = "tag" /\ pc' \in {"search", "killed"} /\ has_parent /\ ~SegmentUnchanged
         /\ UNCHANGED <<inVars, has_parent, current_seg, parent_seg, i, output, capacity>>
<1>1. PICK t \in Readings, order \in [DOMAIN parent_seg -> DOMAIN parent_seg] :
        clock' = t /\ cache' = AsEntries([k \in 1 .. Size |-> parent_seg[order[k]]], t)
  BY DEF AddOverrun, ByHash
<1>2. t \in Nat /\ parent_seg \in Seq(Block) /\ Size \in Nat
  BY ReadingsType, ToDiscardIs DEF VectorTypes, SnapshotTypes
<1>3. Size >= capacity /\ Len(parent_seg) > Size
  BY DEF AddOverrun, Full
<1>4. PICK n \in Nat : n = Size /\ n < Len(parent_seg)
  BY <1>2, <1>3, LenProperties
<1>5. PICK first \in Seq(Block) : /\ first = [k \in 1 .. n |-> parent_seg[order[k]]] /\ Len(first) = n
                                  /\ \A k \in 1 .. n : order[k] \in DOMAIN parent_seg
  <2>1. \A k \in 1 .. n : k \in DOMAIN parent_seg
    BY <1>2, <1>4, LenProperties
  <2>2. \A k \in 1 .. n : order[k] \in DOMAIN parent_seg /\ parent_seg[order[k]] \in Block
    BY <1>1, <1>2, <2>1
  <2>3. [k \in 1 .. n |-> parent_seg[order[k]]] \in Seq(Block) /\ Len([k \in 1 .. n |-> parent_seg[order[k]]]) = n
    BY <1>4, <2>2
  <2> QED BY <2>2, <2>3
<1>6. Contents(first) \subseteq Contents(parent_seg)
  BY <1>4, <1>5 DEF Contents
<1>7. PICK new : new = AsEntries(first, t) /\ new = cache'
  BY <1>1, <1>4, <1>5
<1>8. IsCache(new) /\ SumFunction(new) = n /\ CksumsOf(new) = Contents(first)
  BY <1>2, <1>5, <1>7, NewEntries
<1>9. Cached' = CksumsOf(new) /\ Size' = SumFunction(new)
  BY <1>7 DEF Cached, CksumsOf, BagToSet, Size
<1>10. /\ pc = "tag" /\ pc' \in {"search", "killed"} /\ has_parent /\ ~SegmentUnchanged
       /\ UNCHANGED <<inVars, has_parent, current_seg, parent_seg, i, output, capacity>>
  BY DEF AddOverrun
<1> QED BY <1>1, <1>2, <1>3, <1>4, <1>6, <1>7, <1>8, <1>9, <1>10

LEMMA SearchHitRenews ==
  ASSUME VectorTypes, SearchHit
  PROVE  /\ IsCache(cache') /\ clock' \in Nat
         /\ Size' = Size /\ Cached' = Cached
         /\ current_seg[i].cksum \in Cached
<1>1. PICK e \in DOMAIN cache : \E t \in Readings :
        /\ e.cksum = current_seg[i].cksum /\ clock' = t
        /\ cache' = (cache (-) SetToBag({e})) (+) SetToBag({[e EXCEPT !.time = t]})
  BY DEF SearchHit, BagToSet
<1>2. PICK t \in Readings :
        /\ e.cksum = current_seg[i].cksum /\ clock' = t
        /\ cache' = (cache (-) SetToBag({e})) (+) SetToBag({[e EXCEPT !.time = t]})
  BY <1>1
<1>3. PICK new : new = cache'
  OBVIOUS
<1>4. IsCache(cache) /\ t \in Nat
  BY ReadingsType DEF VectorTypes
<1>5. IsCache(new) /\ SumFunction(new) = Size /\ CksumsOf(new) = Cached
  BY <1>2, <1>3, <1>4, Renewal
<1>6. Cached' = CksumsOf(new) /\ Size' = SumFunction(new)
  BY <1>3 DEF Cached, CksumsOf, BagToSet, Size
<1>7. current_seg[i].cksum \in Cached
  BY <1>2, CachedIs DEF CksumsOf
<1> QED BY <1>2, <1>3, <1>4, <1>5, <1>6, <1>7

\* The steps that are those of CdsSim leave the cache alone.
PlainStep ==
  /\ \/ TagParent \/ WithoutParent \/ SearchCds \/ WriteSegment
     \/ EndOfSnapshot("close") \/ Close \/ Kill
  /\ UNCHANGED vectorVars

LEMMA PlainTypes ==
  ASSUME SnapshotTypes, PlainStep
  PROVE  /\ SnapshotTypes'
         /\ UNCHANGED <<argVars, parent_input, has_parent, parent_seg, capacity, cache, clock>>
<1>1. UNCHANGED <<capacity, cache, clock>>
  BY DEF PlainStep, vectorVars
<1>2. CASE TagParent \/ WithoutParent \/ SearchCds
  <2>1. RetagStep
    BY <1>2, TagsRetag
  <2>2. SnapshotTypes'
    BY <2>1, RetagTypes DEF RetagStep
  <2>3. has_parent' = has_parent
    BY <1>2 DEF TagParent, WithoutParent, SearchCds, TagNext
  <2> QED BY <1>1, <2>1, <2>2, <2>3 DEF RetagStep, inVars
<1>3. CASE WriteSegment
  BY <1>1, <1>3, WriteTypes DEF WriteSegment, inVars
<1>4. CASE EndOfSnapshot("close")
  BY <1>1, <1>4, EndTypes DEF EndOfSnapshot
<1>5. CASE Close
  BY <1>1, <1>5 DEF Close, SnapshotTypes, inVars, argVars
<1>6. CASE Kill
  BY <1>1, <1>6, KillTypes DEF Kill, inVars
<1> QED BY <1>2, <1>3, <1>4, <1>5, <1>6 DEF PlainStep

LEMMA SameTypes ==
  ASSUME VectorTypes, UNCHANGED <<inVars, has_parent, current_seg, parent_seg, output, capacity>>,
         i' \in Nat \ {0}, IsCache(cache'), clock' \in Nat
  PROVE  VectorTypes'
  BY DEF VectorTypes, SnapshotTypes, inVars, argVars

LEMMA VectorTypesStep ==
  ASSUME VectorTypes, [SimNext]_simVars
  PROVE  VectorTypes'
<1>1. CASE SimOpen
  <2>1. SnapshotTypes'
    BY <1>1, OpenTypes DEF SimOpen
  <2>2. capacity' \in Nat /\ clock' \in Nat
    BY <1>1, CacheAssumption DEF SimOpen
  <2>3. IsCache(cache')
    BY <1>1, EmptyBagIs DEF SimOpen, IsCache
  <2> QED BY <2>1, <2>2, <2>3 DEF VectorTypes
<1>2. CASE SimLoadSegments
  <2>1. SnapshotTypes'
    BY <1>2, SimLoadTypes DEF VectorTypes
  <2> QED BY <1>2, <2>1 DEF VectorTypes, SimLoadSegments, vectorVars
<1>3. CASE AddItems
  BY <1>3, AddItemsAdds, SameTypes DEF VectorTypes, SnapshotTypes
<1>4. CASE AddOverrun
  BY <1>4, AddOverrunAdds, SameTypes DEF VectorTypes, SnapshotTypes
<1>5. CASE SearchHit
  <2>1. SnapshotTypes'
    <3>1. /\ IsRetagged(current_seg', current_seg) /\ i' \in {i, i + 1}
          /\ UNCHANGED <<inVars, parent_seg, output>>
      BY <1>5, SearchHitRetags DEF VectorTypes
    <3> QED BY <3>1, RetagTypes DEF VectorTypes
  <2> QED BY <1>5, <2>1, SearchHitRenews DEF VectorTypes, SearchHit
<1>6. CASE SearchMiss \/ SearchDone
  <2>1. i' \in Nat \ {0}
    BY <1>6 DEF VectorTypes, SnapshotTypes, SearchMiss, SearchDone
  <2>2. UNCHANGED <<inVars, has_parent, current_seg, parent_seg, output, capacity, cache, clock>>
    BY <1>6 DEF SearchMiss, SearchDone, vectorVars
  <2> QED BY <2>1, <2>2, SameTypes DEF VectorTypes
<1>7. CASE PlainStep
  BY <1>7, PlainTypes DEF VectorTypes
<1>8. CASE UNCHANGED simVars
  BY <1>8 DEF simVars, snapshotVars, inVars, argVars, vectorVars, VectorTypes, SnapshotTypes
<1> QED BY <1>1, <1>2, <1>3, <1>4, <1>5, <1>6, <1>7, <1>8 DEF SimNext, PlainStep

LEMMA SizeOpen ==
  ASSUME SizeInv, SimOpen, VectorTypes'
  PROVE  SizeInv'
<1>1. PICK trace \in Seq(Block), n \in Nat : trace = ParentTrace' /\ n = capacity'
  <2>1. ParentTrace' \in Seq(Block)
    BY NothingIsASeq DEF VectorTypes, SnapshotTypes, ParentTrace
  <2> QED BY <2>1 DEF VectorTypes
<1>2. parent_input' = trace
  BY <1>1 DEF SimOpen, Open, ParentTrace
<1>3. RestFrom(trace, 0) = trace /\ 0 \in 0 .. Len(trace)
  BY SubSeqFull, LenProperties DEF RestFrom
<1>4. SegmentsFit' => FitFrom(trace, 0, n)
  <2>1. SegmentsFit' => \A j \in DOMAIN Segments(trace) : Len(Segments(trace)[j]) <= n
    BY <1>1 DEF SegmentsFit
  <2> QED BY <2>1, FitFromTheFirst
<1>5. ParentIsRead'
  BY <1>1, <1>2, <1>3, <1>4 DEF ParentIsRead
<1>6. Len(parent_seg') <= capacity' /\ Size' <= capacity'
  <2>1. parent_seg' = <<>> /\ cache' = EmptyBag
    BY DEF SimOpen, Open
  <2>2. Len(parent_seg') = 0 /\ Size' = 0
    BY <2>1, EmptySeq, EmptyBagIs DEF Size
  <2> QED BY <1>1, <2>2
<1> QED BY <1>5, <1>6 DEF SizeInv, SizeIsKept

LEMMA SizeLoad ==
  ASSUME SizeInv, SimLoadSegments, VectorTypes'
  PROVE  SizeInv'
<1>1. PICK trace \in Seq(Block), n \in Nat : trace = ParentTrace /\ n = capacity
  BY ParentTraceType DEF SizeInv, VectorTypes
<1>2. UNCHANGED <<parent, capacity, cache>>
  BY DEF SimLoadSegments, argVars, vectorVars
<1>3. ParentTrace' = trace /\ (SegmentsFit' <=> SegmentsFit) /\ Size' = Size
  BY <1>1, <1>2 DEF ParentTrace, SegmentsFit, Size
<1>4. PICK k \in 0 .. Len(trace) :
        parent_input = RestFrom(trace, k) /\ (SegmentsFit /\ has_parent => FitFrom(trace, k, n))
  BY <1>1 DEF SizeInv, ParentIsRead
<1>5. CASE has_parent
  <2>1. /\ parent_seg' = SegmentBlocks(parent_input) /\ parent_input' = AfterSegment(parent_input)
        /\ has_parent' => parent_seg' # <<>>
    BY <1>5 DEF SimLoadSegments, StillHasParent, NextParentSeg
  <2>2. PICK rem \in Seq(Block) : rem = RestFrom(trace, k)
    BY RestSegment
  <2>3. PICK to : /\ to = k + SegmentLen(rem) /\ to \in k .. Len(trace)
                  /\ AfterSegment(rem) = RestFrom(trace, to)
    BY <2>2, RestSegment
  <2>4. to \in 0 .. Len(trace)
    BY <2>3, LenProperties
  <2>5. SegmentsFit => /\ Len(SegmentBlocks(rem)) <= n
                       /\ SegmentBlocks(rem) # <<>> => FitFrom(trace, to, n)
    BY <1>4, <1>5, <2>2, <2>3, FitFromTheNext
  <2>6. ParentIsRead'
    BY <1>1, <1>2, <1>3, <1>4, <2>1, <2>2, <2>3, <2>4, <2>5 DEF ParentIsRead
  <2>7. SegmentsFit => Len(parent_seg') <= n
    BY <1>4, <2>1, <2>2, <2>5
  <2> QED BY <1>1, <1>2, <1>3, <2>6, <2>7 DEF SizeInv, SizeIsKept
<1>6. CASE ~has_parent
  <2>1. parent_seg' = parent_seg /\ parent_input' = parent_input /\ ~has_parent'
    BY <1>6 DEF SimLoadSegments, StillHasParent
  <2>2. ParentIsRead'
    BY <1>1, <1>2, <1>3, <1>4, <2>1 DEF ParentIsRead
  <2> QED BY <1>1, <1>2, <1>3, <2>1, <2>2 DEF SizeInv, SizeIsKept
<1> QED BY <1>5, <1>6

\* Where nothing is read.
LEMMA SizeRest ==
  ASSUME SizeInv, VectorTypes', UNCHANGED <<parent, parent_input, has_parent, parent_seg, capacity>>,
         SegmentsFit => Size' <= capacity
  PROVE  SizeInv'
<1>1. ParentTrace' = ParentTrace /\ (SegmentsFit' <=> SegmentsFit)
  BY DEF ParentTrace, SegmentsFit
<1> QED BY <1>1 DEF SizeInv, SizeIsKept, ParentIsRead

LEMMA SizeStep ==
  ASSUME SizeInv, [SimNext]_simVars
  PROVE  SizeInv'
<1>1. VectorTypes /\ VectorTypes'
  BY VectorTypesStep DEF SizeInv
<1>2. CASE AddItems
  <2>1. /\ Size' = Size - ToDiscard + Len(parent_seg)
        /\ UNCHANGED <<parent, parent_input, has_parent, parent_seg, capacity>>
    BY <1>1, <1>2, AddItemsAdds DEF inVars, argVars
  <2>2. Size <= capacity /\ Len(parent_seg) <= capacity => Size - ToDiscard + Len(parent_seg) <= capacity
    BY <1>1, ToDiscardIs
  <2> QED BY <1>1, <2>1, <2>2, SizeRest DEF SizeInv, SizeIsKept
<1>3. CASE AddOverrun
  <2>1. Size' = Size /\ UNCHANGED <<parent, parent_input, has_parent, parent_seg, capacity>>
    BY <1>1, <1>3, AddOverrunAdds DEF inVars, argVars
  <2> QED BY <1>1, <2>1, SizeRest DEF SizeInv, SizeIsKept
<1>4. CASE SearchHit
  <2>1. Size' = Size /\ UNCHANGED <<parent, parent_input, has_parent, parent_seg, capacity>>
    BY <1>1, <1>4, SearchHitRenews DEF inVars, argVars, SearchHit
  <2> QED BY <1>1, <2>1, SizeRest DEF SizeInv, SizeIsKept
<1>5. CASE SearchMiss \/ SearchDone \/ PlainStep \/ UNCHANGED simVars
  <2>1. UNCHANGED <<parent, parent_input, has_parent, parent_seg, capacity, cache>>
    <3>1. CASE SearchMiss \/ SearchDone
      BY <3>1 DEF SearchMiss, SearchDone, inVars, argVars, vectorVars
    <3>2. CASE PlainStep
      BY <1>1, <3>2, PlainTypes DEF VectorTypes, argVars
    <3>3. CASE UNCHANGED simVars
      BY <3>3 DEF simVars, snapshotVars, inVars, argVars, vectorVars
    <3> QED BY <1>5, <3>1, <3>2, <3>3
  <2>2. Size' = Size
    BY <2>1 DEF Size
  <2> QED BY <1>1, <2>1, <2>2, SizeRest DEF SizeInv, SizeIsKept
<1> QED BY <1>1, <1>2, <1>3, <1>4, <1>5, SizeOpen, SizeLoad DEF SimNext, PlainStep

LEMMA SizeInit == SimInit => SizeInv
<1> SUFFICES ASSUME SimInit PROVE SizeInv
  OBVIOUS
<1>1. SnapshotTypes
  BY TypesInit DEF SimInit
<1>2. VectorTypes
  BY <1>1, EmptyBagIs DEF SimInit, VectorTypes, IsCache
<1>3. PICK none \in Seq(Block) : none = <<>> /\ Len(none) = 0
  BY EmptySeq
<1>4. ParentTrace = none /\ parent_input = none /\ ~has_parent /\ parent_seg = none
  BY <1>3 DEF SimInit, Init, ParentTrace
<1>5. RestFrom(none, 0) = none /\ 0 \in 0 .. Len(none)
  BY <1>3 DEF RestFrom
<1>6. ParentIsRead
  BY <1>4, <1>5 DEF ParentIsRead
<1>7. Size = 0 /\ capacity = 0 /\ Len(parent_seg) = 0
  BY <1>3, <1>4, EmptyBagIs DEF SimInit, Size
<1> QED BY <1>2, <1>6, <1>7 DEF SizeInv, SizeIsKept

\* For all snapshots, parents, CDS files, capacities and clocks: in a run of
\* dedup_sim_lru.cpp on a parent none of whose segments has more blocks than
\* the vector of LruCache may hold, the vector never holds more, however often
\* a content is in it and whichever entries of the same age are discarded.
THEOREM CacheSize == SimSpec => []SizeIsKept
<1>1. SimInit => SizeInv
  BY SizeInit
<1>2. SizeInv /\ [SimNext]_simVars => SizeInv'
  BY SizeStep
<1>3. SizeInv => SizeIsKept
  BY DEF SizeInv
<1> QED BY <1>1, <1>2, <1>3, PTL DEF SimSpec

-----------------------------------------------------------------------------
(* The segment at hand and the parent's *)

InSegment == pc \in {"tag", "search", "cds"}

AlignedInv ==
  /\ SizeInv
  /\ ~has_parent => parent_seg = <<>> /\ parent_input = <<>>
  /\ pc = "tag" => i = 1 /\ \A k \in 1 .. Len(current_seg) : current_seg[k].file_id = {}
  /\ pc = "search" => has_parent /\ ~SegmentUnchanged
  /\ Promised =>
       /\ pc = "load" => Between(snapshot, ParentTrace, current_input, parent_input)
       /\ InSegment =>
            AtHandIsRange(snapshot, ParentTrace, current_seg, parent_seg, current_input, parent_input)

LEMMA NothingAfterTheLast ==
  ASSUME NEW t \in Seq(Block), SegmentBlocks(t) = <<>>
  PROVE  AfterSegment(t) = <<>>
<1>1. PICK n \in 0 .. Len(t) : /\ n = SegmentLen(t)
                               /\ n # Len(t) => TotalSize(SubSeq(t, 1, n)) >= FIX_SEGMENT_SIZE
  BY SegmentLenRange
<1>2. PICK seg \in Seq(Block) : seg = SubSeq(t, 1, n)
  <2>1. SubSeq(t, 1, SegmentLen(t)) \in Seq(Block)
    BY SegmentAndAfter
  <2> QED BY <1>1, <2>1
<1>3. NonEmpty(seg) \in Seq(Block)
  BY NonEmptyOfAppend
<1>4. Untagged(NonEmpty(seg)) = <<>>
  BY <1>1, <1>2 DEF SegmentBlocks
<1>5. Len(NonEmpty(seg)) = 0
  BY <1>3, <1>4, UntaggedIs, EmptySeq
<1>6. NonEmpty(seg) = <<>>
  BY <1>3, <1>5, EmptySeq
<1>7. TotalSize(seg) = 0
  BY <1>6, NothingHasNoSize
<1>8. n = Len(t)
  BY <1>1, <1>2, <1>7, SegmentSizeAssumption
<1>9. AfterSegment(t) = SubSeq(t, Len(t) + 1, Len(t))
  BY <1>1, <1>8 DEF AfterSegment
<1>10. Len(t) + 1 \in Int /\ Len(t) \in Int /\ Len(t) < Len(t) + 1
  BY LenProperties
<1> QED BY <1>9, <1>10, SubSeqEmpty

LEMMA RetaggedSelf ==
  ASSUME NEW s \in Seq(Block)
  PROVE  IsRetagged(s, s)
<1>1. \A k \in 1 .. Len(s) : s[k] \in Block
  OBVIOUS
<1>2. s = [k \in 1 .. Len(s) |-> s[k]]
  OBVIOUS
<1>3. \A k \in 1 .. Len(s) : s[k].file_id \in SUBSET Nat
  BY <1>1 DEF Block
<1> QED BY <1>1, <1>2, <1>3, TaggedIsRetagged DEF IsRetagged

LEMMA AlignedOpen ==
  ASSUME SizeInv', SimOpen
  PROVE  AlignedInv'
<1>1. SnapshotTypes' /\ ParentTrace' \in Seq(Block)
  BY NothingIsASeq DEF SizeInv, VectorTypes, SnapshotTypes, ParentTrace
<1>2. /\ pc' = "load" /\ current_input' = snapshot' /\ parent_seg' = <<>>
      /\ has_parent' <=> parent' # NoParent
      /\ parent_input' = IF parent' = NoParent THEN <<>> ELSE parent'
  BY DEF SimOpen, Open
<1>3. parent_input' = ParentTrace' /\ (~has_parent' => parent_input' = <<>>)
  BY <1>2 DEF ParentTrace
<1>4. Between(snapshot', ParentTrace', snapshot', ParentTrace')
  <2>1. PICK s \in Seq(Block), p \in Seq(Block) : s = snapshot' /\ p = ParentTrace'
    BY <1>1 DEF SnapshotTypes
  <2>2. Between(s, p, s, p)
    BY AtTheFirstRange
  <2> QED BY <2>1, <2>2
<1> QED BY <1>2, <1>3, <1>4 DEF AlignedInv, InSegment

LEMMA AlignedLoad ==
  ASSUME AlignedInv, SizeInv', SimLoadSegments
  PROVE  AlignedInv'
<1>1. SnapshotTypes /\ SnapshotTypes' /\ ParentTrace \in Seq(Block)
  BY ParentTraceType DEF AlignedInv, SizeInv, VectorTypes
<1>2. /\ pc = "load" /\ pc' = "tag" /\ i' = 1 /\ snapshot' = snapshot /\ cds' = cds /\ parent' = parent
      /\ current_seg' = SegmentBlocks(current_input) /\ current_input' = AfterSegment(current_input)
  BY DEF SimLoadSegments, argVars
<1>3. /\ parent_seg' = SegmentBlocks(parent_input) /\ parent_input' = AfterSegment(parent_input)
      /\ ~has_parent' => parent_seg' = <<>> /\ parent_input' = <<>>
  <2>1. CASE has_parent
    <3>1. /\ parent_seg' = SegmentBlocks(parent_input) /\ parent_input' = AfterSegment(parent_input)
          /\ ~has_parent' => parent_seg' = <<>>
      BY <2>1 DEF SimLoadSegments, StillHasParent, NextParentSeg
    <3>2. SegmentBlocks(parent_input) = <<>> => AfterSegment(parent_input) = <<>>
      BY <1>1, NothingAfterTheLast DEF SnapshotTypes
    <3> QED BY <3>1, <3>2
  <2>2. CASE ~has_parent
    BY <2>2, NothingLeft DEF SimLoadSegments, StillHasParent, AlignedInv
  <2> QED BY <2>1, <2>2
<1>4. \A k \in 1 .. Len(current_seg') : current_seg'[k].file_id = {}
  BY <1>1, <1>2, NextSegmentContents DEF SnapshotTypes
<1>5. ParentTrace' = ParentTrace /\ (Promised' => Promised)
  BY <1>2 DEF ParentTrace, Promised
<1>6. Promised =>
        AtHandIsRange(snapshot, ParentTrace, current_seg', parent_seg', current_input', parent_input')
  <2> SUFFICES ASSUME Promised
               PROVE  AtHandIsRange(snapshot, ParentTrace, current_seg', parent_seg', current_input', parent_input')
    OBVIOUS
  <2>1. PICK p \in Seq(Block) : p = ParentTrace
    BY <1>1
  <2>2. /\ IsAligned(snapshot) /\ IsAligned(p) /\ Between(snapshot, p, current_input, parent_input)
        /\ snapshot \in Seq(Block) /\ current_input \in Seq(Block) /\ parent_input \in Seq(Block)
    BY <1>1, <1>2, <2>1 DEF AlignedInv, Promised, SnapshotTypes
  <2>3. AtHandIsRange(snapshot, p, SegmentBlocks(current_input), SegmentBlocks(parent_input),
                      AfterSegment(current_input), AfterSegment(parent_input))
    BY <2>2, LoadKeepsStep
  <2> QED BY <1>2, <1>3, <2>1, <2>3
<1> QED BY <1>2, <1>3, <1>4, <1>5, <1>6 DEF AlignedInv, InSegment

\* A step within the segment does no more than retag it.
WithinSegment ==
  /\ InSegment /\ pc' \in {"search", "cds", "killed"}
  /\ pc' = "search" => has_parent /\ ~SegmentUnchanged
  /\ IsRetagged(current_seg', current_seg)
  /\ UNCHANGED <<inVars, has_parent, parent_seg>>

LEMMA SameSegment ==
  ASSUME SnapshotTypes, IsRetagged(current_seg', current_seg), parent_seg' = parent_seg
  PROVE  /\ current_seg' \in Seq(Block) /\ Len(current_seg') = Len(current_seg)
         /\ Untagged(current_seg') = Untagged(current_seg)
         /\ \A k \in 1 .. Len(current_seg) : current_seg'[k].cksum = current_seg[k].cksum
         /\ \A c : LevelTag(current_seg', parent_seg, c) = LevelTag(current_seg, parent_seg, c)
         /\ SegmentCksum(current_seg') = SegmentCksum(current_seg)
         /\ SegmentUnchanged' <=> SegmentUnchanged
<1>1. PICK s \in Seq(Block) : s = current_seg
  BY DEF SnapshotTypes
<1>2. PICK r : r = current_seg'
  OBVIOUS
<1>3. IsRetagged(r, s)
  BY <1>1, <1>2
<1>4. /\ r \in Seq(Block) /\ Len(r) = Len(s) /\ Untagged(r) = Untagged(s)
      /\ \A k \in 1 .. Len(s) : r[k].cksum = s[k].cksum
      /\ \A c : LevelTag(r, parent_seg, c) = LevelTag(s, parent_seg, c)
  BY <1>3, LevelTagOfRetagged
<1>5. SegmentCksum(r) = SegmentCksum(s)
  BY <1>4, SameUntagged
<1> QED BY <1>1, <1>2, <1>4, <1>5 DEF SegmentUnchanged

LEMMA AlignedWithin ==
  ASSUME AlignedInv, SizeInv', WithinSegment
  PROVE  AlignedInv'
<1>1. /\ Untagged(current_seg') = Untagged(current_seg) /\ (SegmentUnchanged' <=> SegmentUnchanged)
  BY SameSegment DEF AlignedInv, SizeInv, VectorTypes, WithinSegment
<1>2. UNCHANGED <<snapshot, parent, cds, current_input, parent_input, has_parent, parent_seg>>
  BY DEF WithinSegment, inVars, argVars
<1>3. ParentTrace' = ParentTrace /\ (Promised' => Promised)
  BY <1>2 DEF ParentTrace, Promised
<1>4. Promised =>
        AtHandIsRange(snapshot, ParentTrace, current_seg', parent_seg, current_input, parent_input)
  BY <1>1 DEF AlignedInv, AtHandIsRange, WithinSegment
<1>5. pc' # "tag" /\ pc' # "load" /\ (pc' = "search" => has_parent' /\ ~SegmentUnchanged')
  BY <1>1, <1>2 DEF WithinSegment
<1>6. ~has_parent' => parent_seg' = <<>> /\ parent_input' = <<>>
  BY <1>2 DEF AlignedInv
<1> QED BY <1>2, <1>3, <1>4, <1>5, <1>6 DEF AlignedInv

LEMMA AlignedWrite ==
  ASSUME AlignedInv, SizeInv', WriteSegment
  PROVE  AlignedInv'
<1>1. /\ pc = "cds" /\ pc' = "load"
      /\ UNCHANGED <<snapshot, cds, parent, has_parent, current_input, parent_input, parent_seg>>
  BY DEF WriteSegment, inVars, argVars
<1>2. ParentTrace' = ParentTrace /\ (Promised' => Promised)
  BY <1>1 DEF ParentTrace, Promised
<1>3. Promised => Between(snapshot, ParentTrace, current_input, parent_input)
  BY <1>1, WriteKeepsStep DEF AlignedInv, InSegment
<1> QED BY <1>1, <1>2, <1>3 DEF AlignedInv, InSegment

\* Where nothing is tagged and nothing loaded.
LEMMA AlignedRest ==
  ASSUME AlignedInv, SizeInv', pc' \notin {"load", "tag", "search", "cds"},
         UNCHANGED <<parent_input, has_parent, parent_seg>>
  PROVE  AlignedInv'
  BY DEF AlignedInv, InSegment

\* The steps within a segment.
SegmentStep ==
  TagParent \/ WithoutParent \/ SearchCds \/ AddItems \/ AddOverrun \/ SearchHit \/ SearchMiss \/ SearchDone

LEMMA SegmentStepIs ==
  ASSUME AlignedInv, SegmentStep
  PROVE  WithinSegment /\ output' = output
<1>1. SnapshotTypes /\ VectorTypes /\ IsRetagged(current_seg, current_seg)
  BY RetaggedSelf DEF AlignedInv, SizeInv, VectorTypes, SnapshotTypes
<1>2. CASE TagParent \/ WithoutParent \/ SearchCds
  <2>1. RetagStep
    BY <1>1, <1>2, TagsRetag
  <2>2. has_parent' = has_parent
    BY <1>2 DEF TagParent, WithoutParent, SearchCds, TagNext
  <2> QED BY <2>1, <2>2 DEF RetagStep, WithinSegment, InSegment
<1>3. CASE AddItems
  BY <1>1, <1>3, AddItemsAdds DEF WithinSegment, InSegment
<1>4. CASE AddOverrun
  BY <1>1, <1>4, AddOverrunAdds DEF WithinSegment, InSegment
<1>5. CASE SearchHit
  BY <1>1, <1>5, SearchHitRetags DEF WithinSegment, InSegment, AlignedInv
<1>6. CASE SearchMiss \/ SearchDone
  <2>1. /\ pc = "search" /\ pc' \in {"search", "cds"}
        /\ UNCHANGED <<inVars, has_parent, current_seg, parent_seg, output>>
    BY <1>6 DEF SearchMiss, SearchDone
  <2> QED BY <1>1, <2>1 DEF WithinSegment, InSegment, AlignedInv
<1> QED BY <1>2, <1>3, <1>4, <1>5, <1>6 DEF SegmentStep

\* The steps that neither read nor tag nor write.
EndStep ==
  \/ EndOfSnapshot("close") /\ UNCHANGED vectorVars
  \/ Close /\ UNCHANGED vectorVars
  \/ Kill /\ UNCHANGED vectorVars

LEMMA EndStepIs ==
  ASSUME EndStep, SnapshotTypes
  PROVE  /\ pc' \notin {"load", "tag", "search", "cds"}
         /\ UNCHANGED <<argVars, parent_input, has_parent, parent_seg, vectorVars>>
         /\ \E n \in 0 .. Len(output) : /\ output' = SubSeq(output, 1, n) /\ Len(output') = n
                                        /\ \A k \in 1 .. n : output'[k] = output[k] /\ k \in 1 .. Len(output)
<1>1. output \in Seq(Block)
  BY DEF SnapshotTypes
<1>2. ASSUME output' = output
      PROVE  \E n \in 0 .. Len(output) : output' = SubSeq(output, 1, n)
  <2>1. Len(output) \in 0 .. Len(output) /\ SubSeq(output, 1, Len(output)) = output
    BY <1>1, SubSeqFull, LenProperties
  <2> QED BY <1>2, <2>1
<1>3. /\ pc' \notin {"load", "tag", "search", "cds"}
      /\ UNCHANGED <<argVars, parent_input, has_parent, parent_seg, vectorVars>>
      /\ \E n \in 0 .. Len(output) : output' = SubSeq(output, 1, n)
  <2>1. CASE EndOfSnapshot("close") /\ UNCHANGED vectorVars
    BY <1>2, <2>1 DEF EndOfSnapshot
  <2>2. CASE Close /\ UNCHANGED vectorVars
    BY <1>2, <2>2 DEF Close, inVars
  <2>3. CASE Kill /\ UNCHANGED vectorVars
    BY <2>3 DEF Kill, inVars, Prefixes
  <2> QED BY <2>1, <2>2, <2>3 DEF EndStep
<1>4. PICK n \in 0 .. Len(output) : output' = SubSeq(output, 1, n)
  BY <1>3
<1>5. /\ Len(SubSeq(output, 1, n)) = n
      /\ \A k \in 1 .. n : SubSeq(output, 1, n)[k] = output[k] /\ k \in 1 .. Len(output)
  BY <1>1
<1> QED BY <1>3, <1>4, <1>5

\* Every step is one of these kinds.
LEMMA StepKinds ==
  ASSUME [SimNext]_simVars
  PROVE  \/ SimOpen \/ SimLoadSegments
         \/ SegmentStep /\ capacity' = capacity
         \/ WriteSegment /\ UNCHANGED vectorVars
         \/ EndStep
         \/ UNCHANGED simVars
<1>1. SimNext \/ UNCHANGED simVars
  OBVIOUS
<1>2. AddItems \/ AddOverrun \/ SearchHit \/ SearchMiss \/ SearchDone => capacity' = capacity
  BY DEF AddItems, AddOverrun, SearchHit, SearchMiss, SearchDone, vectorVars
<1>3. UNCHANGED vectorVars => capacity' = capacity
  BY DEF vectorVars
<1> QED BY <1>1, <1>2, <1>3 DEF SimNext, SegmentStep, EndStep

LEMMA AlignedStep ==
  ASSUME AlignedInv, [SimNext]_simVars
  PROVE  AlignedInv'
<1>1. SizeInv' /\ SnapshotTypes
  BY SizeStep DEF AlignedInv, SizeInv, VectorTypes
<1>2. CASE SegmentStep
  BY <1>1, <1>2, SegmentStepIs, AlignedWithin
<1>3. CASE EndStep
  BY <1>1, <1>3, EndStepIs, AlignedRest
<1>4. CASE UNCHANGED simVars
  <2>1. UNCHANGED <<snapshot, parent, cds, current_input, parent_input, pc, has_parent, current_seg,
                    parent_seg, i, output>>
    BY <1>4 DEF simVars, snapshotVars, inVars, argVars
  <2>2. ParentTrace' = ParentTrace /\ (Promised' <=> Promised) /\ (InSegment' <=> InSegment)
        /\ (SegmentUnchanged' <=> SegmentUnchanged)
    BY <2>1 DEF ParentTrace, Promised, InSegment, SegmentUnchanged
  <2> QED BY <1>1, <2>1, <2>2 DEF AlignedInv
<1> QED BY <1>1, <1>2, <1>3, <1>4, StepKinds, AlignedOpen, AlignedLoad, AlignedWrite

LEMMA AlignedInit == SimInit => AlignedInv
  BY SizeInit DEF SimInit, Init, AlignedInv, InSegment

-----------------------------------------------------------------------------
(* The cache finds all that is found without it *)

AtLeastRight(blocks, s, p, common) ==
  \A k \in 1 .. Len(blocks) : TagOf(s, p, common, blocks[k]) \subseteq blocks[k].file_id

\* The first n - 1 blocks have what level 1 and 2 would give them.
HasLevels(seg, pseg, n) ==
  \A k \in 1 .. Len(seg) : k < n => LevelTag(seg, pseg, seg[k].cksum) \subseteq seg[k].file_id

\* All blocks have that, and the first n - 1 what level 3 would give them.
HasTags(seg, pseg, common, n) ==
  \A k \in 1 .. Len(seg) :
    LevelTag(seg, pseg, seg[k].cksum) \union (IF k < n THEN CdsTag(common, seg[k].cksum) ELSE {})
      \subseteq seg[k].file_id

MoreOfSegment ==
  /\ pc = "search" => Contents(parent_seg) \subseteq Cached /\ HasLevels(current_seg, parent_seg, i)
  /\ pc = "cds" => HasTags(current_seg, parent_seg, cds, i)

MoreInv ==
  /\ AlignedInv
  /\ SegmentsFit /\ Promised =>
       /\ AtLeastRight(output, snapshot, ParentTrace, cds)
       /\ MoreOfSegment

LEMMA LevelTagOfNothing ==
  ASSUME NEW s \in Seq(Block), NEW k \in 1 .. Len(s), NEW c
  PROVE  LevelTag(s, <<>>, c) = {}
<1>1. Contents(<<>>) = {} /\ DOMAIN SegmentCksum(<<>>) = {}
  BY EmptySeq DEF Contents, SegmentCksum
<1>2. k \in DOMAIN SegmentCksum(s)
  BY LenProperties DEF SegmentCksum
<1>3. SegmentCksum(s) # SegmentCksum(<<>>)
  BY <1>1, <1>2
<1> QED BY <1>1, <1>3 DEF LevelTag

\* Level 1, and a segment without a parent's.
LEMMA MoreOfParent ==
  ASSUME AlignedInv, TagParent \/ WithoutParent
  PROVE  HasTags(current_seg', parent_seg, cds, 1)
<1>1. /\ current_seg \in Seq(Block) /\ DOMAIN current_seg = 1 .. Len(current_seg) /\ SnapshotTypes
      /\ \A k \in 1 .. Len(current_seg) : current_seg[k] \in Block /\ current_seg[k].file_id = {}
      /\ ~has_parent => parent_seg = <<>>
  BY DEF AlignedInv, SizeInv, VectorTypes, SnapshotTypes, TagParent, WithoutParent
<1>2. IsRetagged(current_seg', current_seg) /\ parent_seg' = parent_seg
  BY SegmentStepIs DEF SegmentStep, WithinSegment
<1>3. /\ Len(current_seg') = Len(current_seg)
      /\ \A k \in 1 .. Len(current_seg) : current_seg'[k].cksum = current_seg[k].cksum
      /\ \A c : LevelTag(current_seg', parent_seg, c) = LevelTag(current_seg, parent_seg, c)
  BY <1>1, <1>2, SameSegment
<1> SUFFICES ASSUME NEW k \in 1 .. Len(current_seg)
             PROVE  LevelTag(current_seg, parent_seg, current_seg[k].cksum) \subseteq current_seg'[k].file_id
  BY <1>3 DEF HasTags
<1>4. PICK b \in Block : b = current_seg[k] /\ b.file_id = {}
  BY <1>1
<1>5. CASE TagParent
  <2>1. current_seg'[k] = Tagged(b, IN_PARENT)
    BY <1>1, <1>4, <1>5 DEF TagParent
  <2>2. LevelTag(current_seg, parent_seg, b.cksum) = IN_PARENT
    BY <1>5 DEF TagParent, SegmentUnchanged, LevelTag
  <2>3. Tagged(b, IN_PARENT).file_id = {} \union IN_PARENT
    BY <1>4, TaggedTag
  <2> QED BY <1>4, <2>1, <2>2, <2>3
<1>6. CASE WithoutParent
  BY <1>1, <1>6, LevelTagOfNothing DEF WithoutParent
<1> QED BY <1>5, <1>6

\* Level 2.
LEMMA MoreOfSearch ==
  ASSUME AlignedInv, pc = "search", Contents(parent_seg) \subseteq Cached,
         HasLevels(current_seg, parent_seg, i), SearchHit \/ SearchMiss
  PROVE  HasLevels(current_seg', parent_seg, i')
<1>1. current_seg \in Seq(Block) /\ VectorTypes /\ SnapshotTypes /\ i \in Nat
  BY DEF AlignedInv, SizeInv, VectorTypes, SnapshotTypes
<1>2. IsRetagged(current_seg', current_seg) /\ parent_seg' = parent_seg
  BY SegmentStepIs DEF SegmentStep, WithinSegment
<1>3. /\ Len(current_seg') = Len(current_seg)
      /\ \A k \in 1 .. Len(current_seg) : current_seg'[k].cksum = current_seg[k].cksum
      /\ \A c : LevelTag(current_seg', parent_seg, c) = LevelTag(current_seg, parent_seg, c)
  BY <1>1, <1>2, SameSegment
<1>4. \A c : LevelTag(current_seg, parent_seg, c) = IF c \in Contents(parent_seg) THEN IN_DIRTY_SEG ELSE {}
  BY DEF AlignedInv, SegmentUnchanged, LevelTag
<1>5. i' = i + 1
  BY DEF SearchHit, SearchMiss
<1> SUFFICES ASSUME NEW k \in 1 .. Len(current_seg), k < i + 1
             PROVE  LevelTag(current_seg, parent_seg, current_seg[k].cksum) \subseteq current_seg'[k].file_id
  BY <1>3, <1>5 DEF HasLevels
<1>6. PICK b \in Block : b = current_seg[k]
  BY <1>1
<1>7. k # i => LevelTag(current_seg, parent_seg, b.cksum) \subseteq b.file_id
  <2>1. k # i => k < i
    BY <1>1
  <2> QED BY <1>6, <2>1 DEF HasLevels
<1>8. CASE SearchHit
  <2>1. current_seg'[k] = IF k = i THEN Tagged(b, IN_DIRTY_SEG) ELSE b
    BY <1>1, <1>6, <1>8, SearchHitRetags
  <2>2. Tagged(b, IN_DIRTY_SEG).file_id = b.file_id \union IN_DIRTY_SEG
    BY TaggedTag
  <2>3. CASE k = i
    BY <1>4, <1>6, <2>1, <2>2, <2>3
  <2>4. CASE k # i
    BY <1>6, <1>7, <2>1, <2>4
  <2> QED BY <2>3, <2>4
<1>9. CASE SearchMiss
  <2>1. current_seg' = current_seg
    BY <1>9 DEF SearchMiss
  <2>2. CASE k = i
    <3>1. b.cksum \notin Contents(parent_seg)
      BY <1>6, <1>9, <2>2 DEF SearchMiss
    <3> QED BY <1>4, <1>6, <2>1, <3>1
  <2>3. CASE k # i
    BY <1>6, <1>7, <2>1, <2>3
  <2> QED BY <2>2, <2>3
<1> QED BY <1>8, <1>9

\* Level 3.
LEMMA MoreOfCds ==
  ASSUME AlignedInv, Promised, HasTags(current_seg, parent_seg, cds, i), SearchCds
  PROVE  HasTags(current_seg', parent_seg, cds, i + 1)
<1>1. /\ current_seg \in Seq(Block) /\ cds \in Seq(Block) /\ pc = "cds" /\ i \in 1 .. Len(current_seg)
      /\ Sorted(cds) /\ SnapshotTypes
  BY LenProperties DEF AlignedInv, SizeInv, VectorTypes, SnapshotTypes, SearchCds, TagNext, Promised
<1>2. PICK b \in Block : b = current_seg[i]
  BY <1>1
<1>3. PICK bits \in SUBSET Nat : bits = (IF InCds(b) THEN IN_CDS ELSE {}) /\ TagNext(bits)
  BY <1>1, <1>2, TagsAreSets DEF SearchCds, TagNext
<1>4. bits = CdsTag(cds, b.cksum)
  <2>1. b.cksum \in Int
    BY <1>2 DEF Block
  <2>2. InCds(b) <=> b.cksum \in Contents(cds)
    BY <1>1, <2>1, BinarySearchIsSound, BinarySearchIsComplete DEF InCds
  <2> QED BY <1>3, <2>2 DEF CdsTag
<1>5. IsRetagged(current_seg', current_seg) /\ parent_seg' = parent_seg
  BY SegmentStepIs DEF SegmentStep, WithinSegment
<1>6. /\ Len(current_seg') = Len(current_seg)
      /\ \A k \in 1 .. Len(current_seg) : current_seg'[k].cksum = current_seg[k].cksum
      /\ \A c : LevelTag(current_seg', parent_seg, c) = LevelTag(current_seg, parent_seg, c)
  BY <1>1, <1>5, SameSegment
<1>7. \A k \in 1 .. Len(current_seg) :
        current_seg'[k] = IF k = i THEN Tagged(b, bits) ELSE current_seg[k]
  <2>1. current_seg \in [1 .. Len(current_seg) -> Block]
    BY <1>1, LenProperties
  <2>2. current_seg' = [current_seg EXCEPT ![i] = Tagged(current_seg[i], bits)]
    BY <1>3 DEF TagNext
  <2> QED BY <1>2, <2>1, <2>2
<1> SUFFICES ASSUME NEW k \in 1 .. Len(current_seg)
             PROVE  LevelTag(current_seg, parent_seg, current_seg[k].cksum)
                      \union (IF k < i + 1 THEN CdsTag(cds, current_seg[k].cksum) ELSE {})
                        \subseteq current_seg'[k].file_id
  BY <1>6 DEF HasTags
<1>8. LevelTag(current_seg, parent_seg, current_seg[k].cksum)
        \union (IF k < i THEN CdsTag(cds, current_seg[k].cksum) ELSE {})
          \subseteq current_seg[k].file_id
  BY DEF HasTags
<1>9. CASE k = i
  <2>1. current_seg'[k].file_id = b.file_id \union bits
    BY <1>7, <1>9, TaggedTag
  <2>2. LevelTag(current_seg, parent_seg, b.cksum) \subseteq b.file_id
    BY <1>2, <1>8, <1>9
  <2> QED BY <1>2, <1>4, <1>9, <2>1, <2>2
<1>10. CASE k # i
  <2>1. k < i + 1 <=> k < i
    BY <1>1, <1>10
  <2> QED BY <1>7, <1>8, <1>10, <2>1
<1> QED BY <1>9, <1>10

LEMMA MoreOfStep ==
  ASSUME AlignedInv, SegmentsFit, Promised, MoreOfSegment, SegmentStep
  PROVE  MoreOfSegment'
<1>1. VectorTypes /\ SnapshotTypes /\ current_seg \in Seq(Block) /\ i \in Nat
  BY DEF AlignedInv, SizeInv, VectorTypes, SnapshotTypes
<1>2. parent_seg' = parent_seg /\ cds' = cds
  BY SegmentStepIs DEF WithinSegment, inVars, argVars
<1>3. CASE TagParent \/ WithoutParent
  <2>1. pc' = "cds" /\ i' = 1
    BY <1>3 DEF AlignedInv, TagParent, WithoutParent
  <2>2. HasTags(current_seg', parent_seg, cds, 1)
    BY <1>3, MoreOfParent
  <2> QED BY <1>2, <2>1, <2>2 DEF MoreOfSegment
<1>4. CASE SearchCds
  <2>1. pc = "cds" /\ pc' = "cds" /\ i' = i + 1
    BY <1>4 DEF SearchCds, TagNext
  <2>2. HasTags(current_seg', parent_seg, cds, i + 1)
    BY <1>4, <2>1, MoreOfCds DEF MoreOfSegment
  <2> QED BY <1>2, <2>1, <2>2 DEF MoreOfSegment
<1>5. CASE AddItems
  <2>1. /\ Contents(parent_seg) \subseteq Cached' /\ pc' = "search" /\ i' = i /\ current_seg' = current_seg
        /\ pc = "tag"
    BY <1>1, <1>5, AddItemsAdds
  <2>2. i = 1 /\ \A k \in 1 .. Len(current_seg) : ~(k < 1)
    BY <2>1 DEF AlignedInv
  <2>3. HasLevels(current_seg, parent_seg, 1)
    BY <2>2 DEF HasLevels
  <2> QED BY <1>2, <2>1, <2>2, <2>3 DEF MoreOfSegment
<1>6. CASE AddOverrun
  <2>1. Size >= capacity /\ Len(parent_seg) > Size /\ Size \in Nat /\ capacity \in Nat
    BY <1>1, <1>6, AddOverrunAdds, ToDiscardIs DEF VectorTypes
  <2>2. Len(parent_seg) <= capacity /\ Len(parent_seg) \in Nat
    BY <1>1, LenProperties DEF AlignedInv, SizeInv, SnapshotTypes
  <2> QED BY <2>1, <2>2
<1>7. CASE SearchHit \/ SearchMiss
  <2>1. pc = "search" /\ pc' = "search"
    BY <1>7 DEF SearchHit, SearchMiss
  <2>2. Cached' = Cached
    <3>1. CASE SearchHit
      BY <1>1, <3>1, SearchHitRenews
    <3>2. CASE SearchMiss
      BY <3>2 DEF SearchMiss, vectorVars, Cached
    <3> QED BY <1>7, <3>1, <3>2
  <2>3. HasLevels(current_seg', parent_seg, i')
    BY <1>7, <2>1, MoreOfSearch DEF MoreOfSegment
  <2> QED BY <1>2, <2>1, <2>2, <2>3 DEF MoreOfSegment
<1>8. CASE SearchDone
  <2>1. pc = "search" /\ pc' = "cds" /\ i' = 1 /\ i > Len(current_seg) /\ current_seg' = current_seg
    BY <1>8 DEF SearchDone
  <2>2. \A k \in 1 .. Len(current_seg) : k < i /\ ~(k < 1)
    BY <1>1, <2>1, LenProperties
  <2>3. HasTags(current_seg, parent_seg, cds, 1)
    BY <2>1, <2>2 DEF MoreOfSegment, HasLevels, HasTags
  <2> QED BY <1>2, <2>1, <2>3 DEF MoreOfSegment
<1> QED BY <1>3, <1>4, <1>5, <1>6, <1>7, <1>8 DEF SegmentStep

\* Of a segment at hand, what is said of the ranges is said of the segments.
TagsAtHand(s, p, seg, pseg, common) ==
  \A k \in 1 .. Len(seg) :
    TagOf(s, p, common, seg[k]) = LevelTag(seg, pseg, seg[k].cksum) \union CdsTag(common, seg[k].cksum)

SameAtHand(s, p, seg, pseg) ==
  SegmentCksum(seg) = SegmentCksum(pseg) =>
    \A k \in 1 .. Len(seg) :
      SegmentCksum(InRange(s, RangeOf(seg[k]))) = SegmentCksum(InRange(p, RangeOf(seg[k])))

LEMMA SegmentAtHand ==
  ASSUME NEW s \in Seq(Block), NEW p \in Seq(Block), NEW seg \in Seq(Block), NEW pseg \in Seq(Block),
         NEW rest, NEW prest, AtHandIsRange(s, p, seg, pseg, rest, prest), NEW common
  PROVE  TagsAtHand(s, p, seg, pseg, common) /\ SameAtHand(s, p, seg, pseg)
<1> SUFFICES ASSUME NEW k \in 1 .. Len(seg)
             PROVE  /\ TagOf(s, p, common, seg[k])
                          = LevelTag(seg, pseg, seg[k].cksum) \union CdsTag(common, seg[k].cksum)
                    /\ SegmentCksum(seg) = SegmentCksum(pseg) =>
                         SegmentCksum(InRange(s, RangeOf(seg[k]))) = SegmentCksum(InRange(p, RangeOf(seg[k])))
  BY DEF TagsAtHand, SameAtHand
<1>1. PICK r \in Nat : /\ Untagged(seg) = Untagged(InRange(s, r))
                       /\ Untagged(pseg) = Untagged(InRange(p, r))
  BY DEF AtHandIsRange
<1>2. PICK here \in Seq(Block), there \in Seq(Block) : here = InRange(s, r) /\ there = InRange(p, r)
  BY InRangeOfAppend
<1>3. /\ Len(seg) = Len(here) /\ SegmentCksum(seg) = SegmentCksum(here)
      /\ \A j \in 1 .. Len(seg) : seg[j].offset = here[j].offset
  BY <1>1, <1>2, SameUntagged
<1>4. SegmentCksum(pseg) = SegmentCksum(there) /\ Contents(pseg) = Contents(there)
  BY <1>1, <1>2, SameUntagged
<1>5. AllIn(here, r)
  BY <1>2, InRangeIsInRange
<1>6. RangeOf(seg[k]) = r
  BY <1>3, <1>5 DEF AllIn, RangeOf
<1>7. \A c : LevelTag(seg, pseg, c) = LevelTag(here, there, c)
  BY <1>3, <1>4 DEF LevelTag
<1>8. TagOf(s, p, common, seg[k]) = LevelTag(here, there, seg[k].cksum) \union CdsTag(common, seg[k].cksum)
  BY <1>2, <1>6 DEF TagOf
<1> QED BY <1>2, <1>3, <1>4, <1>6, <1>7, <1>8

LEMMA ConcatElements ==
  ASSUME NEW a \in Seq(Block), NEW b \in Seq(Block)
  PROVE  \A k \in 1 .. Len(a \o b) : \/ k \in 1 .. Len(a) /\ (a \o b)[k] = a[k]
                                     \/ k - Len(a) \in 1 .. Len(b) /\ (a \o b)[k] = b[k - Len(a)]
<1>1. /\ Len(a \o b) = Len(a) + Len(b)
      /\ \A k \in 1 .. Len(a) + Len(b) : (a \o b)[k] = IF k <= Len(a) THEN a[k] ELSE b[k - Len(a)]
  BY ConcatProperties
<1> QED BY <1>1, LenProperties

LEMMA WrittenAtLeastRight ==
  ASSUME NEW s \in Seq(Block), NEW p \in Seq(Block), NEW seg \in Seq(Block), NEW pseg \in Seq(Block),
         NEW rest, NEW prest, AtHandIsRange(s, p, seg, pseg, rest, prest),
         NEW common, NEW n \in Nat, n > Len(seg), HasTags(seg, pseg, common, n)
  PROVE  AtLeastRight(seg, s, p, common)
<1> SUFFICES ASSUME NEW k \in 1 .. Len(seg) PROVE TagOf(s, p, common, seg[k]) \subseteq seg[k].file_id
  BY DEF AtLeastRight
<1>1. TagsAtHand(s, p, seg, pseg, common)
  BY SegmentAtHand
<1>2. k < n
  BY LenProperties
<1> QED BY <1>1, <1>2 DEF TagsAtHand, HasTags

LEMMA AtLeastRightOfConcat ==
  ASSUME NEW a \in Seq(Block), NEW b \in Seq(Block), NEW s, NEW p, NEW common,
         AtLeastRight(a, s, p, common), AtLeastRight(b, s, p, common)
  PROVE  AtLeastRight(a \o b, s, p, common)
<1>1. \A k \in 1 .. Len(a \o b) : \/ k \in 1 .. Len(a) /\ (a \o b)[k] = a[k]
                                  \/ k - Len(a) \in 1 .. Len(b) /\ (a \o b)[k] = b[k - Len(a)]
  BY ConcatElements
<1> QED BY <1>1 DEF AtLeastRight

LEMMA MoreWrite ==
  ASSUME MoreInv, SegmentsFit, Promised, WriteSegment
  PROVE  AtLeastRight(output', snapshot, ParentTrace, cds)
<1>1. SnapshotTypes /\ ParentTrace \in Seq(Block)
  BY ParentTraceType DEF MoreInv, AlignedInv, SizeInv, VectorTypes
<1>2. pc = "cds" /\ i > Len(current_seg) /\ output' = output \o current_seg
  BY DEF WriteSegment
<1>3. PICK p \in Seq(Block) : p = ParentTrace
  BY <1>1
<1>4. /\ AtHandIsRange(snapshot, p, current_seg, parent_seg, current_input, parent_input)
      /\ HasTags(current_seg, parent_seg, cds, i) /\ AtLeastRight(output, snapshot, p, cds)
  BY <1>2, <1>3 DEF MoreInv, MoreOfSegment, AlignedInv, InSegment
<1>5. /\ snapshot \in Seq(Block) /\ current_seg \in Seq(Block) /\ parent_seg \in Seq(Block)
      /\ output \in Seq(Block) /\ i \in Nat
  BY <1>1 DEF SnapshotTypes
<1>6. AtLeastRight(current_seg, snapshot, p, cds)
  BY <1>2, <1>4, <1>5, WrittenAtLeastRight
<1>7. AtLeastRight(output \o current_seg, snapshot, p, cds)
  BY <1>4, <1>5, <1>6, AtLeastRightOfConcat
<1> QED BY <1>2, <1>3, <1>7

LEMMA SameArguments ==
  ASSUME UNCHANGED <<argVars, capacity>>
  PROVE  /\ snapshot' = snapshot /\ cds' = cds /\ ParentTrace' = ParentTrace
         /\ Promised' <=> Promised
         /\ SegmentsFit' <=> SegmentsFit
  BY DEF argVars, ParentTrace, Promised, SegmentsFit

LEMMA MoreStep ==
  ASSUME MoreInv, [SimNext]_simVars
  PROVE  MoreInv'
<1>1. AlignedInv /\ AlignedInv' /\ VectorTypes /\ SnapshotTypes
  BY AlignedStep DEF MoreInv, AlignedInv, SizeInv, VectorTypes
<1>2. CASE SimOpen
  <2>1. output' = <<>> /\ pc' = "load"
    BY <1>2 DEF SimOpen, Open
  <2>2. \A s, p, c : AtLeastRight(<<>>, s, p, c)
    BY EmptySeq DEF AtLeastRight
  <2> QED BY <1>1, <2>1, <2>2 DEF MoreInv, MoreOfSegment
<1>3. CASE SimLoadSegments
  <2>1. pc' = "tag" /\ output' = output /\ UNCHANGED <<argVars, capacity>>
    BY <1>3 DEF SimLoadSegments, vectorVars
  <2> QED BY <1>1, <2>1, SameArguments DEF MoreInv, MoreOfSegment
<1>4. CASE SegmentStep /\ capacity' = capacity
  <2>1. output' = output /\ UNCHANGED argVars
    BY <1>1, <1>4, SegmentStepIs DEF WithinSegment, inVars
  <2>2. SegmentsFit /\ Promised => MoreOfSegment'
    BY <1>1, <1>4, MoreOfStep DEF MoreInv
  <2> QED BY <1>1, <1>4, <2>1, <2>2, SameArguments DEF MoreInv
<1>5. CASE WriteSegment /\ UNCHANGED vectorVars
  <2>1. pc' = "load" /\ UNCHANGED <<argVars, capacity>>
    BY <1>5 DEF WriteSegment, inVars, vectorVars
  <2>2. SegmentsFit /\ Promised => AtLeastRight(output', snapshot, ParentTrace, cds)
    BY <1>5, MoreWrite
  <2> QED BY <1>1, <2>1, <2>2, SameArguments DEF MoreInv, MoreOfSegment
<1>6. CASE EndStep
  <2>1. pc' \notin {"search", "cds"} /\ UNCHANGED <<argVars, capacity>>
    BY <1>1, <1>6, EndStepIs DEF vectorVars
  <2>2. PICK n \in 0 .. Len(output) :
          Len(output') = n /\ \A k \in 1 .. n : output'[k] = output[k] /\ k \in 1 .. Len(output)
    BY <1>1, <1>6, EndStepIs
  <2>3. \A s, p, c : AtLeastRight(output, s, p, c) => AtLeastRight(output', s, p, c)
    BY <2>2 DEF AtLeastRight
  <2> QED BY <1>1, <2>1, <2>3, SameArguments DEF MoreInv, MoreOfSegment
<1>7. CASE UNCHANGED simVars
  <2>1. UNCHANGED <<argVars, capacity, pc, current_seg, parent_seg, i, output, cache>>
    BY <1>7 DEF simVars, snapshotVars, inVars, vectorVars
  <2>2. Cached' = Cached /\ cds' = cds
    BY <2>1 DEF Cached, argVars
  <2>3. MoreOfSegment' <=> MoreOfSegment
    BY <2>1, <2>2 DEF MoreOfSegment
  <2> QED BY <1>1, <2>1, <2>3, SameArguments DEF MoreInv
<1> QED BY <1>2, <1>3, <1>4, <1>5, <1>6, <1>7, StepKinds

LEMMA MoreInit == SimInit => MoreInv
<1>1. \A s, p, c : AtLeastRight(<<>>, s, p, c)
  BY EmptySeq DEF AtLeastRight
<1> QED BY <1>1, AlignedInit DEF SimInit, Init, MoreInv, MoreOfSegment

LEMMA RightTagIs ==
  ASSUME NEW b
  PROVE  RightTag(b) = TagOf(snapshot, ParentTrace, cds, b)
  BY DEF RightTag, TagOf, LevelTag, CdsTag

\* For all snapshots, parents, CDS files, capacities and clocks: if no segment
\* of the parent has more blocks than the vector may hold, the traces are
\* scanned with fixed boundaries of the segment size and the CDS is sorted,
\* then whatever RemoveItems discards, dedup_sim_lru.cpp gives every block at
\* least the tags that what the parent has in its 2MB, and the CDS, call for.
THEOREM CacheFindsMore == SimSpec => []LruFindsMore
<1>1. SimInit => MoreInv
  BY MoreInit
<1>2. MoreInv /\ [SimNext]_simVars => MoreInv'
  BY MoreStep
<1>3. MoreInv => LruFindsMore
  <2> SUFFICES ASSUME MoreInv, SegmentsFit, Promised, NEW k \in DOMAIN output
               PROVE  RightTag(output[k]) \subseteq output[k].file_id
    BY DEF LruFindsMore, Promised
  <2>1. k \in 1 .. Len(output)
    BY DEF MoreInv, AlignedInv, SizeInv, VectorTypes, SnapshotTypes
  <2>2. PICK b : b = output[k]
    OBVIOUS
  <2>3. TagOf(snapshot, ParentTrace, cds, b) \subseteq b.file_id
    BY <2>1, <2>2 DEF MoreInv, AtLeastRight
  <2> QED BY <2>2, <2>3, RightTagIs
<1> QED BY <1>1, <1>2, <1>3, PTL DEF SimSpec

-----------------------------------------------------------------------------
(* The cache finds nothing that was not read *)

LEMMA SearchedIs ==
  ASSUME NEW t \in Seq(Block), t = ParentTrace, NEW k \in 0 .. Len(t), parent_input = RestFrom(t, k)
  PROVE  SearchedBefore = Contents(SubSeq(t, 1, k))
<1>1. Len(parent_input) = Len(t) - k
  BY RestIs
<1>2. Len(t) - Len(parent_input) = k
  BY <1>1, LenProperties
<1> QED BY <1>2 DEF SearchedBefore

\* The first k blocks of a trace and the segment after them are among the
\* blocks up to where that segment ends.
LEMMA ReadMore ==
  ASSUME NEW t \in Seq(Block), NEW k \in 0 .. Len(t), NEW rem \in Seq(Block), rem = RestFrom(t, k),
         NEW to, to = k + SegmentLen(rem)
  PROVE  /\ Contents(SubSeq(t, 1, k)) \subseteq Contents(SubSeq(t, 1, to))
         /\ Contents(SegmentBlocks(rem)) \subseteq Contents(SubSeq(t, 1, to))
<1>1. PICK n \in Nat : n = SegmentLen(rem) /\ n \in 0 .. Len(rem)
  BY SegmentLenRange, LenProperties
<1>2. Len(rem) = Len(t) - k /\ \A j \in 1 .. Len(t) - k : rem[j] = t[k + j]
  BY RestIs
<1>3. to \in 0 .. Len(t) /\ to = k + n
  BY <1>1, <1>2, LenProperties
<1>4. PICK read \in Seq(Block) : /\ read = SubSeq(t, 1, to) /\ Len(read) = to
                                 /\ \A j \in 1 .. to : read[j] = t[j]
  <2>1. /\ SubSeq(t, 1, to) \in Seq(Block) /\ Len(SubSeq(t, 1, to)) = to
        /\ \A j \in 1 .. to : SubSeq(t, 1, to)[j] = t[j]
    BY <1>3
  <2> QED BY <2>1
<1>5. PICK was \in Seq(Block) : /\ was = SubSeq(t, 1, k) /\ Len(was) = k
                                /\ \A j \in 1 .. k : was[j] = t[j]
  <2>1. /\ SubSeq(t, 1, k) \in Seq(Block) /\ Len(SubSeq(t, 1, k)) = k
        /\ \A j \in 1 .. k : SubSeq(t, 1, k)[j] = t[j]
    OBVIOUS
  <2> QED BY <2>1
<1>6. PICK seg \in Seq(Block) : /\ seg = SubSeq(rem, 1, n) /\ Len(seg) = n
                                /\ \A j \in 1 .. n : seg[j] = rem[j]
  <2>1. /\ SubSeq(rem, 1, n) \in Seq(Block) /\ Len(SubSeq(rem, 1, n)) = n
        /\ \A j \in 1 .. n : SubSeq(rem, 1, n)[j] = rem[j]
    BY <1>1
  <2> QED BY <2>1
<1>7. DOMAIN read = 1 .. to /\ DOMAIN was = 1 .. k /\ DOMAIN seg = 1 .. n
  BY <1>4, <1>5, <1>6, LenProperties
<1>8. \A j \in 1 .. k : j \in 1 .. to /\ was[j] = read[j]
  BY <1>1, <1>3, <1>4, <1>5
<1>9. \A j \in 1 .. n : k + j \in 1 .. to /\ seg[j] = read[k + j]
  <2>1. \A j \in 1 .. n : j \in 1 .. Len(t) - k /\ k + j \in 1 .. to
    BY <1>1, <1>2, <1>3, LenProperties
  <2> QED BY <1>2, <1>4, <1>6, <2>1
<1>10. Contents(was) \subseteq Contents(read)
  BY <1>7, <1>8 DEF Contents
<1>11. Contents(seg) \subseteq Contents(read)
  BY <1>7, <1>9 DEF Contents
<1>12. Contents(SegmentBlocks(rem)) \subseteq Contents(seg)
  <2>1. NonEmpty(seg) \in Seq(Block) /\ Contents(NonEmpty(seg)) \subseteq Contents(seg)
    BY NonEmptyOfAppend, ContentsOfNonEmpty
  <2>2. SegmentBlocks(rem) = Untagged(NonEmpty(seg))
    BY <1>1, <1>6 DEF SegmentBlocks
  <2> QED BY <2>1, <2>2, ContentsOfUntagged
<1> QED BY <1>4, <1>5, <1>10, <1>11, <1>12

\* IN_PARENT and not the rest of IN_DIRTY_SEG: what only level 1 writes.
SaysParent(blk) == blk.file_id \intersect IN_DIRTY_SEG = IN_PARENT

OnlyUnchanged(blocks, s, p) ==
  \A k \in 1 .. Len(blocks) :
    SaysParent(blocks[k]) =>
      SegmentCksum(InRange(s, RangeOf(blocks[k]))) = SegmentCksum(InRange(p, RangeOf(blocks[k])))

OnlyOfSegment == \A k \in 1 .. Len(current_seg) : SaysParent(current_seg[k]) => SegmentUnchanged

OnlyInv ==
  /\ AlignedInv
  /\ Cached \union Contents(parent_seg) \subseteq SearchedBefore
  /\ AllTrue(output, SearchedBefore, Contents(cds))
  /\ AllTrue(current_seg, SearchedBefore, Contents(cds))
  /\ InSegment => OnlyOfSegment
  /\ Promised => OnlyUnchanged(output, snapshot, ParentTrace)

LEMMA SaysOfTagged ==
  ASSUME NEW b \in Block, NEW bits
  PROVE  /\ SaysParent(Tagged(b, bits)) => ~(IN_DIRTY_SEG \subseteq bits)
         /\ bits \intersect IN_DIRTY_SEG = {} /\ SaysParent(Tagged(b, bits)) => SaysParent(b)
<1>1. PICK r : r = Tagged(b, bits) /\ r.file_id = b.file_id \union bits
  BY TaggedTag
<1>2. ~(IN_DIRTY_SEG \subseteq IN_PARENT)
  BY DEF IN_DIRTY_SEG, IN_PARENT
<1> QED BY <1>1, <1>2 DEF SaysParent

LEMMA SaysNothing ==
  ASSUME NEW b, b.file_id = {}
  PROVE  ~SaysParent(b)
  BY DEF SaysParent, IN_PARENT

LEMMA TrueOfMore ==
  ASSUME NEW blocks, NEW known, NEW more, NEW common, known \subseteq more, AllTrue(blocks, known, common)
  PROVE  AllTrue(blocks, more, common)
  BY DEF AllTrue, TrueOf

\* One block gets bits that are true of it.
LEMMA OneTagged ==
  ASSUME NEW s \in Seq(Block), NEW n \in 1 .. Len(s), NEW bits \in SUBSET Nat, NEW r, Len(r) = Len(s),
         \A k \in 1 .. Len(s) : r[k] = IF k = n THEN Tagged(s[n], bits) ELSE s[k],
         NEW known, NEW common, AllTrue(s, known, common),
         0 \in bits => s[n].cksum \in known, 1 \in bits => s[n].cksum \in common
  PROVE  AllTrue(r, known, common)
<1>1. TrueOf(s[n], known, common) /\ s[n] \in Block
  BY DEF AllTrue
<1>2. PICK b \in Block : b = s[n] /\ TrueOf(b, known, common)
  BY <1>1
<1>3. TrueOf(Tagged(b, bits), known, common)
  BY <1>2, TrueOfTagged
<1> QED BY <1>2, <1>3 DEF AllTrue

LEMMA OnlyParent ==
  ASSUME OnlyInv, TagParent
  PROVE  AllTrue(current_seg', SearchedBefore, Contents(cds)) /\ OnlyOfSegment'
<1>1. /\ current_seg \in Seq(Block) /\ parent_seg \in Seq(Block) /\ SnapshotTypes /\ SegmentUnchanged
      /\ \A k \in 1 .. Len(current_seg) : current_seg[k] \in Block
  BY DEF OnlyInv, AlignedInv, SizeInv, VectorTypes, SnapshotTypes, TagParent
<1>2. IsRetagged(current_seg', current_seg) /\ parent_seg' = parent_seg
  BY SegmentStepIs DEF SegmentStep, WithinSegment, OnlyInv
<1>3. SegmentUnchanged' /\ Len(current_seg') = Len(current_seg)
  BY <1>1, <1>2, SameSegment
<1>4. \A k \in 1 .. Len(current_seg) : current_seg'[k] = Tagged(current_seg[k], IN_PARENT)
  BY <1>1 DEF TagParent
<1>5. \A k \in 1 .. Len(current_seg) : current_seg[k].cksum \in SearchedBefore
  <2>1. \A k \in 1 .. Len(current_seg) : current_seg[k].cksum \in Contents(parent_seg)
    BY <1>1, SameCksums DEF SegmentUnchanged
  <2> QED BY <2>1 DEF OnlyInv
<1>6. 1 \notin IN_PARENT /\ IN_PARENT \in SUBSET Nat
  BY DEF IN_PARENT
<1>7. ASSUME NEW k \in 1 .. Len(current_seg)
      PROVE  TrueOf(current_seg'[k], SearchedBefore, Contents(cds))
  <2>1. PICK b \in Block : b = current_seg[k]
    BY <1>1
  <2>2. PICK known, common : known = SearchedBefore /\ common = Contents(cds)
    OBVIOUS
  <2>3. TrueOf(b, known, common) /\ b.cksum \in known
    BY <1>5, <2>1, <2>2 DEF OnlyInv, AllTrue
  <2>4. TrueOf(Tagged(b, IN_PARENT), known, common)
    BY <1>6, <2>3, TrueOfTagged
  <2> QED BY <1>4, <2>1, <2>2, <2>4
<1> QED BY <1>3, <1>7 DEF AllTrue, OnlyOfSegment

LEMMA OnlyCds ==
  ASSUME OnlyInv, SearchCds
  PROVE  AllTrue(current_seg', SearchedBefore, Contents(cds)) /\ OnlyOfSegment'
<1>1. /\ current_seg \in Seq(Block) /\ cds \in Seq(Block) /\ i \in 1 .. Len(current_seg)
      /\ pc = "cds" /\ SnapshotTypes
  BY LenProperties DEF OnlyInv, AlignedInv, SizeInv, VectorTypes, SnapshotTypes, SearchCds, TagNext
<1>2. PICK b \in Block : b = current_seg[i]
  BY <1>1
<1>3. PICK bits \in SUBSET Nat : bits = (IF InCds(b) THEN IN_CDS ELSE {}) /\ TagNext(bits)
  BY <1>1, <1>2, TagsAreSets DEF SearchCds, TagNext
<1>4. IsRetagged(current_seg', current_seg) /\ parent_seg' = parent_seg
  BY SegmentStepIs DEF SegmentStep, WithinSegment, OnlyInv
<1>5. Len(current_seg') = Len(current_seg) /\ (SegmentUnchanged' <=> SegmentUnchanged)
  BY <1>1, <1>4, SameSegment
<1>6. \A k \in 1 .. Len(current_seg) :
        current_seg'[k] = IF k = i THEN Tagged(current_seg[i], bits) ELSE current_seg[k]
  <2>1. current_seg \in [1 .. Len(current_seg) -> Block]
    BY <1>1, LenProperties
  <2>2. current_seg' = [current_seg EXCEPT ![i] = Tagged(current_seg[i], bits)]
    BY <1>3 DEF TagNext
  <2> QED BY <2>1, <2>2
<1>7. 0 \notin bits /\ bits \intersect IN_DIRTY_SEG = {} /\ (1 \in bits => InCds(b))
  BY <1>3 DEF IN_CDS, IN_DIRTY_SEG
<1>8. 1 \in bits => b.cksum \in Contents(cds)
  BY <1>1, <1>2, <1>7, BinarySearchIsSound DEF InCds
<1>9. AllTrue(current_seg', SearchedBefore, Contents(cds))
  <2>1. PICK known, common, r : known = SearchedBefore /\ common = Contents(cds) /\ r = current_seg'
    OBVIOUS
  <2>2. AllTrue(current_seg, known, common) /\ Len(r) = Len(current_seg)
    BY <1>5, <2>1 DEF OnlyInv
  <2>3. AllTrue(r, known, common)
    BY <1>1, <1>2, <1>6, <1>7, <1>8, <2>1, <2>2, OneTagged
  <2> QED BY <2>1, <2>3
<1>10. \A k \in 1 .. Len(current_seg) : SaysParent(current_seg'[k]) => SaysParent(current_seg[k])
  <2>1. SaysParent(Tagged(b, bits)) => SaysParent(b)
    BY <1>7, SaysOfTagged
  <2> QED BY <1>2, <1>6, <2>1
<1>11. OnlyOfSegment
  BY <1>1 DEF OnlyInv, InSegment
<1> QED BY <1>5, <1>9, <1>10, <1>11 DEF OnlyOfSegment

LEMMA OnlyHit ==
  ASSUME OnlyInv, SearchHit
  PROVE  AllTrue(current_seg', SearchedBefore, Contents(cds)) /\ OnlyOfSegment'
<1>1. SnapshotTypes /\ VectorTypes /\ current_seg \in Seq(Block) /\ pc = "search"
  BY DEF OnlyInv, AlignedInv, SizeInv, VectorTypes, SnapshotTypes, SearchHit
<1>2. /\ i \in 1 .. Len(current_seg) /\ IsRetagged(current_seg', current_seg) /\ parent_seg' = parent_seg
      /\ \A k \in 1 .. Len(current_seg) :
           current_seg'[k] = IF k = i THEN Tagged(current_seg[i], IN_DIRTY_SEG) ELSE current_seg[k]
  BY <1>1, SearchHitRetags
<1>3. Len(current_seg') = Len(current_seg) /\ (SegmentUnchanged' <=> SegmentUnchanged)
  BY <1>1, <1>2, SameSegment
<1>4. current_seg[i].cksum \in SearchedBefore
  BY <1>1, SearchHitRenews DEF OnlyInv
<1>5. PICK bits \in SUBSET Nat : bits = IN_DIRTY_SEG /\ 1 \notin bits
  <2>1. IN_DIRTY_SEG \in SUBSET Nat /\ 1 \notin IN_DIRTY_SEG
    BY DEF IN_DIRTY_SEG
  <2> QED BY <2>1
<1>6. AllTrue(current_seg', SearchedBefore, Contents(cds))
  <2>1. PICK known, common, r : known = SearchedBefore /\ common = Contents(cds) /\ r = current_seg'
    OBVIOUS
  <2>2. AllTrue(current_seg, known, common) /\ Len(r) = Len(current_seg)
    BY <1>3, <2>1 DEF OnlyInv
  <2>3. AllTrue(r, known, common)
    BY <1>1, <1>2, <1>4, <1>5, <2>1, <2>2, OneTagged
  <2> QED BY <2>1, <2>3
<1>7. PICK b \in Block : b = current_seg[i]
  BY <1>1, <1>2
<1>8. \A k \in 1 .. Len(current_seg) : SaysParent(current_seg'[k]) => SaysParent(current_seg[k])
  <2>1. ~SaysParent(Tagged(b, IN_DIRTY_SEG))
    BY SaysOfTagged
  <2> QED BY <1>2, <1>7, <2>1
<1>9. OnlyOfSegment
  BY <1>1 DEF OnlyInv, InSegment
<1> QED BY <1>3, <1>6, <1>8, <1>9 DEF OnlyOfSegment

\* Only the parent's segment at hand is added to the cache.
LEMMA CachedIsAdded ==
  ASSUME VectorTypes, [SimNext]_simVars
  PROVE  Cached' \subseteq Cached \union Contents(parent_seg)
<1>1. CASE AddItems \/ AddOverrun \/ SearchHit
  BY <1>1, AddItemsAdds, AddOverrunAdds, SearchHitRenews
<1>2. CASE SimOpen
  <2>1. BagToSet(cache') = {}
    BY <1>2, EmptyBagIs DEF SimOpen, BagToSet
  <2> QED BY <2>1 DEF Cached
<1>3. ASSUME cache' = cache PROVE Cached' = Cached
  BY <1>3 DEF Cached
<1>4. SimLoadSegments \/ SearchMiss \/ SearchDone \/ UNCHANGED vectorVars \/ UNCHANGED simVars => cache' = cache
  BY DEF SimLoadSegments, SearchMiss, SearchDone, vectorVars, simVars
<1> QED BY <1>1, <1>2, <1>3, <1>4 DEF SimNext

LEMMA OnlyOfStep ==
  ASSUME OnlyInv, SegmentStep
  PROVE  AllTrue(current_seg', SearchedBefore, Contents(cds)) /\ OnlyOfSegment'
<1>1. VectorTypes /\ InSegment /\ UNCHANGED <<parent_seg, has_parent>>
  BY SegmentStepIs DEF OnlyInv, AlignedInv, SizeInv, WithinSegment
<1>2. CASE current_seg' = current_seg
  <2>1. OnlyOfSegment' <=> OnlyOfSegment
    BY <1>1, <1>2 DEF OnlyOfSegment, SegmentUnchanged
  <2> QED BY <1>1, <1>2, <2>1 DEF OnlyInv
<1>3. AddItems \/ AddOverrun => current_seg' = current_seg
  BY <1>1, AddItemsAdds, AddOverrunAdds
<1>4. WithoutParent \/ SearchMiss \/ SearchDone => current_seg' = current_seg
  BY DEF WithoutParent, SearchMiss, SearchDone
<1> QED BY <1>2, <1>3, <1>4, OnlyParent, OnlyCds, OnlyHit DEF SegmentStep

\* What has been read stays read.
LEMMA SearchedLoad ==
  ASSUME OnlyInv, SimLoadSegments
  PROVE  SearchedBefore \union Contents(parent_seg') \subseteq SearchedBefore'
<1>1. PICK t \in Seq(Block) : t = ParentTrace /\ t = ParentTrace'
  <2>1. ParentTrace \in Seq(Block) /\ ParentTrace' = ParentTrace
    BY ParentTraceType DEF OnlyInv, AlignedInv, SizeInv, VectorTypes, SimLoadSegments, argVars, ParentTrace
  <2> QED BY <2>1
<1>2. PICK k \in 0 .. Len(t) : parent_input = RestFrom(t, k)
  BY <1>1 DEF OnlyInv, AlignedInv, SizeInv, ParentIsRead
<1>3. SearchedBefore = Contents(SubSeq(t, 1, k))
  BY <1>1, <1>2, SearchedIs
<1>4. CASE has_parent
  <2>1. parent_seg' = SegmentBlocks(parent_input) /\ parent_input' = AfterSegment(parent_input)
    BY <1>4 DEF SimLoadSegments, NextParentSeg
  <2>2. PICK rem \in Seq(Block) : rem = RestFrom(t, k)
    BY RestSegment
  <2>3. PICK to : /\ to = k + SegmentLen(rem) /\ to \in k .. Len(t)
                  /\ AfterSegment(rem) = RestFrom(t, to)
    BY <2>2, RestSegment
  <2>4. to \in 0 .. Len(t)
    BY <2>3, LenProperties
  <2>5. /\ Contents(SubSeq(t, 1, k)) \subseteq Contents(SubSeq(t, 1, to))
        /\ Contents(SegmentBlocks(rem)) \subseteq Contents(SubSeq(t, 1, to))
    BY <2>2, <2>3, ReadMore
  <2>6. SearchedBefore' = Contents(SubSeq(t, 1, to))
    <3>1. Len(parent_input') = Len(t) - to
      BY <1>2, <2>1, <2>2, <2>3, <2>4, RestIs
    <3>2. Len(t) - Len(parent_input') = to
      BY <2>4, <3>1, LenProperties
    <3> QED BY <1>1, <3>2 DEF SearchedBefore
  <2> QED BY <1>2, <1>3, <2>1, <2>2, <2>5, <2>6
<1>5. CASE ~has_parent
  <2>1. parent_seg' = parent_seg /\ parent_input' = parent_input
    BY <1>5 DEF SimLoadSegments
  <2>2. SearchedBefore' = SearchedBefore
    BY <1>1, <2>1 DEF SearchedBefore
  <2> QED BY <2>1, <2>2 DEF OnlyInv
<1> QED BY <1>4, <1>5

LEMMA OnlyLoad ==
  ASSUME OnlyInv, SimLoadSegments, AlignedInv', Cached' \subseteq Cached \union Contents(parent_seg)
  PROVE  OnlyInv'
<1>1. /\ pc' = "tag" /\ output' = output /\ snapshot' = snapshot /\ cds' = cds /\ ParentTrace' = ParentTrace
      /\ (Promised' => Promised)
  BY DEF SimLoadSegments, argVars, ParentTrace, Promised
<1>2. SearchedBefore \union Contents(parent_seg') \subseteq SearchedBefore'
  BY SearchedLoad
<1>3. \A k \in 1 .. Len(current_seg') : current_seg'[k].file_id = {}
  BY <1>1 DEF AlignedInv
<1>4. \A known, common : AllTrue(current_seg', known, common)
  BY <1>3 DEF AllTrue, TrueOf
<1>5. OnlyOfSegment'
  BY <1>3, SaysNothing DEF OnlyOfSegment
<1>6. AllTrue(output, SearchedBefore', Contents(cds))
  <2>1. PICK known, more, common : known = SearchedBefore /\ more = SearchedBefore' /\ common = Contents(cds)
    OBVIOUS
  <2> QED BY <1>2, <2>1, TrueOfMore DEF OnlyInv
<1> QED BY <1>1, <1>2, <1>4, <1>5, <1>6 DEF OnlyInv

LEMMA OnlyWrite ==
  ASSUME OnlyInv, WriteSegment
  PROVE  /\ AllTrue(output', SearchedBefore, Contents(cds))
         /\ Promised => OnlyUnchanged(output', snapshot, ParentTrace)
<1>1. SnapshotTypes /\ ParentTrace \in Seq(Block)
  BY ParentTraceType DEF OnlyInv, AlignedInv, SizeInv, VectorTypes
<1>2. pc = "cds" /\ output' = output \o current_seg
  BY DEF WriteSegment
<1>3. PICK s \in Seq(Block), p \in Seq(Block), seg \in Seq(Block), pseg \in Seq(Block), out \in Seq(Block) :
        /\ s = snapshot /\ p = ParentTrace /\ seg = current_seg /\ pseg = parent_seg /\ out = output
  BY <1>1 DEF SnapshotTypes
<1>4. AllTrue(output', SearchedBefore, Contents(cds))
  <2>1. PICK known, common : known = SearchedBefore /\ common = Contents(cds)
    OBVIOUS
  <2>2. AllTrue(out, known, common) /\ AllTrue(seg, known, common)
    BY <1>3, <2>1 DEF OnlyInv
  <2>3. AllTrue(out \o seg, known, common)
    BY <2>2, AllTrueOfConcat
  <2> QED BY <1>2, <1>3, <2>1, <2>3
<1>5. ASSUME Promised PROVE OnlyUnchanged(output', snapshot, ParentTrace)
  <2>1. AtHandIsRange(s, p, seg, pseg, current_input, parent_input)
    BY <1>2, <1>3, <1>5 DEF OnlyInv, AlignedInv, InSegment
  <2>2. SameAtHand(s, p, seg, pseg)
    BY <2>1, SegmentAtHand
  <2>3. \A k \in 1 .. Len(seg) : SaysParent(seg[k]) => SegmentCksum(seg) = SegmentCksum(pseg)
    BY <1>2, <1>3 DEF OnlyInv, InSegment, OnlyOfSegment, SegmentUnchanged
  <2>4. OnlyUnchanged(seg, s, p)
    BY <2>2, <2>3 DEF SameAtHand, OnlyUnchanged
  <2>5. OnlyUnchanged(out, s, p)
    BY <1>3, <1>5 DEF OnlyInv
  <2>6. \A k \in 1 .. Len(out \o seg) : \/ k \in 1 .. Len(out) /\ (out \o seg)[k] = out[k]
                                        \/ k - Len(out) \in 1 .. Len(seg) /\ (out \o seg)[k] = seg[k - Len(out)]
    BY ConcatElements
  <2>7. OnlyUnchanged(out \o seg, s, p)
    BY <2>4, <2>5, <2>6 DEF OnlyUnchanged
  <2> QED BY <1>2, <1>3, <2>7
<1> QED BY <1>4, <1>5

LEMMA OnlyStep ==
  ASSUME OnlyInv, [SimNext]_simVars
  PROVE  OnlyInv'
<1>1. /\ AlignedInv /\ AlignedInv' /\ VectorTypes /\ SnapshotTypes
      /\ Cached' \subseteq Cached \union Contents(parent_seg)
  BY AlignedStep, CachedIsAdded DEF OnlyInv, AlignedInv, SizeInv, VectorTypes
<1>2. \A s, p, known, common : AllTrue(<<>>, known, common) /\ OnlyUnchanged(<<>>, s, p)
  BY EmptySeq DEF AllTrue, OnlyUnchanged
<1>3. ASSUME UNCHANGED <<argVars, parent_input>>
      PROVE  /\ snapshot' = snapshot /\ cds' = cds /\ ParentTrace' = ParentTrace
             /\ (Promised' <=> Promised) /\ SearchedBefore' = SearchedBefore
  <2>1. UNCHANGED <<snapshot, parent, cds, parent_input>> /\ ParentTrace' = ParentTrace
    BY <1>3 DEF argVars, ParentTrace
  <2> QED BY <2>1 DEF Promised, SearchedBefore
<1>4. CASE SimOpen
  <2>1. output' = <<>> /\ current_seg' = <<>> /\ parent_seg' = <<>> /\ pc' = "load"
    BY <1>4 DEF SimOpen, Open
  <2>2. Contents(parent_seg') = {}
    BY <2>1, EmptySeq DEF Contents
  <2>3. Cached' = {}
    <3>1. BagToSet(cache') = {}
      BY <1>4, EmptyBagIs DEF SimOpen, BagToSet
    <3> QED BY <3>1 DEF Cached
  <2> QED BY <1>1, <1>2, <2>1, <2>2, <2>3 DEF OnlyInv, InSegment
<1>5. CASE SimLoadSegments
  BY <1>1, <1>5, OnlyLoad
<1>6. CASE SegmentStep
  <2>1. output' = output /\ parent_seg' = parent_seg /\ UNCHANGED <<argVars, parent_input>>
    BY <1>1, <1>6, SegmentStepIs DEF WithinSegment, inVars
  <2>2. AllTrue(current_seg', SearchedBefore, Contents(cds)) /\ OnlyOfSegment'
    BY <1>6, OnlyOfStep
  <2> QED BY <1>1, <1>3, <2>1, <2>2 DEF OnlyInv
<1>7. CASE WriteSegment
  <2>1. UNCHANGED <<argVars, parent_input, current_seg, parent_seg>> /\ pc' = "load"
    BY <1>7 DEF WriteSegment, inVars
  <2>2. /\ AllTrue(output', SearchedBefore, Contents(cds))
        /\ Promised => OnlyUnchanged(output', snapshot, ParentTrace)
    BY <1>7, OnlyWrite
  <2> QED BY <1>1, <1>3, <2>1, <2>2 DEF OnlyInv, InSegment
<1>8. CASE EndStep
  <2>1. /\ pc' \notin {"load", "tag", "search", "cds"}
        /\ UNCHANGED <<argVars, parent_input, parent_seg>>
    BY <1>1, <1>8, EndStepIs
  <2>2. PICK n \in 0 .. Len(output) :
          Len(output') = n /\ \A k \in 1 .. n : output'[k] = output[k] /\ k \in 1 .. Len(output)
    BY <1>1, <1>8, EndStepIs
  <2>3. /\ \A known, common : AllTrue(output, known, common) => AllTrue(output', known, common)
        /\ \A s, p : OnlyUnchanged(output, s, p) => OnlyUnchanged(output', s, p)
    BY <2>2 DEF AllTrue, OnlyUnchanged
  <2>4. current_seg' \in {current_seg, <<>>}
    BY <1>8 DEF EndStep, EndOfSnapshot, Close, Kill
  <2> QED BY <1>1, <1>2, <1>3, <2>1, <2>3, <2>4 DEF OnlyInv, InSegment
<1>9. CASE UNCHANGED simVars
  <2>1. UNCHANGED <<argVars, parent_input, pc, current_seg, parent_seg, output>>
    BY <1>9 DEF simVars, snapshotVars, inVars
  <2>2. (InSegment' <=> InSegment) /\ (OnlyOfSegment' <=> OnlyOfSegment)
    BY <2>1 DEF InSegment, OnlyOfSegment, SegmentUnchanged
  <2> QED BY <1>1, <1>3, <2>1, <2>2 DEF OnlyInv
<1> QED BY <1>4, <1>5, <1>6, <1>7, <1>8, <1>9, StepKinds

LEMMA OnlyInit == SimInit => OnlyInv
<1> SUFFICES ASSUME SimInit PROVE OnlyInv
  OBVIOUS
<1>1. /\ output = <<>> /\ current_seg = <<>> /\ parent_seg = <<>> /\ pc = "idle" /\ cache = EmptyBag
      /\ AlignedInv
  BY AlignedInit DEF SimInit, Init
<1>2. Contents(parent_seg) = {} /\ Cached = {}
  BY <1>1, EmptySeq, EmptyBagIs DEF Contents, Cached, BagToSet
<1>3. \A s, p, known, common : AllTrue(<<>>, known, common) /\ OnlyUnchanged(<<>>, s, p)
  BY EmptySeq DEF AllTrue, OnlyUnchanged
<1> QED BY <1>1, <1>2, <1>3 DEF OnlyInv, InSegment

\* For all snapshots, parents, CDS files, capacities and clocks: whatever
\* dedup_sim_lru.cpp finds in its cache is in a part of the parent that has
\* been read, also after its AddItems ran past the front of the vector, and a
\* block it tags IN_PARENT and no more is in a segment that is the parent's.
THEOREM CacheFindsOnlyParents == SimSpec => []LruFindsOnlyParents
<1>1. SimInit => OnlyInv
  BY OnlyInit
<1>2. OnlyInv /\ [SimNext]_simVars => OnlyInv'
  BY OnlyStep
<1>3. OnlyInv => LruFindsOnlyParents
  <2> SUFFICES ASSUME OnlyInv PROVE LruFindsOnlyParents
    OBVIOUS
  <2>1. DOMAIN output = 1 .. Len(output)
    BY LenProperties DEF OnlyInv, AlignedInv, SizeInv, VectorTypes, SnapshotTypes
  <2>2. ASSUME NEW k \in DOMAIN output, 0 \in output[k].file_id
        PROVE  output[k].cksum \in SearchedBefore
    BY <2>1, <2>2 DEF OnlyInv, AllTrue, TrueOf
  <2>3. ASSUME Promised, NEW k \in DOMAIN output, output[k].file_id \intersect IN_DIRTY_SEG = IN_PARENT
        PROVE  IN_PARENT = RightTag(output[k]) \intersect IN_DIRTY_SEG
    <3>1. PICK b : b = output[k] /\ SaysParent(b)
      BY <2>3 DEF SaysParent
    <3>2. SegmentCksum(InRange(snapshot, RangeOf(b))) = SegmentCksum(InRange(ParentTrace, RangeOf(b)))
      BY <2>1, <2>3, <3>1 DEF OnlyInv, OnlyUnchanged
    <3>3. RightTag(b) \in {IN_PARENT \union IN_CDS, IN_PARENT}
      BY <3>2 DEF RightTag
    <3>4. /\ (IN_PARENT \union IN_CDS) \intersect IN_DIRTY_SEG = IN_PARENT
          /\ IN_PARENT \intersect IN_DIRTY_SEG = IN_PARENT
      BY DEF IN_PARENT, IN_CDS, IN_DIRTY_SEG
    <3> QED BY <3>1, <3>3, <3>4
  <2> QED BY <2>2, <2>3 DEF LruFindsOnlyParents, Promised
<1> QED BY <1>1, <1>2, <1>3, PTL DEF SimSpec

=============================================================================
