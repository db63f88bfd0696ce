------------------------------- MODULE CdsLru -------------------------------
(***************************************************************************)
(* dedup_cds_lru.cpp with the CdsLruCache of lru_cache.cpp: as CdsSim, but *)
(* level 3 looks in a cache of CDS blocks before it searches the CDS.  The *)
(* cache is a map from blocks to the time they were last used; a run saves *)
(* its keys to ./old_cache_N, and the next run with capacity N loads them. *)
(***************************************************************************)
EXTENDS CdsSim, TimedCache, FiniteSets

CONSTANT Tenth   \* an overflow evicts capacity \div Tenth entries, 10 in the code

ASSUME TenthAssumption == Tenth \in Nat \ {0}

\* The cache is a function from checksums to times.
VARIABLES
  old_cache,     \* ./old_cache_N for every capacity N
  used           \* history: when each checksum this run has met in the CDS was last used

cacheVars == <<capacity, cache, clock, old_cache, used>>
lruVars   == <<snapshotVars, cacheVars>>

Entries == DOMAIN cache

LruInit ==
  /\ Init
  /\ capacity = 0
  /\ cache = <<>> /\ clock = 1
  /\ old_cache = [n \in Capacities |-> {}]
  /\ used = <<>>

\* cache_[blk] = tv
Put(map, c, t) == [d \in DOMAIN map \union {c} |-> IF d = c THEN t ELSE map[d]]

\* A new run loads what the file of its capacity has into an empty cache; all
\* entries get the same time.
LruOpen ==
  /\ Open
  /\ capacity' \in Capacities
  /\ clock' = 1
  /\ cache' = [c \in old_cache[capacity'] |-> 1]
  /\ used' = cache'
  /\ UNCHANGED old_cache

\* Found in the cache: its time is renewed.
CacheHit ==
  /\ pc = "cds" /\ i <= Len(current_seg)
  /\ LET c == current_seg[i].cksum
     IN  /\ c \in Entries
         /\ \E t \in Readings :
              /\ clock' = t
              /\ cache' = Put(cache, c, t)
              /\ used' = Put(used, c, t)
  /\ TagNext(IN_CDS_CACHE)
  /\ UNCHANGED <<capacity, old_cache>>

\* Mutant: a block that is in neither is added to the cache.
CdsMissAdds ==
  /\ pc = "cds" /\ i <= Len(current_seg)
  /\ current_seg[i].cksum \notin Entries /\ ~InCds(current_seg[i])
  /\ TagNext({})
  /\ cache' = Put(cache, current_seg[i].cksum, clock)
  /\ UNCHANGED <<capacity, clock, old_cache, used>>

\* Neither in the cache nor in the CDS.
CdsMiss ==
  /\ pc = "cds" /\ i <= Len(current_seg)
  /\ current_seg[i].cksum \notin Entries /\ ~InCds(current_seg[i])
  /\ TagNext({})
  /\ UNCHANGED cacheVars

Evicted == capacity \div Tenth

\* Mutant: the heap keeps the newest.
NewestEntries(m, gone) ==
  \A c \in gone, d \in DOMAIN m \ gone : m[c] >= m[d]

\* What the heap of RemoveItems ends with: no entry is older than these.
OldestEntries(m, gone) ==
  \A c \in gone, d \in DOMAIN m \ gone : m[c] <= m[d]

\* RemoveItems(n): n entries go, the oldest; of the same age, any.
RemoveItems(m, n) ==
  {[c \in DOMAIN m \ gone |-> m[c]] :
     gone \in {g \in SUBSET DOMAIN m : Cardinality(g) = n /\ OldestEntries(m, g)}}

\* Mutant: an overflow is noticed one entry late.
OverflowsLate(m) == Cardinality(DOMAIN m) > capacity + 1

Overflows(m) == Cardinality(DOMAIN m) > capacity

\* Found in the CDS, and added to the cache.
CdsHit ==
  /\ pc = "cds" /\ i <= Len(current_seg)
  /\ LET c == current_seg[i].cksum
     IN  /\ c \notin Entries /\ InCds(current_seg[i])
         /\ \E t \in Readings :
              LET m == Put(cache, c, t)
              IN  /\ clock' = t
                  /\ used' = Put(used, c, t)
                  /\ Overflows(m) => Evicted > 0
                  /\ cache' \in IF Overflows(m) THEN RemoveItems(m, Evicted) ELSE {m}
  /\ TagNext(IN_CDS)
  /\ UNCHANGED <<capacity, old_cache>>

\* With a capacity below Tenth, an overflow reads the top of an empty heap:
\* the run dies.  The block is in the cache by then.
Overrun ==
  /\ pc = "cds" /\ i <= Len(current_seg)
  /\ LET c == current_seg[i].cksum
     IN  /\ c \notin Entries /\ InCds(current_seg[i])
         /\ \E t \in Readings :
              LET m == Put(cache, c, t)
              IN  /\ Overflows(m) /\ Evicted = 0
                  /\ cache' = m /\ clock' = t /\ used' = Put(used, c, t)
  /\ Kill
  /\ UNCHANGED <<capacity, old_cache>>

\* Save, unless the file cannot be opened.
SaveCache ==
  /\ pc = "save"
  /\ \/ old_cache' = [old_cache EXCEPT ![capacity] = Entries]
     \/ UNCHANGED old_cache
  /\ pc' = "close"
  /\ UNCHANGED <<inVars, has_parent, current_seg, parent_seg, i, output, capacity, cache, clock, used>>

\* Killed while it saves: the file is the one before, or a first part of the
\* new one, in the order of the map.
LruKill ==
  /\ Kill
  /\ \/ UNCHANGED old_cache
     \/ /\ pc = "save"
        /\ \E saved \in {Entries, {}} \union {{c \in Entries : c < d} : d \in Entries} :
             old_cache' = [old_cache EXCEPT ![capacity] = saved]
  /\ UNCHANGED <<capacity, cache, clock, used>>

LruNext ==
  \/ LruOpen
  \/ /\ \/ LoadSegments \/ TagParent \/ TagDirty \/ WithoutParent \/ WriteSegment
        \/ EndOfSnapshot("save") \/ Close
     /\ UNCHANGED cacheVars
  \/ CacheHit \/ CdsHit \/ CdsMiss \/ Overrun
  \/ SaveCache
  \/ LruKill

LruSpec == LruInit /\ [][LruNext]_lruVars

-----------------------------------------------------------------------------

\* The cache holds no more than its capacity, after any number of runs, of
\* evictions and of kills; only the overflow that kills a run exceeds it, and
\* no file ever does.
CapacityIsKept ==
  /\ pc # "killed" => Cardinality(Entries) <= capacity
  /\ \A n \in Capacities : Cardinality(old_cache[n]) <= n

\* The others used since c was, or at the same reading of the clock.
UsedSince(c) == {d \in DOMAIN used \ {c} : used[d] >= used[c]}

\* What the policy is worth: a block that was found or added is still in the
\* cache as long as fewer others were used since, or at the same reading of
\* the clock, than an eviction leaves in it.
RecentIsCached ==
  \A c \in DOMAIN used :
    Cardinality(UsedSince(c)) <= capacity - Evicted => c \in Entries

\* While all runs are given the same CDS, the cache changes nothing but the
\* mark of where a block was found: without that mark, the runs are runs of
\* the simulator that has no cache.
WithoutMark(blocks) == [k \in DOMAIN blocks |-> [blocks[k] EXCEPT !.file_id = @ \ {3}]]

Uncached == INSTANCE CdsSim WITH
              pc          <- IF pc = "save" THEN "close" ELSE pc,
              current_seg <- WithoutMark(current_seg),
              output      <- WithoutMark(output)

ImplementsCdsSim == Uncached!Spec

=============================================================================
