------------------------------- MODULE CdsGen -------------------------------
(***************************************************************************)
(* dedup_cds_gen.cpp, run again and again in one working directory.  A run *)
(* reads a list of traces, splits their new blocks by the first byte of    *)
(* the checksum into buckets (256 in the code), counts every content,      *)
(* ranks each bucket by count, and writes the most frequent part of every  *)
(* bucket to the CDS file.  The rankings are kept in ./cdstmp/merge.NNN;   *)
(* a run that finds the directory copies from them and reads no input.     *)
(*                                                                         *)
(* A run may be killed at any point.  Files that were closed survive it,   *)
(* of a file still open any prefix may.                                    *)
(***************************************************************************)
EXTENDS Integers, SequencesExt, FiniteSetsExt

CONSTANTS
  Cksum,        \* the checksums
  NumBuckets,   \* 256 in the code: one bucket for each first byte
  FirstByte,    \* cksum_[0], a bucket for each checksum
  Lists,        \* the lists of inputs a run may be given on stdin
  Unreadable,   \* an input that cannot be opened
  End,          \* the line "end" in a list
  Thresholds,   \* the thresholds a run may be given, in parts of Unit
  Unit,         \* the whole, 1.0 in the code
  MaxRuns       \* bound: runs in one behaviour

Buckets == 0 .. NumBuckets - 1

ASSUME BucketsAssumption == NumBuckets \in Nat \ {0} /\ FirstByte \in [Cksum -> Buckets]

\* A block in a trace; and a record of a ranking, or of the CDS.
Block  == [cksum : Cksum, file_id : Nat]
Record == [cksum : Cksum, count : Nat]

ASSUME ListsAssumption == IsFiniteSet(Cksum) /\ Lists \subseteq Seq(Seq(Block) \union {Unreadable, End})
ASSUME ThresholdsAssumption == Unit \in Nat \ {0} /\ Thresholds \subseteq 0 .. Unit

VARIABLES
  pc,           \* "idle" before the first run, "done", "failed" or "killed" after one,
                \* otherwise the phase of the run
  runs,         \* runs started
  list,         \* the inputs given to this run
  threshold,    \* the share of each bucket that goes to the CDS
  reuse,        \* did this run find the directory?
  rest,         \* inputs not read yet
  bucket,       \* the bucket being processed
  raw,          \* cdstmp/NNN: the blocks split into each bucket
  dir,          \* is ./cdstmp there?
  merged,       \* cdstmp/merge.NNN: the rankings of the buckets that have one
  cds,          \* the CDS file
  source        \* history: the inputs ./cdstmp was made from

runVars == <<runs, list, threshold, reuse>>
vars    == <<runVars, pc, rest, bucket, raw, dir, merged, cds, source>>

Stopped == pc \in {"idle", "done", "failed", "killed"}

Init ==
  /\ pc = "idle" /\ runs = 0
  /\ list = <<>> /\ rest = <<>> /\ source = <<>>
  /\ threshold = 0 /\ reuse = FALSE /\ bucket = 0
  /\ raw = [b \in Buckets |-> <<>>]
  /\ dir = FALSE
  /\ merged = <<>>
  /\ cds = <<>>

\* A new run truncates the CDS file, then looks for the directory.
Start ==
  /\ Stopped /\ runs < MaxRuns
  /\ runs' = runs + 1
  /\ list' \in Lists /\ rest' = list'
  /\ threshold' \in Thresholds
  /\ bucket' = 0
  /\ raw' = [b \in Buckets |-> <<>>]
  /\ cds' = <<>>
  /\ reuse' = dir
  /\ pc' = IF dir THEN "reuse" ELSE "prepare"
  /\ UNCHANGED <<dir, merged, source>>

\* The CDS file cannot be opened: the run ends before it has looked at anything.
CannotStart ==
  /\ Stopped /\ runs < MaxRuns
  /\ runs' = runs + 1
  /\ pc' = "failed"
  /\ UNCHANGED <<list, threshold, reuse, rest, bucket, raw, dir, merged, cds, source>>

Prepare ==
  /\ pc = "prepare"
  /\ dir' = TRUE /\ source' = list
  /\ pc' = "split"
  /\ UNCHANGED <<runVars, rest, bucket, raw, merged, cds>>

\* mkdir fails, or the directory is made and one of its files cannot be opened.
CannotPrepare ==
  /\ pc = "prepare"
  /\ dir' \in BOOLEAN /\ source' = IF dir' THEN list ELSE source
  /\ pc' = "failed"
  /\ UNCHANGED <<runVars, rest, bucket, raw, merged, cds>>

\* Mutant: blocks tagged as duplicates are counted too.
IsNewOrNot(blk) == TRUE

IsNew(blk) == blk.file_id = 0

\* What of a trace goes to bucket b.
NewBlocks(trace, b) ==
  FoldLeft(LAMBDA part, blk : IF IsNew(blk) /\ FirstByte[blk.cksum] = b THEN Append(part, blk) ELSE part,
           <<>>, trace)

\* The new blocks of one trace, appended to their buckets.
SplitInput ==
  /\ pc = "split" /\ rest # <<>> /\ Head(rest) \notin {Unreadable, End}
  /\ raw' = [b \in Buckets |-> raw[b] \o NewBlocks(Head(rest), b)]
  /\ rest' = Tail(rest)
  /\ UNCHANGED <<runVars, pc, bucket, dir, merged, cds, source>>

CannotRead ==
  /\ pc = "split" /\ rest # <<>> /\ Head(rest) = Unreadable
  /\ pc' = "failed"
  /\ UNCHANGED <<runVars, rest, bucket, raw, dir, merged, cds, source>>

EndOfList ==
  /\ pc = "split"
  /\ rest # <<>> => Head(rest) = End
  /\ pc' = "merge"
  /\ UNCHANGED <<runVars, rest, bucket, raw, dir, merged, cds, source>>

\* Mutant: from low to high.
ByCountUpwards(m) == \A i, j \in DOMAIN m : i < j => m[i].count <= m[j].count

\* sort_by_count, from high to low; contents of one count in any order.
ByCount(m) == \A i, j \in DOMAIN m : i < j => m[i].count >= m[j].count

NumberOf(r, c) == Cardinality({k \in DOMAIN r : r[k].cksum = c})

\* One record for each content of a bucket, with the number of its copies.
Counted(r) == {[cksum |-> blk.cksum, count |-> NumberOf(r, blk.cksum)] : blk \in Range(r)}

\* Mutant: rounds up.
ShareUp(n) == (n * threshold + Unit - 1) \div Unit

\* The part of a ranking of n records that the threshold lets through.
Share(n) == (n * threshold) \div Unit

NextBucket(phase) ==
  /\ bucket' = bucket + 1
  /\ pc' = IF bucket + 1 = NumBuckets THEN "done" ELSE phase

\* Rank the bucket and write merge.NNN, which stays open until SaveCds.  The
\* code does not ask whether it could be opened: here it always can be, in a
\* directory this run has made, as writing to it always succeeds.
MergeBucket ==
  /\ pc = "merge"
  /\ \E m \in {s \in SetToSeqs(Counted(raw[bucket])) : ByCount(s)} :
       merged' = [b \in DOMAIN merged \union {bucket} |-> IF b = bucket THEN m ELSE merged[b]]
  /\ pc' = "save"
  /\ UNCHANGED <<runVars, rest, bucket, raw, dir, cds, source>>

\* Close merge.NNN and append the top of the ranking to the CDS.
SaveCds ==
  /\ pc = "save"
  /\ cds' = cds \o SubSeq(merged[bucket], 1, Share(Len(merged[bucket])))
  /\ NextBucket("merge")
  /\ UNCHANGED <<runVars, rest, raw, dir, merged, source>>

\* Mutant: a merge.NNN that is not there is passed over.
ReuseBucketOrSkip ==
  /\ pc = "reuse"
  /\ cds' = IF bucket \notin DOMAIN merged THEN cds
            ELSE cds \o SubSeq(merged[bucket], 1, Share(Len(merged[bucket])))
  /\ NextBucket("reuse")
  /\ UNCHANGED <<runVars, rest, raw, dir, merged, source>>

\* Copy the top of an existing merge.NNN.
ReuseBucket ==
  /\ pc = "reuse" /\ bucket \in DOMAIN merged
  /\ cds' = cds \o SubSeq(merged[bucket], 1, Share(Len(merged[bucket])))
  /\ NextBucket("reuse")
  /\ UNCHANGED <<runVars, rest, raw, dir, merged, source>>

CannotReuse ==
  /\ pc = "reuse" /\ bucket \notin DOMAIN merged
  /\ pc' = "failed"
  /\ UNCHANGED <<runVars, rest, bucket, raw, dir, merged, cds, source>>

\* Mutant: no merge.NNN is closed before the run ends.
OpenFilesAll == IF pc \in {"merge", "save"} THEN DOMAIN merged ELSE {}

\* The merge files that may not be complete on disk yet.
OpenFiles == IF pc = "save" THEN {bucket} ELSE {}

\* The run is killed: of a file still open any prefix is on disk.
Crash ==
  /\ ~Stopped
  /\ pc' = "killed"
  /\ cds' \in Prefixes(cds)
  /\ \E kept \in [OpenFiles -> 0 .. Cardinality(Cksum)] :
       merged' = [b \in DOMAIN merged |->
                    IF b \in OpenFiles
                      THEN SubSeq(merged[b], 1, Min({kept[b], Len(merged[b])}))
                      ELSE merged[b]]
  /\ UNCHANGED <<runVars, rest, bucket, raw, dir, source>>

Next ==
  \/ Start \/ CannotStart \/ Prepare \/ CannotPrepare
  \/ SplitInput \/ CannotRead \/ EndOfList
  \/ MergeBucket \/ SaveCds
  \/ ReuseBucket \/ CannotReuse
  \/ Crash

Spec == Init /\ [][Next]_vars

-----------------------------------------------------------------------------
(* What a run promises, stated on the inputs *)

\* The inputs up to the line "end".
Read(inputs) == {i \in DOMAIN inputs : \A j \in 1 .. i : inputs[j] \notin {End, Unreadable}}

\* How many new blocks of these have this content.
Copies(inputs, c) ==
  Cardinality({p \in UNION {{i} \X DOMAIN inputs[i] : i \in Read(inputs)} :
                 inputs[p[1]][p[2]].cksum = c /\ inputs[p[1]][p[2]].file_id = 0})

Contents(inputs, b) == {c \in Cksum : FirstByte[c] = b /\ Copies(inputs, c) > 0}

\* m is the ranking of bucket b that the inputs call for.
IsRanking(m, inputs, b) ==
  /\ Len(m) = Cardinality(Contents(inputs, b))
  /\ {m[i].cksum : i \in DOMAIN m} = Contents(inputs, b)
  /\ \A i \in DOMAIN m : m[i].count = Copies(inputs, m[i].cksum)
  /\ \A i, j \in DOMAIN m : i < j => m[i].count >= m[j].count

\* The records in bucket b are the most frequent of their bucket, as many as
\* the threshold says, and carry the right counts.
IsTopOf(inputs, b) ==
  LET part == {k \in DOMAIN cds : FirstByte[cds[k].cksum] = b}
      kept == {cds[k].cksum : k \in part}
  IN  /\ Cardinality(kept) = Cardinality(part)
      /\ Cardinality(part) = (Cardinality(Contents(inputs, b)) * threshold) \div Unit
      /\ kept \subseteq Contents(inputs, b)
      /\ \A k \in part : cds[k].count = Copies(inputs, cds[k].cksum)
      /\ \A c \in kept, d \in Contents(inputs, b) \ kept : Copies(inputs, c) >= Copies(inputs, d)

\* A run that made the rankings itself writes the most frequent blocks of its
\* own inputs, whatever the runs before it did.
GeneratedIsTop ==
  ~reuse /\ pc \in {"merge", "save", "done"} =>
    \A b \in 0 .. bucket - 1 : IsTopOf(list, b)

\* Whatever is killed and run again: every ranking on disk is the right one
\* for the inputs the directory was made from, but for the last one there,
\* which may be cut short.  So of a CDS that a later run copies, only the
\* last bucket can be less than it should be.
DamageIsConfined ==
  /\ \A b \in DOMAIN merged :
       \/ IsRanking(merged[b], source, b)
       \/ ~(pc \in {"merge", "save"}) /\ \A x \in DOMAIN merged : x <= b
  /\ pc = "done" => \A b \in 0 .. NumBuckets - 2 : IsTopOf(source, b)

\* A directory that lacks a ranking makes every later run fail: it is never
\* completed, and never made anew.
LeftoversAreForever ==
  [](Stopped /\ dir /\ DOMAIN merged # Buckets => [](pc # "done"))

\* dedup_cds_gen.cpp:51, "tmp dir exists, will use it instead of re-generate
\* tmp files": given the inputs the directory was made from, a run that
\* completes writes what generating anew would.
ReuseIsRegeneration ==
  pc = "done" /\ list = source => \A b \in Buckets : IsTopOf(list, b)

=============================================================================
