# Verification of the deduplication simulators in wei-papers

The repository holds papers (LaTeX, figures, slides) and one body of code,
`src/sim_src`: about 4,500 lines of C++ that scan files into block logs and
simulate several ways of deduplicating them.  This directory models that code
in TLA+, checks the models with TLC on small instances and proves theorems
about them with TLAPS for every value of the constants.

Every program is a single thread that reads files and writes files.  What makes
them hard is not interleaving inside a process but: positions that are carried
across two swapped buffers; reads that stop early; block, buffer and boundary
sizes that do not divide one another; files that one program (or one run) leaves
for the next, possibly half written; caches at their limit; and assumptions one
program makes about the output of another (sorted, complete, of the same
version).

## Inventory

| component | state it keeps | operations | talks to |
|---|---|---|---|
| Scanner (`scanner.cpp`, `fs_reader.cpp`, the file part of `dedup_main.cpp`) | two read buffers, position of the scan, last break, backup break, rolling fingerprint, data map | `load_data`, `varScan`, `fixScan`, `addBreakpoint`, `addBlock` | appends to the scan log and the data file |
| Rabin fingerprint (`rabin.c`, `rabin_asm.S`) | circular window, fingerprint, two tables | `rabin_init`, `rabin_slide8`, `rabin_reset` | called by varScan per byte, made anew at every boundary |
| Directory scan (`scan`, `save_file`, `main` of `dedup_main.cpp`, `fs_reader.cpp`) | file id, totals, skip and count limits, recursion | open with retries, recurse, skip, meta-only, save_file | creates one Scanner per mode and file |
| Trace types (`trace_types.cpp`, `dedup_types.hpp`) | Checksum, Block, Segment, Bin | read and write records, build segments | used by all later programs |
| Sort (`dedup_sort.cpp`) | a log in memory | sort by hash or offset | reads and writes scan logs |
| Merge (`dedup_merge.cpp`, `dedup_merge.cpp.old`) | buffers, loser tree, counters | k-way merge of sorted logs, count duplicates, write frequent blocks | reads sorted logs |
| CDS generator (`dedup_cds_gen.cpp`) | directory `./cdstmp` that outlives the run, CDS file | split by first byte, count, keep the most frequent; reuse what an earlier run left | reads logs and tags, writes a CDS |
| Snapshot simulators (`dedup_cds_sim.cpp`, `dedup_sim.cpp`, `dedup_sim_lru.cpp`, `dedup_cds_lru.cpp`) | current and parent segment, CDS, cache | tag each block by the level that finds it | read snapshot, parent and CDS, write a tagged log |
| Caches (`lru_cache.cpp`) | `LruCache` (vector), `CdsLruCache` (map, persisted between runs) | add, search, evict, save, load | used by the two `_lru` simulators |
| Analysis (`dedup_analysis.cpp`, `cds_hit_analysis.cpp`) | counters | classify tags, lengths of CDS hit runs | read tagged logs |
| Extreme binning (`eb_segment.cpp`, `eb_dedup.cpp`, `Bin`) | 256 partition files, bins | cut a log into segments, partition by min-hash, deduplicate inside a bin | partition files are opened for append and outlive the run |
| Logging (`dedup_common.c`, `pr_msg`) | none | print | everything |
| Pangu and key-value readers (`USE_PANGU` parts) | a connection | as LocalFSReader; there is none for key-value files | an external file system |
| Superseded sources (`dedup_types_old.h`, `Makefile-old`) | | | nothing builds them |

### What is hard, and what correctness means

* **Scanner.** A block may begin in the buffer before the one being scanned; a
  forced boundary may fall on a break, on the first byte of a buffer or inside a
  block; a read may come up short.  Correct: the log is the file cut front to
  back with the right checksums, cuts follow the two-threshold two-divisor rule,
  no block straddles a boundary, the data file restores the log, nothing but a
  tail shorter than the largest block is ever lost, and the loop ends.
* **CDS generator.** The directory `./cdstmp` outlives the run and is trusted by
  the next.  Correct: a run that makes it writes the most frequent blocks;
  what a kill leaves does bounded damage.
* **Simulators.** Two traces are read in step and one may end first; the CDS may
  be unsorted.  Correct: for aligned traces each tag is the one that follows from
  the two snapshots alone; for any traces nothing is lost and nothing is falsely
  called a duplicate.
* **Caches.** Eviction at the limit, duplicates, state saved for the next run.
  Correct: the capacity is kept, what was used recently stays, and the cache
  changes only where a block is found (`CdsLru`) or only finds more, and never
  something that is not there (`SimLru`).
* **Extreme binning.** Files appended to by run after run, torn by kills.
  Correct: segments with the same smallest checksum meet in one bin, whichever
  log they came from, and counts agree.
* **Directory scan.**  What is on the disk changes under the walk, entries cannot
  be opened, and the run may be killed between the blocks of a file and its
  record.  Correct: every block leads to its file, every path is dealt with once,
  the limits hold together, and the walk ends.
* **Merge.**  Streams end at different times, and a block of size zero is the sign
  of an end.  Correct: the tree always gives a least block, and the histogram is
  that of all that was read.
* **Rabin fingerprint.**  Bytes enter and leave through tables and a circular
  buffer, for ever.  Correct: nothing older than the window is left in the
  fingerprint, which is the remainder of the window's polynomial; no index runs
  past a table.
* **Sort.**  `std::sort` may exchange equal records, and empty records share
  their offset with the next.  Correct: sorting by offset gives the segments back.
* **Analysis.**  Tags come from programs with more levels than the report knows.
  Correct: the classes add up to the trace, say what the two snapshots say, and
  what falls into no class is known.

The hazards, each at its line, are listed in `PROJECT.json`.

## Modules

| module | what it is | extends |
|---|---|---|
| `ChunkLog` | abstract: a log that is a file cut front to back | |
| `Scanner` | `scan`'s read loop, `varScan`, `fixScan` and what they write | |
| `TTTD` | the chunking rule stated on the file, and `CutsAreTTTD` | `Scanner` |
| `ScannerProofs` | theorems about `Scanner` and the fingerprint it asks for | `TTTD`, `Rabin`, `DataTheorems` |
| `SlidingWindow` | abstract: a hash of the last bytes and of nothing else | |
| `Rabin` | `rabin_init`, `rabin_slide8`, `rabin_reset`, and starting again | |
| `CdsGen` | `dedup_cds_gen`, run after run in one directory | |
| `CdsGenProofs` | theorems about `CdsGen` | `CdsGen`, `DataTheorems` |
| `DataTheorems` | induction, recursion and folds as lemmas that can be cited | |
| `Trace` | records, segments, tag bits, `std::binary_search` | |
| `Snapshot` | what all simulators share: reading in step, tags, output, kills | `Trace` |
| `CdsSim` | `dedup_cds_sim` = `dedup_sim` | `Snapshot` |
| `TimedCache` | what both caches have in common: sizes, times, the clock | |
| `CdsLru` | `dedup_cds_lru` with `CdsLruCache` | `CdsSim`, `TimedCache` |
| `CdsSimProofs` | theorems about `CdsSim` and the report made of its output | `SimAnalysis`, `DataTheorems` |
| `SimLru` | `dedup_sim_lru` with `LruCache` | `CdsSim`, `TimedCache` |
| `CacheProofs` | theorems about `CdsLru` and `SimLru` | `CdsLru`, `SimLru`, `CdsSimProofs` |
| `Analysis` | `dedup_analysis`, `cds_hit_analysis` as operators on traces | `Trace` |
| `SortLog` | `dedup_sort` | `Trace` |
| `SimAnalysis` | a simulation with the programs before and after it | `CdsSim`, `Analysis`, `SortLog` |
| `ExtremeBinning` | `eb_segment`, `eb_dedup`, `Bin` | `Trace` |
| `ExtremeBinningProofs` | theorems about `ExtremeBinning` | `ExtremeBinning`, `CdsSimProofs` |
| `DirScan` | `main`, `scan` and `save_file` of `dedup_main`, `open` of `LocalFSReader` and `PanguReader` | |
| `DirScanProofs` | theorems about `DirScan` | `DirScan`, `DataTheorems` |
| `Merge` | `dedup_merge` of this and of the previous release, on sorted logs | |
| `MergeProofs` | theorems about `Merge` | `Merge`, `DataTheorems` |
| `MC*` | the instances for TLC | each its module |

Refinements: `Scanner` implements `ChunkLog` (`ImplementsChunkLog`), `CdsLru`
implements `CdsSim` (`ImplementsCdsSim`), `Rabin` implements `SlidingWindow`
(`ImplementsSlidingWindow`).  `SimLru` does not implement `CdsSim`,
as it finds more; `LruFindsMore` and `LruFindsOnlyParents` bound it from both
sides by what `CdsSim` finds.  `Scanner` and `CdsSim` meet in alignment: in
fixed-boundary mode the scanner lets no block straddle a boundary
(`ImplementsChunkLog`), and `IsAligned`, which is that promise for a boundary of
the segment size, is what `TagsAreRight` asks of a snapshot.  `DirScan` and
`Scanner` divide the program: `DirScan`'s step `ScanBlocks` is a whole run of
`Scanner` over one file, of which it keeps the number of blocks and the number
each carries.  `SlidingWindow`'s `Slide` and empty window are those of `Scanner`,
which takes the two divisor tests for a function of the window: that is what
`Rabin` shows of the fingerprint.  `SimAnalysis` puts the analysis programs behind
the simulators and sorting in front of them.

### State and code

**Scanner.**  One step of varScan is one byte: `EnforceBoundary` is the
`fix_boundary` block at the top of the loop (then `pc = "slide"`, so that the
same byte goes on to the fingerprint), and `BelowMin`, `NoBreak`, `MainBreak`,
`BackupBreak`, `HardBreak` are the ways through the rest of the loop body.
`EndOfVarBuffer` is the code after the loop together with the return to `scan`.
`is_var` is a variable that keeps its first value: `scan` gives a file scanners of
either mode, which have nothing in common but the buffers they read, and a
behaviour follows one of them.  `ModeOf` is what `ChunkLog` may know of it.
Positions are absolute as in the code; `p` is the index in the buffer.  `p1` and
`p2` are the swapped buffers, and the previous contents of a short buffer stay
in it.  A checksum *is* the sequence of bytes hashed, so SHA-1 is collision free.
The fingerprint is a table `Kind` from windows to what the two divisor tests
say: the arithmetic does not matter to the properties, the window does, and
that the fingerprint depends on nothing else is `Rabin`'s subject.
Offsets fit 64 bits and are not bounded.

**Rabin.**  A word is the polynomial of its bits, the set of their exponents;
exclusive or is the symmetric difference.  `octet`, `shifts` and `ringing` are `i`, `j` and
`f` of `rabin_init`, and `phase` is where it is.  `Ring` is one turn of the inner loop
of either table, `StoreOld` and `StoreNew` end an entry; the order of the entries
is left open, since none depends on another.  `rabin_slide8` is the function of
that name; the assembler makes the same assignments (it takes the upper half of
the register that carries the byte for zero).  The memory of a new state holds
anything before `rabin_reset`.  `StartAgain` is `varScan` at a boundary.  Sizes
are constants, 8, 63 and the window size in the code.

**CdsGen.**  `merged` is a partial function: the buckets whose ranking is in the
directory.  `MergeBucket` writes `merge.NNN`, `SaveCds` copies its top and
closes it; in between the file is open, and a kill may cut it (`Crash`).  A
ranking is any order by count, as `std::sort` leaves ties.  The product of a
threshold and a count is exact here and a double in the code; thresholds above
one, which read past the ranking, are excluded by `ThresholdsAssumption`.  A CDS file that
cannot be opened ends the run (`CannotStart`); whether a `merge.NNN` could be opened the code does not
ask, and here it always is.

**Snapshot, CdsSim, CdsLru, SimLru.**  `pc` is the phase of the main loop: load
two segments, tag (levels 1 and 2), level 3 block by block, write.  A run may be
killed at any step; then any prefix of the output is on disk.  A trace is the
sequence of its complete records; tags are sets of bits (`file_id` bits 0 to 3).
`BinarySearch` does what the library does on an unsorted vector too.  The
programs take their records from headers in which the class `Block` is
commented out in favour of `trace_types.h`, and the `Makefile` builds only
`eb_segment` and `eb_dedup` at this commit; the simulators are modelled with the
record as it is there, which behaves the same.  Of the clock only the order of
readings counts, and two readings may be equal.  `CdsLru` saves to one file per
capacity.  `SimLru`'s vector is a bag: sorting it changes no content.  Its
`AddOverrun` is the write in front of the vector, after the first blocks by checksum have overwritten
all entries; the build may die there (`Kill`) or go on, so both are allowed.

**Analysis, SortLog, SimAnalysis.**  The programs read once from front to back
and keep nothing but counters, so they are operators on traces: `Report` the
counts of `dedup_analysis` by class, `HitLengths` what `cds_hit_analysis` writes.
`SortedLogs` is every order the library may leave, since `std::sort` is not stable.

**ExtremeBinning.**  `program` is the program that runs and how far it is.  `StoreSegment` is a turn
of `eb_segment`'s loop, `ReadSegment` one of `eb_dedup`'s first loop, and `PrintBins` all of
its second.  `opened` are the files that `eb_segment` could open in this
run; it does not look, and writing to another does nothing.  `finished` and
`killed` are histories, per file, of the logs.  A file that was never opened is
reported on as an empty one.  A file is a sequence of segments with the number of blocks
each claims; a segment is torn when it has fewer.  `LeftOf` is what a kill may
leave of a file.  Behind a tear nothing marks where a segment begins (`aligned` is
false then): the torn segment is filled up with the bytes that follow, and what comes next is
read as a number of blocks, be it half of an offset.  If there are not as many, reading
ends (`EndOfFile`); else the program has a segment of any blocks of `Garbage`, or of none,
sorts it into a bin and reads on (`ReadMisread`), perhaps from the start of a
segment again, and then rightly.  The smallest checksum of a segment without blocks is what the
memory reserved for its blocks holds, any at all.  `misread` counts such segments up
to the bound `MaxMisread`.
That records of one checksum have one size, unless it is zero, is `SizeAssumption`; misread
bytes need not obey it.
Counters of a bin wrap at `CounterSize` (2^32), the summary does not.

**DirScan.**  The recursion is `stack`, the entries still to visit in each
directory on the way to `path`; a step of `pc` is a call or a branch of `scan`:
`open` (retry, give up, directory or file), `file` (the four early returns),
`scan`, `save`, `flush`.  An entry is `locked` (a directory that cannot be read),
`other` (neither file nor directory), `absent`, `dir` or `file`; that a file's
size was read and its content cannot be is `readable`.  `Change` stands for other
programs and may come between any two steps; a block carries the global `file_id`
at the time it is written (scanner.cpp, `addBlock`).  A record and a block are
written whole.  The path of a block is history: the log has only the number.
`Readers` are the file systems the program was built for; for any other, and for
a key-value file, `scan` returns (`NoReader`).  Where `LocalFSReader` asks what a
path is, `PanguReader` goes by whether it ends in `/` (`slash`): the path given to
the program may lack it, and what was a file when its directory was listed may be
a directory since.  It also notices that a file cannot be opened, and tries again.

**Merge.**  `release` tells the two source files apart where they differ
(`LoadNext`, `LoadPastEnd`, `Counter`, the output).  Node `k` of the tree is
`tree[k]`, as in the code; `init_tree`'s recursion is a function on nodes, and
`adjust_tree`'s loop the iteration of one match.  `Init` picks sorted logs, as
`dedup_sort` writes them, and there is at least one (`LogsAssumption`): with none the
program reads the winner of no stream.  `LoadPastEnd` is the access behind
the arrays: the run dies of it, or goes on with the streams as they are.  A
write that hits other data of the program and lets it go on with that is undefined behaviour
that is left out; in none of its outcomes does the code advance the winner's stream.  A buffer is the sequence of its remaining records.  Counters wrap at `CounterSize`
(2^64).  Like the simulators, both files use a record of an earlier header and
are not in the `Makefile`'s list of programs.

## Runs

| run | property | bounds |
|---|---|---|
| `scan_file` | `IInv`, `CutsAreTTTD`, `DataRestoresLog`, `OnlyATailIsLost`, `ImplementsChunkLog`, `EveryStepAdvances`, `Terminates` | buffer 4, a scanner of blocks 2 to 4 with boundary 5 or one of fixed blocks of 3; all files to 6 bytes of three values, to 9 of two, periodic ones to 19 |
| `rabin` | `RabinTypeOK`, `IndicesInRange`, `ImplementsSlidingWindow` | bytes of 2 bits, words of degree 3, window of 3, every polynomial to degree 3 |
| `cds_gen` | `GeneratedIsTop`, `DamageIsConfined`, `LeftoversAreForever` | 5 contents in 2 buckets, lists to 3 inputs, 3 runs |
| `cds_sim` | `TagsAreRight`, `OutputIsSnapshot`, `NoFalseDuplicates`, `ReportIsTrue`, `HitLengthsAreRuns`, `SortingIsHarmless` | all traces to 3 records of sizes 0 to 2, aligned ones to 3 segments, 3 CDS files |
| `cds_lru` | `CapacityIsKept`, `RecentIsCached`, `OtherIsCached`, `ImplementsCdsSim` | capacities 1 to 3 with half evicted, 2 runs, 5 contents, 4 clock readings |
| `sim_lru` | `SizeIsKept`, `LruFindsMore`, `LruFindsOnlyParents` | cache sizes 1 and 3, segments of 1 and 2 blocks, 3 segments |
| `eb_bins` | `BinsAreBySimilarity`, `SummaryIsSumOfBins`, `SummaryAndFiles` | 2 files, any of which opens, 2 runs of 5 logs, counters to 8, 2 segments misread as any of 3 |
| `dir_scan` | `BlocksFindTheirFile`, `OnlyTheLastLacksBlocks`, `LimitsAreKept`, `EachPathOnce`, `Terminates` | 5 paths in 2 levels, 20 trees, 7 sets of options, one retry, 2 blocks a file, one change |
| `merge` | `WinnerIsLeast`, `HistogramIsRight`, `OldReleaseAdvances`, `OldReleaseEnds` | one stream of 2 blocks, 2 streams of 3, 3 streams of 2 with 4 in all; thresholds 1, 2 and none; buffers of 2, 3 counters, one failed read a stream |
| `scan_tail` | `RemainingDataAdded` violated | as `scan_file`, files to 4, no boundary, every read full |
| `cds_reuse` | `ReuseIsRegeneration` violated | as `cds_gen` |
| `merge_new` | `CompleteDeduplication` violated | as `merge`, with equal logs, threshold 2, every read good |

Why the bounds are enough.  *Scanner:* the buffer equals the largest block, so
blocks span at most two buffers, as they do in the code, where the buffer is far
larger; 5 and 4 have no common divisor, so the boundary takes every position in
a buffer, and 19 bytes take five buffers, so each buffer becomes the previous
one more than once; 3 does not divide 4, so fixScan has a short block in every
buffer.  Kinds depend on two bytes, and over all files every sequence of kinds
occurs.  *Rabin:* a byte
of two bits and a window of three are shifted out of a word of four bits more than
once, so every entry of the old table is reduced on its way; the buffer comes
round again and again, as the run has no bound on the bytes; polynomials that are
not of degree 3 are those `rabin_init` refuses.  *CdsGen:* three runs are generate, damage and reuse, in any order; two
buckets are one complete and one damaged.  *CdsSim:* drifting, an empty record
at each place and one trace ending first need three records.  *CdsLru:* with
three contents in the CDS more than the least capacity, and at least two that
were used at one reading, an eviction has a choice; the second run starts from a
file of the first, or of another capacity.  The capacity 1 has no tenth: it is
the run that dies (`Overrun`).  *SimLru:* size 3 with segments of two blocks
discards one entry and later overwrites two; size 1 is smaller than a segment.
*ExtremeBinning:* the second run appends to what the first left, and 8 is passed
by a bin of both runs; with two files each may be closed in one run and open in
the other.  Of two misread segments the first can be the torn one and the second empty, and the third read
rightly again, or be in the file of either run.  *DirScan:* two levels and two entries in each are a
directory before, behind and inside another; a change can take away, add or
replace anything at any step; with three limits of at most one, four large files
pass each of them.  *Merge:* three streams are the least that leave a match in
the tree between two losers, logs of three do not fit a buffer of two, and one
content in three has size zero, which comes first, between or last in a log.

Deadlock is checked for the scanner, whose end is the stuttering `Done`.  The
other systems stop when they have no run left (`CHECK_DEADLOCK FALSE`).

**Fairness.**  Three properties that hold need it: `Terminates` of the scanner and
`OldReleaseEnds` under `WF_vars(Next)` (so does `CompleteDeduplication`, which is violated with it), and `Terminates` of the walk under
`WF_vars(Walk)`, which asks nothing of the other programs and of the kill.  Each
program is one thread that waits for nothing but a read or a sleep, so it takes
its next step while it has one.  Everything else is safety and assumes none:
also that the scanner and the old release never go round, which
`EveryStepAdvances` and `OldReleaseAdvances` say with a number of steps left that
every step makes smaller.


## What the violated runs show

* `scan_tail`: `eof` is set by a short read only.  When the file ends with a full
  buffer, the next read returns 0 and the loop ends without another `addData`;
  what follows the last break is in no block, although scanner.cpp:112 says that
  remaining data is added at the end of the file.  `OnlyATailIsLost` is what does
  hold: less than `Tmax` bytes, and none after a short read.
* `cds_reuse`: a run killed while the last `merge.NNN` is open leaves it short;
  the next run finds the directory, copies and reports success.
  `DamageIsConfined` is what does hold: only the last bucket can be short.
* `merge_new`: from the second block on `dedup_merge` loads from stream `i`, which is the number of
  streams by then, so no stream is advanced, and it reads and writes behind its arrays.  If it
  survives that, it counts its first block for ever; what occurs as often as the threshold is not
  written, although dedup_merge.cpp:37-38 promises complete deduplication and just these blocks.
  The previous release loads from the winner, and `HistogramIsRight` and `OldReleaseEnds` hold of it.

Met on the way, and not made a run of their own: the CDS is written by count, and
`dedup_cds_sim` assumes it sorted (`NoFalseDuplicates` is what remains true of a
CDS in any order, and `SortingIsHarmless` that `dedup_sort` in between repairs it);
blocks found in a CDS cache are of no class in the report of `dedup_analysis`,
not even if the parent has them (`OtherIsCached`); `cds_hit_analysis` does not write
hits that reach the end of the trace (`HitLengthsAreRuns`); the summary of
`eb_segment` counts segments whose file did not open (`SummaryAndFiles`); with
a threshold of one or less `dedup_merge` writes the block of size zero that stands before
the first; its counter of blocks that occur once wraps below zero when there is
nothing to count.  The number in a block is one less than in the record of its
file, since `save_file` counts up after the blocks were logged
(`BlocksFindTheirFile`), so the blocks of the first file carry the zero that the
simulators take for a new block; when `logname.file` does not open, all blocks
carry it.  `-n` ends the recording and not the walk; a file that does not open
has a record with its size and no blocks.  A CDS cache of capacity below ten evicts
`lru_size / 10`, which is zero, and then runs off its map (`Overrun` in `CdsLru`,
though lru_cache.hpp:68 says that ten per cent are removed); a segment cache
smaller than a segment writes in front of its vector (`AddOverrun` in `SimLru`,
though lru_cache.hpp:37 says that all blocks are added).  fixScan writes no data file
(`ModeOf` has `keep_data` only for a scanner of variable size blocks); the totals
printed by `~Scanner` start from uninitialised members (`Indeterminate`); the
usage texts of `dedup_cds_sim` and `dedup_sim` promise an LRU at level 2 that only
`dedup_sim_lru` has; the saved CDS cache is found by capacity alone, so with
another CDS it yields hits that CDS does not contain (`ImplementsCdsSim` is
checked with one CDS, and says so); `eb_segment` appends to a file torn by a kill,
and what it then writes is misread, with empty segments in a bin of no checksum in particular (`BinsAreBySimilarity` asks for `Intact`);
`Bin` counts bytes in 32 bits.

## Proofs

`tlapm` checks every proof; each theorem holds for all values of the constants
that satisfy the named assumptions of the module.

**Data** (`DataTheorems`).  Much of what these programs compute is a walk over data: a
fold over a log, a recursive function on the length of what is searched, a loop.  The
library's induction theorems take an operator, which no installed prover can
instantiate, but well-founded induction can be stated of sets: `LeastNat` (a set of
numbers that is not empty has a least one), and from it `UpToIsInductive` and
`SeqIsInductive` (a set that holds the base and is closed under the step holds
everything).  `RecursionExists` and `IterationExists` then say that a function defined
by recursion exists and satisfies its equation, where the recursion is a function
`H[<<f, x>>]` that depends on `f` below `x` only; and `FoldExists` that `FoldLeft`, which
the community module defines with a recursive function, is the last of the results of
its steps.  `SumsAddUp` does the same for `SumFunction`, which picks the order of its
summands: a sum over a finite set has what it takes to be split, bounded and
added to (`SumOfParts`, `SumOfOneMore`, `SumOfSums`).  A use of a fold is a lemma of two or three steps: give its step as a
function, take the steps' results from `FoldExists`, and show of the set of positions
where they are as claimed that it is inductive.

**Scanner** (`ScannerProofs`), from `FilesAssumption`, `ModeAssumption`,
`SizesAssumption`, `FingerprintAssumption`:
`TypeCorrect`, `Invariance` (`Spec => []IInv`), `TailOnly`
(`OnlyATailIsLost`) and `Implementation` (`Spec => ImplementsChunkLog`).  The
refinement is not inductive by itself: that `AddBreakpoint` hashes the bytes of
the file needs to know that the buffers hold the file where the pending block
lies (`BuffersHold`), hence how far the loop has read (`ReadProgress`), that a
block reaches back at most one buffer (it is shorter than `Tmax`, `PendingBlock`,
and `Tmax` is at most `READ_BUFFER_SIZE`), and that no boundary lies inside it;
that it stores new content only needs `datamap` to mirror the data file
(`DataMapMatches`).  `IInv` is the conjunction, checked by TLC in
`scan_file`.  Each action has a lemma that proves `IInv'` and the abstract step
together, since both follow from the same facts; `BlockBytesInFile` is the
heart: whatever way the block is split between the buffers, its bytes are those
of the file.

`LogIsRestorable` (`DataRestoresLog`) is shown of the steps of `ChunkLog`, where a
block is stored if and only if no stored one has its checksum, and holds of the
scan because each of its steps is one of those.

`CutsFollowTheRule` (`CutsAreTTTD`) needs to know where the data ends, which the scan learns
only when a read comes up short.  `CutInv` therefore says more than the
property: every logged block is where the rule puts it *for every* end from where the scan
stands to `DataEnd`, so that a short read, which moves the end, leaves it true.  `NoCutYet`
says of the pending block that none of its bytes is a main breakpoint and that `backup` is
the last of its backup ones or none, and `WindowIs` that the window holds what the rule
reads at the byte before, of the same segment only.  `RuleMain`, `RuleLimit` and
`RuleBackup` are the three ways in which the rule ends a block; each action of the scan
that logs one cites one of them.

`ScanAdvances` (`EveryStepAdvances`): a file of `n` bytes takes at most `4n + 1` steps.  `Remaining`
counts four for each byte not yet read and two for each in the buffer, one to come to a
boundary and one to pass it (`RemainingIs`); what is read moves from the one to the other.  It needs
`IInv` for `ReadProgress`: no more is read than there is.  With it, `Terminates` asks no more than
that a step is possible until the scan is done, and is taken.

**Rabin** (`ScannerProofs`), from `WordsAssumption` and `PolynomialsAssumption`:
`RabinTypes` (`RabinTypeOK`), `RabinIndices` (`IndicesInRange`), `FingerprintIsRemainder` and
`RabinSlides` (`ImplementsSlidingWindow`).  `FingerprintIsRemainder` says that the fingerprint, a word without its most significant bit, differs from the
polynomial of the window by a multiple of `poly`, for every size of bytes, words and
window and every polynomial.  Products and divisors would need induction over
polynomials; the proof asks of the multiples only what it uses: any set `I` with the
empty word that is closed under exclusive or and multiplication by powers and
contains `poly` (`IsIdeal`) will do, and the multiples of `poly` are one.  Each entry
of a table differs by a member of `I` from the byte it stands for, moved to where it
leaves; `PolynomialSlides` says how the window's polynomial changes when the oldest
byte goes and the newest comes, and `UpdateIsXor` that shift, union and clearing the
bit make the same change to the fingerprint.

`SlidingWindow`'s hash is the remainder `CHOOSE` picks, so the refinement needs that there is
one only.  The products of `poly` with all words are an ideal too (`MultiplesAreIdeal`), now with a
quotient in hand; in a product of words that are not empty the highest exponents add up
(`DegreesAdd`), so a multiple of `poly` that is smaller than `poly` is empty (`SmallMultiple`).  Two
remainders of one polynomial differ by such a multiple, so there is one (`RemainderIs`).  The fingerprint
is thus *the* remainder of the window (`FingerprintIs`), and each step of `rabin_slide8` is one of
`SlidingWindow` (`HashedStep`).

**DirScan** (`DirScanProofs`), from `PathsAssumption` (the paths are a finite tree),
`NodesAssumption` and `ArgsAssumption`:

* `BlocksFindFiles` (`BlocksFindTheirFile`) and `OnlyTheLastFileIsHurt`
  (`OnlyTheLastLacksBlocks`).  `NumberInv` ties the numbers together: record `k`
  carries `k`, `file_id` is the number of records, and one more than a block's number is
  the record of its file, or the next to be written while its file is at hand or the
  run was killed with it.  `CountInv` adds how many blocks each file has, and that those
  not yet flushed are of the file at hand, which is why a kill can hurt no other.
* `LimitsKept` (`LimitsAreKept`).  `LimitInv` says what the two counters of `main` mean
  at each step: how many of the large files met so far were skipped and saved, the one
  at hand counted or not according to how far it got.
* `EveryPathOnce` (`EachPathOnce`).  That no path is dealt with twice rests on
  `WaitingApart` in `OnceInv`: no two entries that wait on the stack lie above one
  another, and none lies above or below what was met; a directory is replaced by its
  entries, which are apart from whatever it was apart from.  That none is missed, if
  nothing changes the tree, is `NoneLost`: every entry that can be reached was met,
  waits, or lies below one that waits.  The proof does not go through when Pangu
  is given a file with a `/` at its end or a directory without one: it is then taken
  for the other, and `EachPathOnce` asks that the argument fits (`ArgumentFits`).

Nothing is asked of the tree, of the changes to it or of the number of paths but that
it is finite.


**CdsGen** (`CdsGenProofs`), from `BucketsAssumption`, `ListsAssumption` and
`ThresholdsAssumption`: `LeftoversStay` (`LeftoversAreForever`, an action property),
`GeneratedTop` (`GeneratedIsTop`) and `DamageConfined` (`DamageIsConfined`).
`RankedSoFar` says that a run that makes the directory ranks its buckets in order and
misses none, so a directory that lacks one is left by a run that stopped; `Leftover` is
then kept by every step of every later run, as none of them writes a ranking.  What the
rankings and the CDS contain is `GenInv`: `Splitting` (the buffer of each bucket holds
each content as often as the inputs read so far, none of another bucket, and none that
is not new), `Rankings` (each ranking is one of the inputs of the run that wrote
it: every content once, with its count, the larger counts first; the last one ranked may
be a beginning of it, if that run was killed), `Written` (for every
bucket copied so far, the CDS has the beginning that the threshold asks for, or of a
short ranking all there is) and `Origin` (whose
inputs the directory stems from).  `TopOfRanking` is the heart of it: any beginning of
a ranking is a most frequent share, however ties were broken.

**CdsSim** (`CdsSimProofs`), from `SegmentSizeAssumption` and `InputsAssumption` (traces,
parents and CDS files are sequences of records): `NothingIsLost` (`OutputIsSnapshot`),
`DuplicatesAreReal` (`NoFalseDuplicates`), `ReportTrue` (`ReportIsTrue`),
`EveryTagIsRight` (`TagsAreRight`), `SortingHarmless` (`SortingIsHarmless`) and
`HitLengthsRight` (`HitLengthsAreRuns`).  `OutputInv`
says that output, segment at hand and what is still to be read make up the
snapshot, which needs that a segment and the rest are the trace (`SegmentAndAfter`), that
empty records are left out piece by piece as they are at once (`NonEmptyOfConcat`), and
that each of the levels changes tags only (`TagsRetag`).  `TagInv` says that each tag in
the output, and each set so far in the segment, is true; a parent's segment has only
contents of the parent, and `BinarySearchIsSound` says that what `std::binary_search` finds
is there, in whatever order.  That the classes of the report add up
(`ClassesAddUp`) is an induction over the trace; that none is of no class
(`StagedTags`) asks which tags each phase can set.

`EveryTagIsRight` is about the order of reading: a segment is what one loop took from a
trace, the right tag is said of all blocks of a range of the disk.  Its `RightInv` says
that between two segments both traces are read up to the same range (`Between`; one
that has ended is read up to any later one), and that the segments at hand are that
range of each trace (`AtHandIsRange`).  A segment that begins at the first byte of a range
takes no more records than it needs to reach the segment size (`RecordsToSize`), and as
the trace is aligned, the last of them does not straddle the boundary; so it ends where
the range ends, unless the trace ends before (`SegmentEndsRange`), and it holds what the whole trace has
in the range and nothing else (`SegmentIsRange`).  For the tag of the CDS, what
`std::binary_search` finds is there in any CDS, and `BinarySearchIsComplete` says that in
a sorted one it finds all that is there.

`SortingHarmless` is about inputs that `dedup_sort` has rearranged.  Two arrangements of one
log with rising offsets need not be equal, since an empty record has the offset of the one after
it; that they are equal without their empty records is `RisingAreEqual`, and that the segments of a
trace do not depend on its empty records is `SameSegments`: a segment may end before or after
some of them, but always with the same block.  For the search, a sorted arrangement
has the contents of the log and is `Sorted` (`SortedByCksum`).

`HitLengthsRight` joins two programs that read a trace in different ways.  `CountIsRight` says what the
two counters of `cds_hit_analysis` mean after some blocks: `hit_len` is the length of the row of
hits that reaches the last of them, and `output` has the lengths of the rows that ended
before, from front to back.  A hit and a miss keep it (`CountOfHit`, `CountOfMiss`), hence a segment
does (`CountOfSegment`), hence all segments, which together are the
trace (`CountOfSegments`).  Of the simulator `SearchesRight` says that level 3 has set its bit
exactly where the same search finds the block, sorted CDS or not; with
`OutputIsSnapshot` the rows of hits are then the rows of tags.

**CdsLru** (`CacheProofs`), from `CacheAssumption` (sizes and times are numbers),
`TenthAssumption` (what is evicted at once) and the assumptions of `CdsSim`: `Capacity`
(`CapacityIsKept`), `Recency` (`RecentIsCached`), `CacheIsTransparent`
(`ImplementsCdsSim`) and `CachedAreOther` (`OtherIsCached`).  `Capacity` counts: an entry
is added to at most `capacity`, and an eviction of at least one makes room; what
is saved is a part of the cache.  Its invariant adds that cache and files are
finite.  `Recency` needs to say of evicted blocks what the property says of
present ones: `GoneAreOld`, for every block met and no longer cached there are
more than `capacity - Evicted` others used since.  An eviction establishes it
for those it takes, because it takes the oldest and leaves that many; later uses
only add to the set.  Neither theorem asks that the clock moves.  The
refinement has its mapping in `WithoutMark` (a hit of the cache becomes one of the CDS),
and one invariant: what is cached, or saved in a file, is found by
`std::binary_search` in the CDS (`CachedIsInCds`).  That needs the hypothesis `OneCds`, all
CDS files being equal, and is false without: a saved cache is found by its capacity
alone.  The steps correspond one to one, except that what the cache does to itself is
no step of `CdsSim`.

**SimLru** (`CacheProofs`), from `CacheAssumption` and the assumptions of `CdsSim`: `CacheSize`
(`SizeIsKept`), `CacheFindsMore` (`LruFindsMore`) and `CacheFindsOnlyParents`
(`LruFindsOnlyParents`).  A content may be in the vector many times and any of the oldest
entries may go, so its size is a sum over a bag; the lemmas on sums of `DataTheorems`
say that adding a segment adds its length (`NewEntries`, `DiscardAndAdd`) and that a hit
leaves size and contents as they were (`Renewal`).  Four invariants, each with the one before
in it:

* `SizeInv`: what is left to read of the parent is the rest of its trace after some
  record, and if every segment of the parent fits, so does each that is still to
  come (`FitFrom`).  `Segments`, which speaks of the trace as a whole, has to be unrolled for
  that, one segment for each read (`SegmentsExist`, `FitFromTheNext`).
* `AlignedInv`: as `RightInv` above, that the segments at hand are the same range of the two
  traces.  In addition a parent that was exhausted stays so (`NothingAfterTheLast`):
  this program clears `has_parent` then, and the others go on asking.
* `MoreInv`: while a segment is searched, all the contents of the parent's segment at hand are in the
  cache, as what is added is not discarded before the next segment; so each block searched has
  at least the tag it is due (`HasLevels`, then `HasTags`).
* `OnlyInv`: everything cached is in the part of the parent read so far
  (`SearchedBefore`), which only grows (`ReadMore`), also after `AddOverrun`; and a block
  with `IN_PARENT` and no more is in a segment that is the parent's, because level 2
  always sets both bits of `IN_DIRTY_SEG`.

**Merge** (`MergeProofs`), from `LogsAssumption` (at least one stream; a buffer
holds a block), `CountersAssumption` and `ContentAssumption` (blocks of one checksum are of
one size, unless it is zero): `WinnerLeast` (`WinnerIsLeast`) and `HistogramRight` (`HistogramIsRight`).  The tree holds only losers, so that
`IsLoserTree` is an invariant has to be said with the winners it does not hold: there is
an assignment `W` of a stream to every node, the leaves their own, such that at each
inner node one of the two children's winners is the node's and the other, no smaller, is in
the tree (`Games`).  It follows that every stream is at its leaf or lost
once (`LoserTreeHoldsAll`) and that the root's is least (`UpTheTree`).  `adjust_tree`
changes the winners on the way from the winner's leaf to the root; that every node on
this way, and no other, has that winner (`PathOfWinner`) is why the rounds, of
which each compares with one loser only, play all matches that could come out
otherwise (`Replayed`, `ReplayGoesOn`).

`HistogramRight` is about all the records of all the logs, and about a program that sees one
record of each.  `HistInv` says of the old release that there is a number of records `tk[w]`
taken from each stream `w`, such that

* the next block of `w` is the record after them, or the stream is at its end, for good, and
  what was read of it and not yet taken is in the buffer (`Streaming`): a short
  read is the end of the file unless it failed, and a record of size zero
  hides what is behind it;
* no record taken is greater than one that was not (`InOrder`): this is what
  `WinnerIsLeast` is for, with the logs being sorted;
* of what was taken, the block counted last is the greatest, `dup_count` is how often it occurs,
  and the counters are the histogram of all the others (`Counting`, `InCounters`).

Equal blocks are therefore counted together: a block that differs from the last one is
greater than all that were taken (`MayFollow`), so the last one will not come again
(`CountIsEnded`, `CountBegins`).  Counters are sums over a class of blocks that
is given by how often each occurs, modulo `CounterSize`; one block more is one more in its class
(`HistogramWithBlock`).  The block that stands before the first one, of size zero and
counted once, adds one to `blk_count[1]`, which `Finish` takes back, whether or not a
block has come after it: hence the wrong counter of the property when there is nothing to
count.  A block that occurs `CounterSize` times would come out in another class; the property
says nothing then.

`OldReleaseGoesOn` (`OldReleaseAdvances`): the old release takes at most a step for each log, two for
each record and five more.  `StepsLeft` sums over the streams what is not yet read, what is in the buffer
and the next block.  A block that is loaded comes from one of these, or there is none
(`LoadBlockTakes`), and one was counted before, of size other than zero (`CountedIsABlock`); so
the sum is less in one stream and the same in all others (`SumOfLess`).

**ExtremeBinning** (`ExtremeBinningProofs`), from `BinningAssumption` (logs and garbage are
sequences of records), `SizeAssumption` and that of the segment size:
`FilesHaveSegments` (`SummaryAndFiles`), `SummaryAgreesWithBins` (`SummaryIsSumOfBins`) and
`BinsBySimilarity` (`BinsAreBySimilarity`), for any number of runs and kills.

* `WrittenInv`, of one run of `eb_segment`: what each file got is `OfFile` of some segments,
  and these with what is left are the segments of the log.  The log is read by a loop and `Segments` is
  recursive, so one has to be unrolled for each turn of the other (`SegmentsUnfold`).
* `ReadInv`, of `eb_dedup`: the summary is the sum over the bins of what their lists have, and
  a bin is given a whole segment at a time (`BinSumsGrow`), right, misread or empty, and whichever bin that is.  That sorting a list and passing over it
  once counts what is in it (`DeduplicationIsRight`) goes insertion by insertion:
  each puts the block where the list stays sorted (`InsertedSorted`) and loses none (`InsertedRange`);
  in a sorted list a block is new if and only if it differs from the one before it
  (`NewAmongSorted`).  Sums of remainders are right but for a multiple of the size of a
  counter (`SumOfRemainders`), whatever wrapped on the way.
* `FilesInv`, over all runs: segments of killed runs may be missing, and which ones is not
  known; so a file is not a sequence one could name.  It is compared by *weights*: for every way of giving
  numbers to segments (`Weight`), the file weighs as much as all that the ended runs have for it, and at most
  as much as these and the killed ones.  One such weight counts the copies of one segment,
  others the segments, blocks and bytes of one bin (`BinWeights`).  While a run writes,
  what it has yet to write is added (`WillBeInBounds`), so that a kill, which takes
  back no more than the run wrote, leaves the file within its bounds (`FilesKill`).  All this is said of
  files that are not torn, and a file that is torn stays so.
* `BinsInv`: such a file is read from segment to segment and never astray; each bin holds what the segments
  read so far weigh for it, and their contents (`BinsHold`).

From these, `BinOf` of the logs, an expression on sets and choices, is what the weights say
(`BinOfIs`), and a bin that fits its counters has not wrapped (`FittingBinIs`).

**Model-checked only.**  Liveness (`Terminates` of the scanner and of the walk,
`OldReleaseEnds`) is out of the prover's reach: `ENABLED` and the rules for fairness are.  That
nothing goes round for ever is proved of the scanner and of the old release, as said above;
of the walk, whose way through the tree others change, only that no path is dealt with twice.
All the safety properties that passing runs check are proved.

## Not modelled

Logging and formats of printed lines; superseded headers.  Of Pangu, its file types
and the login; there is no such file system here.  The bytes of a record, so a
trace is the sequence of its complete records.  Failures of single writes, that a
`merge.NNN` of the CDS generator cannot be opened, and torn
records of `DirScan` and `Merge`.  `BatchAddItem` of the CDS cache, which no program
calls.  The totals of `dedup_merge` that nothing prints.

## Plan

All programs are modelled, each with what it hands to the next, and all the safety properties
are proved.  What is left is depth:

1. Failures of single writes, in the programs that look at them and in those that do
   not.
2. A number of steps left for the walk, as the scanner and the merge have.
