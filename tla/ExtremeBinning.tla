--------------------------- MODULE ExtremeBinning ---------------------------
(***************************************************************************)
(* eb_segment.cpp and eb_dedup.cpp with the classes Segment and Bin.       *)
(* eb_segment cuts a log into segments and appends each to one of NFiles   *)
(* files, chosen by the segment's smallest checksum.  eb_dedup takes one   *)
(* of these files, puts the segments of equal smallest checksum into one   *)
(* bin, and deduplicates inside each bin.                                  *)
(*                                                                         *)
(* The files outlive the runs.  A run of eb_segment may be killed: of what *)
(* it wrote to each file any first part may then be there, and a segment   *)
(* may be torn.  A file may also fail to open, which eb_segment does not   *)
(* look at.  Checksums are numbers, in the order of memcmp.                *)
(***************************************************************************)
EXTENDS Trace, FiniteSets

CONSTANTS
  NFiles,          \* 256 in the code
  Logs,            \* the logs eb_segment may be given
  Middle4Bytes,    \* of each checksum
  CounterSize,     \* 2^32: counters of a bin wrap there
  Garbage,         \* blocks that misread bytes may look like, one sequence a segment
  MaxStarted,      \* bound: runs of eb_segment
  MaxMisread       \* bound: segments that eb_dedup misreads

ASSUME BinningAssumption ==
  /\ NFiles \in Nat \ {0} /\ CounterSize \in Nat \ {0}
  /\ Logs \subseteq Seq(Block) /\ Garbage \subseteq Seq(Block)
  /\ Middle4Bytes \in [DOMAIN Middle4Bytes -> Nat]
  /\ \A s \in Logs : Contents(s) \subseteq DOMAIN Middle4Bytes

\* Records of the same content are of the same size, if of any.
ASSUME SizeAssumption ==
  \A s, t \in Logs : \A j \in DOMAIN s, k \in DOMAIN t :
    s[j].cksum = t[k].cksum /\ s[j].size # 0 /\ t[k].size # 0 => s[j].size = t[k].size

VARIABLES
  program,     \* "idle", "segment" (in eb_segment), "read" or "bins" (in eb_dedup)
  started,     \* runs of eb_segment
  log, is,     \* eb_segment: its log, and what is left of it
  files,       \* the files: sequences of segments, each led by its number of blocks
  opened,      \* the files that did open; the others are written in vain
  start,       \* how long each file was when the run opened it
  part, rest,  \* eb_dedup: the number of its file, and what is left of it
  aligned,     \* does it read at the start of the first segment left?
  misread,     \* how many segments were misread
  binmap,      \* the bins, by their smallest checksum
  blocks, bytes,   \* what the program that runs has read: its summary
  printed,     \* what has been printed about each file since it last changed
  finished,    \* history: segments of the logs of runs that opened each file and ended
  killed       \* history: of those that opened it and were killed

segmentVars == <<started, log, is, files, opened, start, finished, killed>>
dedupVars   == <<part, rest, aligned, misread, binmap>>
summary     == <<blocks, bytes>>
binningVars == <<program, segmentVars, dedupVars, summary, printed>>

FileNumbers == 0 .. NFiles - 1

BinningInit ==
  /\ program = "idle" /\ started = 0
  /\ log = <<>> /\ is = <<>>
  /\ files = [p \in FileNumbers |-> <<>>] /\ start = [p \in FileNumbers |-> 0]
  /\ opened = {}
  /\ part = 0 /\ rest = <<>> /\ aligned = TRUE /\ misread = 0 /\ binmap = <<>>
  /\ blocks = 0 /\ bytes = 0
  /\ printed = <<>>
  /\ finished = [p \in FileNumbers |-> <<>>] /\ killed = [p \in FileNumbers |-> <<>>]

\* The least checksum of a segment.
GetMinHash(seg) == Min(Contents(seg))

\* Mutant: the file is chosen by the first checksum.
FileOfFirst(seg) == Middle4Bytes[seg[1].cksum] % NFiles

FileOf(seg) == Middle4Bytes[GetMinHash(seg)] % NFiles

-----------------------------------------------------------------------------
(* eb_segment *)

\* No log, no segments: a log that does not open is an empty one.
OpenLog ==
  /\ program = "idle" /\ started < MaxStarted
  /\ started' = started + 1
  /\ log' \in Logs /\ is' = log'
  /\ opened' \in SUBSET FileNumbers
  /\ start' = [p \in FileNumbers |-> Len(files[p])]
  /\ blocks' = 0 /\ bytes' = 0
  /\ printed' = <<>>
  /\ program' = "segment"
  /\ UNCHANGED <<files, finished, killed, dedupVars>>

\* Mutant: what cannot be written goes to the first file that is open.
AppendSomewhere(p, item) ==
  [q \in FileNumbers |->
     IF q = (IF p \in opened THEN p ELSE Min(opened \union {p})) /\ q \in opened
       THEN Append(files[q], item) ELSE files[q]]

\* Seg.ToStream on a stream that is not open writes nothing and says nothing.
AppendTo(p, item) ==
  [q \in FileNumbers |-> IF q = p /\ p \in opened THEN Append(files[q], item) ELSE files[q]]

\* The summary counts every segment, written or not.
StoreSegment ==
  /\ program = "segment"
  /\ LET seg == SegmentBlocks(is)
     IN  /\ seg # <<>>
         /\ files' = AppendTo(FileOf(seg), [num_blocks |-> Len(seg), blocks |-> seg])
         /\ blocks' = blocks + Len(seg)
         /\ bytes' = bytes + TotalSize(seg)
  /\ is' = AfterSegment(is)
  /\ UNCHANGED <<program, started, log, opened, start, finished, killed, dedupVars, printed>>

\* A run is among those of the files it opened.
Ended(history) ==
  [p \in FileNumbers |-> IF p \in opened THEN history[p] \o Segments(log) ELSE history[p]]

CloseLog ==
  /\ program = "segment"
  /\ SegmentBlocks(is) = <<>>
  /\ is' = <<>>
  /\ finished' = Ended(finished)
  /\ opened' = {}
  /\ program' = "idle"
  /\ UNCHANGED <<started, log, files, start, killed, dedupVars, summary, printed>>

Torn(item) == Len(item.blocks) < item.num_blocks

\* A first part of a file, of whose last segment the j-th block and those
\* after it are missing.
TornAt(file, k, j) == [SubSeq(file, 1, k) EXCEPT ![k].blocks = SubSeq(@, 1, j - 1)]

\* What may be left of a file whose first n segments were there before.
LeftOf(file, n) ==
  LET whole == {SubSeq(file, 1, k) : k \in n .. Len(file)}
      torn  == UNION {{TornAt(file, k, j) : j \in DOMAIN file[k].blocks} : k \in n + 1 .. Len(file)}
  IN  whole \union torn

KillSegmenting ==
  /\ program = "segment"
  /\ files' \in {f \in [FileNumbers -> UNION {LeftOf(files[p], start[p]) : p \in FileNumbers}] :
                   \A p \in FileNumbers : f[p] \in LeftOf(files[p], start[p])}
  /\ killed' = Ended(killed)
  /\ opened' = {}
  /\ program' = "idle"
  /\ UNCHANGED <<started, log, is, start, finished, dedupVars, summary, printed>>

-----------------------------------------------------------------------------
(* eb_dedup *)

\* A file that no run has opened is not there; of it nothing is reported, as
\* of one that is empty.
OpenFile ==
  /\ program = "idle" /\ started > 0
  /\ part' \in FileNumbers \ DOMAIN printed
  /\ rest' = files[part'] /\ aligned' = TRUE
  /\ binmap' = <<>>
  /\ blocks' = 0 /\ bytes' = 0
  /\ program' = "read"
  /\ UNCHANGED <<segmentVars, misread, printed>>

Plus(m, n) == (m + n) % CounterSize

\* Mutant: a bin takes the blocks of its last segment only.
AddToBinInstead(bins, m, seg) ==
  [h \in DOMAIN bins \union {m} |->
     IF h # m THEN bins[h]
     ELSE [num_segments |-> IF m \in DOMAIN bins THEN Plus(bins[m].num_segments, 1) ELSE Plus(0, 1),
           blocklist    |-> seg]]

\* binmap[m].AddSegment(seg)
AddToBin(bins, m, seg) ==
  [h \in DOMAIN bins \union {m} |->
     IF h # m THEN bins[h]
     ELSE IF m \in DOMAIN bins
       THEN [num_segments |-> Plus(bins[m].num_segments, 1), blocklist |-> bins[m].blocklist \o seg]
       ELSE [num_segments |-> Plus(0, 1), blocklist |-> seg]]

ReadSegment ==
  /\ program = "read" /\ aligned /\ rest # <<>> /\ ~Torn(Head(rest))
  /\ LET seg == Head(rest).blocks
     IN  /\ binmap' = AddToBin(binmap, GetMinHash(seg), seg)
         /\ blocks' = blocks + Len(seg) /\ bytes' = bytes + TotalSize(seg)
  /\ rest' = Tail(rest)
  /\ UNCHANGED <<program, segmentVars, part, aligned, misread, printed>>

\* What is read is not a segment: it begins with one that is torn, or amid
\* one.
Astray == IF aligned THEN Len(rest) > 1 /\ Torn(Head(rest)) ELSE rest # <<>>

\* Behind what there is of a torn segment, misread bytes look like anything.
\* The number of blocks may be misread, too, and be zero.
LooksLike == {(IF aligned THEN Head(rest).blocks ELSE <<>>) \o seg : seg \in Garbage}

\* The first block of no blocks is what the memory reserved for it holds.
MinHashesOf(seg) == IF seg = <<>> THEN DOMAIN Middle4Bytes ELSE {GetMinHash(seg)}

\* Any number of segments is used up by it, the torn one at least.  It may
\* come to the start of the next one by chance, if it has gone past one.
ReadMisread ==
  /\ program = "read" /\ misread < MaxMisread /\ Astray
  /\ \E seg \in LooksLike :
       /\ \E m \in MinHashesOf(seg) : binmap' = AddToBin(binmap, m, seg)
       /\ blocks' = blocks + Len(seg) /\ bytes' = bytes + TotalSize(seg)
  /\ LET least == IF aligned THEN 1 ELSE 0
     IN  \E n \in least .. Len(rest) :
           /\ rest' = SubSeq(rest, n + 1, Len(rest))
           /\ aligned' \in {FALSE, n > least}
  /\ misread' = misread + 1
  /\ UNCHANGED <<program, segmentVars, part, printed>>

\* Nothing is left, or less than the next number of blocks asks for.
EndOfFile ==
  /\ program = "read" /\ (aligned /\ rest # <<>> => Torn(Head(rest)))
  /\ rest' = <<>>
  /\ program' = "bins"
  /\ UNCHANGED <<segmentVars, part, aligned, misread, binmap, summary, printed>>

EmptyBin == [num_blocks |-> 0, size |-> 0, num_dedup_blocks |-> 0, dedup_size |-> 0]

\* Mutant: the blocks are compared as they come.
AsTheyCome(blocklist, behind) == blocklist

\* std::sort is not stable: each block may come in front of those that equal
\* it, or behind them.
SortedBlocks(blocklist, behind) ==
  LET Before(sorted, blk) ==
        {k \in DOMAIN sorted : IF behind THEN sorted[k].cksum <= blk.cksum ELSE sorted[k].cksum < blk.cksum}
  IN  FoldLeft(LAMBDA sorted, blk : InsertAt(sorted, Cardinality(Before(sorted, blk)) + 1, blk), <<>>, blocklist)

\* One pass over the sorted blocks: those that equal the one before are
\* duplicates.
Deduplication(blocklist, behind) ==
  LET sorted == SortedBlocks(blocklist, behind)
      Counted(bin, k) ==
        LET blk == sorted[k]
            new == k = 1 \/ sorted[k - 1].cksum # blk.cksum
        IN  [num_blocks       |-> Plus(bin.num_blocks, 1),
             size             |-> Plus(bin.size, blk.size),
             num_dedup_blocks |-> IF new THEN Plus(bin.num_dedup_blocks, 1) ELSE bin.num_dedup_blocks,
             dedup_size       |-> IF new THEN Plus(bin.dedup_size, blk.size) ELSE bin.dedup_size]
  IN  FoldLeft(Counted, EmptyBin, [k \in DOMAIN sorted |-> k])

PrintBins ==
  /\ program = "bins"
  /\ \E behind \in BOOLEAN :
       printed' = [p \in DOMAIN printed \union {part} |->
         IF p # part THEN printed[p]
         ELSE [blocks |-> blocks, bytes |-> bytes,
               segments |-> [m \in DOMAIN binmap |-> binmap[m].num_segments],
               bins  |-> [m \in DOMAIN binmap |-> Deduplication(binmap[m].blocklist, behind)]]]
  /\ program' = "idle"
  /\ UNCHANGED <<segmentVars, dedupVars, summary>>

BinningNext ==
  \/ OpenLog \/ StoreSegment \/ CloseLog \/ KillSegmenting
  \/ OpenFile \/ ReadSegment \/ ReadMisread \/ EndOfFile \/ PrintBins

BinningSpec == BinningInit /\ [][BinningNext]_binningVars

-----------------------------------------------------------------------------
(* What the bins should hold, said of the segments of the logs alone *)

\* Where the segments are that have the smallest checksum m.
Similar(segs, m) == {k \in DOMAIN segs : GetMinHash(segs[k]) = m}

SizeOfContent(segs, c) == (CHOOSE blk \in UNION {Range(segs[k]) : k \in DOMAIN segs} : blk.cksum = c).size

\* Their bin: all they hold, and one of each content.
BinOf(segs, m) ==
  LET contents == UNION {Contents(segs[k]) : k \in Similar(segs, m)}
  IN  [num_blocks       |-> SumFunction([k \in Similar(segs, m) |-> Len(segs[k])]),
       size             |-> SumFunction([k \in Similar(segs, m) |-> TotalSize(segs[k])]),
       num_dedup_blocks |-> Cardinality(contents),
       dedup_size       |-> SumFunction([c \in contents |-> SizeOfContent(segs, c)])]

AtMost(bin1, bin2) == \A f \in DOMAIN bin1 : bin1[f] <= bin2[f]

Intact(p) == \A k \in DOMAIN files[p] : ~Torn(files[p][k])

MinHashes(segs) == {GetMinHash(segs[k]) : k \in DOMAIN segs}

\* The smallest checksums that lead to a file.
HashesOf(p) == {m \in DOMAIN Middle4Bytes : Middle4Bytes[m] % NFiles = p}

\* All the segments of one smallest checksum, whichever logs they came from
\* and however often these were run, are in one bin, and the bins of all the
\* files are the bins of all the logs.  Of a run that was killed some
\* segments may be missing; of the others none is, as long as the file was
\* opened and is not torn.  The counts are right for what a counter can
\* count.
BinsAreBySimilarity ==
  \A p \in DOMAIN printed : Intact(p) =>
    LET bins == printed[p].bins
        sure == finished[p]
        all  == sure \o killed[p]
    IN  /\ MinHashes(sure) \intersect HashesOf(p) \subseteq DOMAIN bins
        /\ DOMAIN bins \subseteq MinHashes(all) \intersect HashesOf(p)
        /\ \A m \in DOMAIN bins :
             BinOf(all, m).size < CounterSize =>
               /\ Cardinality(Similar(sure, m)) <= printed[p].segments[m]
               /\ printed[p].segments[m] <= Cardinality(Similar(all, m))
               /\ AtMost(BinOf(sure, m), bins[m])
               /\ AtMost(bins[m], BinOf(all, m))

\* The summary of a file and the bins printed after it come from counters of
\* different widths, the one counting what is read, the others what has been
\* sorted into bins.  Whatever is read of a file, be it misread behind a torn
\* segment, empty, or put into a bin by the checksum of no block, they agree
\* but for the wraps of the bins' counters, and where there are none, no bin
\* has more new bytes than bytes.
SummaryIsSumOfBins ==
  \A p \in DOMAIN printed :
    LET bins == printed[p].bins
    IN  /\ printed[p].bytes % CounterSize =
             SumFunction([m \in DOMAIN bins |-> bins[m].size]) % CounterSize
        /\ printed[p].blocks % CounterSize =
             SumFunction([m \in DOMAIN bins |-> bins[m].num_blocks]) % CounterSize
        /\ printed[p].bytes < CounterSize =>
             \A m \in DOMAIN bins : bins[m].dedup_size <= bins[m].size

SegmentsRead == SubSeq(Segments(log), 1, Len(Segments(log)) - Len(Segments(is)))

\* Those of some segments that belong into file p, in order.
OfFile(segs, p) ==
  FoldLeft(LAMBDA kept, seg : IF FileOf(seg) = p THEN Append(kept, seg) ELSE kept, <<>>, segs)

WrittenTo(p) ==
  LET items == SubSeq(files[p], start[p] + 1, Len(files[p]))
  IN  [k \in DOMAIN items |-> items[k].blocks]

\* The trace summary of eb_segment promises more than the files hold: it is
\* that of the log, while the files have, in order, the segments whose file
\* opened, each in its own file and no other.  What a file that did not open
\* should have had is the difference, and nothing else.
SummaryAndFiles ==
  program = "segment" =>
    /\ blocks = Len(NonEmpty(log)) - Len(NonEmpty(is))
    /\ bytes = TotalSize(log) - TotalSize(is)
    /\ \A p \in FileNumbers :
         WrittenTo(p) = IF p \in opened THEN OfFile(SegmentsRead, p) ELSE <<>>

=============================================================================
