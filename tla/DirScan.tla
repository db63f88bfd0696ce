------------------------------ MODULE DirScan ------------------------------
(***************************************************************************)
(* The directory scan of dedup_main.cpp (main, scan, save_file) over the   *)
(* readers of fs_reader.cpp: a depth-first walk that opens every entry,    *)
(* retries what cannot be opened, leaves out files by size and by number,  *)
(* and of every other file logs the blocks and then a record with the      *)
(* number that connects them.  What scanning one file does to the blocks   *)
(* is Scanner's; here they only carry the number.                          *)
(*                                                                         *)
(* LocalFSReader asks the file system what a path is; PanguReader goes by  *)
(* the last character of the name it was given.                            *)
(*                                                                         *)
(* Others change the file system meanwhile, and the run may be killed.     *)
(***************************************************************************)
EXTENDS Integers, SequencesExt, FiniteSets

CONSTANTS
  Paths,         \* sequences of names; <<>> is the path given to the program
  FileSystems,   \* the file systems a run may find
  Nodes,         \* what a path may become
  Args,          \* the options a run may be given
  Readers,       \* the file systems the program is built for
  MAX_RETRY,
  MaxBlocks,     \* bound: blocks a scanner makes of a file
  MaxChanges     \* bound: changes others make to the file system

ASSUME PathsAssumption ==
  /\ <<>> \in Paths
  /\ \A p \in Paths : p \in Seq(Range(p)) /\ \A n \in 0 .. Len(p) : SubSeq(p, 1, n) \in Paths
  /\ IsFiniteSet(Paths)

Node == [kind : {"absent", "dir", "locked", "other"}] \union [kind : {"file"}, size : Nat]

ASSUME NodesAssumption == FileSystems \subseteq [Paths -> Node] /\ Nodes \subseteq Node
ASSUME ArgsAssumption ==
  /\ \A a \in Args : /\ a.min_size \in Nat /\ a.scan_skip \in Int /\ a.scan_count \in Nat
                     /\ a.meta_only \in BOOLEAN /\ a.ft \in {"LOCAL", "PANGU", "KVFILE"}
                     /\ a.slash \in BOOLEAN  \* does the path given to Pangu end in '/'?
  /\ Readers \subseteq {"LOCAL", "PANGU"}
  /\ MAX_RETRY \in Nat /\ MaxBlocks \in Nat

VARIABLES
  fs,            \* the node at each path
  changes,       \* changes made to it
  args,          \* options
  opened,        \* is logname open?
  pc,            \* "open", "dir", "file", "scan", "save", "flush", "done" or "killed"
  stack,         \* the entries left in each directory on the way to path
  path,          \* the argument of scan
  slash,         \* does it end in '/'?
  nretry,
  size,          \* fr->size
  readable,      \* did fr open the file?
  scan_skip, file_id, total_files, total_size,
  filelog,       \* logname
  blocklog,      \* logname.mode: the number of each block; the path is history
  flushed,       \* how many of its blocks are on disk for sure
  met,           \* history: what became of each path
  counts         \* history: how many blocks each scanned file has

envVars  == <<fs, changes>>
argVars  == <<args, opened>>
readVars == <<path, slash, nretry, size, readable>>
sumVars  == <<file_id, total_files, total_size, filelog>>
logVars  == <<blocklog, flushed, counts>>
vars == <<envVars, argVars, pc, stack, readVars, scan_skip, sumVars, logVars, met>>

Stopped == pc \in {"done", "killed"}

Init ==
  /\ fs \in FileSystems /\ changes = 0
  /\ args \in Args /\ opened \in BOOLEAN
  /\ scan_skip = args.scan_skip
  /\ file_id = 0 /\ total_files = 0 /\ total_size = 0
  /\ filelog = <<>> /\ blocklog = <<>> /\ flushed = 0
  /\ pc = "open" /\ stack = <<>>
  /\ path = <<>> /\ slash = args.slash
  /\ nretry = MAX_RETRY /\ size = 0 /\ readable = FALSE
  /\ met = <<>> /\ counts = <<>>

\* Another program changes what is at a path.
Change ==
  /\ ~Stopped /\ changes < MaxChanges
  /\ \E p \in Paths, n \in Nodes : fs' = [fs EXCEPT ![p] = n]
  /\ changes' = changes + 1
  /\ UNCHANGED <<argVars, pc, stack, readVars, scan_skip, sumVars, logVars, met>>

\* Mutant: what returns ends the walk.
AfterScanDone == "done"

\* Where scan returns to.
AfterScan == IF stack = <<>> THEN "done" ELSE "dir"

\* scan is done with a path, one way or another.
Leave(outcome) ==
  /\ met' = Append(met, [name |-> path, outcome |-> outcome])
  /\ pc' = AfterScan

-----------------------------------------------------------------------------
(* open *)

\* A KVFILE, or PANGU where it is not built in.
NoReader ==
  /\ pc = "open" /\ args.ft \notin Readers
  /\ Leave("no reader")
  /\ UNCHANGED <<envVars, argVars, stack, readVars, scan_skip, sumVars, logVars>>

Opening == pc = "open" /\ args.ft \in Readers

\* A directory that can be listed, to a reader that takes the path for one.
IsDir  == fs[path].kind = "dir" /\ (args.ft = "PANGU" => slash)
IsFile == fs[path].kind = "file" /\ (args.ft = "PANGU" => ~slash)

CannotOpen == ~IsDir /\ ~IsFile

\* Mutant: the number of retries left is only looked at.
RetryForever ==
  /\ Opening /\ CannotOpen /\ nretry > 0
  /\ UNCHANGED vars

\* Not there, not to be read, neither file nor directory, or not what the name
\* says: try again after a while.
Retry ==
  /\ Opening /\ CannotOpen /\ nretry > 0
  /\ nretry' = nretry - 1
  /\ UNCHANGED <<envVars, argVars, pc, stack, path, slash, size, readable, scan_skip, sumVars, logVars, met>>

GiveUp ==
  /\ Opening /\ CannotOpen /\ nretry <= 0
  /\ Leave("given up")
  /\ UNCHANGED <<envVars, argVars, stack, readVars, scan_skip, sumVars, logVars>>

\* The name of a directory ends in '/' if Pangu lists it.
Entries(p) ==
  {[name |-> q, slash |-> args.ft = "PANGU" /\ fs[q].kind \in {"dir", "locked"}] :
     q \in {q \in Paths : q # <<>> /\ Front(q) = p /\ fs[q].kind # "absent"}}

\* A directory: all its entries are read at once, in any order.
OpenDir ==
  /\ Opening /\ IsDir
  /\ \E entities \in SetToSeqs(Entries(path)) : stack' = Append(stack, entities)
  /\ pc' = "dir"
  /\ UNCHANGED <<envVars, argVars, readVars, scan_skip, sumVars, logVars, met>>

\* A file: LocalFSReader does not notice that it cannot be opened for reading,
\* or is gone since its size was read; to PanguReader that is one more failure.
OpenFile ==
  /\ Opening /\ IsFile
  /\ size' = fs[path].size
  /\ readable' \in IF args.ft = "PANGU" THEN {TRUE} ELSE BOOLEAN
  /\ pc' = "file"
  /\ UNCHANGED <<envVars, argVars, stack, path, slash, nretry, scan_skip, sumVars, logVars, met>>

\* scan(path + "/" + name), or scan(path + name)
NextEntry ==
  /\ pc = "dir" /\ Last(stack) # <<>>
  /\ path' = Head(Last(stack)).name /\ slash' = Head(Last(stack)).slash
  /\ stack' = Append(Front(stack), Tail(Last(stack)))
  /\ nretry' = MAX_RETRY
  /\ pc' = "open"
  /\ UNCHANGED <<envVars, argVars, size, readable, scan_skip, sumVars, logVars, met>>

EndOfDir ==
  /\ pc = "dir" /\ Last(stack) = <<>>
  /\ stack' = Front(stack)
  /\ pc' = IF Front(stack) = <<>> THEN "done" ELSE "dir"
  /\ UNCHANGED <<envVars, argVars, readVars, scan_skip, sumVars, logVars, met>>

-----------------------------------------------------------------------------
(* A file *)

SkipSmall ==
  /\ pc = "file" /\ size < args.min_size
  /\ Leave("small")
  /\ UNCHANGED <<envVars, argVars, stack, readVars, scan_skip, sumVars, logVars>>

\* scan_skip goes down with every file that is large enough, also below zero.
CountDown ==
  /\ pc = "file" /\ size >= args.min_size
  /\ scan_skip' = scan_skip - 1

SkipFirst ==
  /\ CountDown /\ scan_skip > 0
  /\ Leave("skipped")
  /\ UNCHANGED <<envVars, argVars, stack, readVars, sumVars, logVars>>

\* Mutant: one file too many.
EnoughPassed == args.scan_count > 0 /\ total_files > args.scan_count

Enough == args.scan_count > 0 /\ total_files >= args.scan_count

SkipRest ==
  /\ CountDown /\ scan_skip <= 0 /\ Enough
  /\ Leave("over")
  /\ UNCHANGED <<envVars, argVars, stack, readVars, sumVars, logVars>>

\* Mutant: the record has the number of the blocks before it counts on.
SaveFileFirst ==
  /\ total_files' = total_files + 1
  /\ total_size' = total_size + size
  /\ file_id' = file_id + 1
  /\ filelog' = IF opened
                  THEN Append(filelog, [file_id |-> file_id, size |-> size, name |-> path])
                  ELSE filelog

\* save_file: without a log to write to, the number stays as it is.
SaveFile ==
  /\ total_files' = total_files + 1
  /\ total_size' = total_size + size
  /\ IF opened
       THEN /\ file_id' = file_id + 1
            /\ filelog' = Append(filelog, [file_id |-> file_id + 1, size |-> size, name |-> path])
       ELSE UNCHANGED <<file_id, filelog>>

MetaOnly ==
  /\ CountDown /\ scan_skip <= 0 /\ ~Enough /\ args.meta_only
  /\ SaveFile
  /\ Leave("saved")
  /\ UNCHANGED <<envVars, argVars, stack, readVars, logVars>>

StartScan ==
  /\ CountDown /\ scan_skip <= 0 /\ ~Enough /\ ~args.meta_only
  /\ pc' = "scan"
  /\ UNCHANGED <<envVars, argVars, stack, readVars, sumVars, logVars, met>>

\* All scanners are done with the file.  How many blocks there are depends on
\* its content, on when reading ends, and on what others do to it; there are
\* none of a file that did not open.
ScanBlocks ==
  /\ pc = "scan"
  /\ \E n \in IF readable THEN 0 .. MaxBlocks ELSE {0} :
       /\ blocklog' = blocklog \o [k \in 1 .. n |-> [file_id |-> file_id, name |-> path]]
       /\ counts' = Append(counts, n)
  /\ pc' = "save"
  /\ UNCHANGED <<envVars, argVars, stack, readVars, scan_skip, sumVars, flushed, met>>

\* The record is written, and flushed.
SaveRecord ==
  /\ pc = "save"
  /\ SaveFile
  /\ pc' = "flush"
  /\ UNCHANGED <<envVars, argVars, stack, readVars, scan_skip, logVars, met>>

\* Mutant: the blocks stay in the buffer of the stream.
FlushBlocksNot ==
  /\ pc = "flush"
  /\ Leave("saved")
  /\ UNCHANGED <<envVars, argVars, stack, readVars, scan_skip, sumVars, logVars>>

\* The scanners are deleted, and flush the blocks.
FlushBlocks ==
  /\ pc = "flush"
  /\ flushed' = Len(blocklog)
  /\ Leave("saved")
  /\ UNCHANGED <<envVars, argVars, stack, readVars, scan_skip, sumVars, blocklog, counts>>

-----------------------------------------------------------------------------

\* Of the blocks not flushed any first part is on disk.
Kill ==
  /\ ~Stopped
  /\ pc' = "killed"
  /\ \E n \in flushed .. Len(blocklog) : blocklog' = SubSeq(blocklog, 1, n)
  /\ UNCHANGED <<envVars, argVars, stack, readVars, scan_skip, sumVars, flushed, counts, met>>

Walk ==
  \/ NoReader \/ Retry \/ GiveUp \/ OpenDir \/ OpenFile \/ NextEntry \/ EndOfDir
  \/ SkipSmall \/ SkipFirst \/ SkipRest \/ MetaOnly
  \/ StartScan \/ ScanBlocks \/ SaveRecord \/ FlushBlocks

Next == Walk \/ Change \/ Kill

Spec == Init /\ [][Next]_vars

\* The walk is a single thread, and a sleep ends.
FairSpec == Spec /\ WF_vars(Walk)

-----------------------------------------------------------------------------

\* A block has the number one less than the record of its file: so the blocks
\* of the first file carry zero, and of no block is the file in doubt,
\* whatever is left out, given up or killed in between.
BlocksFindTheirFile ==
  opened =>
    /\ \A k \in DOMAIN filelog : filelog[k].file_id = k
    /\ \A k \in DOMAIN blocklog :
         LET n == blocklog[k].file_id + 1
         IN  \/ n \in DOMAIN filelog /\ filelog[n].name = blocklog[k].name
             \/ n = Len(filelog) + 1 /\ path = blocklog[k].name /\ pc \in {"save", "killed"}

BlocksOf(n) == {k \in DOMAIN blocklog : blocklog[k].file_id = n - 1}

\* A record is flushed before the blocks of its file are: a run that is killed
\* can leave one record whose blocks are not all there, and only the last.
OnlyTheLastLacksBlocks ==
  opened /\ ~args.meta_only =>
    \A n \in DOMAIN filelog :
      n < Len(filelog) \/ pc = "done" => Cardinality(BlocksOf(n)) = counts[n]

LargeUpTo(k) == Cardinality({j \in 1 .. k : met[j].outcome \in {"skipped", "saved", "over"}})

ToSkip == IF args.scan_skip > 0 THEN args.scan_skip ELSE 0

\* What becomes of the nth file that is large enough.
Outcome(n) ==
  IF n <= ToSkip THEN "skipped"
  ELSE IF args.scan_count = 0 \/ n <= ToSkip + args.scan_count THEN "saved"
  ELSE "over"

\* Of the files large enough, in the order they are met, the first scan_skip
\* are skipped, then scan_count are saved, if that is not zero, and no more:
\* the three limits do not get in one another's way.
LimitsAreKept ==
  \A k \in DOMAIN met :
    met[k].outcome \in {"skipped", "saved", "over"} => met[k].outcome = Outcome(LargeUpTo(k))

\* The paths that are no directories and whose every ancestor is one.
Leaves ==
  {p \in Paths : /\ fs[p].kind \notin {"dir", "absent"}
                 /\ \A n \in 0 .. Len(p) - 1 : fs[SubSeq(p, 1, n)].kind = "dir"}

\* Is there anything at the path given, and is it named for what it is?
ArgumentFits ==
  /\ fs[<<>>].kind # "absent"
  /\ args.ft = "PANGU" => args.slash = (fs[<<>>].kind \in {"dir", "locked"})

\* No path is dealt with twice, whatever changes under the walk; and if
\* nothing changes and there is a reader, none is forgotten.
EachPathOnce ==
  /\ \A j, k \in DOMAIN met : met[j].name = met[k].name => j = k
  /\ pc = "done" /\ changes = 0 /\ args.ft \in Readers /\ ArgumentFits =>
       {met[k].name : k \in DOMAIN met} = Leaves

\* Entries that cannot be opened are given up in the end.
Terminates == <>Stopped

=============================================================================
