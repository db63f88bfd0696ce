---------------------------- MODULE SimAnalysis ----------------------------
(***************************************************************************)
(* A simulation and the programs around it: what the analysis programs say *)
(* of it, against the traces that went into it; and the sorting of logs    *)
(* before.                                                                 *)
(***************************************************************************)
EXTENDS CdsSim, Analysis, SortLog

report == Report(output)
Total(f(_)) == f("new") + f("L1") + f("L2") + f("L3") + f("other")

\* The report is true of the simulation, also of a killed one as far as its
\* output goes, and of traces that are not aligned and a CDS in any order:
\* the classes add up to what was written, no block is of another class, and
\* with the parent and the CDS, what is new is all that must be stored.
ReportIsTrue ==
  /\ Total(LAMBDA c : report[c].blocks) = Len(output)
  /\ Total(LAMBDA c : report[c].data) = TotalSize(output)
  /\ OfClass(output, "other") = <<>>
  /\ Contents(OfClass(output, "L1")) \subseteq Contents(ParentTrace)
  /\ Contents(OfClass(output, "L2")) \subseteq Contents(ParentTrace)
  /\ Contents(OfClass(output, "L3")) \subseteq Contents(cds)
  /\ pc = "done" => Contents(NonEmpty(snapshot)) \subseteq
       Contents(OfClass(output, "new")) \union Contents(ParentTrace) \union Contents(cds)

\* Where hits in a row begin and end in the output, but for those that reach
\* its end.
HitRuns ==
  {r \in (DOMAIN output) \X (DOMAIN output) :
     /\ r[1] <= r[2] /\ r[2] # Len(output)
     /\ \A k \in r[1] .. r[2] : 1 \in output[k].file_id
     /\ r[1] = 1 \/ 1 \notin output[r[1] - 1].file_id
     /\ 1 \notin output[r[2] + 1].file_id}

RunsInOrder ==
  {order \in SetToSeqs(HitRuns) : \A j, k \in DOMAIN order : j < k => order[j][1] < order[k][1]}

\* cds_hit_analysis, which reads the snapshot by itself, agrees with what the
\* simulator tagged: the lengths are those of the hits in a row, across the
\* segments and in their order.  Hits that reach the end are missing.
HitLengthsAreRuns ==
  pc = "done" =>
    \E order \in RunsInOrder :
      HitLengths(snapshot, cds) = [k \in DOMAIN order |-> order[k][2] - order[k][1] + 1]

\* Of a simulation with a cache the report hides what the cache found: those
\* blocks, and no others, are of no class, also where the parent has them.
\* So each of the other classes can only be smaller than without a cache.
OtherIsCached ==
  \A k \in DOMAIN output :
    LET tag == output[k].file_id
    IN  IF 3 \in tag THEN ClassOf(tag) = "other" /\ ClassOf(tag \ {3}) \in {"L1", "L2", "L3"}
                     ELSE ClassOf(tag) # "other"

IsContiguous(trace) == \A k \in DOMAIN trace : trace[k].offset = TotalSize(SubSeq(trace, 1, k - 1))

\* Logs may be sorted on their way to a simulator.  A log that was sorted by
\* checksum, and then by offset, has its segments back, although empty records
\* share their offset with the record after them and may change place with it;
\* and in a CDS sorted by checksum the search finds what is there.
SortingIsHarmless ==
  pc = "load" /\ current_input = snapshot /\ parent = NoParent =>
    /\ IsContiguous(snapshot) =>
         \A s \in SortedLogs(snapshot, FALSE) : \A r \in SortedLogs(s, TRUE) : Segments(r) = Segments(snapshot)
    /\ \A s \in SortedLogs(cds, FALSE), c \in Contents(snapshot \o cds) :
         BinarySearch(s, c) <=> c \in Contents(cds)

=============================================================================
