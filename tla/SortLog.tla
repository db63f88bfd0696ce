------------------------------ MODULE SortLog ------------------------------
(***************************************************************************)
(* dedup_sort.cpp: a log is read, sorted by checksum, or with -r by        *)
(* offset, and written.  std::sort is not stable: records that are equal   *)
(* to its comparison come in any order.                                    *)
(***************************************************************************)
EXTENDS Trace

\* Mutant: -r is not looked at.
BeforeByCksum(b1, b2, sort_by_offset) == b1.cksum < b2.cksum

\* Block::operator<, or compare_by_offset.
Before(b1, b2, sort_by_offset) ==
  IF sort_by_offset THEN b1.offset < b2.offset ELSE b1.cksum < b2.cksum

\* What may be written.
SortedLogs(log, sort_by_offset) ==
  {[k \in DOMAIN log |-> log[order[k]]] :
     order \in {o \in SetToSeqs(DOMAIN log) :
                  \A j, k \in DOMAIN o : j < k => ~Before(log[o[k]], log[o[j]], sort_by_offset)}}

=============================================================================
