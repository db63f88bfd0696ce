------------------------------ MODULE MCMerge ------------------------------
(***************************************************************************)
(* Instances of Merge for TLC: up to three streams, with logs longer than  *)
(* a buffer if there are two, and blocks one of which has size zero.       *)
(***************************************************************************)
EXTENDS Merge

MCBlocks == {[cksum |-> 1, size |-> 2], [cksum |-> 2, size |-> 0], [cksum |-> 3, size |-> 1]}

LogsUpTo(n) == BoundedSeq(MCBlocks, n)

MCLogs ==
  TupleOf(LogsUpTo(2), 1) \union TupleOf(LogsUpTo(3), 2)
    \union {t \in TupleOf(LogsUpTo(2), 3) : Len(t[1]) + Len(t[2]) + Len(t[3]) <= 4}

\* Two streams with the same one or two blocks, none of them of size zero.
MCSameLogs == {<<s, s>> : s \in BoundedSeq({b \in MCBlocks : b.size # 0}, 2) \ {<<>>}}

=============================================================================
