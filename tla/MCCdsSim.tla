------------------------------ MODULE MCCdsSim ------------------------------
(***************************************************************************)
(* Instances of CdsSim for TLC.  A content has one size: 1 and 2 are one   *)
(* unit long, 3 is two, 0 stands for a record of size zero.  Segments are  *)
(* two units.                                                              *)
(***************************************************************************)
EXTENDS SimAnalysis

CONSTANTS MaxBlocks    \* bound: records in a trace

sizeOf == [c \in 0 .. 3 |-> CASE c = 0 -> 0 [] c = 3 -> 2 [] OTHER -> 1]

Log(cs) ==
  [k \in DOMAIN cs |->
     [cksum |-> cs[k], size |-> sizeOf[cs[k]], file_id |-> {},
      offset |-> MapThenSumSet(LAMBDA j : sizeOf[cs[j]], 1 .. k - 1)]]

AllTraces == {Log(cs) : cs \in UNION {[1 .. n -> 0 .. 3] : n \in 0 .. MaxBlocks}}

\* Contiguous logs with no block across a boundary, over three ranges.
AlignedTraces ==
  LET ranges == {<<1, 1>>, <<1, 2>>, <<2, 1>>, <<3>>}
      last   == {<<>>, <<1>>, <<2>>}
  IN  {Log(r \o s \o t) : r \in ranges, s \in ranges \union {<<>>}, t \in last}
        \union {Log(t) : t \in last}

Cds(cs) == [k \in DOMAIN cs |-> [cksum |-> cs[k], size |-> sizeOf[cs[k]], file_id |-> {}, offset |-> 0]]

MCTraces == AllTraces \union AlignedTraces

\* Two that are sorted, and one that is not.
MCCds == {<<>>, Cds(<<1, 3>>), Cds(<<3, 1, 2>>)}

=============================================================================
