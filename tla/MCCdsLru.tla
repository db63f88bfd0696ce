------------------------------ MODULE MCCdsLru ------------------------------
(***************************************************************************)
(* Instances of CdsLru for TLC: snapshots of blocks of size one, so that   *)
(* which contents follow one another is all there is to choose.            *)
(***************************************************************************)
EXTENDS CdsLru, SimAnalysis

Blk(c) == [cksum |-> c, size |-> 1, file_id |-> {}, offset |-> 0]

Log(cs) == [k \in DOMAIN cs |-> Blk(cs[k])]

\* Content 5 is not in the CDS.
MCTraces ==
  {Log(<<1>> \o cs) : cs \in [1 .. 2 -> {1, 2, 3, 5}]}
    \union {Log(<<1, 2, 1, 3, 2>>), Log(<<2, 3, 1, 4, 3>>)}

MCParents == {Log(<<3, 1, 5>>)}

MCCds == {Log(<<1, 2, 3, 4>>)}

=============================================================================
