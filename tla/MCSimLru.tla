------------------------------ MODULE MCSimLru ------------------------------
(***************************************************************************)
(* Instances of SimLru for TLC: aligned traces of up to three segments of  *)
(* two units, with contents of one unit and one of two.                    *)
(***************************************************************************)
EXTENDS SimLru

sizeOf == [c \in 1 .. 4 |-> IF c = 4 THEN 2 ELSE 1]

Log(cs) ==
  [k \in DOMAIN cs |->
     [cksum |-> cs[k], size |-> sizeOf[cs[k]], file_id |-> {},
      offset |-> MapThenSumSet(LAMBDA j : sizeOf[cs[j]], 1 .. k - 1)]]

ParentRanges == {<<1, 2>>, <<1, 1>>, <<4>>}

MCParents == {Log(r \o s \o t) : r, s \in ParentRanges, t \in {<<>>, <<3>>}}

MCSnapshots ==
  {Log(r \o s \o t) : r \in {<<1, 2>>, <<3, 1>>}, s \in {<<2, 1>>, <<4>>}, t \in {<<1>>, <<3, 1>>}}

MCCds == {Log(<<1, 3>>)}

=============================================================================
