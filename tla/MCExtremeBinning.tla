-------------------------- MODULE MCExtremeBinning --------------------------
(***************************************************************************)
(* Instances of ExtremeBinning for TLC: logs of up to three segments of    *)
(* about two units over four contents, one of them of two units.           *)
(***************************************************************************)
EXTENDS ExtremeBinning

sizeOf == [c \in 0 .. 4 |-> IF c = 4 THEN 2 ELSE 1]

Log(cs) ==
  [k \in DOMAIN cs |->
     [cksum |-> cs[k], size |-> IF k = 3 THEN 0 ELSE sizeOf[cs[k]], file_id |-> {}, offset |-> k]]

\* The third record of every log is empty.
MCLogs ==
  {Log(<<1, 2, 1, 2, 1, 3>>), Log(<<2, 4, 3, 3, 3>>), Log(<<1, 3, 1, 4, 2, 1>>), Log(<<3, 4>>), Log(<<>>)}

MCMiddle == [c \in 0 .. 4 |-> (3 * c) % 7]

MCGarbage == {Log(<<>>), Log(<<0>>), Log(<<4, 2>>)}

=============================================================================
