------------------------------ MODULE MCCdsGen ------------------------------
(***************************************************************************)
(* Instances of CdsGen for TLC: two buckets of two and three contents,     *)
(* inputs with ties, with contents of one and of several copies, with      *)
(* tagged duplicates, with an input that cannot be read and with "end".    *)
(***************************************************************************)
EXTENDS CdsGen

MCCksum == 0 .. 4
MCFirstByte == [c \in MCCksum |-> IF c < 3 THEN 0 ELSE 1]

new(c) == [cksum |-> c, file_id |-> 0]
dup(c) == [cksum |-> c, file_id |-> 1]

one == <<new(2), new(1), new(4), new(2), dup(1), dup(1)>>
two == <<new(3), new(4), new(0), new(1), new(3)>>

MCLists ==
  {<<>>, <<one, two>>, <<two>>, <<one, End, two>>, <<one, Unreadable, two>>}

=============================================================================
