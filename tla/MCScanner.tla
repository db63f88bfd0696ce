----------------------------- MODULE MCScanner -----------------------------
(***************************************************************************)
(* Instances of Scanner for TLC.  Windows are two bytes and Kind depends   *)
(* on their sum, so over all files every sequence of breakpoint kinds      *)
(* occurs, and the kind at a byte depends on the byte before it.           *)
(***************************************************************************)
EXTENDS TTTD

CONSTANTS
  MaxShort,    \* bound: length of the files of arbitrary bytes
  MaxTwo,      \* bound: length of the files of two different bytes
  MaxLong      \* bound: length of the periodic files

MCByte == 0 .. 2
MCKind ==
  [w \in [1 .. 2 -> MCByte] |->
     CASE (w[1] + w[2]) % 3 = 0 -> "none"
       [] (w[1] + w[2]) % 3 = 1 -> "backup"
       [] OTHER                 -> "main"]

Sequences(S, max) == UNION {[1 .. n -> S] : n \in 0 .. max}

\* All files up to a length; over two bytes, up to a greater one, so that a
\* block can grow to Tmax after a boundary; and longer periodic ones, which
\* take several buffers.
MCFiles ==
  Sequences(MCByte, MaxShort) \union Sequences({0, 1}, MaxTwo)
    \union {[i \in 1 .. n |-> w[(i % 3) + 1]] : n \in 0 .. MaxLong, w \in [1 .. 3 -> MCByte]}

=============================================================================
