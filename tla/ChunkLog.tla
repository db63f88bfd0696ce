------------------------------ MODULE ChunkLog ------------------------------
(***************************************************************************)
(* What one scanner promises about one file: the scan log is the file cut  *)
(* front to back.  Every record names the next range of the file, carries  *)
(* the checksum of exactly those bytes, is no longer than the maximum      *)
(* block size and does not reach across a fixed boundary; the data file    *)
(* receives each distinct block content once, when it is first met.        *)
(*                                                                         *)
(* The specification says nothing about buffers, thresholds or read sizes: *)
(* those are how Scanner keeps this promise.                               *)
(*                                                                         *)
(* SHA-1 is modelled as collision free: a checksum IS the sequence of      *)
(* bytes that was hashed.                                                  *)
(***************************************************************************)
EXTENDS Integers, Sequences

CONSTANTS
  Files,        \* the files that may be scanned, each a sequence of bytes
  Modes         \* the ways to cut one: max_block, no block is longer; boundary, the
                \* size between fixed boundaries, 0 for none; keep_data, is block
                \* content saved to the data file?

VARIABLES
  file,         \* the file being scanned
  mode,         \* how it is cut
  log,          \* the scan log: a sequence of block records
  data          \* the data file: a sequence of block contents

vars == <<file, mode, log, data>>

\* The end of the last logged block: the first byte not logged yet.
LogEnd(l) == IF l = <<>> THEN 0 ELSE l[Len(l)].offset + l[Len(l)].size

IsBoundary(pos) == mode.boundary # 0 /\ pos # 0 /\ pos % mode.boundary = 0

Stored(d, cksum) == \E i \in 1 .. Len(d) : d[i].cksum = cksum

Init ==
  /\ file \in Files /\ mode \in Modes
  /\ log = <<>>
  /\ data = <<>>

\* The n bytes that follow the log become its next block.
LogBlock(n) ==
  LET from  == LogEnd(log)
      bytes == SubSeq(file, from + 1, from + n)
  IN  /\ from + n <= Len(file)
      /\ \A pos \in from + 1 .. from + n - 1 : ~IsBoundary(pos)
      /\ log' = Append(log, [offset |-> from, size |-> n, cksum |-> bytes])
      /\ data' = IF mode.keep_data /\ ~Stored(data, bytes)
                   THEN Append(data, [cksum |-> bytes, size |-> n])
                   ELSE data
      /\ UNCHANGED <<file, mode>>

Next == \E n \in 1 .. mode.max_block : LogBlock(n)

Spec == Init /\ [][Next]_vars

=============================================================================
