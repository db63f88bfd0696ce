--------------------------- MODULE SlidingWindow ---------------------------
(***************************************************************************)
(* What a rolling fingerprint promises: after every byte it is the hash of *)
(* the last WindowSize bytes and of nothing else, as if they were hashed   *)
(* from the start.  Nothing here rolls: no byte is ever taken out, and     *)
(* there is no table, no circular buffer and no previous hash.             *)
(***************************************************************************)
EXTENDS Integers

CONSTANTS
  Byte,         \* what a byte can be
  Zero,         \* the byte an empty window is filled with
  WindowSize,   \* bytes in the window
  Keys,         \* what selects a hash function
  Hash(_, _)    \* Hash(key, window)

VARIABLES
  key,
  window,       \* the last bytes, the oldest first
  hash

vars == <<key, window, hash>>

EmptyWindow == [i \in 1 .. WindowSize |-> Zero]
Slide(w, b) == [i \in 1 .. WindowSize |-> IF i < WindowSize THEN w[i + 1] ELSE b]

IsHashed == hash = Hash(key, window)

Init == key \in Keys /\ window = EmptyWindow /\ IsHashed

Push(b) == window' = Slide(window, b) /\ IsHashed' /\ UNCHANGED key

Restart == window' = EmptyWindow /\ IsHashed' /\ UNCHANGED key

Next == Restart \/ \E b \in Byte : Push(b)

Spec == Init /\ [][Next]_vars

=============================================================================
