----------------------------- MODULE TimedCache -----------------------------
(***************************************************************************)
(* What LruCache and CdsLruCache of lru_cache.cpp have in common: each run *)
(* has one of a size it is given, and every entry carries the time of its  *)
(* last use.                                                               *)
(*                                                                         *)
(* Of the clock only the order of its readings matters: a reading may be   *)
(* the one before or a later one (microseconds are long for this program). *)
(***************************************************************************)
EXTENDS Integers

CONSTANTS
  Capacities,    \* the sizes a run may be given
  MaxClock       \* bound: readings of the clock in one run

ASSUME CacheAssumption == Capacities \subseteq Nat /\ MaxClock \in Nat \ {0}

VARIABLES
  capacity,      \* argument: the size of the cache
  cache,         \* the entries and when they were last used
  clock          \* the last reading of the clock

Readings == {t \in {clock, clock + 1} : t <= MaxClock}

=============================================================================
