------------------------------- MODULE Rabin -------------------------------
(***************************************************************************)
(* The rolling fingerprint of rabin.c.  A word is the polynomial over      *)
(* GF(2) of its bits, written as the set of its exponents: xor is the      *)
(* symmetric difference, a shift adds to every exponent.  rabin_init       *)
(* computes two tables, one shift per step here; rabin_slide8 then takes   *)
(* one byte at a time through a circular buffer that runs downwards.  The  *)
(* assembler of rabin_asm.S does the same, instruction for assignment.     *)
(*                                                                         *)
(* The fingerprint is to be the remainder of the polynomial of the window  *)
(* modulo poly.                                                            *)
(***************************************************************************)
EXTENDS Integers, FiniteSetsExt

CONSTANTS
  Bits,         \* bits in a byte: 8
  Degree,       \* the bit MSB64: 63
  size,         \* bytes in the window: RABIN_WINDOW_SIZE
  Polynomials   \* what rabin_init may be given as poly

Octet == SUBSET (0 .. Bits - 1)
Word == SUBSET (0 .. Degree)

\* What a word without its most significant bit can be.
Residue == SUBSET (0 .. Degree - 1)

ASSUME WordsAssumption ==
  /\ Bits \in Nat \ {0} /\ Degree \in Nat /\ Bits <= Degree
  /\ size \in Nat \ {0}
ASSUME PolynomialsAssumption == Polynomials \subseteq Word

VARIABLES
  poly,           \* the polynomial, of degree Degree
  phase,          \* "old", "new": filling a table; "ready"; "null": no state
  octet, shifts,  \* i and j of rabin_init: whose entry is at work, its shifts,
  ringing,        \* and f: its fingerprint so far
  old_ringing,    \* what a byte leaves behind that slides out of the window
  new_ringing,    \* what the bits leave behind that are shifted out of the word
  fingerprint,
  buf, bufptr     \* the circular buffer, and the place of its oldest byte

loopVars  == <<octet, shifts, ringing>>
tableVars == <<old_ringing, new_ringing>>
slideVars == <<fingerprint, buf, bufptr>>
rabinVars == <<poly, phase, loopVars, tableVars, slideVars>>

Places == 0 .. size - 1

-----------------------------------------------------------------------------
(* Words *)

Xor(a, b) == SymDiff(a, b)
Times(a, n) == {e + n : e \in a}
ShiftLeft(a, n) == Times(a, n) \intersect (0 .. Degree)
ShiftRight(a, n) == {e - n : e \in {x \in a : x >= n}}

\* Mutant: nothing is taken off when the bit comes out.
ShiftOnly(a) == ShiftLeft(a, 1) \ {Degree}

\* One shift, and the remainder of it.
ShiftAndReduce(a) ==
  LET shifted == ShiftLeft(a, 1)
  IN  IF Degree \in shifted THEN Xor(shifted, poly) ELSE shifted

-----------------------------------------------------------------------------
(* rabin_init *)

\* Mutant: the shifts of an old byte stop at its place in the window.
OldShiftsToPlace == (size - 1) * Bits

OldShifts == size * Bits

\* Where the byte begins that is shifted out of the word next.
TopByte == Degree - Bits

StartOld(b) == octet' = b /\ shifts' = 0 /\ ringing' = b
StartNew(b) == octet' = b /\ shifts' = 0 /\ ringing' = Times(b, TopByte)

\* Mutant: the window is emptied but the fingerprint stays.
rabin_resetKeeps ==
  /\ UNCHANGED fingerprint
  /\ bufptr' = 0
  /\ buf' = [n \in Places |-> {}]

rabin_reset ==
  /\ fingerprint' = {}
  /\ bufptr' = 0
  /\ buf' = [n \in Places |-> {}]

NoEntries == [b \in {} |-> {}]

\* Mutant: a polynomial that is not normalised is taken.
NormalizedAlways == TRUE

Normalized == Degree \in poly

\* Without memory, or with another polynomial, there is no state.
Begun == IF Normalized THEN {"old", "null"} ELSE {"null"}

\* The memory of a new state holds what was there before.
RabinInit ==
  /\ poly \in Polynomials
  /\ phase \in Begun
  /\ octet = {} /\ shifts = 0 /\ ringing = {}
  /\ old_ringing = NoEntries /\ new_ringing = NoEntries
  /\ fingerprint \in Residue /\ bufptr = 0 /\ buf = [n \in Places |-> {}]

\* The inner loop of either table.
Ring ==
  /\ \/ phase = "old" /\ shifts < OldShifts
     \/ phase = "new" /\ shifts < Bits
  /\ shifts' = shifts + 1
  /\ ringing' = ShiftAndReduce(ringing)
  /\ UNCHANGED <<poly, phase, octet, tableVars, slideVars>>

Set(table, b, w) == [c \in DOMAIN table \union {b} |-> IF c = b THEN w ELSE table[c]]

\* The entries do not depend on one another: the order they are taken in is
\* left open.
StoreOld ==
  /\ phase = "old" /\ shifts = OldShifts
  /\ old_ringing' = Set(old_ringing, octet, ringing)
  /\ \/ /\ \E b \in Octet \ DOMAIN old_ringing' : StartOld(b)
        /\ UNCHANGED phase
     \/ /\ DOMAIN old_ringing' = Octet
        /\ StartNew({})
        /\ phase' = "new"
  /\ UNCHANGED <<poly, new_ringing, slideVars>>

\* With the last entry the state is reset and returned.
StoreNew ==
  /\ phase = "new" /\ shifts = Bits
  /\ new_ringing' = Set(new_ringing, octet, ringing)
  /\ \/ /\ \E b \in Octet \ DOMAIN new_ringing' : StartNew(b)
        /\ UNCHANGED <<phase, slideVars>>
     \/ /\ DOMAIN new_ringing' = Octet
        /\ rabin_reset
        /\ phase' = "ready"
        /\ UNCHANGED loopVars
  /\ UNCHANGED <<poly, old_ringing>>

\* No memory, or a polynomial without its most significant bit.
NoState == phase = "null" /\ UNCHANGED rabinVars

-----------------------------------------------------------------------------
(* rabin_slide8 *)

\* Mutant: the pointer is put back to the beginning.
NextPlaceAtZero(n) == IF n - 1 < 0 THEN 0 ELSE n - 1

NextPlace(n) == IF n - 1 < 0 THEN n - 1 + size ELSE n - 1

\* The bits that the word loses next, as an index of new_ringing.
TopBits == ShiftRight(fingerprint, TopByte)

\* Mutant: the most significant bit is not cleared.
ClearNothing(w) == w

ClearMSB(w) == w \ {Degree}

rabin_slide8(m) ==
  /\ phase = "ready"
  /\ LET om       == buf[bufptr]
         residual == Xor(old_ringing[om], new_ringing[TopBits])
     IN  fingerprint' = ClearMSB(Xor(ShiftLeft(fingerprint, Bits) \union m, residual))
  /\ buf' = [buf EXCEPT ![bufptr] = m]
  /\ bufptr' = NextPlace(bufptr)
  /\ UNCHANGED <<poly, phase, loopVars, tableVars>>

\* varScan at a boundary: rabin_free, and another rabin_init.
StartAgain ==
  /\ phase = "ready"
  /\ phase' \in Begun
  /\ StartOld({})
  /\ old_ringing' = NoEntries /\ new_ringing' = NoEntries
  /\ UNCHANGED <<poly, slideVars>>

RabinNext ==
  \/ Ring \/ StoreOld \/ StoreNew \/ NoState
  \/ StartAgain \/ \E m \in Octet : rabin_slide8(m)

RabinSpec == RabinInit /\ [][RabinNext]_rabinVars

-----------------------------------------------------------------------------
(* What the fingerprint is to be *)

\* The byte that slides out next is at bufptr, the one after it below.
Window ==
  [k \in 1 .. size |-> LET n == bufptr - (k - 1) IN buf[IF n < 0 THEN n + size ELSE n]]

\* The polynomial of a window: the newest byte has the lowest exponents.
WindowPolynomial(w) == UNION {Times(w[k], Bits * (size - k)) : k \in 1 .. size}

\* The remainder, in the terms of the divisor's multiples: what is less than
\* poly and differs from the window by one of them.
Product(a, b) ==
  {e \in 0 .. Degree + size * Bits : Cardinality({d \in b : e - d \in a}) % 2 = 1}
MultiplesOf == [a \in Polynomials |-> {Product(a, b) : b \in SUBSET (0 .. size * Bits - 1)}]
Remainder(a, w) ==
  CHOOSE r \in Residue : Xor(r, WindowPolynomial(w)) \in MultiplesOf[a]

Ready == phase = "ready"
ZeroWindow == [k \in 1 .. size |-> {}]

\* However often the circular buffer has come round and whatever has been
\* added and taken out in that order, the fingerprint is the remainder of
\* the last bytes alone, and starting again forgets all of them.
SW == INSTANCE SlidingWindow WITH
        Byte <- Octet, Zero <- {}, WindowSize <- size, Keys <- Polynomials,
        Hash <- LAMBDA a, w : IF Degree \in a THEN Remainder(a, w) ELSE {},
        key <- poly,
        window <- IF Ready THEN Window ELSE ZeroWindow,
        hash <- IF Ready THEN fingerprint ELSE {}

ImplementsSlidingWindow == SW!Spec

RabinTypeOK ==
  /\ poly \in Polynomials
  /\ phase \in {"old", "new", "ready", "null"}
  /\ octet \in Octet /\ shifts \in Nat /\ ringing \in Residue
  /\ DOMAIN old_ringing \subseteq Octet /\ DOMAIN new_ringing \subseteq Octet
  /\ \A b \in DOMAIN old_ringing : old_ringing[b] \in Residue
  /\ \A b \in DOMAIN new_ringing : new_ringing[b] \in Residue
  /\ fingerprint \in Residue
  /\ buf \in [Places -> Octet]
  /\ bufptr \in Places

\* Every byte and every fingerprint has an entry in its table: no index is
\* past the end, and the pointer stays in the buffer.
IndicesInRange ==
  Ready => /\ DOMAIN old_ringing = Octet /\ DOMAIN new_ringing = Octet
           /\ TopBits \in Octet

=============================================================================
