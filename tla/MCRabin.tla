------------------------------ MODULE MCRabin ------------------------------
(* Instances of Rabin for TLC: every polynomial of every degree up to
   Degree, those rabin_init refuses included. *)
EXTENDS Rabin

MCPolynomials == SUBSET (0 .. Degree) \ {{}}

=============================================================================
