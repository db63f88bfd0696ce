---------------------------- MODULE DataTheorems ----------------------------
(***************************************************************************)
(* Induction and recursion over data, stated of sets and functions so that *)
(* they can be cited: the least number of a set, induction over a set of   *)
(* numbers, the existence of a function defined by recursion, and what the *)
(* folds, sums and minima of the community modules return.                 *)
(*                                                                         *)
(* All of it rests on NatLessThanWellFounded and WFMin of                  *)
(* WellFoundedInduction, which take sets and no operator.                  *)
(***************************************************************************)
EXTENDS Integers, SequencesExt, FiniteSetTheorems, SequenceTheorems, WellFoundedInduction, TLAPS

-----------------------------------------------------------------------------
(* Numbers *)

NatLess == {ss \in Nat \X Nat : ss[1] < ss[2]}

LEMMA NatLessWellFounded == IsWellFoundedOn(NatLess, Nat)
  BY NatLessThanWellFounded, Zenon DEF OpToRel, NatLess

\* A set of natural numbers has a least one.
LEMMA LeastNat ==
  ASSUME NEW T \in SUBSET Nat, T # {}
  PROVE  \E m \in T : \A n \in T : m <= n
<1>1. PICK m \in T : \A n \in T : <<n, m>> \notin NatLess
  BY NatLessWellFounded, WFMin
<1>2. \A n \in T : <<n, m>> \in Nat \X Nat /\ (<<n, m>>)[1] = n /\ (<<n, m>>)[2] = m
  OBVIOUS
<1>3. \A n \in T : ~(n < m)
  BY <1>1, <1>2 DEF NatLess
<1> QED BY <1>3

\* A set that has 0, and with n has n + 1, has all natural numbers.
LEMMA NatIsInductive ==
  ASSUME NEW S, 0 \in S, \A n \in Nat : n \in S => n + 1 \in S
  PROVE  \A n \in Nat : n \in S
<1> SUFFICES ASSUME Nat \ S # {} PROVE FALSE
  OBVIOUS
<1>1. PICK m \in Nat \ S : \A n \in Nat \ S : m <= n
  BY LeastNat
<1>2. m - 1 \in Nat /\ m - 1 \in S
  BY <1>1
<1> QED BY <1>1, <1>2

\* The same for the numbers up to a bound.
LEMMA UpToIsInductive ==
  ASSUME NEW S, NEW k \in Nat, 0 \in S, \A n \in 0 .. k - 1 : n \in S => n + 1 \in S
  PROVE  \A n \in 0 .. k : n \in S
<1> DEFINE U == {n \in Nat : n <= k => n \in S}
<1>1. 0 \in U
  OBVIOUS
<1>2. \A n \in Nat : n \in U => n + 1 \in U
  OBVIOUS
<1>3. \A n \in Nat : n \in U
  <2> HIDE DEF U
  <2> QED BY <1>1, <1>2, NatIsInductive
<1> QED BY <1>3

\* Two tables filled in the same way have the same last entry.
LEMMA RowsAgree ==
  ASSUME NEW f, NEW g, NEW k \in Nat, f[0] = g[0], \A n \in 1 .. k : f[n - 1] = g[n - 1] => f[n] = g[n]
  PROVE  f[k] = g[k]
<1> DEFINE Agree == {n \in 0 .. k : f[n] = g[n]}
<1>1. 0 \in Agree
  OBVIOUS
<1>2. ASSUME NEW n \in 0 .. k - 1, n \in Agree PROVE n + 1 \in Agree
  <2>1. n + 1 \in 1 .. k /\ (n + 1) - 1 = n
    OBVIOUS
  <2>2. f[n + 1] = g[n + 1]
    BY <1>2, <2>1
  <2> QED BY <2>1, <2>2
<1>3. \A n \in 0 .. k : n \in Agree
  <2> HIDE DEF Agree
  <2> QED BY <1>1, <1>2, UpToIsInductive
<1> QED BY <1>3

\* Course-of-values induction.
LEMMA NatIsWellOrdered ==
  ASSUME NEW S, \A n \in Nat : (\A m \in Nat : m < n => m \in S) => n \in S
  PROVE  \A n \in Nat : n \in S
<1> SUFFICES ASSUME Nat \ S # {} PROVE FALSE
  OBVIOUS
<1>1. PICK m \in Nat \ S : \A n \in Nat \ S : m <= n
  BY LeastNat
<1> QED BY <1>1

\* A set of numbers that is bounded has a greatest one.
LEMMA GreatestNat ==
  ASSUME NEW T \in SUBSET Nat, T # {}, NEW k \in Nat, \A n \in T : n <= k
  PROVE  \E m \in T : \A n \in T : n <= m
<1> DEFINE B == {b \in Nat : \A n \in T : n <= b}
<1>1. k \in B
  OBVIOUS
<1>2. PICK b \in B : \A c \in B : b <= c
  <2>1. B \in SUBSET Nat /\ B # {}
    BY <1>1
  <2> HIDE DEF B
  <2> QED BY <2>1, LeastNat
<1>3. b \in T
  <2> SUFFICES ASSUME b \notin T PROVE FALSE
    OBVIOUS
  <2>1. \A n \in T : n <= b - 1
    BY <1>2
  <2>2. b - 1 \in Nat
    <3>1. PICK n \in T : n <= b - 1
      BY <2>1
    <3> QED BY <3>1, <1>2
  <2>3. b - 1 \in B
    BY <2>1, <2>2
  <2> QED BY <2>3, <1>2
<1> QED BY <1>2, <1>3

-----------------------------------------------------------------------------
(* Functions defined by recursion *)

\* A function is right below n.
RightBelow(g, H, S, m, n) == \A x \in S : m[x] < n => g[x] = H[<<g, x>>]

Solves(f, H, S) == \A x \in S : f[x] = H[<<f, x>>]

\* Two functions are the same below n.
AgreeBelow(g, h, S, m, n) == \A x \in S : m[x] < n => g[x] = h[x]

\* The value at x depends only on those at points of smaller measure.
DependsBelow(H, S, T, m) ==
  \A g, h \in [S -> T], x \in S :
    (\A y \in S : m[y] < m[x] => g[y] = h[y]) => H[<<g, x>>] = H[<<h, x>>]

LEMMA RightBelowUnique ==
  ASSUME NEW S, NEW T, NEW m \in [S -> Nat], NEW H \in [[S -> T] \X S -> T], DependsBelow(H, S, T, m),
         NEW g \in [S -> T], NEW h \in [S -> T], NEW k \in Nat,
         RightBelow(g, H, S, m, k), RightBelow(h, H, S, m, k)
  PROVE  AgreeBelow(g, h, S, m, k)
<1> DEFINE Agree == {n \in Nat : n < k => \A x \in S : m[x] = n => g[x] = h[x]}
<1>1. ASSUME NEW n \in Nat, \A j \in Nat : j < n => j \in Agree
      PROVE  n \in Agree
  <2> SUFFICES ASSUME n < k, NEW x \in S, m[x] = n PROVE g[x] = h[x]
    OBVIOUS
  <2>1. \A y \in S : m[y] < m[x] => g[y] = h[y]
    BY <1>1
  <2>2. H[<<g, x>>] = H[<<h, x>>]
    BY <2>1 DEF DependsBelow
  <2> QED BY <2>2 DEF RightBelow
<1>2. \A n \in Nat : n \in Agree
  <2> HIDE DEF Agree
  <2> QED BY <1>1, NatIsWellOrdered
<1>3. \A x \in S : m[x] \in Nat
  OBVIOUS
<1> QED BY <1>2, <1>3 DEF AgreeBelow

LEMMA RightBelowExists ==
  ASSUME NEW S, NEW T, NEW m \in [S -> Nat], NEW H \in [[S -> T] \X S -> T], DependsBelow(H, S, T, m), [S -> T] # {}
  PROVE  \A k \in Nat : \E g \in [S -> T] : RightBelow(g, H, S, m, k)
<1> DEFINE Good == {k \in Nat : \E g \in [S -> T] : RightBelow(g, H, S, m, k)}
<1>1. 0 \in Good
  <2>1. PICK g \in [S -> T] : TRUE
    OBVIOUS
  <2>2. \A x \in S : ~(m[x] < 0)
    <3>1. \A x \in S : m[x] \in Nat
      OBVIOUS
    <3> QED BY <3>1
  <2>3. RightBelow(g, H, S, m, 0)
    BY <2>2, Zenon DEF RightBelow
  <2> QED BY <2>1, <2>3
<1>2. ASSUME NEW k \in Nat, k \in Good PROVE k + 1 \in Good
  <2>1. PICK g \in [S -> T] : RightBelow(g, H, S, m, k)
    BY <1>2
  <2> DEFINE h == [x \in S |-> IF m[x] = k THEN H[<<g, x>>] ELSE g[x]]
  <2>2. \A x \in S : H[<<g, x>>] \in T
    OBVIOUS
  <2>3. h \in [S -> T]
    BY <2>2
  <2>4. ASSUME NEW x \in S, m[x] < k + 1 PROVE h[x] = H[<<h, x>>]
    <3>0. \A y \in S : m[y] \in Nat
      OBVIOUS
    <3>1. \A y \in S : m[y] < m[x] => g[y] = h[y]
      <4>1. \A y \in S : m[y] < m[x] => m[y] # k
        BY <2>4, <3>0
      <4> QED BY <4>1, Zenon
    <3>2. H[<<g, x>>] = H[<<h, x>>]
      <4> HIDE DEF h
      <4> QED BY <3>1, <2>3 DEF DependsBelow
    <3>3. m[x] = k \/ m[x] < k
      BY <2>4, <3>0
    <3>4. h[x] = H[<<g, x>>]
      BY <3>3, <2>1 DEF RightBelow
    <3> QED BY <3>2, <3>4
  <2> HIDE DEF h
  <2>5. RightBelow(h, H, S, m, k + 1)
    BY <2>4 DEF RightBelow
  <2> QED BY <2>3, <2>5
<1>3. \A k \in Nat : k \in Good
  <2> HIDE DEF Good
  <2> QED BY <1>1, <1>2, NatIsInductive
<1> QED BY <1>3

\* Then there is a function that satisfies the recursion.
LEMMA RecursionExists ==
  ASSUME NEW S, NEW T, NEW m \in [S -> Nat], NEW H \in [[S -> T] \X S -> T], DependsBelow(H, S, T, m), [S -> T] # {}
  PROVE  \E f \in [S -> T] : Solves(f, H, S)
<1> DEFINE At(k) == CHOOSE g \in [S -> T] : RightBelow(g, H, S, m, k)
           f == [x \in S |-> At(m[x] + 1)[x]]
<1>1. \A k \in Nat : At(k) \in [S -> T] /\ RightBelow(At(k), H, S, m, k)
  BY RightBelowExists
<1>2. \A x \in S : m[x] \in Nat /\ m[x] + 1 \in Nat
  OBVIOUS
<1>3. \A x \in S : f[x] = At(m[x] + 1)[x]
  OBVIOUS
<1>4. f \in [S -> T]
  BY <1>1, <1>2
<1> HIDE DEF At, f
<1>5. ASSUME NEW x \in S PROVE f[x] = H[<<f, x>>]
  <2> DEFINE g == At(m[x] + 1)
  <2>1. g \in [S -> T] /\ RightBelow(g, H, S, m, m[x] + 1)
    BY <1>1, <1>2
  <2> HIDE DEF g
  <2>2. ASSUME NEW y \in S, m[y] < m[x] PROVE g[y] = f[y]
    <3> DEFINE h == At(m[y] + 1)
    <3>1. h \in [S -> T] /\ RightBelow(h, H, S, m, m[y] + 1) /\ h[y] = f[y]
      BY <1>1, <1>2, <1>3
    <3> HIDE DEF h
    <3>2. RightBelow(g, H, S, m, m[y] + 1)
      <4>1. \A z \in S : m[z] < m[y] + 1 => m[z] < m[x] + 1
        BY <2>2, <1>2
      <4> QED BY <2>1, <4>1 DEF RightBelow
    <3>3. PICK k \in Nat : k = m[y] + 1
      BY <1>2
    <3>4. RightBelow(g, H, S, m, k) /\ RightBelow(h, H, S, m, k)
      BY <3>1, <3>2, <3>3, Zenon
    <3>5. AgreeBelow(g, h, S, m, k)
      BY <2>1, <3>1, <3>4, RightBelowUnique, Zenon
    <3>6. m[y] < k
      BY <3>3, <1>2
    <3> QED BY <3>1, <3>5, <3>6 DEF AgreeBelow
  <2>3. H[<<g, x>>] = H[<<f, x>>]
    BY <2>1, <2>2, <1>4 DEF DependsBelow
  <2>4. f[x] = g[x]
    BY <1>3 DEF g
  <2>5. m[x] < m[x] + 1
    BY <1>2
  <2> QED BY <2>1, <2>3, <2>4, <2>5 DEF RightBelow
<1> QED BY <1>4, <1>5 DEF Solves

\* A step that is taken n times.
Iterates(f, base, step, n) == f[0] = base /\ \A k \in 1 .. n : f[k] = step[f[k - 1]]

\* A step can be taken again and again.
LEMMA IterationExists ==
  ASSUME NEW S, NEW base \in S, NEW step \in [S -> S], NEW n \in Nat
  PROVE  \E f \in [0 .. n -> S] : Iterates(f, base, step, n)
<1> DEFINE Some(k) == \E f \in [0 .. k -> S] : f[0] = base /\ \A j \in 1 .. k : f[j] = step[f[j - 1]]
           Good == {k \in 0 .. n : Some(k)}
<1>1. 0 \in Good
  <2> DEFINE f == [j \in 0 .. 0 |-> base]
  <2>1. f \in [0 .. 0 -> S] /\ f[0] = base /\ 1 .. 0 = {} /\ 0 \in 0 .. n
    OBVIOUS
  <2> HIDE DEF f
  <2>2. Some(0)
    BY <2>1
  <2> QED BY <2>1, <2>2
<1>2. ASSUME NEW k \in 0 .. n - 1, k \in Good PROVE k + 1 \in Good
  <2>1. PICK f \in [0 .. k -> S] : f[0] = base /\ \A j \in 1 .. k : f[j] = step[f[j - 1]]
    BY <1>2
  <2> DEFINE g == [j \in 0 .. k + 1 |-> IF j = k + 1 THEN step[f[k]] ELSE f[j]]
  <2>2. \A j \in 0 .. k + 1 : j # k + 1 => j \in 0 .. k
    OBVIOUS
  <2>3. g \in [0 .. k + 1 -> S] /\ g[0] = base
    BY <2>1, <2>2
  <2>4. \A j \in 1 .. k + 1 : g[j] = step[g[j - 1]]
    BY <2>1, <2>2
  <2>5. k + 1 \in 0 .. n
    OBVIOUS
  <2> HIDE DEF g
  <2> QED BY <2>3, <2>4, <2>5
<1>3. \A k \in 0 .. n : k \in Good
  <2> HIDE DEF Good
  <2> QED BY <1>1, <1>2, UpToIsInductive
<1> QED BY <1>3 DEF Iterates

-----------------------------------------------------------------------------
(* Minima, maxima and folds of the community modules *)

LEMMA MinOfNat ==
  ASSUME NEW T \in SUBSET Nat, T # {}
  PROVE  Min(T) \in T /\ \A n \in T : Min(T) <= n
  BY LeastNat DEF Min

LEMMA MaxOfNat ==
  ASSUME NEW T \in SUBSET Nat, T # {}, NEW k \in Nat, \A n \in T : n <= k
  PROVE  Max(T) \in T /\ \A n \in T : n <= Max(T)
<1>1. \E m \in T : \A n \in T : m >= n
  BY GreatestNat
<1>2. Max(T) \in T /\ \A n \in T : Max(T) >= n
  BY <1>1 DEF Max
<1> QED BY <1>2

LEMMA MaxOfUpTo ==
  ASSUME NEW k \in Nat \ {0}
  PROVE  Max(1 .. k) = k /\ (1 .. k) \ {Max(1 .. k)} = 1 .. (k - 1)
<1>1. Max(1 .. k) \in 1 .. k /\ \A n \in 1 .. k : n <= Max(1 .. k)
  <2>1. (1 .. k) \in SUBSET Nat /\ 1 .. k # {} /\ \A n \in 1 .. k : n <= k
    OBVIOUS
  <2> QED BY <2>1, MaxOfNat
<1>2. Max(1 .. k) = k
  BY <1>1
<1> QED BY <1>2

LEMMA MaxOfSubset ==
  ASSUME NEW n \in Nat, NEW t \in SUBSET (1 .. n), t # {}
  PROVE  Max(t) \in t /\ Max(t) \in 1 .. n /\ \A j \in t : j <= Max(t)
<1>1. t \in SUBSET Nat /\ \A j \in t : j <= n
  OBVIOUS
<1>2. Max(t) \in t /\ \A j \in t : j <= Max(t)
  BY <1>1, MaxOfNat
<1> QED BY <1>2

\* The greatest index of a set, 0 of the empty one.
Top(t) == IF t = {} THEN 0 ELSE Max(t)

LEMMA TopDecreases ==
  ASSUME NEW n \in Nat, NEW t \in SUBSET (1 .. n)
  PROVE  /\ Top(t) \in Nat
         /\ t # {} => /\ t \ {Max(t)} \in SUBSET (1 .. n)
                      /\ Top(t \ {Max(t)}) < Top(t)
<1>1. t # {} => Max(t) \in t /\ Max(t) \in 1 .. n /\ \A j \in t : j <= Max(t)
  BY MaxOfSubset
<1>2. t # {} => Top(t) = Max(t)
  BY DEF Top
<1>3. Top(t) \in Nat
  BY <1>1 DEF Top
<1>4. ASSUME t # {} PROVE Top(t \ {Max(t)}) < Top(t)
  <2> DEFINE r == t \ {Max(t)}
  <2>1. CASE r = {}
    BY <1>1, <1>2, <1>4, <2>1 DEF Top
  <2>2. CASE r # {}
    <3>1. r \in SUBSET (1 .. n) /\ r \subseteq t /\ Max(t) \notin r
      OBVIOUS
    <3>2. Top(r) = Max(r)
      BY <2>2 DEF Top
    <3> HIDE DEF r
    <3>3. Max(r) \in r /\ Max(r) \in 1 .. n
      BY <2>2, <3>1, MaxOfSubset
    <3>4. Max(r) <= Max(t) /\ Max(r) # Max(t)
      BY <1>1, <1>4, <3>1, <3>3
    <3>5. Top(r) < Top(t)
      BY <1>1, <1>2, <1>4, <3>2, <3>3, <3>4
    <3> QED BY <3>5 DEF r
  <2> QED BY <2>1, <2>2
<1> QED BY <1>3, <1>4

\* The function a fold over a sequence of n elements computes with: of every
\* set of indices, the fold over the elements there.
IsFold(g, base, op, n) ==
  \A t \in SUBSET (1 .. n) : g[t] = IF t = {} THEN base ELSE op[<<g[t \ {Max(t)}], Max(t)>>]

LEMMA FoldExists ==
  ASSUME NEW Acc, NEW base \in Acc, NEW n \in Nat, NEW op \in [Acc \X (1 .. n) -> Acc]
  PROVE  \E g \in [SUBSET (1 .. n) -> Acc] : IsFold(g, base, op, n)
<1> DEFINE S == SUBSET (1 .. n)
           step == [gt \in [S -> Acc] \X S |->
                      IF gt[2] = {} THEN base ELSE op[<<gt[1][gt[2] \ {Max(gt[2])}], Max(gt[2])>>]]
<1>1. \A g \in [S -> Acc], t \in S :
        step[<<g, t>>] = IF t = {} THEN base ELSE op[<<g[t \ {Max(t)}], Max(t)>>]
  OBVIOUS
<1>2. \A t \in S : t # {} => t \ {Max(t)} \in S /\ Max(t) \in 1 .. n /\ Top(t \ {Max(t)}) < Top(t)
  BY TopDecreases, MaxOfSubset
<1>3. step \in [[S -> Acc] \X S -> Acc]
  <2>1. ASSUME NEW g \in [S -> Acc], NEW t \in S, t # {}
        PROVE  op[<<g[t \ {Max(t)}], Max(t)>>] \in Acc
    <3>1. g[t \ {Max(t)}] \in Acc /\ Max(t) \in 1 .. n
      BY <2>1, <1>2
    <3> QED BY <3>1
  <2>2. \A gt \in [S -> Acc] \X S : gt[1] \in [S -> Acc] /\ gt[2] \in S
    OBVIOUS
  <2> HIDE DEF S
  <2> QED BY <2>1, <2>2
<1>4. PICK m \in [S -> Nat] : \A t \in S : m[t] = Top(t)
  <2>1. [t \in S |-> Top(t)] \in [S -> Nat]
    BY TopDecreases
  <2> HIDE DEF S
  <2> QED BY <2>1
<1>5. PICK H \in [[S -> Acc] \X S -> Acc] : H = step
  BY <1>3
<1>6. [S -> Acc] # {}
  <2>1. [t \in S |-> base] \in [S -> Acc]
    OBVIOUS
  <2> QED BY <2>1
<1>7. \A g \in [S -> Acc], t \in S :
        H[<<g, t>>] = IF t = {} THEN base ELSE op[<<g[t \ {Max(t)}], Max(t)>>]
  BY <1>1, <1>5, Zenon
<1> HIDE DEF S, step
<1>8. DependsBelow(H, S, Acc, m)
  <2> SUFFICES ASSUME NEW g \in [S -> Acc], NEW h \in [S -> Acc], NEW t \in S,
                      \A y \in S : m[y] < m[t] => g[y] = h[y]
               PROVE  H[<<g, t>>] = H[<<h, t>>]
    BY DEF DependsBelow
  <2>1. t # {} => g[t \ {Max(t)}] = h[t \ {Max(t)}]
    BY <1>2, <1>4
  <2> QED BY <2>1, <1>7
<1>9. \E g \in [S -> Acc] : Solves(g, H, S)
  BY <1>6, <1>8, RecursionExists, Zenon
<1>10. \E g \in [S -> Acc] : \A t \in S : g[t] = IF t = {} THEN base ELSE op[<<g[t \ {Max(t)}], Max(t)>>]
  BY <1>7, <1>9 DEF Solves
<1> QED BY <1>10 DEF S, IsFold

-----------------------------------------------------------------------------
(* Sums *)

OneOf(t) == CHOOSE x \in t : TRUE

LEMMA OneOfIsIn == \A t : t # {} => OneOf(t) \in t
  BY DEF OneOf

\* The table SumFunction computes with: of every set of arguments, the sum
\* over it.
IsSum(g, f, S) ==
  \A t \in SUBSET S : g[t] = IF t = {} THEN 0 ELSE f[OneOf(t)] + g[t \ {OneOf(t)}]

LEMMA SumTableExists ==
  ASSUME NEW S, IsFiniteSet(S), NEW f \in [S -> Int]
  PROVE  \E g \in [SUBSET S -> Int] : IsSum(g, f, S)
<1> DEFINE P == SUBSET S
           step == [gt \in [P -> Int] \X P |->
                      IF gt[2] = {} THEN 0
                      ELSE f[OneOf(gt[2])] + gt[1][gt[2] \ {OneOf(gt[2])}]]
<1>1. \A g \in [P -> Int], t \in P :
        step[<<g, t>>] = IF t = {} THEN 0 ELSE f[OneOf(t)] + g[t \ {OneOf(t)}]
  OBVIOUS
<1>2. ASSUME NEW t \in P, t # {}
      PROVE  /\ OneOf(t) \in t
             /\ t \ {OneOf(t)} \in P
             /\ Cardinality(t \ {OneOf(t)}) < Cardinality(t)
  <2>1. PICK x \in t : x = OneOf(t)
    BY <1>2, OneOfIsIn
  <2>2. IsFiniteSet(t)
    BY FS_Subset
  <2>3. Cardinality(t \ {x}) = Cardinality(t) - 1 /\ Cardinality(t) \in Nat
    BY <2>2, FS_RemoveElement, FS_CardinalityType
  <2> QED BY <2>1, <2>3
<1>3. step \in [[P -> Int] \X P -> Int]
  <2>1. ASSUME NEW g \in [P -> Int], NEW t \in P, t # {}
        PROVE  f[OneOf(t)] + g[t \ {OneOf(t)}] \in Int
    <3>1. PICK x \in S, r \in P : x = OneOf(t) /\ r = t \ {x}
      BY <2>1, <1>2
    <3>2. f[x] \in Int /\ g[r] \in Int
      OBVIOUS
    <3> QED BY <3>1, <3>2
  <2>2. \A gt \in [P -> Int] \X P : gt[1] \in [P -> Int] /\ gt[2] \in P
    OBVIOUS
  <2> HIDE DEF P
  <2> QED BY <2>1, <2>2
<1>4. PICK m \in [P -> Nat] : \A t \in P : m[t] = Cardinality(t)
  <2>1. [t \in P |-> Cardinality(t)] \in [P -> Nat]
    BY FS_Subset, FS_CardinalityType
  <2> HIDE DEF P
  <2> QED BY <2>1
<1>5. PICK H \in [[P -> Int] \X P -> Int] : H = step
  BY <1>3
<1>6. [P -> Int] # {}
  <2>1. [t \in P |-> 0] \in [P -> Int]
    OBVIOUS
  <2> QED BY <2>1
<1>7. \A g \in [P -> Int], t \in P :
        H[<<g, t>>] = IF t = {} THEN 0 ELSE f[OneOf(t)] + g[t \ {OneOf(t)}]
  BY <1>1, <1>5, Zenon
<1> HIDE DEF P, step
<1>8. DependsBelow(H, P, Int, m)
  <2> SUFFICES ASSUME NEW g \in [P -> Int], NEW h \in [P -> Int], NEW t \in P,
                      \A y \in P : m[y] < m[t] => g[y] = h[y]
               PROVE  H[<<g, t>>] = H[<<h, t>>]
    BY DEF DependsBelow
  <2>1. t # {} => g[t \ {OneOf(t)}] = h[t \ {OneOf(t)}]
    BY <1>2, <1>4
  <2> QED BY <2>1, <1>7
<1>9. \E g \in [P -> Int] : Solves(g, H, P)
  BY <1>6, <1>8, RecursionExists, Zenon
<1>10. \E g \in [P -> Int] :
         \A t \in P : g[t] = IF t = {} THEN 0 ELSE f[OneOf(t)] + g[t \ {OneOf(t)}]
  BY <1>7, <1>9 DEF Solves
<1> QED BY <1>10 DEF P, IsSum

LEMMA SumIsInTable ==
  ASSUME NEW S, IsFiniteSet(S), NEW f \in [S -> Int]
  PROVE  \E g \in [SUBSET S -> Int] : IsSum(g, f, S) /\ SumFunction(f) = g[S]
<1> DEFINE it == CHOOSE g : g = [t \in SUBSET S |->
                    IF t = {} THEN 0 ELSE f[OneOf(t)] + g[t \ {OneOf(t)}]]
<1>1. DOMAIN f = S
  OBVIOUS
<1>2. SumFunction(f) = it[S]
  BY <1>1 DEF SumFunction, SumFunctionOnSet, FoldFunctionOnSet, MapThenFoldSet, OneOf
<1>3. PICK g \in [SUBSET S -> Int] : IsSum(g, f, S)
  BY SumTableExists
<1>4. g = [t \in SUBSET S |->
             IF t = {} THEN 0 ELSE f[OneOf(t)] + g[t \ {OneOf(t)}]]
  BY <1>3 DEF IsSum
<1>5. it = [t \in SUBSET S |->
             IF t = {} THEN 0 ELSE f[OneOf(t)] + it[t \ {OneOf(t)}]]
  BY <1>4
<1> HIDE DEF it
<1>6. it \in [SUBSET S -> Int] /\ IsSum(it, f, S)
  <2>1. \A t \in SUBSET S : it[t] = IF t = {} THEN 0 ELSE f[OneOf(t)] + it[t \ {OneOf(t)}]
    BY <1>5
  <2>2. DOMAIN it = SUBSET S /\ it = [t \in SUBSET S |-> it[t]]
    BY <1>5
  <2>3. \A t \in SUBSET S : IsFiniteSet(t)
    BY FS_Subset
  <2> DEFINE N == {n \in Nat : \A t \in SUBSET S : Cardinality(t) = n => it[t] \in Int}
  <2>4. 0 \in N
    <3>1. \A t \in SUBSET S : Cardinality(t) = 0 => t = {}
      BY <2>3, FS_EmptySet
    <3>2. {} \in SUBSET S
      OBVIOUS
    <3>3. it[{}] = 0
      BY <2>1, <3>2
    <3> HIDE DEF it
    <3> QED BY <3>1, <3>3
  <2>5. ASSUME NEW n \in Nat, n \in N PROVE n + 1 \in N
    <3> SUFFICES ASSUME NEW t \in SUBSET S, Cardinality(t) = n + 1 PROVE it[t] \in Int
      OBVIOUS
    <3>1. t # {}
      BY FS_EmptySet
    <3>2. PICK x \in t : x = OneOf(t)
      BY <3>1, OneOfIsIn
    <3>3. Cardinality(t \ {x}) = n
      <4>1. IsFiniteSet(t)
        BY <2>3
      <4>2. Cardinality(t \ {x}) = Cardinality(t) - 1
        BY <4>1, FS_RemoveElement
      <4> QED BY <4>2
    <3>4. it[t \ {x}] \in Int /\ f[x] \in Int
      BY <2>5, <3>3
    <3>5. it[t] = f[x] + it[t \ {x}]
      BY <2>1, <3>1, <3>2
    <3> QED BY <3>4, <3>5
  <2>6. \A n \in Nat : n \in N
    <3> HIDE DEF N
    <3> QED BY <2>4, <2>5, NatIsInductive
  <2>7. \A t \in SUBSET S : it[t] \in Int
    BY <2>3, <2>6, FS_CardinalityType
  <2> QED BY <2>1, <2>2, <2>7 DEF IsSum
<1> QED BY <1>2, <1>6

\* A class of sets that has the empty set, and with a set every one with one
\* element more, has every finite set.
LEMMA FiniteIsInductive ==
  ASSUME NEW S, IsFiniteSet(S), NEW C, {} \in C,
         \A t \in SUBSET S, x \in S : t \in C /\ x \notin t => t \union {x} \in C
  PROVE  \A t \in SUBSET S : t \in C
<1> DEFINE N == {n \in Nat : \A t \in SUBSET S : Cardinality(t) = n => t \in C}
<1>1. \A t \in SUBSET S : IsFiniteSet(t) /\ Cardinality(t) \in Nat
  BY FS_Subset, FS_CardinalityType
<1>2. 0 \in N
  BY <1>1, FS_EmptySet
<1>3. ASSUME NEW n \in Nat, n \in N PROVE n + 1 \in N
  <2> SUFFICES ASSUME NEW t \in SUBSET S, Cardinality(t) = n + 1 PROVE t \in C
    OBVIOUS
  <2>1. t # {}
    <3>1. Cardinality({}) = 0
      BY FS_EmptySet
    <3> QED BY <3>1
  <2>2. PICK x \in t : TRUE
    BY <2>1
  <2>3. Cardinality(t \ {x}) = Cardinality(t) - 1
    BY <1>1, FS_RemoveElement
  <2>4. Cardinality(t \ {x}) = n /\ t \ {x} \in SUBSET S
    BY <2>3
  <2>5. t \ {x} \in C /\ x \in S /\ x \notin t \ {x} /\ t = (t \ {x}) \union {x}
    BY <1>3, <2>4
  <2> QED BY <2>4, <2>5
<1>4. \A n \in Nat : n \in N
  <2> HIDE DEF N
  <2> QED BY <1>2, <1>3, NatIsInductive
<1> QED BY <1>1, <1>4

InAnyOrder(g, f, S) == \A t \in SUBSET S : \A x \in t : g[t] = f[x] + g[t \ {x}]

\* The order in which the sum is taken does not matter.
LEMMA SumInAnyOrder ==
  ASSUME NEW S, IsFiniteSet(S), NEW f \in [S -> Int], NEW g \in [SUBSET S -> Int], IsSum(g, f, S)
  PROVE  InAnyOrder(g, f, S)
<1> DEFINE N == {n \in Nat : \A t \in SUBSET S : Cardinality(t) = n => \A x \in t : g[t] = f[x] + g[t \ {x}]}
<1>1. \A t \in SUBSET S : IsFiniteSet(t) /\ Cardinality(t) \in Nat
  BY FS_Subset, FS_CardinalityType
<1>2. 0 \in N
  <2>1. \A t \in SUBSET S : Cardinality(t) = 0 => t = {}
    BY <1>1, FS_EmptySet
  <2> QED BY <2>1
<1>3. ASSUME NEW n \in Nat, n \in N PROVE n + 1 \in N
  <2> SUFFICES ASSUME NEW t \in SUBSET S, Cardinality(t) = n + 1, NEW x \in t
               PROVE  g[t] = f[x] + g[t \ {x}]
    OBVIOUS
  <2>1. PICK y \in t : y = OneOf(t)
    BY OneOfIsIn
  <2>2. g[t] = f[y] + g[t \ {y}]
    BY <2>1 DEF IsSum
  <2>3. CASE x = y
    BY <2>2, <2>3
  <2>4. CASE x # y
    <3>1. /\ t \ {x} \in SUBSET S /\ t \ {y} \in SUBSET S
          /\ x \in t \ {y} /\ y \in t \ {x} /\ (t \ {x}) \ {y} = (t \ {y}) \ {x}
      BY <2>4
    <3>2. Cardinality(t \ {x}) = n /\ Cardinality(t \ {y}) = n
      <4>1. Cardinality(t \ {x}) = Cardinality(t) - 1 /\ Cardinality(t \ {y}) = Cardinality(t) - 1
        BY <1>1, FS_RemoveElement
      <4> QED BY <4>1
    <3>3. PICK u \in SUBSET S, v \in SUBSET S, w \in SUBSET S : u = t \ {x} /\ v = t \ {y} /\ w = u \ {y}
      <4>1. t \ {x} \in SUBSET S /\ t \ {y} \in SUBSET S /\ (t \ {x}) \ {y} \in SUBSET S
        OBVIOUS
      <4> QED BY <4>1, Zenon
    <3>4. w = v \ {x}
      BY <3>1, <3>3
    <3>5. g[v] = f[x] + g[w] /\ g[u] = f[y] + g[w]
      BY <1>3, <3>1, <3>2, <3>3, <3>4
    <3>6. f[x] \in Int /\ f[y] \in Int /\ g[w] \in Int
      <4>1. x \in S /\ y \in S
        OBVIOUS
      <4> QED BY <4>1
    <3>7. g[t] = f[y] + g[v]
      BY <2>2, <3>3
    <3>8. g[t] = f[x] + g[u]
      BY <3>5, <3>6, <3>7
    <3> QED BY <3>3, <3>8
  <2> QED BY <2>3, <2>4
<1>4. \A n \in Nat : n \in N
  <2> HIDE DEF N
  <2> QED BY <1>2, <1>3, NatIsInductive
<1> QED BY <1>1, <1>4 DEF InAnyOrder

\* Of every part of the arguments, the sum over it.
AddsUp(g, f, S) ==
  /\ g[{}] = 0
  /\ \A t \in SUBSET S, x \in S : x \notin t => g[t \union {x}] = g[t] + f[x]

LEMMA SumsAddUp ==
  ASSUME NEW S, IsFiniteSet(S), NEW f \in [S -> Int]
  PROVE  \E g \in [SUBSET S -> Int] : AddsUp(g, f, S) /\ g[S] = SumFunction(f)
<1>1. PICK g \in [SUBSET S -> Int] : IsSum(g, f, S) /\ SumFunction(f) = g[S]
  BY SumIsInTable
<1>2. g[{}] = 0
  BY <1>1 DEF IsSum
<1>3. ASSUME NEW t \in SUBSET S, NEW x \in S, x \notin t
      PROVE  g[t \union {x}] = g[t] + f[x]
  <2>1. PICK u \in SUBSET S : u = t \union {x}
    OBVIOUS
  <2>2. x \in u /\ u \ {x} = t
    BY <1>3, <2>1
  <2>3. InAnyOrder(g, f, S)
    BY <1>1, SumInAnyOrder
  <2>4. g[u] = f[x] + g[t]
    BY <2>2, <2>3 DEF InAnyOrder
  <2>5. f[x] \in Int /\ g[t] \in Int
    OBVIOUS
  <2>6. g[u] = g[t] + f[x]
    BY <2>4, <2>5
  <2> QED BY <2>1, <2>6
<1> QED BY <1>1, <1>2, <1>3 DEF AddsUp

SameOn(f, h, u) == \A x \in u : f[x] = h[x]

SamePartsSame(g, k, f, h, S, T) ==
  \A u : u \subseteq S /\ u \subseteq T /\ SameOn(f, h, u) => g[u] = k[u]

\* Two tables agree wherever their functions do.
LEMMA SumsAgree ==
  ASSUME NEW S, NEW T, IsFiniteSet(S), NEW f, NEW h, NEW g \in [SUBSET S -> Int], NEW k \in [SUBSET T -> Int],
         AddsUp(g, f, S), AddsUp(k, h, T)
  PROVE  SamePartsSame(g, k, f, h, S, T)
<1> SUFFICES ASSUME NEW u, u \subseteq S, u \subseteq T, SameOn(f, h, u) PROVE g[u] = k[u]
  BY DEF SamePartsSame
<1> DEFINE C == {t \in SUBSET u : g[t] = k[t]}
<1>1. {} \in C
  BY DEF AddsUp
<1>2. ASSUME NEW t \in SUBSET u, NEW x \in u, t \in C, x \notin t PROVE t \union {x} \in C
  <2>1. t \in SUBSET S /\ t \in SUBSET T /\ x \in S /\ x \in T
    OBVIOUS
  <2>2. g[t \union {x}] = g[t] + f[x] /\ k[t \union {x}] = k[t] + h[x]
    BY <1>2, <2>1, Zenon DEF AddsUp
  <2>3. g[t \union {x}] = k[t \union {x}]
    BY <1>2, <2>2 DEF SameOn
  <2> QED BY <2>3
<1>3. IsFiniteSet(u)
  BY FS_Subset
<1>4. \A t \in SUBSET u : t \in C
  <2> HIDE DEF C
  <2> QED BY <1>1, <1>2, <1>3, FiniteIsInductive
<1> QED BY <1>4

PartSums(g, f, S) == \A t \in SUBSET S : g[t] = SumFunction([x \in t |-> f[x]])

LEMMA SumOfParts ==
  ASSUME NEW S, IsFiniteSet(S), NEW f \in [S -> Int]
  PROVE  \E g \in [SUBSET S -> Int] : AddsUp(g, f, S) /\ PartSums(g, f, S)
<1>1. PICK g \in [SUBSET S -> Int] : AddsUp(g, f, S) /\ g[S] = SumFunction(f)
  BY SumsAddUp
<1>2. ASSUME NEW t \in SUBSET S PROVE g[t] = SumFunction([x \in t |-> f[x]])
  <2>0. PICK h \in [t -> Int] : h = [x \in t |-> f[x]]
    OBVIOUS
  <2>1. h \in [t -> Int] /\ IsFiniteSet(t) /\ SameOn(f, h, t)
    BY <2>0, FS_Subset DEF SameOn
  <2>2. PICK k \in [SUBSET t -> Int] : AddsUp(k, h, t) /\ k[t] = SumFunction(h)
    BY <2>1, SumsAddUp
  <2>3. t \in SUBSET t
    OBVIOUS
  <2>4. AddsUp(g, f, S) /\ AddsUp(k, h, t) /\ SameOn(f, h, t) /\ IsFiniteSet(S)
    BY <1>1, <2>1, <2>2
  <2>5. SamePartsSame(g, k, f, h, S, t)
    BY <2>4, SumsAgree
  <2>6. g[t] = k[t]
    BY <2>4, <2>5 DEF SamePartsSame
  <2> QED BY <2>0, <2>2, <2>6
<1> QED BY <1>1, <1>2 DEF PartSums

LEMMA SumOfNothing ==
  ASSUME NEW f, DOMAIN f = {}, f \in [{} -> Int]
  PROVE  SumFunction(f) = 0
<1>1. PICK g \in [SUBSET {} -> Int] : AddsUp(g, f, {}) /\ g[{}] = SumFunction(f)
  BY FS_EmptySet, SumsAddUp
<1> QED BY <1>1 DEF AddsUp

LEMMA SumIsInt ==
  ASSUME NEW S, IsFiniteSet(S), NEW f \in [S -> Int]
  PROVE  SumFunction(f) \in Int
<1>1. PICK g \in [SUBSET S -> Int] : AddsUp(g, f, S) /\ g[S] = SumFunction(f)
  BY SumsAddUp
<1> QED BY <1>1

\* One argument more.
LEMMA SumOfOneMore ==
  ASSUME NEW S, IsFiniteSet(S), NEW x, x \notin S, NEW f \in [S \union {x} -> Int]
  PROVE  SumFunction(f) = SumFunction([y \in S |-> f[y]]) + f[x]
<1>1. PICK T : T = S \union {x}
  OBVIOUS
<1>2. IsFiniteSet(T) /\ f \in [T -> Int] /\ DOMAIN f = T /\ S \in SUBSET T /\ T \in SUBSET T /\ x \in T
  BY <1>1, FS_AddElement
<1>3. PICK g \in [SUBSET T -> Int] :
        AddsUp(g, f, T) /\ PartSums(g, f, T)
  BY <1>2, SumOfParts
<1>4. g[S] = SumFunction([y \in S |-> f[y]]) /\ g[T] = SumFunction([y \in T |-> f[y]])
  BY <1>2, <1>3 DEF PartSums
<1>5. [y \in T |-> f[y]] = f
  BY <1>2
<1>6. g[S \union {x}] = g[S] + f[x]
  BY <1>2, <1>3 DEF AddsUp
<1> QED BY <1>1, <1>4, <1>5, <1>6

LEMMA SumOfAtMost ==
  ASSUME NEW S, IsFiniteSet(S), NEW f \in [S -> Int], NEW h \in [S -> Int], \A x \in S : f[x] <= h[x]
  PROVE  SumFunction(f) <= SumFunction(h)
<1>1. PICK g \in [SUBSET S -> Int] : AddsUp(g, f, S) /\ g[S] = SumFunction(f)
  BY SumsAddUp
<1>2. PICK k \in [SUBSET S -> Int] : AddsUp(k, h, S) /\ k[S] = SumFunction(h)
  BY SumsAddUp
<1> DEFINE C == {t \in SUBSET S : g[t] <= k[t]}
<1>3. {} \in C
  BY <1>1, <1>2 DEF AddsUp
<1>4. ASSUME NEW t \in SUBSET S, NEW x \in S, t \in C, x \notin t PROVE t \union {x} \in C
  <2>1. g[t \union {x}] = g[t] + f[x] /\ k[t \union {x}] = k[t] + h[x]
    BY <1>1, <1>2, <1>4, Zenon DEF AddsUp
  <2>2. g[t] \in Int /\ k[t] \in Int /\ f[x] \in Int /\ h[x] \in Int /\ g[t] <= k[t] /\ f[x] <= h[x]
    BY <1>4
  <2>3. g[t \union {x}] <= k[t \union {x}]
    BY <2>1, <2>2
  <2> QED BY <2>3
<1>5. \A t \in SUBSET S : t \in C
  <2> HIDE DEF C
  <2> QED BY <1>3, <1>4, FiniteIsInductive
<1> QED BY <1>1, <1>2, <1>5

\* Where one of the addends is less, and none is more, the sum is less.
LEMMA SumOfLess ==
  ASSUME NEW S, IsFiniteSet(S), NEW f \in [S -> Int], NEW h \in [S -> Int], NEW w \in S,
         \A x \in S : x # w => f[x] = h[x], f[w] < h[w]
  PROVE  SumFunction(f) < SumFunction(h)
<1>1. PICK R : R = S \ {w}
  OBVIOUS
<1>2. IsFiniteSet(R) /\ w \notin R /\ S = R \union {w}
  BY <1>1, FS_RemoveElement
<1>3. f \in [R \union {w} -> Int] /\ h \in [R \union {w} -> Int]
  BY <1>2
<1>4. SumFunction(f) = SumFunction([y \in R |-> f[y]]) + f[w]
  BY <1>2, <1>3, SumOfOneMore
<1>5. SumFunction(h) = SumFunction([y \in R |-> h[y]]) + h[w]
  BY <1>2, <1>3, SumOfOneMore
<1>6. [y \in R |-> f[y]] = [y \in R |-> h[y]]
  BY <1>1
<1>7. [y \in R |-> f[y]] \in [R -> Int]
  BY <1>3
<1>8. SumFunction([y \in R |-> f[y]]) \in Int
  BY <1>2, <1>7, SumIsInt
<1>9. f[w] \in Int /\ h[w] \in Int
  OBVIOUS
<1> QED BY <1>4, <1>5, <1>6, <1>8, <1>9

LEMMA SumOfNat ==
  ASSUME NEW S, IsFiniteSet(S), NEW f \in [S -> Nat]
  PROVE  SumFunction(f) \in Nat
<1>1. f \in [S -> Int] /\ \A x \in S : f[x] \in Nat
  OBVIOUS
<1>2. PICK g \in [SUBSET S -> Int] : AddsUp(g, f, S) /\ g[S] = SumFunction(f)
  BY <1>1, SumsAddUp
<1> DEFINE C == {t \in SUBSET S : g[t] \in Nat}
<1>3. {} \in C
  BY <1>2 DEF AddsUp
<1>4. ASSUME NEW t \in SUBSET S, NEW x \in S, t \in C, x \notin t PROVE t \union {x} \in C
  <2>1. g[t \union {x}] = g[t] + f[x]
    BY <1>2, <1>4, Zenon DEF AddsUp
  <2> QED BY <1>1, <1>4, <2>1
<1>5. \A t \in SUBSET S : t \in C
  <2> HIDE DEF C
  <2> QED BY <1>3, <1>4, FiniteIsInductive
<1> QED BY <1>2, <1>5

LEMMA SumOfSums ==
  ASSUME NEW S, IsFiniteSet(S), NEW f \in [S -> Int], NEW h \in [S -> Int], NEW r \in [S -> Int],
         \A x \in S : r[x] = f[x] + h[x]
  PROVE  SumFunction(r) = SumFunction(f) + SumFunction(h)
<1>1. PICK g \in [SUBSET S -> Int] : AddsUp(g, f, S) /\ g[S] = SumFunction(f)
  BY SumsAddUp
<1>2. PICK k \in [SUBSET S -> Int] : AddsUp(k, h, S) /\ k[S] = SumFunction(h)
  BY SumsAddUp
<1>3. PICK m \in [SUBSET S -> Int] : AddsUp(m, r, S) /\ m[S] = SumFunction(r)
  BY SumsAddUp
<1> DEFINE C == {t \in SUBSET S : m[t] = g[t] + k[t]}
<1>4. {} \in C
  BY <1>1, <1>2, <1>3 DEF AddsUp
<1>5. ASSUME NEW t \in SUBSET S, NEW x \in S, t \in C, x \notin t PROVE t \union {x} \in C
  <2>1. /\ g[t \union {x}] = g[t] + f[x] /\ k[t \union {x}] = k[t] + h[x]
        /\ m[t \union {x}] = m[t] + r[x]
    BY <1>1, <1>2, <1>3, <1>5, Zenon DEF AddsUp
  <2>2. g[t] \in Int /\ k[t] \in Int /\ f[x] \in Int /\ h[x] \in Int /\ r[x] = f[x] + h[x] /\ m[t] = g[t] + k[t]
    BY <1>5
  <2>3. m[t \union {x}] = g[t \union {x}] + k[t \union {x}]
    BY <2>1, <2>2
  <2> QED BY <2>3
<1>6. \A t \in SUBSET S : t \in C
  <2> HIDE DEF C
  <2> QED BY <1>4, <1>5, FiniteIsInductive
<1> QED BY <1>1, <1>2, <1>3, <1>6

\* Arguments of value zero may be left out.
LEMMA SumOfSupport ==
  ASSUME NEW S, IsFiniteSet(S), NEW f \in [S -> Int], NEW T \in SUBSET S, \A x \in S \ T : f[x] = 0
  PROVE  SumFunction(f) = SumFunction([x \in T |-> f[x]])
<1>1. PICK g \in [SUBSET S -> Int] :
        AddsUp(g, f, S) /\ PartSums(g, f, S)
  BY SumOfParts
<1>2. g[S] = SumFunction(f) /\ g[T] = SumFunction([x \in T |-> f[x]])
  <2>1. [x \in S |-> f[x]] = f /\ S \in SUBSET S
    OBVIOUS
  <2>2. g[S] = SumFunction([x \in S |-> f[x]]) /\ g[T] = SumFunction([x \in T |-> f[x]])
    BY <1>1 DEF PartSums
  <2> QED BY <2>1, <2>2
<1> DEFINE C == {t \in SUBSET (S \ T) : g[T \union t] = g[T]}
<1>3. {} \in C
  <2>1. T \union {} = T
    OBVIOUS
  <2> QED BY <2>1
<1>4. ASSUME NEW t \in SUBSET (S \ T), NEW x \in S \ T, t \in C, x \notin t PROVE t \union {x} \in C
  <2>1. PICK u \in SUBSET S : u = T \union t
    <3>1. T \union t \in SUBSET S
      OBVIOUS
    <3> QED BY <3>1
  <2>2. x \notin u /\ T \union (t \union {x}) = u \union {x}
    BY <1>4, <2>1
  <2>3. g[u \union {x}] = g[u] + f[x]
    BY <1>1, <2>2, Zenon DEF AddsUp
  <2>4. g[u] \in Int /\ f[x] = 0 /\ g[u] = g[T]
    BY <1>4, <2>1
  <2>5. g[u \union {x}] = g[T]
    BY <2>3, <2>4
  <2> QED BY <2>2, <2>5
<1>5. \A t \in SUBSET (S \ T) : t \in C
  <2>1. IsFiniteSet(S \ T)
    BY FS_Subset
  <2> HIDE DEF C
  <2> QED BY <1>3, <1>4, <2>1, FiniteIsInductive
<1>6. T \union (S \ T) = S
  OBVIOUS
<1> QED BY <1>2, <1>5, <1>6

\* A function on a part of a set sums to what it sums to with zeros elsewhere.
LEMMA SumWithZeros ==
  ASSUME NEW S, IsFiniteSet(S), NEW T \in SUBSET S, NEW f \in [T -> Int],
         NEW g \in [S -> Int], \A x \in S : g[x] = IF x \in T THEN f[x] ELSE 0
  PROVE  SumFunction(g) = SumFunction(f)
<1>1. \A x \in S \ T : g[x] = 0
  OBVIOUS
<1>2. SumFunction(g) = SumFunction([x \in T |-> g[x]])
  BY <1>1, SumOfSupport
<1>3. [x \in T |-> g[x]] = f
  OBVIOUS
<1> QED BY <1>2, <1>3

-----------------------------------------------------------------------------
(* Remainders *)

LEMMA OneRemainder ==
  ASSUME NEW n \in Nat \ {0}, NEW p \in Int, NEW q \in Int, NEW a \in 0 .. n - 1, NEW b \in 0 .. n - 1,
         n * p + a = n * q + b
  PROVE  a = b
<1>1. CASE p = q
  BY <1>1
<1>2. CASE p < q
  <2>1. q - p >= 1 /\ q - p \in Int
    BY <1>2
  <2>2. PICK d \in Nat : d = q - p - 1
    BY <2>1
  <2>3. n * q = n * p + n + n * d
    <3>1. q = p + 1 + d
      BY <2>2
    <3> QED BY <3>1
  <2>4. n * d >= 0 /\ n * d \in Int /\ n * p \in Int
    OBVIOUS
  <2>5. PICK x \in Int, y \in Int : x = n * p /\ y = n * d /\ y >= 0
    BY <2>4
  <2>6. x + a = x + n + y + b
    BY <2>3, <2>5
  <2> QED BY <2>5, <2>6
<1>3. CASE p > q
  <2>1. p - q >= 1 /\ p - q \in Int
    BY <1>3
  <2>2. PICK d \in Nat : d = p - q - 1
    BY <2>1
  <2>3. n * p = n * q + n + n * d
    <3>1. p = q + 1 + d
      BY <2>2
    <3> QED BY <3>1
  <2>4. n * d >= 0 /\ n * d \in Int /\ n * q \in Int
    OBVIOUS
  <2>5. PICK x \in Int, y \in Int : x = n * q /\ y = n * d /\ y >= 0
    BY <2>4
  <2>6. x + b = x + n + y + a
    BY <2>3, <2>5
  <2> QED BY <2>5, <2>6
<1> QED BY <1>1, <1>2, <1>3

LEMMA QuotientAndRemainder ==
  ASSUME NEW n \in Nat \ {0}, NEW a \in Int
  PROVE  a % n \in 0 .. n - 1 /\ \E q \in Int : a = n * q + (a % n)
<1>1. a % n \in 0 .. n - 1
  OBVIOUS
<1>2. a \div n \in Int
  OBVIOUS
<1>3. a = n * (a \div n) + (a % n)
  OBVIOUS
<1> QED BY <1>1, <1>2, <1>3

\* A counter that wraps counts right but for the wraps.
LEMMA AddRemainder ==
  ASSUME NEW n \in Nat \ {0}, NEW a \in Int, NEW b \in Int
  PROVE  ((a % n) + b) % n = (a + b) % n
<1>1. PICK p \in Int, r \in 0 .. n - 1 : r = a % n /\ a = n * p + r
  BY QuotientAndRemainder
<1>2. PICK q \in Int, s \in 0 .. n - 1 : s = (r + b) % n /\ r + b = n * q + s
  <2>1. r + b \in Int
    OBVIOUS
  <2> QED BY <2>1, QuotientAndRemainder
<1>3. PICK u \in Int, t \in 0 .. n - 1 : t = (a + b) % n /\ a + b = n * u + t
  <2>1. a + b \in Int
    OBVIOUS
  <2> QED BY <2>1, QuotientAndRemainder
<1>4. n * (p + q) + s = n * u + t
  <2>1. n * (p + q) = n * p + n * q
    OBVIOUS
  <2>2. PICK x \in Int, y \in Int, z \in Int : x = n * p /\ y = n * q /\ z = n * u
    OBVIOUS
  <2> QED BY <1>1, <1>2, <1>3, <2>1, <2>2
<1>5. s = t
  <2>1. p + q \in Int
    OBVIOUS
  <2> QED BY <1>4, <2>1, OneRemainder
<1> QED BY <1>1, <1>2, <1>3, <1>5

-----------------------------------------------------------------------------
(* Sequences *)

\* A set that has the empty sequence, and every extension by one element of a
\* sequence it has, has all sequences.
LEMMA SeqIsInductive ==
  ASSUME NEW S, NEW P, <<>> \in P, \A s \in Seq(S), e \in S : s \in P => Append(s, e) \in P
  PROVE  \A s \in Seq(S) : s \in P
<1> DEFINE N == {n \in Nat : \A s \in Seq(S) : Len(s) = n => s \in P}
<1>1. 0 \in N
  BY EmptySeq
<1>2. ASSUME NEW n \in Nat, n \in N PROVE n + 1 \in N
  <2> SUFFICES ASSUME NEW s \in Seq(S), Len(s) = n + 1 PROVE s \in P
    OBVIOUS
  <2>1. s # <<>>
    BY EmptySeq
  <2>2. PICK r \in Seq(S), e \in S : s = Append(r, e)
    BY <2>1, SequenceEmptyOrAppend
  <2>3. Len(r) = n
    BY <2>2, AppendProperties, LenProperties
  <2> QED BY <1>2, <2>2, <2>3
<1>3. \A n \in Nat : n \in N
  <2> HIDE DEF N
  <2> QED BY <1>1, <1>2, NatIsInductive
<1> QED BY <1>3, LenProperties

LEMMA SetToSeqsType ==
  ASSUME NEW S, IsFiniteSet(S), NEW s \in SetToSeqs(S)
  PROVE  s \in Seq(S)
<1>1. Cardinality(S) \in Nat
  BY FS_CardinalityType
<1>2. s \in [1 .. Cardinality(S) -> S]
  BY DEF SetToSeqs
<1> QED BY <1>1, <1>2

\* SetToSeqs puts every element of a set somewhere, and none twice.
LEMMA SetToSeqsRange ==
  ASSUME NEW S, IsFiniteSet(S), NEW s \in SetToSeqs(S)
  PROVE  /\ \A j \in DOMAIN s : s[j] \in S /\ j \in Nat \ {0}
         /\ \A j, k \in DOMAIN s : s[j] = s[k] => j = k
         /\ \A e \in S : \E j \in DOMAIN s : s[j] = e
<1> DEFINE D == 1 .. Cardinality(S)
<1>1. Cardinality(S) \in Nat
  BY FS_CardinalityType
<1>2. s \in [D -> S] /\ \A j, k \in D : j # k => s[j] # s[k]
  BY DEF SetToSeqs
<1>3. s \in Injection(D, S)
  <2> HIDE DEF D
  <2> QED BY <1>2 DEF Injection, IsInjective
<1>4. Cardinality(D) = Cardinality(S)
  BY <1>1, FS_Interval
<1>5. s \in Surjection(D, S)
  <2> HIDE DEF D
  <2> QED BY <1>3, <1>4, FS_Injection
<1>6. \A j \in D : j \in Nat \ {0}
  BY <1>1
<1> HIDE DEF D
<1> QED BY <1>2, <1>5, <1>6 DEF Surjection

=============================================================================
