---------------------------- MODULE MergeProofs ----------------------------
(***************************************************************************)
(* The loser tree of the merge, for logs of any number and length: it      *)
(* holds every stream once, and its winner is a stream with a least block, *)
(* whichever streams have new blocks or are at their end.  And what        *)
(* follows of the old release: it takes the records in order and counts    *)
(* all of a block together, so that its counters are the histogram of the  *)
(* logs.                                                                   *)
(***************************************************************************)
EXTENDS Merge, DataTheorems

(* The order of blocks *)

LEMMA AfterIsAnOrder ==
  /\ \A a \in Block : ~After(a, a)
  /\ \A a, b \in Block : After(a, b) => ~After(b, a)
  /\ \A a, b, c \in Block : ~After(a, b) /\ ~After(b, c) => ~After(a, c)
BY DEF After, Block

-----------------------------------------------------------------------------
(* Loser trees of n streams: W tells who won at each node *)

Nodes(n) == 1 .. 2 * n - 1
Streams(n) == 0 .. n - 1

\* At node k the one that won below and the other that did play each other.
Game(W, t, blocks, k) ==
  /\ \/ W[k] = W[2 * k] /\ t[k] = W[2 * k + 1]
     \/ W[k] = W[2 * k + 1] /\ t[k] = W[2 * k]
  /\ ~After(blocks[W[k]], blocks[t[k]])

Games(n, W, t, blocks) ==
  /\ W \in [Nodes(n) -> Streams(n)]
  /\ \A k \in n .. 2 * n - 1 : W[k] = k - n
  /\ \A k \in 1 .. n - 1 : Game(W, t, blocks, k)
  /\ t[0] = W[1]

IsLoserTree(n, t, blocks) == t \in [Streams(n) -> Streams(n)] /\ \E W : Games(n, W, t, blocks)

LEMMA NodesOf ==
  ASSUME NEW n \in Nat \ {0}
  PROVE  /\ 1 \in Nodes(n)
         /\ \A k \in 1 .. n - 1 : k \in Nodes(n) /\ k \in Streams(n) /\ 2 * k \in Nodes(n) /\ 2 * k + 1 \in Nodes(n)
         /\ \A k \in Nodes(n) : k # 1 => k \div 2 \in 1 .. n - 1 /\ (k = 2 * (k \div 2) \/ k = 2 * (k \div 2) + 1)
         /\ \A k \in Nodes(n) : k \in 1 .. n - 1 \/ k \in n .. 2 * n - 1
         /\ \A k \in n .. 2 * n - 1 : k \in Nodes(n) /\ k - n \in Streams(n)
         /\ \A w \in Streams(n) : w + n \in n .. 2 * n - 1 /\ (w + n) - n = w
         /\ 0 \in Streams(n)
BY DEF Nodes, Streams

\* What holds at the root, and with a node at both its children, holds at all.
LEMMA DownTheTree ==
  ASSUME NEW n \in Nat \ {0}, NEW S, 1 \in S, \A k \in 1 .. n - 1 : k \in S => 2 * k \in S /\ 2 * k + 1 \in S
  PROVE  \A k \in Nodes(n) : k \in S
<1> DEFINE T == {k \in Nat : k \in Nodes(n) => k \in S}
<1>1. ASSUME NEW k \in Nat, \A j \in Nat : j < k => j \in T PROVE k \in T
  <2> SUFFICES ASSUME k \in Nodes(n) PROVE k \in S
    OBVIOUS
  <2>1. CASE k = 1
    BY <2>1
  <2>2. CASE k # 1
    <3>1. PICK p \in 1 .. n - 1 : k = 2 * p \/ k = 2 * p + 1
      BY <2>2, NodesOf
    <3>2. p \in Nodes(n) /\ p < k /\ p \in Nat
      <4>1. p \in Nodes(n)
        BY NodesOf
      <4> QED BY <3>1, <4>1
    <3>3. p \in S
      BY <1>1, <3>2
    <3> QED BY <3>1, <3>3
  <2> QED BY <2>1, <2>2
<1> HIDE DEF T
<1>2. \A k \in Nat : k \in T
  BY <1>1, NatIsWellOrdered
<1> QED BY <1>2 DEF T, Nodes

\* What holds at the leaves, and with the children at their parent, holds at all.
LEMMA UpTheTree ==
  ASSUME NEW n \in Nat \ {0}, NEW S, \A k \in n .. 2 * n - 1 : k \in S,
         \A k \in 1 .. n - 1 : 2 * k \in S /\ 2 * k + 1 \in S => k \in S
  PROVE  \A k \in Nodes(n) : k \in S
<1> DEFINE T == {m \in Nat : \A k \in Nodes(n) : 2 * n - k = m => k \in S}
<1>1. ASSUME NEW m \in Nat, \A j \in Nat : j < m => j \in T PROVE m \in T
  <2> SUFFICES ASSUME NEW k \in Nodes(n), 2 * n - k = m PROVE k \in S
    OBVIOUS
  <2>1. CASE k \in 1 .. n - 1
    <3>1. 2 * k \in Nodes(n) /\ 2 * k + 1 \in Nodes(n)
      BY <2>1, NodesOf
    <3>2. PICK a \in Nat, b \in Nat : a = 2 * n - 2 * k /\ b = 2 * n - (2 * k + 1) /\ a < m /\ b < m
      <4>1. k \in Nat /\ k >= 1 /\ k <= n - 1
        BY <2>1
      <4>2. 2 * n - 2 * k \in Nat /\ 2 * n - (2 * k + 1) \in Nat /\ 2 * n - 2 * k < m /\ 2 * n - (2 * k + 1) < m
        BY <4>1
      <4> QED BY <4>2
    <3>3. a \in T /\ b \in T
      BY <1>1, <3>2
    <3>4. 2 * k \in S /\ 2 * k + 1 \in S
      BY <3>1, <3>2, <3>3
    <3> QED BY <2>1, <3>4
  <2>2. CASE k \in n .. 2 * n - 1
    BY <2>2
  <2> QED BY <2>1, <2>2, NodesOf
<1>2. \A m \in Nat : m \in T
  <2> HIDE DEF T
  <2> QED BY <1>1, NatIsWellOrdered
<1>3. \A k \in Nodes(n) : 2 * n - k \in Nat
  BY DEF Nodes
<1> QED BY <1>2, <1>3

\* A loser tree holds every stream once, and its winner has a least block.
LEMMA LoserTreeHoldsAll ==
  ASSUME NEW n \in Nat \ {0}, NEW t, NEW blocks \in [Streams(n) -> Block], IsLoserTree(n, t, blocks)
  PROVE  /\ {t[k] : k \in Streams(n)} = Streams(n)
         /\ \A j, k \in Streams(n) : t[j] = t[k] => j = k
         /\ \A w \in Streams(n) : ~After(blocks[t[0]], blocks[w])
<1>1. PICK W : Games(n, W, t, blocks)
  BY DEF IsLoserTree
<1>2. t \in [Streams(n) -> Streams(n)] /\ W \in [Nodes(n) -> Streams(n)] /\ t[0] = W[1]
  BY <1>1 DEF IsLoserTree, Games
<1> DEFINE Found == {j \in Nodes(n) : \E k \in Streams(n) : t[k] = W[j]}
           Less  == {j \in Nodes(n) : ~After(blocks[W[1]], blocks[W[j]])}
<1>3. \A j \in Nodes(n) : j \in Found
  <2>1. 1 \in Found
    BY <1>2, NodesOf
  <2>2. ASSUME NEW k \in 1 .. n - 1, k \in Found PROVE 2 * k \in Found /\ 2 * k + 1 \in Found
    <3>1. Game(W, t, blocks, k)
      BY <1>1 DEF Games
    <3>2. k \in Streams(n) /\ 2 * k \in Nodes(n) /\ 2 * k + 1 \in Nodes(n)
      BY NodesOf
    <3> QED BY <2>2, <3>1, <3>2 DEF Game
  <2> HIDE DEF Found
  <2> QED BY <2>1, <2>2, DownTheTree
<1>4. \A j \in Nodes(n) : j \in Less
  <2>0. \A j \in Nodes(n) : W[j] \in Streams(n) /\ blocks[W[j]] \in Block
    BY <1>2
  <2>1. 1 \in Less
    BY <2>0, NodesOf, AfterIsAnOrder
  <2>2. ASSUME NEW k \in 1 .. n - 1, k \in Less PROVE 2 * k \in Less /\ 2 * k + 1 \in Less
    <3>1. Game(W, t, blocks, k)
      BY <1>1 DEF Games
    <3>2. k \in Nodes(n) /\ 2 * k \in Nodes(n) /\ 2 * k + 1 \in Nodes(n) /\ 1 \in Nodes(n)
      BY NodesOf
    <3>3. PICK a \in Block, b \in Block, c \in Block, d \in Block :
            a = blocks[W[1]] /\ b = blocks[W[k]] /\ c = blocks[W[2 * k]] /\ d = blocks[W[2 * k + 1]]
      BY <2>0, <3>2
    <3>4. ~After(a, b) /\ ~After(b, c) /\ ~After(b, d)
      <4>1. ~After(a, b) /\ ~After(b, b)
        BY <2>2, <3>3, AfterIsAnOrder
      <4>2. (b = c /\ ~After(b, d)) \/ (b = d /\ ~After(b, c))
        BY <3>1, <3>3 DEF Game
      <4> QED BY <4>1, <4>2
    <3>5. ~After(a, c) /\ ~After(a, d)
      BY <3>4, AfterIsAnOrder
    <3> QED BY <3>2, <3>3, <3>5
  <2> HIDE DEF Less
  <2> QED BY <2>1, <2>2, DownTheTree
<1>5. ASSUME NEW w \in Streams(n)
      PROVE  (\E k \in Streams(n) : t[k] = w) /\ ~After(blocks[t[0]], blocks[w])
  <2>1. w + n \in Nodes(n) /\ W[w + n] = w
    <3>1. w + n \in n .. 2 * n - 1 /\ (w + n) - n = w
      BY NodesOf
    <3>2. W[w + n] = (w + n) - n
      BY <1>1, <3>1 DEF Games
    <3> QED BY <3>1, <3>2, NodesOf
  <2>2. w + n \in Found /\ w + n \in Less
    BY <1>3, <1>4, <2>1
  <2> QED BY <1>2, <2>1, <2>2
<1>6. t \in Surjection(Streams(n), Streams(n))
  BY <1>2, <1>5 DEF Surjection
<1>7. IsFiniteSet(Streams(n))
  <2>1. 0 \in Int /\ n - 1 \in Int
    OBVIOUS
  <2> QED BY <2>1, FS_Interval DEF Streams
<1>8. t \in Injection(Streams(n), Streams(n))
  BY <1>6, <1>7, FS_Surjection
<1>9. \A j, k \in Streams(n) : t[j] = t[k] => j = k
  BY <1>8 DEF Injection, IsInjective
<1> QED BY <1>2, <1>5, <1>9


-----------------------------------------------------------------------------
(* init_tree *)

LEMMA InitTreePlays ==
  ASSUME NEW n \in Nat \ {0}, num_files = n, bls \in [Streams(n) -> Block]
  PROVE  IsLoserTree(n, InitTree, bls)
<1> DEFINE S == Nodes(n)
           T == Streams(n)
           Best(a, b) == IF After(bls[a], bls[b]) THEN b ELSE a
           Next1(g, k) == IF k >= n THEN k - n ELSE Best(g[2 * k], g[2 * k + 1])
           Win == CHOOSE g : g = [k \in S |-> Next1(g, k)]
<1>1. InitTree = [k \in T |-> IF k = 0 THEN Win[1] ELSE IF Win[k] = Win[2 * k] THEN Win[2 * k + 1] ELSE Win[2 * k]]
  BY DEF InitTree, Files, Nodes, Streams
<1>2. \A a, b \in T : Best(a, b) \in T
  OBVIOUS
<1> HIDE DEF Best
<1>3. ASSUME NEW g \in [S -> T], NEW k \in S PROVE Next1(g, k) \in T
  <2>1. CASE k \in n .. 2 * n - 1
    <3>1. k >= n /\ k - n \in T
      BY <2>1, NodesOf
    <3> QED BY <3>1
  <2>2. CASE k \in 1 .. n - 1
    <3>1. ~(k >= n) /\ 2 * k \in S /\ 2 * k + 1 \in S
      BY <2>2, NodesOf
    <3> QED BY <1>2, <3>1
  <2> QED BY <2>1, <2>2, NodesOf
<1>4. PICK H \in [[S -> T] \X S -> T] : \A g \in [S -> T], k \in S : H[<<g, k>>] = Next1(g, k)
  <2> DEFINE step == [gk \in [S -> T] \X S |-> Next1(gk[1], gk[2])]
  <2> HIDE DEF Next1, S, T
  <2>1. step \in [[S -> T] \X S -> T]
    BY <1>3
  <2>2. \A g \in [S -> T], k \in S : step[<<g, k>>] = Next1(g, k)
    OBVIOUS
  <2> HIDE DEF step
  <2> QED BY <2>1, <2>2
<1>5. PICK m \in [S -> Nat] : \A k \in S : m[k] = 2 * n - k
  <2>1. [k \in S |-> 2 * n - k] \in [S -> Nat]
    BY DEF Nodes
  <2> QED BY <2>1
<1>6. DependsBelow(H, S, T, m)
  <2> SUFFICES ASSUME NEW g \in [S -> T], NEW h \in [S -> T], NEW k \in S,
                      \A y \in S : m[y] < m[k] => g[y] = h[y]
               PROVE  H[<<g, k>>] = H[<<h, k>>]
    BY DEF DependsBelow
  <2>1. Next1(g, k) = Next1(h, k)
    <3>1. CASE k >= n
      BY <3>1
    <3>2. CASE ~(k >= n)
      <4>1. k \in 1 .. n - 1 /\ k \in Nat
        BY <3>2 DEF Nodes
      <4>2. 2 * k \in S /\ 2 * k + 1 \in S
        BY <4>1, NodesOf
      <4>3. m[2 * k] < m[k] /\ m[2 * k + 1] < m[k]
        BY <1>5, <4>1, <4>2
      <4>4. g[2 * k] = h[2 * k] /\ g[2 * k + 1] = h[2 * k + 1]
        BY <4>2, <4>3
      <4> QED BY <3>2, <4>4
    <3> QED BY <3>1, <3>2
  <2> QED BY <1>4, <2>1
<1>7. [S -> T] # {}
  <2>1. [k \in S |-> 0] \in [S -> T]
    BY NodesOf
  <2> QED BY <2>1
<1>8. PICK W \in [S -> T] : \A k \in S : W[k] = Next1(W, k)
  <2>1. \E g \in [S -> T] : Solves(g, H, S)
    <3> HIDE DEF S, T
    <3> QED BY <1>6, <1>7, RecursionExists, Zenon
  <2> QED BY <1>4, <2>1 DEF Solves
<1>9. Win = [k \in S |-> Next1(Win, k)]
  <2>1. W = [k \in S |-> Next1(W, k)]
    <3> HIDE DEF Next1, S, T
    <3> QED BY <1>8
  <2> HIDE DEF Next1, S
  <2> QED BY <2>1, Zenon
<1>10. Win \in [S -> T] /\ \A k \in S : Win[k] = Next1(Win, k)
  <2> DEFINE Right == {k \in S : Win[k] \in T}
  <2> HIDE DEF Win
  <2>1. \A k \in S : Win[k] = Next1(Win, k)
    <3> HIDE DEF Next1
    <3> QED BY <1>9
  <2>2. \A k \in n .. 2 * n - 1 : k \in Right
    <3> SUFFICES ASSUME NEW k \in n .. 2 * n - 1 PROVE k \in Right
      OBVIOUS
    <3>1. k \in S /\ k >= n /\ k - n \in T
      BY NodesOf
    <3> QED BY <2>1, <3>1
  <2>3. \A k \in 1 .. n - 1 : 2 * k \in Right /\ 2 * k + 1 \in Right => k \in Right
    <3> SUFFICES ASSUME NEW k \in 1 .. n - 1, 2 * k \in Right, 2 * k + 1 \in Right PROVE k \in Right
      OBVIOUS
    <3>1. k \in S /\ ~(k >= n)
      BY NodesOf
    <3>2. Win[k] = Best(Win[2 * k], Win[2 * k + 1])
      BY <2>1, <3>1
    <3> QED BY <1>2, <3>1, <3>2
  <2>4. \A k \in S : k \in Right
    <3> HIDE DEF Right
    <3> QED BY <2>2, <2>3, UpTheTree
  <2>5. Win = [k \in S |-> Win[k]]
    <3>1. \E q : Win = [k \in S |-> q[k]]
      <4> DEFINE q == [k \in S |-> Next1(Win, k)]
      <4>1. Win = [k \in S |-> q[k]]
        <5> HIDE DEF Next1, S
        <5> QED BY <1>9
      <4> QED BY <4>1
    <3> HIDE DEF S
    <3> QED BY <3>1
  <2> HIDE DEF Next1, S, T
  <2> QED BY <2>1, <2>4, <2>5
<1> HIDE DEF Win
<1>11. \A k \in n .. 2 * n - 1 : Win[k] = k - n
  <2> SUFFICES ASSUME NEW k \in n .. 2 * n - 1 PROVE Win[k] = k - n
    OBVIOUS
  <2>1. k \in S /\ k >= n
    BY NodesOf
  <2> QED BY <1>10, <2>1
<1>12. ASSUME NEW k \in 1 .. n - 1 PROVE Game(Win, InitTree, bls, k) /\ InitTree[k] \in T
  <2>1. k \in S /\ ~(k >= n) /\ k \in T /\ k # 0 /\ 2 * k \in S /\ 2 * k + 1 \in S
    BY NodesOf
  <2>2. Win[k] = Best(Win[2 * k], Win[2 * k + 1])
    BY <1>10, <2>1
  <2>3. InitTree[k] = IF Win[k] = Win[2 * k] THEN Win[2 * k + 1] ELSE Win[2 * k]
    BY <1>1, <2>1
  <2>4. PICK a \in T, b \in T : a = Win[2 * k] /\ b = Win[2 * k + 1]
    BY <1>10, <2>1
  <2>5. bls[a] \in Block /\ bls[b] \in Block
    OBVIOUS
  <2>6. ~After(bls[Win[k]], bls[InitTree[k]])
    <3>1. CASE After(bls[a], bls[b])
      <4>1. Win[k] = b /\ ~After(bls[b], bls[a]) /\ a # b
        BY <2>2, <2>4, <2>5, <3>1, AfterIsAnOrder DEF Best
      <4> QED BY <2>3, <2>4, <4>1
    <3>2. CASE ~After(bls[a], bls[b])
      <4>1. Win[k] = a
        BY <2>2, <2>4, <3>2 DEF Best
      <4> QED BY <2>3, <2>4, <3>2, <4>1
    <3> QED BY <3>1, <3>2
  <2>7. Win[k] = Win[2 * k] \/ Win[k] = Win[2 * k + 1]
    BY <2>2 DEF Best
  <2> QED BY <2>3, <2>4, <2>6, <2>7 DEF Game
<1>13. 0 \in T /\ InitTree[0] = Win[1] /\ Win[1] \in T
  BY <1>1, <1>10, NodesOf
<1>14. InitTree \in [T -> T]
  <2>1. \A k \in T : InitTree[k] \in T
    <3>1. \A k \in T : k = 0 \/ k \in 1 .. n - 1
      BY DEF Streams
    <3> QED BY <1>12, <1>13, <3>1
  <2>2. \E q : InitTree = [k \in T |-> q[k]]
    <3> DEFINE q == [k \in T |-> IF k = 0 THEN Win[1] ELSE IF Win[k] = Win[2 * k] THEN Win[2 * k + 1] ELSE Win[2 * k]]
    <3>1. InitTree = [k \in T |-> q[k]]
      <4> HIDE DEF T
      <4> QED BY <1>1
    <3> QED BY <3>1
  <2> HIDE DEF T
  <2> QED BY <2>1, <2>2
<1>15. Games(n, Win, InitTree, bls)
  BY <1>10, <1>11, <1>12, <1>13 DEF Games
<1> QED BY <1>14, <1>15 DEF IsLoserTree


-----------------------------------------------------------------------------
(* adjust_tree *)

\* Where a replay stands: at which node, with which stream, in which tree.
Replays(n) == [parent : Streams(n), small : Streams(n), tree : [Streams(n) -> Streams(n)]]

\* One round of the loop.
PlayOnce(at, blocks) ==
  IF at.parent = 0 THEN at
  ELSE IF After(blocks[at.tree[at.parent]], blocks[at.small]) THEN [at EXCEPT !.parent = at.parent \div 2]
  ELSE [parent |-> at.parent \div 2, small |-> at.tree[at.parent], tree |-> [at.tree EXCEPT ![at.parent] = at.small]]

LEMMA PlayOnceType ==
  ASSUME NEW n \in Nat \ {0}, NEW at \in Replays(n), NEW blocks
  PROVE  PlayOnce(at, blocks) \in Replays(n)
<1>1. at.parent \in Streams(n) /\ at.small \in Streams(n) /\ at.tree \in [Streams(n) -> Streams(n)]
  BY DEF Replays
<1>2. at.parent \div 2 \in Streams(n)
  <2>1. PICK k \in Streams(n) : k = at.parent
    BY <1>1
  <2>2. k \div 2 \in Streams(n)
    BY DEF Streams
  <2> QED BY <2>1, <2>2
<1> QED BY <1>1, <1>2 DEF PlayOnce, Replays

\* n rounds of the loop, from the leaf of stream w on.
IsReplay(f, n, t, blocks, w) ==
  /\ f[0] = [parent |-> (w + n) \div 2, small |-> w, tree |-> t]
  /\ \A k \in 1 .. n : f[k] = PlayOnce(f[k - 1], blocks)
  /\ AdjustTree(t, blocks, w) = [f[n].tree EXCEPT ![0] = f[n].small]

\* adjust_tree is n such rounds: with no node left they do nothing.
LEMMA AdjustTreeRounds ==
  ASSUME NEW n \in Nat \ {0}, num_files = n, NEW t \in [Streams(n) -> Streams(n)], NEW blocks, NEW w \in Streams(n)
  PROVE  \E f \in [0 .. n -> Replays(n)] : IsReplay(f, n, t, blocks, w)
<1> DEFINE S == Replays(n)
           base == [parent |-> (w + n) \div 2, small |-> w, tree |-> t]
           Rounds == CHOOSE g : g = [k \in 0 .. n |-> IF k = 0 THEN base ELSE PlayOnce(g[k - 1], blocks)]
<1>1. AdjustTree(t, blocks, w) = [Rounds[n].tree EXCEPT ![0] = Rounds[n].small]
  BY DEF AdjustTree, PlayOnce
<1>2. base \in S
  <2>1. (w + n) \div 2 \in Streams(n)
    BY DEF Streams
  <2> QED BY <2>1 DEF Replays
<1>3. PICK step \in [S -> S] : \A at \in S : step[at] = PlayOnce(at, blocks)
  <2> DEFINE p == [at \in S |-> PlayOnce(at, blocks)]
  <2>1. p \in [S -> S]
    BY PlayOnceType
  <2>2. \A at \in S : p[at] = PlayOnce(at, blocks)
    OBVIOUS
  <2> HIDE DEF p, S
  <2> QED BY <2>1, <2>2
<1> HIDE DEF base, S
<1>4. PICK f \in [0 .. n -> S] : f[0] = base /\ \A k \in 1 .. n : f[k] = step[f[k - 1]]
  <2>1. PICK N \in Nat : N = n
    OBVIOUS
  <2>2. \E f \in [0 .. N -> S] : Iterates(f, base, step, N)
    BY <1>2, <1>3, <2>1, IterationExists, Zenon
  <2> QED BY <2>1, <2>2 DEF Iterates
<1>5. \A k \in 1 .. n : f[k] = PlayOnce(f[k - 1], blocks)
  <2> SUFFICES ASSUME NEW k \in 1 .. n PROVE f[k] = PlayOnce(f[k - 1], blocks)
    OBVIOUS
  <2>1. k - 1 \in 0 .. n
    OBVIOUS
  <2>2. f[k - 1] \in S
    BY <2>1
  <2> QED BY <1>3, <1>4, <2>2
<1>6. \A g : g = [k \in 0 .. n |-> IF k = 0 THEN base ELSE PlayOnce(g[k - 1], blocks)]
             <=> /\ g = [k \in 0 .. n |-> g[k]] /\ g[0] = base
                 /\ \A k \in 1 .. n : g[k] = PlayOnce(g[k - 1], blocks)
  <2> SUFFICES ASSUME NEW g
               PROVE  g = [k \in 0 .. n |-> IF k = 0 THEN base ELSE PlayOnce(g[k - 1], blocks)]
                        <=> /\ g = [k \in 0 .. n |-> g[k]] /\ g[0] = base
                            /\ \A k \in 1 .. n : g[k] = PlayOnce(g[k - 1], blocks)
    OBVIOUS
  <2>1. \A k \in 0 .. n : k = 0 \/ k \in 1 .. n
    OBVIOUS
  <2>2. 0 \in 0 .. n /\ \A k \in 1 .. n : k \in 0 .. n /\ k # 0
    OBVIOUS
  <2> DEFINE D == 0 .. n
             E == 1 .. n
             rhs == [k \in D |-> IF k = 0 THEN base ELSE PlayOnce(g[k - 1], blocks)]
  <2>3. ASSUME g = rhs
        PROVE  g = [k \in D |-> g[k]] /\ g[0] = base /\ \A k \in E : g[k] = PlayOnce(g[k - 1], blocks)
    <3>1. \A k \in D : g[k] = IF k = 0 THEN base ELSE PlayOnce(g[k - 1], blocks)
      <4> HIDE DEF D
      <4> QED BY <2>3
    <3>2. g = [k \in D |-> g[k]]
      <4>1. rhs = [k \in D |-> rhs[k]]
        <5> HIDE DEF D
        <5> QED OBVIOUS
      <4> HIDE DEF rhs
      <4> QED BY <2>3, <4>1
    <3> QED BY <2>2, <3>1, <3>2
  <2>4. ASSUME g = [k \in D |-> g[k]], g[0] = base, \A k \in E : g[k] = PlayOnce(g[k - 1], blocks)
        PROVE  g = rhs
    <3>1. \A k \in D : g[k] = IF k = 0 THEN base ELSE PlayOnce(g[k - 1], blocks)
      BY <2>1, <2>2, <2>4
    <3> HIDE DEF D
    <3> QED BY <2>4, <3>1
  <2> QED BY <2>3, <2>4
<1>7. f = [k \in 0 .. n |-> f[k]]
  OBVIOUS
<1>8. Rounds = [k \in 0 .. n |-> IF k = 0 THEN base ELSE PlayOnce(Rounds[k - 1], blocks)]
  <2>1. f = [k \in 0 .. n |-> IF k = 0 THEN base ELSE PlayOnce(f[k - 1], blocks)]
    BY <1>4, <1>5, <1>6, <1>7
  <2> QED BY <2>1, Zenon
<1> HIDE DEF Rounds
<1>9. Rounds[0] = base /\ \A k \in 1 .. n : Rounds[k] = PlayOnce(Rounds[k - 1], blocks)
  BY <1>6, <1>8
<1>10. Rounds[n] = f[n]
  <2> DEFINE Same == {k \in 0 .. n : Rounds[k] = f[k]}
  <2>1. 0 \in Same
    BY <1>4, <1>9
  <2>2. ASSUME NEW k \in 0 .. n - 1, k \in Same PROVE k + 1 \in Same
    <3>1. k + 1 \in 1 .. n /\ (k + 1) - 1 = k /\ k + 1 \in 0 .. n
      OBVIOUS
    <3> QED BY <1>5, <1>9, <2>2, <3>1
  <2>3. \A k \in 0 .. n : k \in Same
    <3> HIDE DEF Same
    <3> QED BY <2>1, <2>2, UpToIsInductive
  <2> QED BY <2>3
<1>11. AdjustTree(t, blocks, w) = [f[n].tree EXCEPT ![0] = f[n].small]
  BY <1>1, <1>10
<1>12. IsReplay(f, n, t, blocks, w)
  BY <1>4, <1>5, <1>11 DEF IsReplay, base
<1> QED BY <1>4, <1>12 DEF S

-----------------------------------------------------------------------------
(* A replay: the stream w that won has a new block, and only the games at *)
(* the nodes that it won are played again                                 *)

\* The nodes that w won are those from its leaf to the root, one on each level.
Path(n, W, t, w) ==
  /\ \A k \in Nodes(n) : k # 1 /\ W[k] = w => W[k \div 2] = w
  /\ \A k \in 1 .. n - 1 : t[k] # w
  /\ \A k \in 1 .. n - 1 : W[k] = w => \/ W[2 * k] = w /\ W[2 * k + 1] = t[k]
                                       \/ W[2 * k + 1] = w /\ W[2 * k] = t[k]
  /\ \A j, k \in Nodes(n) : j < k /\ W[j] = w /\ W[k] = w => j <= k \div 2

LEMMA PathOfWinner ==
  ASSUME NEW n \in Nat \ {0}, NEW t, NEW old \in [Streams(n) -> Block], t \in [Streams(n) -> Streams(n)],
         NEW W, Games(n, W, t, old)
  PROVE  Path(n, W, t, t[0])
<1> DEFINE w == t[0]
<1>1. IsLoserTree(n, t, old)
  BY DEF IsLoserTree
<1>2. \A k \in 1 .. n - 1 : t[k] # w
  <2> SUFFICES ASSUME NEW k \in 1 .. n - 1 PROVE t[k] # w
    OBVIOUS
  <2>1. k \in Streams(n) /\ 0 \in Streams(n) /\ k # 0
    BY DEF Streams
  <2> QED BY <1>1, <2>1, LoserTreeHoldsAll
<1> HIDE DEF w
<1>3. ASSUME NEW k \in 1 .. n - 1, W[k] = w
      PROVE  \/ W[2 * k] = w /\ W[2 * k + 1] = t[k]
             \/ W[2 * k + 1] = w /\ W[2 * k] = t[k]
  <2>1. Game(W, t, old, k)
    BY DEF Games
  <2> QED BY <1>3, <2>1 DEF Game
<1>4. ASSUME NEW k \in Nodes(n), k # 1, W[k] = w PROVE W[k \div 2] = w
  <2>1. PICK p \in 1 .. n - 1 : p = k \div 2 /\ (k = 2 * p \/ k = 2 * p + 1)
    <3>1. k \div 2 \in 1 .. n - 1 /\ (k = 2 * (k \div 2) \/ k = 2 * (k \div 2) + 1)
      BY <1>4, NodesOf, ZenonT(30)
    <3> QED BY <3>1, Zenon
  <2>2. Game(W, t, old, p)
    BY DEF Games
  <2>3. W[k] = W[p] \/ W[k] = t[p]
    BY <2>1, <2>2 DEF Game
  <2> QED BY <1>2, <1>4, <2>1, <2>3
<1> DEFINE Low == {k \in Nat : \A j \in Nodes(n) : k \in Nodes(n) /\ j < k /\ W[j] = w /\ W[k] = w => j <= k \div 2}
<1>5. ASSUME NEW k \in Nat, \A m \in Nat : m < k => m \in Low PROVE k \in Low
  <2> SUFFICES ASSUME NEW j \in Nodes(n), k \in Nodes(n), j < k, W[j] = w, W[k] = w, ~(j <= k \div 2)
               PROVE  FALSE
    OBVIOUS
  <2>1. k # 1 /\ j \in Nat /\ j >= 1
    BY DEF Nodes
  <2>2. PICK p \in 1 .. n - 1 : p = k \div 2 /\ (k = 2 * p \/ k = 2 * p + 1) /\ W[p] = w
    BY <1>4, <2>1, NodesOf
  <2>3. p < j /\ j # 1 /\ p \in Nodes(n)
    <3>1. p \in Nodes(n)
      BY NodesOf
    <3> QED BY <2>1, <2>2, <3>1
  <2>4. PICK q \in 1 .. n - 1 : q = j \div 2 /\ (j = 2 * q \/ j = 2 * q + 1) /\ W[q] = w
    BY <1>4, <2>3, NodesOf
  <2>5. j \in Low
    BY <1>5, <2>1
  <2>6. p <= q
    BY <2>2, <2>3, <2>4, <2>5
  <2>7. p = q
    BY <2>2, <2>4, <2>6
  <2>8. W[2 * p] = w /\ W[2 * p + 1] = w
    <3>1. (j = 2 * p /\ k = 2 * p + 1) \/ (k = 2 * p /\ j = 2 * p + 1)
      BY <2>1, <2>2, <2>4, <2>7
    <3> QED BY <3>1
  <2>9. W[2 * p] = t[p] \/ W[2 * p + 1] = t[p]
    BY <1>3, <2>2
  <2> QED BY <1>2, <2>8, <2>9
<1>6. \A k \in Nat : k \in Low
  <2> HIDE DEF Low
  <2> QED BY <1>5, NatIsWellOrdered
<1>7. \A j, k \in Nodes(n) : j < k /\ W[j] = w /\ W[k] = w => j <= k \div 2
  BY <1>6 DEF Nodes
<1> QED BY <1>2, <1>3, <1>4, <1>7 DEF Path, w


\* Where a replay stands: who wins at the nodes it has passed, and at those
\* w had not won, is V; the others it has not touched.
Replayed(n, W, t, w, blocks, r, V) ==
  /\ V \in [Nodes(n) -> Streams(n)]
  /\ \A j \in n .. 2 * n - 1 : V[j] = j - n
  /\ \A j \in Nodes(n) : W[j] # w => V[j] = W[j]
  /\ \A j \in 1 .. n - 1 : W[j] # w \/ j > r.parent => Game(V, r.tree, blocks, j)
  /\ \A j \in 1 .. n - 1 : W[j] # w \/ j <= r.parent => r.tree[j] = t[j]
  /\ r.parent = 0 => V[1] = r.small
  /\ r.parent > 0 => /\ W[r.parent] = w
                     /\ \/ W[2 * r.parent] = w /\ V[2 * r.parent] = r.small
                        \/ W[2 * r.parent + 1] = w /\ V[2 * r.parent + 1] = r.small

LEMMA ReplayStarts ==
  ASSUME NEW n \in Nat \ {0}, NEW t \in [Streams(n) -> Streams(n)], NEW old, NEW blocks,
         NEW W, Games(n, W, t, old), NEW w \in Streams(n), Path(n, W, t, w),
         \A v \in Streams(n) : v # w => blocks[v] = old[v],
         NEW r, r = [parent |-> (w + n) \div 2, small |-> w, tree |-> t]
  PROVE  Replayed(n, W, t, w, blocks, r, W)
<1>1. PICK k \in Streams(n) : k = (w + n) \div 2
  BY DEF Streams
<1>2. r.parent = k /\ r.small = w /\ r.tree = t
  BY <1>1
<1>3. W \in [Nodes(n) -> Streams(n)] /\ \A j \in n .. 2 * n - 1 : W[j] = j - n
  BY DEF Games
<1>4. w + n \in n .. 2 * n - 1 /\ w + n \in Nodes(n) /\ W[w + n] = w
  <2>1. w + n \in n .. 2 * n - 1 /\ (w + n) - n = w
    BY NodesOf
  <2>2. w + n \in Nodes(n)
    BY <2>1, NodesOf
  <2> QED BY <1>3, <2>1, <2>2
<1>5. ASSUME NEW j \in 1 .. n - 1, W[j] # w \/ j > k PROVE Game(W, t, blocks, j) /\ W[j] # w
  <2>1. W[j] # w
    <3> SUFFICES ASSUME W[j] = w PROVE FALSE
      OBVIOUS
    <3>1. j \in Nodes(n) /\ j < w + n
      <4>1. j \in Nodes(n)
        BY NodesOf
      <4> QED BY <4>1 DEF Streams
    <3>2. j <= (w + n) \div 2
      <4> PICK m \in Nodes(n) : m = w + n
        BY <1>4
      <4> QED BY <1>4, <3>1 DEF Path
    <3> QED BY <1>1, <1>5, <3>2 DEF Streams
  <2>2. Game(W, t, old, j) /\ t[j] # w
    BY DEF Games, Path
  <2>3. W[j] \in Streams(n) /\ t[j] \in Streams(n)
    <3>1. j \in Nodes(n) /\ j \in Streams(n)
      BY NodesOf
    <3> QED BY <1>3, <3>1
  <2>4. blocks[W[j]] = old[W[j]] /\ blocks[t[j]] = old[t[j]]
    BY <2>1, <2>2, <2>3
  <2> QED BY <2>1, <2>2, <2>4 DEF Game
<1>6. k = 0 => W[1] = w
  <2>1. k = 0 => w + n = 1
    BY <1>1 DEF Streams
  <2> QED BY <1>4, <2>1
<1>7. k > 0 => /\ W[k] = w
               /\ (W[2 * k] = w /\ W[2 * k] = w) \/ (W[2 * k + 1] = w /\ W[2 * k + 1] = w)
  <2> SUFFICES ASSUME k > 0 PROVE W[k] = w /\ (W[2 * k] = w \/ W[2 * k + 1] = w)
    OBVIOUS
  <2>1. PICK m \in Nodes(n) : m = w + n /\ W[m] = w
    BY <1>4
  <2>2. m # 1 /\ k = m \div 2
    BY <1>1, <2>1 DEF Streams
  <2>3. W[k] = w
    BY <2>1, <2>2 DEF Path
  <2>4. m = 2 * k \/ m = 2 * k + 1
    BY <2>2, NodesOf
  <2> QED BY <2>1, <2>3, <2>4
<1> HIDE DEF Game
<1> QED BY <1>2, <1>3, <1>5, <1>6, <1>7 DEF Replayed


\* A round of a replay that is not at its end decides the game of one node.
LEMMA ReplayGoesOn ==
  ASSUME NEW n \in Nat \ {0}, NEW t \in [Streams(n) -> Streams(n)], NEW old, NEW blocks \in [Streams(n) -> Block],
         NEW W, Games(n, W, t, old), NEW w \in Streams(n), Path(n, W, t, w),
         NEW r \in Replays(n), r.parent > 0, NEW V, Replayed(n, W, t, w, blocks, r, V)
  PROVE  \E U : Replayed(n, W, t, w, blocks, PlayOnce(r, blocks), U)
<1>1. PICK k \in Streams(n), s \in Streams(n), tr \in [Streams(n) -> Streams(n)] :
        k = r.parent /\ s = r.small /\ tr = r.tree
  BY DEF Replays
<1>2. k \in 1 .. n - 1 /\ k \in Nodes(n) /\ W[k] = w
  <2>1. k \in 1 .. n - 1
    BY <1>1 DEF Streams
  <2> QED BY <1>1, <2>1, NodesOf DEF Replayed
<1>3. V \in [Nodes(n) -> Streams(n)]
  BY DEF Replayed
<1>4. PICK l \in Streams(n) : l = t[k] /\ tr[k] = l /\ l # w
  <2>1. tr[k] = t[k] /\ t[k] # w /\ t[k] \in Streams(n)
    BY <1>1, <1>2 DEF Replayed, Path
  <2> QED BY <2>1
<1>5. (V[2 * k] = s /\ V[2 * k + 1] = l) \/ (V[2 * k + 1] = s /\ V[2 * k] = l)
  <2>1. PICK a \in Nodes(n), b \in Nodes(n) : a = 2 * k /\ b = 2 * k + 1
    BY <1>2, NodesOf
  <2>2. (W[a] = w /\ V[a] = s) \/ (W[b] = w /\ V[b] = s)
    BY <1>1, <1>2, <2>1 DEF Replayed
  <2>3. (W[a] = w /\ W[b] = l) \/ (W[b] = w /\ W[a] = l)
    BY <1>2, <1>4, <2>1 DEF Path
  <2>4. (W[a] = l => V[a] = l) /\ (W[b] = l => V[b] = l)
    BY <1>4 DEF Replayed
  <2>5. (V[a] = s /\ V[b] = l) \/ (V[b] = s /\ V[a] = l)
    BY <1>4, <2>2, <2>3, <2>4
  <2> QED BY <2>1, <2>5
<1> DEFINE low  == IF After(blocks[l], blocks[s]) THEN s ELSE l
           high == IF After(blocks[l], blocks[s]) THEN l ELSE s
           U == [V EXCEPT ![k] = low]
           q == PlayOnce(r, blocks)
<1>6. q.parent = k \div 2 /\ q.small = low /\ q.tree = [tr EXCEPT ![k] = high]
  <2>1. [tr EXCEPT ![k] = l] = tr
    BY <1>2, <1>4
  <2>2. CASE After(blocks[l], blocks[s])
    BY <1>1, <1>2, <1>4, <2>1, <2>2 DEF PlayOnce, Replays
  <2>3. CASE ~After(blocks[l], blocks[s])
    BY <1>1, <1>2, <1>4, <2>3 DEF PlayOnce, Replays
  <2> QED BY <2>2, <2>3
<1>7. low \in Streams(n) /\ high \in Streams(n) /\ ~After(blocks[low], blocks[high])
  <2>1. blocks[l] \in Block /\ blocks[s] \in Block
    OBVIOUS
  <2> QED BY <2>1, AfterIsAnOrder
<1>8. /\ U \in [Nodes(n) -> Streams(n)] /\ U[k] = low
      /\ \A j \in Nodes(n) : j # k => U[j] = V[j]
  BY <1>2, <1>3, <1>7
<1>9. q.tree[k] = high /\ \A j \in Streams(n) : j # k => q.tree[j] = tr[j]
  BY <1>6
<1>10. Game(U, q.tree, blocks, k)
  <2>1. 2 * k \in Nodes(n) /\ 2 * k + 1 \in Nodes(n) /\ 2 * k # k /\ 2 * k + 1 # k
    <3>1. 2 * k # k /\ 2 * k + 1 # k
      BY <1>2
    <3> QED BY <1>2, <3>1, NodesOf
  <2>2. U[2 * k] = V[2 * k] /\ U[2 * k + 1] = V[2 * k + 1]
    BY <1>8, <2>1
  <2>3. (low = s /\ high = l) \/ (low = l /\ high = s)
    OBVIOUS
  <2> HIDE DEF U, low, high, q
  <2> QED BY <1>5, <1>7, <1>8, <1>9, <2>2, <2>3 DEF Game
<1> HIDE DEF U, low, high, q
<1>11. ASSUME NEW j \in 1 .. n - 1, j # k, W[j] # w \/ j > k
       PROVE  Game(U, q.tree, blocks, j)
  <2>1. PICK a \in Nodes(n), b \in Nodes(n) : a = 2 * j /\ b = 2 * j + 1
    BY NodesOf
  <2>2. j \in Nodes(n) /\ j \in Streams(n)
    BY NodesOf
  <2>3. a # k /\ b # k
    <3> SUFFICES ASSUME a = k \/ b = k PROVE FALSE
      OBVIOUS
    <3>1. k # 1 /\ k \div 2 = j
      BY <1>2, <2>1
    <3>2. W[j] = w
      BY <1>2, <3>1 DEF Path
    <3> QED BY <1>11, <2>1, <3>2
  <2>4. Game(V, tr, blocks, j)
    BY <1>1, <1>11 DEF Replayed
  <2>5. U[j] = V[j] /\ U[a] = V[a] /\ U[b] = V[b] /\ q.tree[j] = tr[j]
    BY <1>8, <1>9, <1>11, <2>2, <2>3
  <2> QED BY <2>1, <2>4, <2>5 DEF Game
<1>12. \A j \in n .. 2 * n - 1 : U[j] = j - n
  <2> SUFFICES ASSUME NEW j \in n .. 2 * n - 1 PROVE U[j] = j - n
    OBVIOUS
  <2>1. j # k /\ j \in Nodes(n)
    <3>1. j \in Nodes(n)
      BY NodesOf
    <3> QED BY <1>2, <3>1
  <2> QED BY <1>8, <2>1 DEF Replayed
<1>13. \A j \in Nodes(n) : W[j] # w => U[j] = W[j]
  BY <1>2, <1>8 DEF Replayed
<1>14. \A j \in 1 .. n - 1 : W[j] # w \/ j > q.parent => Game(U, q.tree, blocks, j)
  <2> SUFFICES ASSUME NEW j \in 1 .. n - 1, W[j] # w \/ j > k \div 2 PROVE Game(U, q.tree, blocks, j)
    BY <1>6
  <2>1. CASE j = k
    BY <1>10, <2>1
  <2>2. CASE j # k /\ (W[j] # w \/ j > k)
    BY <1>11, <2>2
  <2>3. CASE j < k /\ W[j] = w
    <3>1. j \in Nodes(n)
      BY NodesOf
    <3>2. j <= k \div 2
      BY <1>2, <2>3, <3>1 DEF Path
    <3> QED BY <1>2, <2>3, <3>2
  <2> QED BY <1>2, <2>1, <2>2, <2>3
<1>15. \A j \in 1 .. n - 1 : W[j] # w \/ j <= q.parent => q.tree[j] = t[j]
  <2> SUFFICES ASSUME NEW j \in 1 .. n - 1, W[j] # w \/ j <= k \div 2 PROVE q.tree[j] = t[j]
    BY <1>6
  <2>1. j # k /\ j \in Streams(n) /\ (W[j] # w \/ j <= k)
    <3>1. j \in Streams(n)
      BY DEF Streams
    <3>2. k \in Int /\ k \div 2 < k
      BY <1>2
    <3>3. j = k => W[j] = w /\ ~(j <= k \div 2)
      BY <1>2, <3>2
    <3>4. j <= k \div 2 => j <= k
      BY <3>2
    <3> QED BY <3>1, <3>3, <3>4
  <2>2. tr[j] = t[j]
    BY <1>1, <2>1 DEF Replayed
  <2> QED BY <1>9, <2>1, <2>2
<1>16. q.parent = 0 => U[1] = q.small
  <2>1. k \div 2 = 0 => k = 1
    BY <1>2
  <2> QED BY <1>6, <1>8, <2>1
<1>17. q.parent > 0 => /\ W[q.parent] = w
                       /\ \/ W[2 * q.parent] = w /\ U[2 * q.parent] = q.small
                          \/ W[2 * q.parent + 1] = w /\ U[2 * q.parent + 1] = q.small
  <2> SUFFICES ASSUME k \div 2 > 0
               PROVE  /\ W[k \div 2] = w
                      /\ \/ W[2 * (k \div 2)] = w /\ U[2 * (k \div 2)] = low
                         \/ W[2 * (k \div 2) + 1] = w /\ U[2 * (k \div 2) + 1] = low
    BY <1>6
  <2>1. k # 1 /\ (k = 2 * (k \div 2) \/ k = 2 * (k \div 2) + 1)
    BY <1>2
  <2>2. W[k \div 2] = w
    BY <1>2, <2>1 DEF Path
  <2> QED BY <1>2, <1>8, <2>1, <2>2
<1>18. Replayed(n, W, t, w, blocks, q, U)
  BY <1>8, <1>12, <1>13, <1>14, <1>15, <1>16, <1>17 DEF Replayed
<1> QED BY <1>18 DEF q


\* adjust_tree makes a loser tree of one in which only the winner's block is new.
LEMMA AdjustTreePlays ==
  ASSUME NEW n \in Nat \ {0}, num_files = n, NEW t, NEW old \in [Streams(n) -> Block], IsLoserTree(n, t, old),
         NEW w, w = t[0], NEW blocks \in [Streams(n) -> Block],
         \A v \in Streams(n) : v # w => blocks[v] = old[v]
  PROVE  IsLoserTree(n, AdjustTree(t, blocks, w), blocks)
<1>1. PICK W : Games(n, W, t, old)
  BY DEF IsLoserTree
<1>2. t \in [Streams(n) -> Streams(n)]
  BY DEF IsLoserTree
<1>3. w \in Streams(n)
  BY <1>2, NodesOf
<1>4. Path(n, W, t, w)
  BY <1>1, <1>2, PathOfWinner
<1>5. PICK f \in [0 .. n -> Replays(n)] : IsReplay(f, n, t, blocks, w)
  BY <1>2, <1>3, AdjustTreeRounds, Zenon
<1> DEFINE Good == {d \in 0 .. n : f[d].parent <= n - d /\ \E V : Replayed(n, W, t, w, blocks, f[d], V)}
<1>6. 0 \in Good
  <2>1. f[0].parent <= n - 0
    BY <1>3, <1>5 DEF Streams, IsReplay
  <2>2. Replayed(n, W, t, w, blocks, f[0], W)
    BY <1>1, <1>2, <1>3, <1>4, <1>5, ReplayStarts DEF IsReplay
  <2> QED BY <2>1, <2>2
<1>7. ASSUME NEW d \in 0 .. n - 1, d \in Good PROVE d + 1 \in Good
  <2>1. PICK V : Replayed(n, W, t, w, blocks, f[d], V)
    BY <1>7
  <2>2. PICK r \in Replays(n) : r = f[d] /\ f[d + 1] = PlayOnce(r, blocks) /\ r.parent <= n - d
    <3>1. d + 1 \in 1 .. n /\ (d + 1) - 1 = d /\ d \in 0 .. n
      OBVIOUS
    <3> QED BY <1>5, <1>7, <3>1 DEF IsReplay
  <2>3. PICK k \in Streams(n) : k = r.parent
    BY <2>2 DEF Replays
  <2>4. d + 1 \in 0 .. n
    OBVIOUS
  <2>5. CASE k = 0
    <3>1. f[d + 1] = r
      BY <2>2, <2>3, <2>5 DEF PlayOnce
    <3>2. r.parent <= n - (d + 1)
      BY <2>3, <2>5
    <3> QED BY <2>1, <2>2, <2>4, <3>1, <3>2
  <2>6. CASE k > 0
    <3>1. PICK U : Replayed(n, W, t, w, blocks, f[d + 1], U)
      BY <1>1, <1>2, <1>3, <1>4, <2>1, <2>2, <2>3, <2>6, ReplayGoesOn
    <3>2. f[d + 1].parent = k \div 2
      BY <2>2, <2>3, <2>6 DEF PlayOnce, Replays
    <3>3. k \div 2 <= n - (d + 1)
      BY <2>2, <2>3, <2>6 DEF Streams
    <3> QED BY <2>4, <3>1, <3>2, <3>3
  <2> QED BY <2>3, <2>5, <2>6 DEF Streams
<1>8. n \in Good
  <2>1. \A d \in 0 .. n : d \in Good
    <3> HIDE DEF Good
    <3> QED BY <1>6, <1>7, UpToIsInductive
  <2> QED BY <2>1
<1>9. PICK V : Replayed(n, W, t, w, blocks, f[n], V)
  BY <1>8
<1> DEFINE r == f[n]
<1>r. r \in Replays(n) /\ r.parent <= 0 /\ Replayed(n, W, t, w, blocks, r, V)
  <2>1. n \in 0 .. n /\ n - n = 0
    OBVIOUS
  <2> QED BY <1>5, <1>8, <1>9, <2>1
<1> HIDE DEF r
<1>10. r.parent = 0 /\ r.small \in Streams(n) /\ r.tree \in [Streams(n) -> Streams(n)]
  <2>1. PICK k \in Streams(n) : k = r.parent /\ k <= 0
    BY <1>r DEF Replays
  <2>2. k = 0
    BY <2>1 DEF Streams
  <2> QED BY <1>r, <2>1, <2>2 DEF Replays
<1> DEFINE top == [r.tree EXCEPT ![0] = r.small]
<1>11. 0 \in Streams(n) /\ top \in [Streams(n) -> Streams(n)] /\ top[0] = r.small
  <2>1. 0 \in Streams(n)
    BY NodesOf
  <2> QED BY <1>10, <2>1
<1>12. ASSUME NEW j \in 1 .. n - 1 PROVE Game(V, top, blocks, j)
  <2>1. j \in Streams(n) /\ j # 0 /\ j > 0
    BY DEF Streams
  <2>2. top[j] = r.tree[j]
    BY <1>10, <2>1
  <2>3. Game(V, r.tree, blocks, j)
    BY <1>r, <1>10, <2>1 DEF Replayed
  <2> QED BY <2>2, <2>3 DEF Game
<1>13. Games(n, V, top, blocks)
  <2>1. top[0] = V[1]
    BY <1>r, <1>10, <1>11 DEF Replayed
  <2> QED BY <1>r, <1>12, <2>1 DEF Games, Replayed
<1>14. AdjustTree(t, blocks, w) = top
  BY <1>5, <1>r DEF r, IsReplay
<1> HIDE DEF top
<1> QED BY <1>11, <1>13, <1>14 DEF IsLoserTree


-----------------------------------------------------------------------------
(* The streams *)

\* What a state knows of its streams, one for each log.
StreamsOf(ls, ps, bf, blks) ==
  /\ ls \in Seq(Seq(Block)) \ {<<>>}
  /\ ps \in [Streams(Len(ls)) -> Nat]
  /\ \A w \in Streams(Len(ls)) : ps[w] <= Len(ls[w + 1])
  /\ bf \in [Streams(Len(ls)) -> Seq(Block)]
  /\ blks \in [Streams(Len(ls)) -> Block]

\* Of stream w the first of n records is new, or there is none.
Loaded(ls, w, ps, ps1, blks, blks1, n) ==
  /\ n \in Nat /\ ps1[w] = ps[w] + n
  /\ n = 0 => blks1[w].size = 0
  /\ n > 0 => blks1[w] = ls[w + 1][ps[w] + 1]
  /\ \A v \in Streams(Len(ls)) : v # w => ps1[v] = ps[v] /\ blks1[v] = blks[v]

LEMMA FilesAre == Files = Streams(num_files) /\ num_files = Len(logs)
  BY DEF Files, Streams, num_files

LEMMA ReadsAre ==
  ASSUME StreamsOf(logs, pos, buf, bls), NEW w \in Streams(Len(logs)), NEW n \in Reads(w)
  PROVE  n \in Nat /\ pos[w] + n <= Len(Log(w))
<1>1. w + 1 \in 1 .. Len(logs) /\ Log(w) = logs[w + 1]
  <2>1. Len(logs) \in Nat
    BY DEF StreamsOf
  <2> QED BY <2>1 DEF Streams, Log
<1>2. Log(w) \in Seq(Block) /\ pos[w] \in Nat /\ pos[w] <= Len(Log(w))
  BY <1>1 DEF StreamsOf
<1>3. PICK l \in Nat, p \in Nat : l = Len(Log(w)) /\ p = pos[w] /\ p <= l
  BY <1>2
<1>4. PICK m \in Nat : m <= l - p /\ n \in {m} \union (0 .. m - 1)
  <2> DEFINE rest == l - p
             most == IF rest < BufferSize THEN rest ELSE BufferSize
  <2>1. most \in Nat /\ most <= l - p
    BY <1>3, LogsAssumption
  <2>2. n \in {most} \union (0 .. most - 1)
    <3> HIDE DEF most
    <3>1. n \in {most} \union (IF failures[w] < MaxFailures THEN 0 .. most - 1 ELSE {})
      BY <1>3 DEF Reads, most
    <3> QED BY <3>1
  <2> HIDE DEF most
  <2> QED BY <2>1, <2>2
<1> QED BY <1>3, <1>4

\* load_buffer loads a record of the log, or a block of size zero.
LEMMA LoadBufferLoads ==
  ASSUME StreamsOf(logs, pos, buf, bls), NEW w \in Streams(Len(logs)), LoadBuffer(w), logs' = logs
  PROVE  /\ StreamsOf(logs', pos', buf', bls')
         /\ \E n : Loaded(logs, w, pos, pos', bls, bls', n)
<1>1. PICK n \in Reads(w) :
        LET got == SubSeq(Log(w), pos[w] + 1, pos[w] + n)
        IN  /\ pos' = [pos EXCEPT ![w] = @ + n]
            /\ buf' = [buf EXCEPT ![w] = IF n = 0 THEN <<>> ELSE Tail(got)]
            /\ bls' = [bls EXCEPT ![w] = IF n = 0 THEN [@ EXCEPT !.size = 0] ELSE Head(got)]
  BY DEF LoadBuffer
<1>2. n \in Nat /\ pos[w] + n <= Len(Log(w))
  BY ReadsAre
<1>3. w + 1 \in 1 .. Len(logs) /\ Log(w) = logs[w + 1]
  <2>1. Len(logs) \in Nat
    BY DEF StreamsOf
  <2> QED BY <2>1 DEF Streams, Log
<1>4. PICK l \in Seq(Block), p \in Nat : l = Log(w) /\ p = pos[w] /\ p + n <= Len(l)
  BY <1>2, <1>3 DEF StreamsOf
<1> DEFINE got == SubSeq(l, p + 1, p + n)
<1>5. got \in Seq(Block) /\ Len(got) = n
  BY <1>2, <1>4, SMTT(30)
<1>6. n > 0 => Head(got) = l[p + 1] /\ Head(got) \in Block /\ Tail(got) \in Seq(Block)
  <2> SUFFICES ASSUME n > 0 PROVE Head(got) = l[p + 1] /\ Head(got) \in Block /\ Tail(got) \in Seq(Block)
    OBVIOUS
  <2>1. got[1] = l[p + 1]
    BY <1>2, <1>4, SMTT(30)
  <2>2. n \in Nat /\ n > 0
    BY <1>2
  <2> HIDE DEF got
  <2> QED BY <1>5, <2>1, <2>2
<1>7. /\ pos' = [pos EXCEPT ![w] = p + n]
      /\ buf' = [buf EXCEPT ![w] = IF n = 0 THEN <<>> ELSE Tail(got)]
      /\ bls' = [bls EXCEPT ![w] = IF n = 0 THEN [bls[w] EXCEPT !.size = 0] ELSE Head(got)]
  BY <1>1, <1>4
<1> HIDE DEF got
<1> DEFINE F == Streams(Len(logs))
<1>8. pos \in [F -> Nat] /\ buf \in [F -> Seq(Block)] /\ bls \in [F -> Block] /\ w \in F
  BY DEF StreamsOf
<1>9. [bls[w] EXCEPT !.size = 0] \in Block /\ [bls[w] EXCEPT !.size = 0].size = 0
  BY <1>8 DEF Block
<1> HIDE DEF F
<1>10. pos' \in [F -> Nat] /\ buf' \in [F -> Seq(Block)] /\ bls' \in [F -> Block]
  <2>1. pos' \in [F -> Nat]
    BY <1>2, <1>4, <1>7, <1>8
  <2>2. buf' \in [F -> Seq(Block)]
    BY <1>2, <1>6, <1>7, <1>8
  <2>3. bls' \in [F -> Block]
    BY <1>2, <1>6, <1>7, <1>8, <1>9
  <2> QED BY <2>1, <2>2, <2>3
<1>11. /\ pos'[w] = p + n
       /\ bls'[w] = IF n = 0 THEN [bls[w] EXCEPT !.size = 0] ELSE Head(got)
       /\ \A v \in F : v # w => pos'[v] = pos[v] /\ bls'[v] = bls[v]
  BY <1>7, <1>8
<1>12. \A v \in F : pos'[v] <= Len(logs[v + 1])
  <2> SUFFICES ASSUME NEW v \in F PROVE pos'[v] <= Len(logs[v + 1])
    OBVIOUS
  <2>1. CASE v = w
    BY <1>3, <1>4, <1>11, <2>1
  <2>2. CASE v # w
    BY <1>11, <2>2 DEF F, StreamsOf
  <2> QED BY <2>1, <2>2
<1>13. StreamsOf(logs', pos', buf', bls')
  BY <1>10, <1>12 DEF StreamsOf, F
<1>14. Loaded(logs, w, pos, pos', bls, bls', n)
  BY <1>2, <1>3, <1>4, <1>6, <1>9, <1>11 DEF Loaded, F
<1> QED BY <1>13, <1>14

\* load_block changes no other stream.
LEMMA LoadBlockLoads ==
  ASSUME StreamsOf(logs, pos, buf, bls), NEW w \in Streams(Len(logs)), LoadBlock(w), logs' = logs
  PROVE  /\ StreamsOf(logs', pos', buf', bls')
         /\ \A v \in Streams(Len(logs)) : v # w => bls'[v] = bls[v]
<1>1. CASE buf[w] = <<>> /\ full[w]
  <2>1. LoadBuffer(w)
    BY <1>1 DEF LoadBlock
  <2> QED BY <2>1, LoadBufferLoads DEF Loaded
<1>2. CASE ~(buf[w] = <<>> /\ full[w])
  <2> DEFINE F == Streams(Len(logs))
  <2>1. pos' = pos /\ pos \in [F -> Nat] /\ buf \in [F -> Seq(Block)] /\ bls \in [F -> Block] /\ w \in F
    BY <1>2 DEF LoadBlock, StreamsOf
  <2>2. /\ buf' \in [F -> Seq(Block)] /\ bls' \in [F -> Block]
        /\ \A v \in F : v # w => bls'[v] = bls[v]
    <3>1. CASE buf[w] # <<>>
      <4>1. bls' = [bls EXCEPT ![w] = Head(buf[w])] /\ buf' = [buf EXCEPT ![w] = Tail(buf[w])]
        BY <1>2, <3>1 DEF LoadBlock
      <4>2. PICK q \in Seq(Block) : q = buf[w] /\ q # <<>>
        BY <2>1, <3>1
      <4>3. Head(q) \in Block /\ Tail(q) \in Seq(Block)
        BY <4>2
      <4> HIDE DEF F
      <4> QED BY <2>1, <4>1, <4>2, <4>3
    <3>2. CASE buf[w] = <<>>
      <4>1. bls' = [bls EXCEPT ![w] = [bls[w] EXCEPT !.size = 0]] /\ buf' = buf
        BY <1>2, <3>2 DEF LoadBlock
      <4>2. [bls[w] EXCEPT !.size = 0] \in Block
        BY <2>1 DEF Block
      <4> HIDE DEF F
      <4> QED BY <2>1, <4>1, <4>2
    <3> QED BY <3>1, <3>2
  <2> QED BY <2>1, <2>2 DEF StreamsOf
<1> QED BY <1>1, <1>2


-----------------------------------------------------------------------------
(* WinnerIsLeast: between two matches the tree is a loser tree of the blocks *)

LoserInv ==
  /\ StreamsOf(logs, pos, buf, bls)
  /\ i \in 0 .. Len(logs)
  /\ pc \in {"count", "next", "end"} => IsLoserTree(Len(logs), tree, bls)

LEMMA WinnerIsAStream ==
  ASSUME LoserInv, pc \in {"count", "next", "end"}
  PROVE  /\ winner \in Streams(Len(logs))
         /\ {tree[k] : k \in Streams(Len(logs))} = Streams(Len(logs))
         /\ \A w \in Streams(Len(logs)) : ~After(bls[winner], bls[w])
<1>1. PICK n \in Nat \ {0} : n = Len(logs)
  BY DEF LoserInv, StreamsOf
<1>2. IsLoserTree(n, tree, bls) /\ bls \in [Streams(n) -> Block]
  BY <1>1 DEF LoserInv, StreamsOf
<1>3. winner = tree[0] /\ tree[0] \in Streams(n)
  BY <1>2, NodesOf DEF IsLoserTree, winner
<1> QED BY <1>1, <1>2, <1>3, LoserTreeHoldsAll

LEMMA LoserInvInit == Init => LoserInv
<1> SUFFICES ASSUME Init PROVE LoserInv
  OBVIOUS
<1>1. logs \in Seq(Seq(Block)) \ {<<>>}
  BY LogsAssumption DEF Init
<1> DEFINE F == Streams(Len(logs))
<1>2. pos = [w \in F |-> 0] /\ buf = [w \in F |-> <<>>] /\ bls = [w \in F |-> EndBlock]
  BY FilesAre DEF Init
<1>3. EndBlock \in Block
  BY DEF EndBlock, Block
<1>4. pos \in [F -> Nat] /\ buf \in [F -> Seq(Block)] /\ bls \in [F -> Block]
  <2> HIDE DEF F
  <2> QED BY <1>2, <1>3
<1>5. ASSUME NEW w \in F PROVE pos[w] <= Len(logs[w + 1])
  <2>1. w + 1 \in 1 .. Len(logs)
    BY <1>1 DEF Streams
  <2>2. Len(logs[w + 1]) \in Nat
    BY <1>1, <2>1
  <2> QED BY <1>2, <2>2
<1>6. i \in 0 .. Len(logs) /\ pc = "open"
  BY <1>1 DEF Init
<1> QED BY <1>1, <1>4, <1>5, <1>6 DEF LoserInv, StreamsOf

LEMMA LoserInvKept == LoserInv /\ [Next]_vars => LoserInv'
<1> SUFFICES ASSUME LoserInv, [Next]_vars PROVE LoserInv'
  OBVIOUS
<1>1. PICK n \in Nat \ {0} : n = Len(logs) /\ num_files = n
  BY FilesAre DEF LoserInv, StreamsOf
<1>2. StreamsOf(logs, pos, buf, bls) /\ i \in 0 .. n /\ bls \in [Streams(n) -> Block]
  BY <1>1 DEF LoserInv, StreamsOf
<1>3. CASE Open
  BY <1>3 DEF Open, LoserInv, inputVars, streamVars
<1>4. CASE CannotOpen
  BY <1>4 DEF CannotOpen, LoserInv, inputVars, streamVars
<1>5. CASE LoadFirst
  <2>1. i < n /\ LoadBuffer(i) /\ logs' = logs /\ pc = "load" /\ pc' = pc /\ i' = i + 1
    BY <1>1, <1>5 DEF LoadFirst, inputVars
  <2>2. i \in Streams(Len(logs)) /\ i' \in 0 .. Len(logs)
    BY <1>1, <1>2, <2>1 DEF Streams
  <2>3. StreamsOf(logs', pos', buf', bls')
    BY <1>2, <2>1, <2>2, LoadBufferLoads
  <2> QED BY <2>1, <2>2, <2>3 DEF LoserInv
<1>6. CASE StartMerge
  <2>1. tree' = InitTree /\ logs' = logs /\ i' = i /\ pos' = pos /\ buf' = buf /\ bls' = bls
    BY <1>6 DEF StartMerge, inputVars, streamVars
  <2>2. IsLoserTree(n, tree', bls')
    BY <1>1, <1>2, <2>1, InitTreePlays
  <2> QED BY <1>1, <1>2, <2>1, <2>2 DEF LoserInv
<1>7. CASE Count
  BY <1>7 DEF Count, LoserInv, inputVars, streamVars
<1>8. CASE LoadNext
  <2>1. /\ pc = "next" /\ LoadBlock(winner) /\ tree' = AdjustTree(tree, bls', winner)
        /\ logs' = logs /\ i' = i
    BY <1>8 DEF LoadNext, inputVars
  <2>2. IsLoserTree(n, tree, bls) /\ winner \in Streams(n)
    BY <1>1, <2>1, WinnerIsAStream DEF LoserInv
  <2>3. StreamsOf(logs', pos', buf', bls') /\ \A v \in Streams(n) : v # winner => bls'[v] = bls[v]
    BY <1>1, <1>2, <2>1, <2>2, LoadBlockLoads
  <2>4. PICK blocks \in [Streams(n) -> Block] : blocks = bls'
    BY <1>1, <2>1, <2>3 DEF StreamsOf
  <2>5. PICK w : w = winner /\ w = tree[0]
    BY DEF winner
  <2>6. IsLoserTree(n, AdjustTree(tree, blocks, w), blocks)
    BY <1>1, <1>2, <2>2, <2>3, <2>4, <2>5, AdjustTreePlays
  <2> QED BY <1>1, <1>2, <2>1, <2>3, <2>4, <2>5, <2>6 DEF LoserInv
<1>9. CASE LoadPastEnd
  <2>1. logs' = logs /\ i' = i /\ pos' = pos /\ buf' = buf /\ bls' = bls /\ pc = "next"
    BY <1>9 DEF LoadPastEnd, inputVars, streamVars
  <2>2. CASE pc' = "died"
    BY <1>2, <2>1, <2>2 DEF LoserInv
  <2>3. CASE tree' = AdjustTree(tree, bls, winner)
    <3>1. IsLoserTree(n, tree, bls)
      BY <1>1, <2>1 DEF LoserInv
    <3>2. PICK w : w = winner /\ w = tree[0]
      BY DEF winner
    <3>3. IsLoserTree(n, AdjustTree(tree, bls, w), bls)
      BY <1>1, <1>2, <3>1, <3>2, AdjustTreePlays
    <3> QED BY <1>1, <1>2, <2>1, <2>3, <3>2, <3>3 DEF LoserInv
  <2> QED BY <1>9, <2>2, <2>3 DEF LoadPastEnd
<1>10. CASE Finish
  BY <1>10 DEF Finish, LoserInv, inputVars, streamVars
<1>11. CASE UNCHANGED vars
  BY <1>11 DEF vars, LoserInv, inputVars, streamVars
<1> QED BY <1>3, <1>4, <1>5, <1>6, <1>7, <1>8, <1>9, <1>10, <1>11 DEF Next

\* At every comparison each stream is in the tree once, and the winner is one
\* with a least block: init_tree and adjust_tree, dedup_merge.cpp.
THEOREM WinnerLeast == Spec => []WinnerIsLeast
<1>1. LoserInv => WinnerIsLeast
  <2> SUFFICES ASSUME LoserInv, pc \in {"count", "end"}
               PROVE  {tree[k] : k \in Files} = Files /\ \A w \in Files : ~After(bls[winner], bls[w])
    BY DEF WinnerIsLeast
  <2>1. pc \in {"count", "next", "end"}
    OBVIOUS
  <2> QED BY <2>1, WinnerIsAStream, FilesAre
<1> QED BY <1>1, LoserInvInit, LoserInvKept, PTL DEF Spec

-----------------------------------------------------------------------------
(* Every step of the old release advances *)

\* What is read is still to come; a block that is loaded comes from what is
\* read, or from the buffer.
LEMMA LoadBufferTakes ==
  ASSUME StreamsOf(logs, pos, buf, bls), NEW w \in Streams(Len(logs)), LoadBuffer(w), logs' = logs
  PROVE  /\ ToCome(w)' <= Len(Log(w)) - pos[w] + Len(buf[w])
         /\ \A v \in Streams(Len(logs)) : v # w => buf'[v] = buf[v]
<1>1. PICK n \in Reads(w) :
        LET got == SubSeq(Log(w), pos[w] + 1, pos[w] + n)
        IN  /\ pos' = [pos EXCEPT ![w] = @ + n]
            /\ buf' = [buf EXCEPT ![w] = IF n = 0 THEN <<>> ELSE Tail(got)]
  BY DEF LoadBuffer
<1>2. n \in Nat /\ pos[w] + n <= Len(Log(w))
  BY ReadsAre
<1>3. w + 1 \in 1 .. Len(logs) /\ Log(w) = logs[w + 1] /\ Log(w)' = Log(w)
  <2>1. Len(logs) \in Nat
    BY DEF StreamsOf
  <2> QED BY <2>1 DEF Streams, Log
<1>4. PICK l \in Seq(Block), p \in Nat : l = Log(w) /\ p = pos[w] /\ p + n <= Len(l)
  BY <1>2, <1>3 DEF StreamsOf
<1> DEFINE got == SubSeq(l, p + 1, p + n)
<1>5. got \in Seq(Block) /\ Len(got) = n
  BY <1>2, <1>4, SMTT(30)
<1> DEFINE F == Streams(Len(logs))
<1>6. pos \in [F -> Nat] /\ buf \in [F -> Seq(Block)] /\ w \in F
  BY DEF StreamsOf
<1>7. /\ pos' = [pos EXCEPT ![w] = p + n]
      /\ buf' = [buf EXCEPT ![w] = IF n = 0 THEN <<>> ELSE Tail(got)]
  BY <1>1, <1>4
<1> HIDE DEF F, got
<1>8. pos'[w] = p + n /\ buf'[w] = (IF n = 0 THEN <<>> ELSE Tail(got)) /\ \A v \in F : v # w => buf'[v] = buf[v]
  BY <1>6, <1>7
<1>9. Len(buf'[w]) = IF n = 0 THEN 0 ELSE n - 1
  BY <1>2, <1>5, <1>8
<1>10. ToCome(w)' = Len(l) - (p + n) + Len(buf'[w]) + (IF bls'[w].size = 0 THEN 0 ELSE 1)
  BY <1>3, <1>4, <1>8 DEF ToCome
<1>11. PICK q \in Seq(Block) : q = buf[w]
  BY <1>6
<1>12. PICK c \in {0, 1} : (IF bls'[w].size = 0 THEN 0 ELSE 1) = c /\ (n = 0 => c = 0)
  <2>1. n = 0 => bls'[w].size = 0
    BY LoadBufferLoads, <1>2, <1>8, <1>4 DEF Loaded
  <2> QED BY <2>1
<1>13. Len(q) \in Nat /\ Len(l) \in Nat
  BY <1>4
<1>14. ToCome(w)' <= Len(l) - p + Len(q)
  <2>1. PICK a, b, t : a = Len(l) /\ b = Len(q) /\ t = Len(buf'[w])
    OBVIOUS
  <2>2. a \in Nat /\ b \in Nat /\ t = (IF n = 0 THEN 0 ELSE n - 1) /\ p \in Nat /\ n \in Nat
    BY <1>2, <1>4, <1>9, <1>13, <2>1
  <2>3. ToCome(w)' = a - (p + n) + t + c
    BY <1>10, <1>12, <2>1
  <2>4. ToCome(w)' <= a - p + b
    BY <1>12, <2>2, <2>3
  <2> QED BY <2>1, <2>4
<1> QED BY <1>4, <1>8, <1>11, <1>14 DEF F

LEMMA LoadBlockTakes ==
  ASSUME StreamsOf(logs, pos, buf, bls), NEW w \in Streams(Len(logs)), LoadBlock(w), logs' = logs
  PROVE  /\ ToCome(w)' <= Len(Log(w)) - pos[w] + Len(buf[w])
         /\ \A v \in Streams(Len(logs)) : v # w => pos'[v] = pos[v] /\ buf'[v] = buf[v] /\ bls'[v] = bls[v]
<1>1. CASE buf[w] = <<>> /\ full[w]
  <2>1. LoadBuffer(w)
    BY <1>1 DEF LoadBlock
  <2> QED BY <2>1, LoadBufferTakes, LoadBufferLoads DEF Loaded
<1>2. CASE ~(buf[w] = <<>> /\ full[w])
  <2> DEFINE F == Streams(Len(logs))
  <2>1. pos' = pos /\ pos \in [F -> Nat] /\ buf \in [F -> Seq(Block)] /\ bls \in [F -> Block] /\ w \in F
    BY <1>2 DEF LoadBlock, StreamsOf
  <2>2. Log(w)' = Log(w) /\ Len(Log(w)) \in Nat
    <3>1. w + 1 \in 1 .. Len(logs)
      BY DEF StreamsOf, Streams
    <3> QED BY <3>1 DEF Log, StreamsOf
  <2>3. PICK q \in Seq(Block), p \in Nat : q = buf[w] /\ p = pos[w]
    BY <2>1
  <2>4. ToCome(w)' = Len(Log(w)) - p + Len(buf'[w]) + (IF bls'[w].size = 0 THEN 0 ELSE 1)
    BY <2>1, <2>2, <2>3 DEF ToCome
  <2> HIDE DEF F
  <2>5. CASE buf[w] # <<>>
    <3>1. bls' = [bls EXCEPT ![w] = Head(q)] /\ buf' = [buf EXCEPT ![w] = Tail(q)]
      BY <1>2, <2>3, <2>5 DEF LoadBlock
    <3>2. Len(buf'[w]) = Len(q) - 1 /\ Len(q) \in Nat
      BY <2>1, <2>3, <2>5, <3>1
    <3>3. \A v \in F : v # w => buf'[v] = buf[v] /\ bls'[v] = bls[v]
      BY <2>1, <3>1
    <3>4. ToCome(w)' <= Len(Log(w)) - p + Len(q)
      <4>1. PICK c \in {0, 1} : (IF bls'[w].size = 0 THEN 0 ELSE 1) = c
        OBVIOUS
      <4>2. PICK l \in Nat, b \in Nat : l = Len(Log(w)) /\ b = Len(q)
        BY <2>2, <3>2
      <4>3. ToCome(w)' = l - p + (b - 1) + c
        BY <2>4, <3>2, <4>1, <4>2
      <4>4. ToCome(w)' <= l - p + b
        BY <4>3
      <4> QED BY <4>2, <4>4
    <3> QED BY <2>1, <2>3, <3>3, <3>4 DEF F
  <2>6. CASE buf[w] = <<>>
    <3>1. bls' = [bls EXCEPT ![w] = [bls[w] EXCEPT !.size = 0]] /\ buf' = buf
      BY <1>2, <2>6 DEF LoadBlock
    <3>2. bls'[w].size = 0
      BY <2>1, <3>1 DEF Block
    <3>3. \A v \in F : v # w => bls'[v] = bls[v]
      BY <2>1, <3>1
    <3>4. ToCome(w)' <= Len(Log(w)) - p + Len(q)
      BY <2>2, <2>3, <2>4, <3>1, <3>2
    <3> QED BY <2>1, <2>3, <3>1, <3>3, <3>4 DEF F
  <2> QED BY <2>5, <2>6
<1> QED BY <1>1, <1>2

\* The records to come of each stream, and of all.
Coming == [w \in Files |-> ToCome(w)]
AllToCome == SumFunction(Coming)

LEMMA ToComeIsNat ==
  ASSUME StreamsOf(logs, pos, buf, bls)
  PROVE  /\ Coming \in [Files -> Nat]
         /\ AllToCome \in Nat
         /\ Files = Streams(Len(logs)) /\ IsFiniteSet(Files) /\ Len(logs) \in Nat
<1>1. Files = Streams(Len(logs)) /\ Len(logs) \in Nat /\ IsFiniteSet(Files)
  BY FilesAre, FS_Interval DEF StreamsOf, Streams
<1>2. ASSUME NEW w \in Files PROVE ToCome(w) \in Nat
  <2>1. w + 1 \in 1 .. Len(logs) /\ w \in Streams(Len(logs))
    BY <1>1 DEF Streams
  <2>2. PICK l, p, b \in Nat : l = Len(Log(w)) /\ p = pos[w] /\ b = Len(buf[w]) /\ p <= l
    BY <2>1 DEF StreamsOf, Log
  <2> QED BY <2>2 DEF ToCome
<1>3. Coming \in [Files -> Nat]
  BY <1>2 DEF Coming
<1> QED BY <1>1, <1>3, SumOfNat DEF AllToCome

\* A block that is loaded in place of another leaves less to come, and one
\* that is loaded in place of none leaves no more.
LEMMA ToComeIsLess ==
  ASSUME StreamsOf(logs, pos, buf, bls), StreamsOf(logs, pos, buf, bls)', logs' = logs,
         NEW w \in Streams(Len(logs)), ToCome(w)' <= Len(Log(w)) - pos[w] + Len(buf[w]),
         \A v \in Streams(Len(logs)) : v # w => pos'[v] = pos[v] /\ buf'[v] = buf[v] /\ bls'[v] = bls[v]
  PROVE  AllToCome' <= AllToCome /\ (bls[w].size # 0 => AllToCome' < AllToCome)
<1> DEFINE f == Coming
           g == [v \in Files |-> ToCome(v)']
<1>1. /\ f \in [Files -> Nat] /\ AllToCome = SumFunction(f) /\ AllToCome \in Nat
      /\ Files = Streams(Len(logs)) /\ IsFiniteSet(Files)
  BY ToComeIsNat DEF AllToCome
<1>2. Files' = Files
  BY DEF Files, num_files
<1>3. g \in [Files -> Nat] /\ AllToCome' = SumFunction(g) /\ AllToCome' \in Nat
  <2>1. (StreamsOf(logs, pos, buf, bls) => Coming \in [Files -> Nat] /\ AllToCome \in Nat)'
    BY ToComeIsNat, PTL
  <2>2. Coming' = g
    BY <1>2 DEF Coming
  <2> QED BY <1>2, <2>1, <2>2 DEF AllToCome
<1>4. \A v \in Files : v # w => g[v] = f[v]
  BY <1>1 DEF ToCome, Log, Coming
<1>5. g[w] <= f[w] /\ (bls[w].size # 0 => g[w] < f[w])
  <2>1. f[w] = Len(Log(w)) - pos[w] + Len(buf[w]) + (IF bls[w].size = 0 THEN 0 ELSE 1)
    BY <1>1 DEF ToCome, Coming
  <2>2. g[w] = ToCome(w)' /\ g[w] \in Nat /\ w \in Files
    BY <1>1, <1>3
  <2>3. PICK l, p, b \in Nat : l = Len(Log(w)) /\ p = pos[w] /\ b = Len(buf[w])
    <3>1. w + 1 \in 1 .. Len(logs)
      BY <1>1, ToComeIsNat DEF Streams
    <3> QED BY <3>1 DEF StreamsOf, Log
  <2> HIDE DEF f, g
  <2> QED BY <2>1, <2>2, <2>3
<1> HIDE DEF f, g
<1>6. f \in [Files -> Int] /\ g \in [Files -> Int] /\ w \in Files
  BY <1>1, <1>3
<1>7. CASE g[w] < f[w]
  BY <1>1, <1>3, <1>4, <1>6, <1>7, SumOfLess
<1>8. CASE g[w] = f[w] /\ bls[w].size = 0
  <2>1. g = f
    BY <1>4, <1>6, <1>8
  <2> QED BY <1>1, <1>3, <1>8, <2>1
<1> QED BY <1>5, <1>6, <1>7, <1>8

\* Behind a block that was counted is another step only if it is one.
CountedIsABlock == pc = "next" => bls[winner].size # 0

LEMMA CountedIsABlockKept == CountedIsABlock /\ [Next]_vars => CountedIsABlock'
<1> SUFFICES ASSUME CountedIsABlock, [Next]_vars, pc' = "next" PROVE bls'[winner'].size # 0
  BY DEF CountedIsABlock
<1>1. pc = "count" \/ UNCHANGED vars
  BY DEF Next, Open, CannotOpen, LoadFirst, StartMerge, Count, LoadNext, LoadPastEnd, Finish
<1>2. CASE Count
  BY <1>2 DEF Count, winner, streamVars
<1>3. CASE UNCHANGED vars
  BY <1>3 DEF vars, streamVars, winner, CountedIsABlock
<1> QED BY <1>1, <1>2, <1>3 DEF Next, Open, CannotOpen, LoadFirst, StartMerge, LoadNext, LoadPastEnd, Finish

LEMMA StepsLeftIs ==
  ASSUME LoserInv
  PROVE  /\ num_files - i \in Nat /\ AllToCome \in Nat /\ StepsLeft \in Nat
         /\ pc = "open"  => StepsLeft = num_files - i + 2 * AllToCome + 5
         /\ pc = "load"  => StepsLeft = num_files - i + 2 * AllToCome + 4
         /\ pc = "count" => StepsLeft = num_files - i + 2 * AllToCome + 3
         /\ pc = "next"  => StepsLeft = num_files - i + 2 * AllToCome + 2
         /\ pc = "end"   => StepsLeft = num_files - i + 2 * AllToCome + 1
         /\ pc = "done"  => StepsLeft = num_files - i + 2 * AllToCome
<1>1. AllToCome \in Nat /\ Len(logs) \in Nat /\ i \in 0 .. Len(logs)
  BY ToComeIsNat DEF LoserInv
<1>2. num_files - i \in Nat
  BY <1>1 DEF num_files
<1>3. PICK phase \in Nat :
         /\ StepsLeft = num_files - i + 2 * AllToCome + phase
         /\ pc = "open"  => phase = 5
         /\ pc = "load"  => phase = 4
         /\ pc = "count" => phase = 3
         /\ pc = "next"  => phase = 2
         /\ pc = "end"   => phase = 1
         /\ pc = "done"  => phase = 0
  BY DEF StepsLeft, AllToCome, Coming
<1> QED BY <1>1, <1>2, <1>3

LEMMA OldReleaseStep ==
  LoserInv /\ LoserInv' /\ CountedIsABlock /\ [Next]_vars =>
    [release = "old" => StepsLeft' < StepsLeft]_vars
<1> SUFFICES ASSUME LoserInv, LoserInv', CountedIsABlock, Next, release = "old"
             PROVE  StepsLeft' < StepsLeft
  OBVIOUS
<1> DEFINE left == num_files - i
<1>1. /\ left \in Nat /\ AllToCome \in Nat
      /\ pc = "open"  => StepsLeft = left + 2 * AllToCome + 5
      /\ pc = "load"  => StepsLeft = left + 2 * AllToCome + 4
      /\ pc = "count" => StepsLeft = left + 2 * AllToCome + 3
      /\ pc = "next"  => StepsLeft = left + 2 * AllToCome + 2
      /\ pc = "end"   => StepsLeft = left + 2 * AllToCome + 1
  BY StepsLeftIs
<1>2. /\ left' \in Nat /\ AllToCome' \in Nat
      /\ pc' = "load"  => StepsLeft' = left' + 2 * AllToCome' + 4
      /\ pc' = "count" => StepsLeft' = left' + 2 * AllToCome' + 3
      /\ pc' = "next"  => StepsLeft' = left' + 2 * AllToCome' + 2
      /\ pc' = "end"   => StepsLeft' = left' + 2 * AllToCome' + 1
      /\ pc' = "done"  => StepsLeft' = left' + 2 * AllToCome'
  <2>1. (LoserInv =>
      /\ left \in Nat /\ AllToCome \in Nat
      /\ pc = "load"  => StepsLeft = left + 2 * AllToCome + 4
      /\ pc = "count" => StepsLeft = left + 2 * AllToCome + 3
      /\ pc = "next"  => StepsLeft = left + 2 * AllToCome + 2
      /\ pc = "end"   => StepsLeft = left + 2 * AllToCome + 1
      /\ pc = "done"  => StepsLeft = left + 2 * AllToCome)'
    BY StepsLeftIs, PTL
  <2> HIDE DEF left
  <2> QED BY <2>1
<1>3. StreamsOf(logs, pos, buf, bls) /\ StreamsOf(logs, pos, buf, bls)' /\ i \in Nat /\ num_files \in Nat
  BY DEF LoserInv, StreamsOf, num_files
<1>4. CASE Open \/ CannotOpen \/ StartMerge \/ Count \/ Finish
  <2>1. logs' = logs /\ i' = i /\ pos' = pos /\ buf' = buf /\ bls' = bls
    BY <1>4 DEF Open, CannotOpen, StartMerge, Count, Finish, inputVars, streamVars
  <2>2. left' = left /\ AllToCome' = AllToCome
    BY <2>1 DEF num_files, Files, ToCome, Log, AllToCome, Coming
  <2>3. \/ pc = "open" /\ pc' \in {"load", "done"}
        \/ pc = "load" /\ pc' = "count"
        \/ pc = "count" /\ pc' \in {"end", "next"}
        \/ pc = "end" /\ pc' = "done"
    BY <1>4 DEF Open, CannotOpen, StartMerge, Count, Finish
  <2> HIDE DEF left
  <2> QED BY <1>1, <1>2, <2>2, <2>3
<1>5. CASE LoadFirst
  <2>1. i < num_files /\ LoadBuffer(i) /\ logs' = logs /\ pc = "load" /\ pc' = pc /\ i' = i + 1
    BY <1>5 DEF LoadFirst, inputVars
  <2>2. i \in Streams(Len(logs)) /\ left' < left
    BY <1>3, <2>1 DEF Streams, num_files
  <2>3. AllToCome' <= AllToCome
    BY <1>3, <2>1, <2>2, LoadBufferTakes, LoadBufferLoads, ToComeIsLess DEF Loaded
  <2> HIDE DEF left
  <2>4. StepsLeft = left + 2 * AllToCome + 4 /\ StepsLeft' = left' + 2 * AllToCome' + 4
    BY <1>1, <1>2, <2>1
  <2>5. \A j, k, m, n \in Nat : j < k /\ m <= n => j + 2 * m + 4 < k + 2 * n + 4
    OBVIOUS
  <2>6. left \in Nat /\ left' \in Nat /\ AllToCome \in Nat /\ AllToCome' \in Nat
    BY <1>1, <1>2
  <2> QED BY <2>2, <2>3, <2>4, <2>5, <2>6
<1>6. CASE LoadNext
  <2>1. pc = "next" /\ LoadBlock(winner) /\ logs' = logs /\ i' = i /\ pc' = "count"
    BY <1>6 DEF LoadNext, inputVars
  <2>2. winner \in Streams(Len(logs)) /\ bls[winner].size # 0
    BY <2>1, WinnerIsAStream DEF CountedIsABlock
  <2>3. AllToCome' < AllToCome
    BY <1>3, <2>1, <2>2, LoadBlockTakes, ToComeIsLess
  <2>4. left' = left
    BY <2>1 DEF num_files
  <2> HIDE DEF left
  <2>5. StepsLeft = left + 2 * AllToCome + 2 /\ StepsLeft' = left + 2 * AllToCome' + 3
    BY <1>1, <1>2, <2>1, <2>4
  <2>6. \A k, m, n \in Nat : m < n => k + 2 * m + 3 < k + 2 * n + 2
    OBVIOUS
  <2>7. left \in Nat /\ AllToCome \in Nat /\ AllToCome' \in Nat
    BY <1>1, <1>2
  <2> QED BY <2>3, <2>5, <2>6, <2>7
<1>7. CASE LoadPastEnd
  BY <1>7 DEF LoadPastEnd
<1> QED BY <1>4, <1>5, <1>6, <1>7 DEF Next

\* The old release takes a step for each log, two for each record and five
\* more, at most, and each step leaves less to do, for any logs, buffers and
\* failed reads: no stream is read twice, and none that has ended goes round.
THEOREM OldReleaseGoesOn ==
  Spec => /\ StepsLeft = num_files + 2 * SumFunction([w \in Files |-> Len(Log(w))]) + 5
          /\ [](StepsLeft \in Nat)
          /\ OldReleaseAdvances
<1>1. Init => StepsLeft = num_files + 2 * SumFunction([w \in Files |-> Len(Log(w))]) + 5
  <2> SUFFICES ASSUME Init PROVE StepsLeft = num_files + 2 * SumFunction([w \in Files |-> Len(Log(w))]) + 5
    OBVIOUS
  <2>1. LoserInv
    BY LoserInvInit
  <2>2. pc = "open" /\ i = 0 /\ num_files \in Nat
    BY <2>1 DEF Init, LoserInv, StreamsOf, num_files
  <2>3. ASSUME NEW w \in Files PROVE ToCome(w) = Len(Log(w))
    <3>1. pos[w] = 0 /\ buf[w] = <<>> /\ bls[w] = EndBlock
      BY <2>3 DEF Init
    <3>2. w + 1 \in 1 .. Len(logs)
      BY <2>1, ToComeIsNat DEF Streams, LoserInv
    <3>3. Len(Log(w)) \in Nat
      BY <2>1, <3>2 DEF LoserInv, StreamsOf, Log
    <3> QED BY <3>1, <3>3 DEF ToCome, EndBlock
  <2>4. [w \in Files |-> ToCome(w)] = [w \in Files |-> Len(Log(w))]
    BY <2>3
  <2>5. StepsLeft = num_files - i + 2 * AllToCome + 5 /\ AllToCome \in Nat
    BY <2>1, <2>2, StepsLeftIs
  <2> QED BY <2>2, <2>4, <2>5 DEF AllToCome, Coming
<1>2. Init => LoserInv /\ CountedIsABlock
  BY LoserInvInit DEF Init, CountedIsABlock
<1>3. LoserInv => StepsLeft \in Nat
  BY StepsLeftIs
<1> QED
  BY <1>1, <1>2, <1>3, LoserInvKept, CountedIsABlockKept, OldReleaseStep, PTL DEF Spec, OldReleaseAdvances


-----------------------------------------------------------------------------
(* The histogram of blocks that occur so often *)

\* The counter of blocks that occur n times, of the old release.
OldCounter(n) == IF n >= FREQ_COUNT THEN FREQ_COUNT ELSE n

\* Of the blocks in D, which occur as t says, those that counter c is for.
Class(D, t, c) == {b \in D : OldCounter(t[b]) = c}

\* What the counters say of the blocks in D; m more than there are seem to
\* occur once.
Histogram(D, t, m, bc, sc, dc) ==
  \A c \in 1 .. CounterSize - 1 :
    /\ bc[c] = (Cardinality(Class(D, t, c)) + (IF c = 1 THEN m ELSE 0)) % CounterSize
    /\ sc[c] = SumFunction([b \in Class(D, t, c) |-> b.size * t[b]]) % CounterSize
    /\ dc[c] = SumFunction([b \in Class(D, t, c) |-> b.size]) % CounterSize

Counters == [0 .. CounterSize - 1 -> Int]

\* Block x, which occurs n times, is counted.
WithBlock(t, D, x, n) == [b \in D \union {x} |-> IF b = x THEN n ELSE t[b]]
CountedOnce(bc, c) == [bc EXCEPT ![c] = (@ + 1) % CounterSize]
CountedMore(sc, c, k) == [sc EXCEPT ![c] = (@ + k) % CounterSize]

\* One count at the end of the duplicates of a block.
LEMMA HistogramWithBlock ==
  ASSUME NEW D \in SUBSET Block, IsFiniteSet(D), NEW t \in [D -> Nat], NEW x \in Block, x \notin D,
         NEW n \in Nat, n < CounterSize, NEW m \in Int,
         NEW bc \in Counters, NEW sc \in Counters, NEW dc \in Counters, Histogram(D, t, m, bc, sc, dc),
         NEW o, o = OldCounter(n)
  PROVE  Histogram(D \union {x}, WithBlock(t, D, x, n), m,
                   CountedOnce(bc, o), CountedMore(sc, o, x.size * n), CountedMore(dc, o, x.size))
<1> SUFFICES ASSUME NEW c \in 1 .. CounterSize - 1
             PROVE  LET u == WithBlock(t, D, x, n)
                        e == Class(D \union {x}, u, c)
                    IN  /\ CountedOnce(bc, o)[c] = (Cardinality(e) + (IF c = 1 THEN m ELSE 0)) % CounterSize
                        /\ CountedMore(sc, o, x.size * n)[c] = SumFunction([b \in e |-> b.size * u[b]]) % CounterSize
                        /\ CountedMore(dc, o, x.size)[c] = SumFunction([b \in e |-> b.size]) % CounterSize
  BY DEF Histogram
<1>1. PICK u : u = WithBlock(t, D, x, n)
  OBVIOUS
<1>2. PICK d : d = Class(D, t, c)
  OBVIOUS
<1>3. PICK e : e = Class(D \union {x}, u, c)
  OBVIOUS
<1>4. /\ IsFiniteSet(d) /\ d \subseteq D /\ x \notin d
      /\ o # c => e = d
      /\ o = c => e = d \union {x}
      /\ \A b \in d : u[b] = t[b]
      /\ u[x] = n
  <2>1. u[x] = n /\ \A b \in D : u[b] = t[b]
    BY <1>1 DEF WithBlock
  <2>2. d \subseteq D /\ IsFiniteSet(d) /\ x \notin d
    <3>1. d \subseteq D
      BY <1>2 DEF Class
    <3> QED BY <3>1, FS_Subset
  <2>3. e = {b \in D \union {x} : OldCounter(u[b]) = c}
    BY <1>3 DEF Class
  <2>4. d = {b \in D : OldCounter(t[b]) = c}
    BY <1>2 DEF Class
  <2>5. o # c => e = d
    BY <2>1, <2>3, <2>4
  <2>6. o = c => e = d \union {x}
    BY <2>1, <2>3, <2>4
  <2> QED BY <2>1, <2>2, <2>5, <2>6
<1>5. PICK z \in Int : z = IF c = 1 THEN m ELSE 0
  OBVIOUS
<1>6. /\ bc[c] = (Cardinality(d) + z) % CounterSize
      /\ sc[c] = SumFunction([b \in d |-> b.size * t[b]]) % CounterSize
      /\ dc[c] = SumFunction([b \in d |-> b.size]) % CounterSize
  BY <1>2, <1>5 DEF Histogram
<1>7. c \in DOMAIN bc /\ c \in DOMAIN sc /\ c \in DOMAIN dc
  BY DEF Counters
<1>8. [b \in d |-> b.size * u[b]] = [b \in d |-> b.size * t[b]]
  BY <1>4
<1>9. CASE o # c
  <2>1. CountedOnce(bc, o)[c] = bc[c] /\ CountedMore(sc, o, x.size * n)[c] = sc[c] /\ CountedMore(dc, o, x.size)[c] = dc[c]
    BY <1>7, <1>9 DEF CountedOnce, CountedMore, Counters
  <2> QED BY <1>1, <1>3, <1>4, <1>5, <1>6, <1>8, <1>9, <2>1
<1>10. CASE o = c
  <2>1. /\ CountedOnce(bc, o)[c] = (bc[c] + 1) % CounterSize
        /\ CountedMore(sc, o, x.size * n)[c] = (sc[c] + x.size * n) % CounterSize
        /\ CountedMore(dc, o, x.size)[c] = (dc[c] + x.size) % CounterSize
    BY <1>7, <1>10 DEF CountedOnce, CountedMore, Counters
  <2>2. e = d \union {x}
    BY <1>4, <1>10
  <2>3. CounterSize \in Nat \ {0}
    BY CountersAssumption
  <2>4. x.size \in Nat /\ x.size * n \in Int
    <3>1. PICK s \in Nat : s = x.size
      BY DEF Block
    <3>2. s * n \in Int
      OBVIOUS
    <3> QED BY <3>1, <3>2
  <2>5. (bc[c] + 1) % CounterSize = (Cardinality(e) + z) % CounterSize
    <3>1. PICK k \in Nat : k = Cardinality(d)
      BY <1>4, FS_CardinalityType
    <3>2. Cardinality(e) = k + 1
      BY <1>4, <2>2, <3>1, FS_AddElement
    <3>3. (((k + z) % CounterSize) + 1) % CounterSize = ((k + z) + 1) % CounterSize
      <4>1. k + z \in Int /\ 1 \in Int
        OBVIOUS
      <4> QED BY <2>3, <4>1, AddRemainder
    <3>4. (k + z) + 1 = (k + 1) + z
      OBVIOUS
    <3> QED BY <1>6, <3>1, <3>2, <3>3, <3>4
  <2>6. (sc[c] + x.size * n) % CounterSize = SumFunction([b \in e |-> b.size * u[b]]) % CounterSize
    <3>1. PICK f : f = [b \in d \union {x} |-> b.size * u[b]]
      OBVIOUS
    <3>2. f \in [d \union {x} -> Int] /\ f[x] = x.size * n
      <4>1. \A b \in d \union {x} : b.size \in Nat /\ u[b] \in Nat
        BY <1>4 DEF Block
      <4>2. \A b \in d \union {x} : b.size * u[b] \in Int
        BY <4>1
      <4> QED BY <1>4, <3>1, <4>2
    <3>3. SumFunction(f) = SumFunction([b \in d |-> f[b]]) + f[x]
      BY <1>4, <3>2, SumOfOneMore
    <3>4. [b \in d |-> f[b]] = [b \in d |-> b.size * t[b]]
      BY <1>8, <3>1
    <3>5. PICK y \in Int : y = SumFunction([b \in d |-> b.size * t[b]])
      <4>1. [b \in d |-> f[b]] \in [d -> Int]
        BY <3>2
      <4>2. SumFunction([b \in d |-> f[b]]) \in Int
        BY <1>4, <4>1, SumIsInt
      <4> QED BY <3>4, <4>2
    <3>6. ((y % CounterSize) + x.size * n) % CounterSize = (y + x.size * n) % CounterSize
      BY <2>3, <2>4, AddRemainder
    <3>7. SumFunction([b \in e |-> b.size * u[b]]) = y + x.size * n
      BY <2>2, <3>1, <3>2, <3>3, <3>4, <3>5
    <3> QED BY <1>6, <3>5, <3>6, <3>7
  <2>7. (dc[c] + x.size) % CounterSize = SumFunction([b \in e |-> b.size]) % CounterSize
    <3>1. PICK f : f = [b \in d \union {x} |-> b.size]
      OBVIOUS
    <3>2. f \in [d \union {x} -> Int] /\ f[x] = x.size
      <4>1. \A b \in d \union {x} : b.size \in Int
        BY <1>4 DEF Block
      <4> QED BY <3>1, <4>1
    <3>3. SumFunction(f) = SumFunction([b \in d |-> f[b]]) + f[x]
      BY <1>4, <3>2, SumOfOneMore
    <3>4. [b \in d |-> f[b]] = [b \in d |-> b.size]
      BY <3>1
    <3>5. PICK y \in Int : y = SumFunction([b \in d |-> b.size])
      <4>1. [b \in d |-> f[b]] \in [d -> Int]
        BY <3>2
      <4>2. SumFunction([b \in d |-> f[b]]) \in Int
        BY <1>4, <4>1, SumIsInt
      <4> QED BY <3>4, <4>2
    <3>6. ((y % CounterSize) + x.size) % CounterSize = (y + x.size) % CounterSize
      <4>1. PICK k \in Int : k = x.size
        BY <2>4
      <4>2. ((y % CounterSize) + k) % CounterSize = (y + k) % CounterSize
        BY <2>3, AddRemainder
      <4> QED BY <4>1, <4>2
    <3>7. SumFunction([b \in e |-> b.size]) = y + x.size
      BY <2>2, <3>1, <3>2, <3>3, <3>4, <3>5
    <3> QED BY <1>6, <3>5, <3>6, <3>7
  <2> QED BY <1>1, <1>3, <1>5, <2>1, <2>5, <2>6, <2>7
<1> QED BY <1>9, <1>10

-----------------------------------------------------------------------------
(* The places that have been counted, and what occurs at them *)

\* The record at a place: a stream, and a number in its log.
Rec(ls, p) == ls[p[1] + 1][p[2]]

\* The first records of the streams, tk[w] of stream w.
Places(n, tk) == {p \in Streams(n) \X (Nat \ {0}) : p[2] <= tk[p[1]]}

Occurring(ls, A) == {Rec(ls, p) : p \in A}
TimesIn(ls, A, b) == Cardinality({p \in A : Rec(ls, p) = b})
Occurrences(ls, A, D) == [b \in D |-> TimesIn(ls, A, b)]
NoWrap(ls, A) == \A b \in Occurring(ls, A) : TimesIn(ls, A, b) < CounterSize

LEMMA OccurringIsFinite ==
  ASSUME NEW ls, NEW A, IsFiniteSet(A)
  PROVE  IsFiniteSet(Occurring(ls, A))
<1> DEFINE f == [p \in A |-> Rec(ls, p)]
<1>1. f \in Surjection(A, Occurring(ls, A))
  BY DEF Surjection, Occurring
<1> HIDE DEF f
<1> QED BY <1>1, FS_Surjection

LEMMA TimesAre ==
  ASSUME NEW ls, NEW A, IsFiniteSet(A)
  PROVE  /\ \A b : TimesIn(ls, A, b) \in Nat
         /\ \A b : b \notin Occurring(ls, A) => TimesIn(ls, A, b) = 0
         /\ \A b \in Occurring(ls, A) : TimesIn(ls, A, b) # 0
<1>1. ASSUME NEW b
      PROVE  /\ TimesIn(ls, A, b) \in Nat
             /\ b \notin Occurring(ls, A) => TimesIn(ls, A, b) = 0
             /\ b \in Occurring(ls, A) => TimesIn(ls, A, b) # 0
  <2>1. PICK B : B = {p \in A : Rec(ls, p) = b}
    OBVIOUS
  <2>2. IsFiniteSet(B) /\ TimesIn(ls, A, b) = Cardinality(B)
    <3>1. B \subseteq A
      BY <2>1
    <3> QED BY <2>1, <3>1, FS_Subset DEF TimesIn
  <2>3. b \in Occurring(ls, A) <=> B # {}
    BY <2>1 DEF Occurring
  <2> QED BY <2>2, <2>3, FS_CardinalityType, FS_EmptySet
<1> QED BY <1>1

LEMMA OnePlaceMore ==
  ASSUME NEW ls, NEW A, IsFiniteSet(A), NEW q, q \notin A,
         NEW B, B = A \union {q}, NEW x, x = Rec(ls, q)
  PROVE  /\ IsFiniteSet(B)
         /\ Occurring(ls, B) = Occurring(ls, A) \union {x}
         /\ \A b : b # x => TimesIn(ls, B, b) = TimesIn(ls, A, b)
         /\ TimesIn(ls, B, x) = TimesIn(ls, A, x) + 1
         /\ NoWrap(ls, B) => NoWrap(ls, A)
<1>1. IsFiniteSet(B)
  BY FS_AddElement
<1>2. Occurring(ls, B) = Occurring(ls, A) \union {x}
  BY DEF Occurring
<1>3. ASSUME NEW b, b # x PROVE TimesIn(ls, B, b) = TimesIn(ls, A, b)
  <2>1. {p \in B : Rec(ls, p) = b} = {p \in A : Rec(ls, p) = b}
    BY <1>3
  <2> QED BY <2>1 DEF TimesIn
<1>4. TimesIn(ls, B, x) = TimesIn(ls, A, x) + 1
  <2>1. PICK C : C = {p \in A : Rec(ls, p) = x}
    OBVIOUS
  <2>2. {p \in B : Rec(ls, p) = x} = C \union {q}
    BY <2>1
  <2>3. IsFiniteSet(C) /\ q \notin C
    <3>1. C \subseteq A
      BY <2>1
    <3> QED BY <3>1, FS_Subset
  <2>4. Cardinality(C \union {q}) = Cardinality(C) + 1
    BY <2>3, FS_AddElement
  <2> QED BY <2>1, <2>2, <2>4 DEF TimesIn
<1>5. ASSUME NoWrap(ls, B) PROVE NoWrap(ls, A)
  <2> SUFFICES ASSUME NEW b \in Occurring(ls, A) PROVE TimesIn(ls, A, b) < CounterSize
    BY DEF NoWrap
  <2>1. TimesIn(ls, B, b) < CounterSize
    BY <1>2, <1>5 DEF NoWrap
  <2>2. TimesIn(ls, A, b) \in Nat
    BY TimesAre
  <2>3. TimesIn(ls, B, b) = TimesIn(ls, A, b) \/ TimesIn(ls, B, b) = TimesIn(ls, A, b) + 1
    BY <1>3, <1>4
  <2>4. CounterSize \in Nat
    BY CountersAssumption
  <2> QED BY <2>1, <2>2, <2>3, <2>4
<1> QED BY <1>1, <1>2, <1>3, <1>4, <1>5

LEMMA PlacesGrow ==
  ASSUME NEW n \in Nat \ {0}, NEW tk \in [Streams(n) -> Nat], NEW w \in Streams(n)
  PROVE  /\ Places(n, [tk EXCEPT ![w] = @ + 1]) = Places(n, tk) \union {<<w, tk[w] + 1>>}
         /\ <<w, tk[w] + 1>> \notin Places(n, tk)
<1>1. PICK k \in Nat : k = tk[w]
  OBVIOUS
<1>2. PICK uk \in [Streams(n) -> Nat] : uk = [tk EXCEPT ![w] = k + 1]
  <2>1. [tk EXCEPT ![w] = k + 1] \in [Streams(n) -> Nat]
    OBVIOUS
  <2> QED BY <2>1
<1>3. uk[w] = k + 1 /\ \A v \in Streams(n) : v # w => uk[v] = tk[v]
  BY <1>2
<1>4. <<w, k + 1>> \in Streams(n) \X (Nat \ {0})
  OBVIOUS
<1>5. ASSUME NEW v \in Streams(n), NEW j \in Nat \ {0}
      PROVE  <<v, j>> \in Places(n, uk) <=> <<v, j>> \in Places(n, tk) \union {<<w, k + 1>>}
  <2>1. <<v, j>> \in Places(n, uk) <=> j <= uk[v]
    BY DEF Places
  <2>2. <<v, j>> \in Places(n, tk) <=> j <= tk[v]
    BY DEF Places
  <2>3. CASE v = w
    <3>1. j <= k + 1 <=> j <= k \/ j = k + 1
      OBVIOUS
    <3> QED BY <1>1, <1>3, <2>1, <2>2, <2>3, <3>1
  <2>4. CASE v # w
    BY <1>3, <2>1, <2>2, <2>4
  <2> QED BY <2>3, <2>4
<1>6. Places(n, uk) = Places(n, tk) \union {<<w, k + 1>>}
  <2>1. \A p \in Streams(n) \X (Nat \ {0}) : p \in Places(n, uk) <=> p \in Places(n, tk) \union {<<w, k + 1>>}
    BY <1>5
  <2>2. Places(n, uk) \subseteq Streams(n) \X (Nat \ {0}) /\ Places(n, tk) \subseteq Streams(n) \X (Nat \ {0})
    BY DEF Places
  <2> QED BY <1>4, <2>1, <2>2
<1>7. <<w, k + 1>> \notin Places(n, tk)
  <2>1. ~(k + 1 <= k)
    OBVIOUS
  <2> QED BY <1>1, <2>1 DEF Places
<1> QED BY <1>1, <1>2, <1>6, <1>7

-----------------------------------------------------------------------------
(* What is being counted, and what has been *)

\* last is the greatest block that occurs at A, and occurs dup times.
IsCounting(ls, A, last, dup) ==
  /\ A = {} => last = EndBlock /\ dup = 1
  /\ A # {} => /\ last \in Occurring(ls, A)
               /\ \A b \in Occurring(ls, A) : b.cksum <= last.cksum
               /\ NoWrap(ls, A) => dup = TimesIn(ls, A, last)

\* The blocks of D are in the counters; so is the block that stands before
\* the first one, once there is a first one.
InCounters(ls, A, D, bc, sc, dc) ==
  NoWrap(ls, A) => Histogram(D, Occurrences(ls, A, D), IF A = {} THEN 0 ELSE 1, bc, sc, dc)

LEMMA HistogramOfNone ==
  ASSUME NEW t, NEW m \in Int, NEW bc, NEW sc, NEW dc
  PROVE  Histogram({}, t, m, bc, sc, dc) <=>
           \A c \in 1 .. CounterSize - 1 :
             bc[c] = (IF c = 1 THEN m ELSE 0) % CounterSize /\ sc[c] = 0 /\ dc[c] = 0
<1>1. ASSUME NEW c
      PROVE  /\ Cardinality(Class({}, t, c)) + (IF c = 1 THEN m ELSE 0) = IF c = 1 THEN m ELSE 0
             /\ SumFunction([b \in Class({}, t, c) |-> b.size * t[b]]) % CounterSize = 0
             /\ SumFunction([b \in Class({}, t, c) |-> b.size]) % CounterSize = 0
  <2>1. PICK e : e = Class({}, t, c)
    OBVIOUS
  <2>2. e = {}
    BY <2>1 DEF Class
  <2>3. Cardinality(e) = 0
    BY <2>2, FS_EmptySet
  <2>4. PICK f : f = [b \in e |-> b.size * t[b]]
    OBVIOUS
  <2>5. PICK g : g = [b \in e |-> b.size]
    OBVIOUS
  <2>6. DOMAIN f = {} /\ f \in [{} -> Int] /\ DOMAIN g = {} /\ g \in [{} -> Int]
    BY <2>2, <2>4, <2>5
  <2>7. SumFunction(f) = 0 /\ SumFunction(g) = 0
    BY <2>6, SumOfNothing
  <2>8. 0 % CounterSize = 0
    BY CountersAssumption
  <2> QED BY <2>1, <2>3, <2>4, <2>5, <2>7, <2>8
<1> QED BY <1>1 DEF Histogram

LEMMA NothingIsCounted ==
  ASSUME NEW ls, NEW bc, NEW sc, NEW dc, \A n \in 0 .. CounterSize - 1 : bc[n] = 0 /\ sc[n] = 0 /\ dc[n] = 0
  PROVE  InCounters(ls, {}, {}, bc, sc, dc)
<1>1. \A c \in 1 .. CounterSize - 1 : c \in 0 .. CounterSize - 1
  BY CountersAssumption
<1>2. \A c : (IF c = 1 THEN 0 ELSE 0) % CounterSize = 0
  <2>1. 0 % CounterSize = 0
    BY CountersAssumption
  <2> QED BY <2>1
<1>3. \A c \in 1 .. CounterSize - 1 : bc[c] = (IF c = 1 THEN 0 ELSE 0) % CounterSize /\ sc[c] = 0 /\ dc[c] = 0
  BY <1>1, <1>2
<1>4. \A t : Histogram({}, t, 0, bc, sc, dc)
  BY <1>3, HistogramOfNone
<1> QED BY <1>4 DEF InCounters

\* The block before the first one has size zero, and adds to one counter only.
LEMMA TheFirstIsCounted ==
  ASSUME NEW ls, NEW bc \in Counters, NEW sc \in Counters, NEW dc \in Counters, 1 < CounterSize,
         Histogram({}, Occurrences(ls, {}, {}), 0, bc, sc, dc), NEW t
  PROVE  Histogram({}, t, 1, CountedOnce(bc, OldCounter(1)), CountedMore(sc, OldCounter(1), EndBlock.size * 1),
                   CountedMore(dc, OldCounter(1), EndBlock.size))
<1>1. OldCounter(1) = 1 /\ EndBlock.size = 0 /\ CounterSize \in Nat \ {0}
  BY CountersAssumption DEF OldCounter, EndBlock
<1>2. 0 % CounterSize = 0 /\ 0 * 1 = 0
  BY <1>1
<1>3. \A c \in 1 .. CounterSize - 1 : bc[c] = 0 /\ sc[c] = 0 /\ dc[c] = 0
  BY <1>2, HistogramOfNone
<1>4. ASSUME NEW c \in 1 .. CounterSize - 1
      PROVE  /\ CountedOnce(bc, 1)[c] = (IF c = 1 THEN 1 ELSE 0) % CounterSize
             /\ CountedMore(sc, 1, 0)[c] = 0 /\ CountedMore(dc, 1, 0)[c] = 0
  <2>1. c \in 0 .. CounterSize - 1
    BY <1>1
  <2>2. c \in DOMAIN bc /\ c \in DOMAIN sc /\ c \in DOMAIN dc
    BY <2>1 DEF Counters
  <2>3. (0 + 1) % CounterSize = 1 % CounterSize /\ (0 + 0) % CounterSize = 0
    BY <1>2
  <2>4. CountedOnce(bc, 1)[c] = IF c = 1 THEN (bc[c] + 1) % CounterSize ELSE bc[c]
    BY <2>2 DEF CountedOnce
  <2>5. /\ CountedMore(sc, 1, 0)[c] = IF c = 1 THEN (sc[c] + 0) % CounterSize ELSE sc[c]
        /\ CountedMore(dc, 1, 0)[c] = IF c = 1 THEN (dc[c] + 0) % CounterSize ELSE dc[c]
    BY <2>2 DEF CountedMore
  <2> QED BY <1>2, <1>3, <2>3, <2>4, <2>5
<1>5. Histogram({}, t, 1, CountedOnce(bc, 1), CountedMore(sc, 1, 0), CountedMore(dc, 1, 0))
  BY <1>4, HistogramOfNone
<1> QED BY <1>1, <1>2, <1>5

\* One more of the block that is being counted.
LEMMA CountedAgain ==
  ASSUME NEW ls, NEW A, IsFiniteSet(A), A # {}, NEW q, q \notin A, NEW B, B = A \union {q}, NEW last, NEW dup, Rec(ls, q) = last,
         IsCounting(ls, A, last, dup), NEW bc, NEW sc, NEW dc,
         InCounters(ls, A, Occurring(ls, A) \ {last}, bc, sc, dc)
  PROVE  /\ IsCounting(ls, B, last, (dup + 1) % CounterSize)
         /\ InCounters(ls, B, Occurring(ls, B) \ {last}, bc, sc, dc)
<1>1. /\ Occurring(ls, B) = Occurring(ls, A) \union {last}
      /\ \A b : b # last => TimesIn(ls, B, b) = TimesIn(ls, A, b)
      /\ TimesIn(ls, B, last) = TimesIn(ls, A, last) + 1
      /\ NoWrap(ls, B) => NoWrap(ls, A)
  BY OnePlaceMore
<1>2. last \in Occurring(ls, A) /\ (\A b \in Occurring(ls, A) : b.cksum <= last.cksum)
      /\ (NoWrap(ls, A) => dup = TimesIn(ls, A, last))
  BY DEF IsCounting
<1>3. Occurring(ls, B) = Occurring(ls, A) /\ B # {}
  BY <1>1, <1>2
<1>4. NoWrap(ls, B) => (dup + 1) % CounterSize = TimesIn(ls, B, last)
  <2> SUFFICES ASSUME NoWrap(ls, B) PROVE (dup + 1) % CounterSize = TimesIn(ls, B, last)
    OBVIOUS
  <2>1. PICK d \in Nat : d = TimesIn(ls, A, last) /\ d = dup
    BY <1>1, <1>2, TimesAre
  <2>2. TimesIn(ls, B, last) < CounterSize
    BY <1>2, <1>3 DEF NoWrap
  <2>3. d + 1 < CounterSize /\ CounterSize \in Nat \ {0}
    BY <1>1, <2>1, <2>2, CountersAssumption
  <2>4. (d + 1) % CounterSize = d + 1
    BY <2>3
  <2> QED BY <1>1, <2>1, <2>4
<1>5. IsCounting(ls, B, last, (dup + 1) % CounterSize)
  BY <1>2, <1>3, <1>4 DEF IsCounting
<1>6. Occurrences(ls, B, Occurring(ls, B) \ {last}) = Occurrences(ls, A, Occurring(ls, A) \ {last})
  BY <1>1, <1>3 DEF Occurrences
<1>7. InCounters(ls, B, Occurring(ls, B) \ {last}, bc, sc, dc)
  BY <1>1, <1>3, <1>6 DEF InCounters
<1> QED BY <1>5, <1>7

\* A block ends the count of the one before it.
LEMMA CountIsEnded ==
  ASSUME NEW ls, NEW A, IsFiniteSet(A), A # {}, Occurring(ls, A) \subseteq Block, NEW last, NEW dup,
         IsCounting(ls, A, last, dup), NEW bc \in Counters, NEW sc \in Counters, NEW dc \in Counters,
         InCounters(ls, A, Occurring(ls, A) \ {last}, bc, sc, dc), NEW o, o = OldCounter(dup)
  PROVE  InCounters(ls, A, Occurring(ls, A), CountedOnce(bc, o), CountedMore(sc, o, last.size * dup),
                    CountedMore(dc, o, last.size))
<1> SUFFICES ASSUME NoWrap(ls, A)
             PROVE  Histogram(Occurring(ls, A), Occurrences(ls, A, Occurring(ls, A)), 1, CountedOnce(bc, o),
                              CountedMore(sc, o, last.size * dup), CountedMore(dc, o, last.size))
  BY DEF InCounters
<1>1. PICK D : D = Occurring(ls, A) \ {last}
  OBVIOUS
<1>2. last \in Occurring(ls, A) /\ dup = TimesIn(ls, A, last)
  BY DEF IsCounting
<1>3. D \in SUBSET Block /\ IsFiniteSet(D) /\ last \in Block /\ last \notin D /\ Occurring(ls, A) = D \union {last}
  <2>1. IsFiniteSet(Occurring(ls, A))
    BY OccurringIsFinite
  <2> QED BY <1>1, <1>2, <2>1, FS_Subset
<1>4. PICK t \in [D -> Nat] : t = Occurrences(ls, A, D)
  <2>1. Occurrences(ls, A, D) \in [D -> Nat]
    BY TimesAre DEF Occurrences
  <2> QED BY <2>1
<1>5. dup \in Nat /\ dup < CounterSize
  BY <1>2, TimesAre DEF NoWrap
<1>6. Histogram(D, t, 1, bc, sc, dc)
  BY <1>1, <1>4 DEF InCounters
<1>7. WithBlock(t, D, last, dup) = Occurrences(ls, A, Occurring(ls, A))
  BY <1>2, <1>3, <1>4 DEF WithBlock, Occurrences
<1>8. Histogram(D \union {last}, WithBlock(t, D, last, dup), 1, CountedOnce(bc, o),
                CountedMore(sc, o, last.size * dup), CountedMore(dc, o, last.size))
  <2>1. 1 \in Int
    OBVIOUS
  <2> QED BY <1>3, <1>5, <1>6, <2>1, HistogramWithBlock
<1> QED BY <1>3, <1>7, <1>8

\* And its own count begins.
LEMMA CountBegins ==
  ASSUME NEW ls, NEW A, IsFiniteSet(A), NEW q, q \notin A, NEW B, B = A \union {q}, NEW x, x = Rec(ls, q), x \notin Occurring(ls, A),
         \A b \in Occurring(ls, A) : b.cksum <= x.cksum, x \in Block,
         NEW bc, NEW sc, NEW dc,
         NoWrap(ls, B) => Histogram(Occurring(ls, A), Occurrences(ls, A, Occurring(ls, A)), 1, bc, sc, dc)
  PROVE  /\ IsCounting(ls, B, x, 1)
         /\ InCounters(ls, B, Occurring(ls, B) \ {x}, bc, sc, dc)
<1>1. /\ Occurring(ls, B) = Occurring(ls, A) \union {x}
      /\ \A b : b # x => TimesIn(ls, B, b) = TimesIn(ls, A, b)
      /\ TimesIn(ls, B, x) = TimesIn(ls, A, x) + 1
  BY OnePlaceMore
<1>2. TimesIn(ls, B, x) = 1
  BY <1>1, TimesAre
<1>3. B # {} /\ x.cksum <= x.cksum
  <2>1. x.cksum \in Nat
    BY DEF Block
  <2> QED BY <2>1
<1>4. IsCounting(ls, B, x, 1)
  BY <1>1, <1>2, <1>3 DEF IsCounting
<1>5. Occurring(ls, B) \ {x} = Occurring(ls, A)
  BY <1>1
<1>6. Occurrences(ls, B, Occurring(ls, A)) = Occurrences(ls, A, Occurring(ls, A))
  BY <1>1 DEF Occurrences
<1>7. InCounters(ls, B, Occurring(ls, B) \ {x}, bc, sc, dc)
  BY <1>3, <1>5, <1>6 DEF InCounters
<1> QED BY <1>4, <1>7

-----------------------------------------------------------------------------
(* The streams, as seen from the records that were taken of them *)

\* The first k records of log l were taken; none of them has size zero.
Taken(l, p, k) == k \in 0 .. p /\ \A j \in 1 .. k : l[j].size # 0

\* Behind the last of them: those that were read and not taken are q.
Past(l, p, q, k) == Taken(l, p, k) /\ q = SubSeq(l, k + 1, p)

\* The next one is b.  Size zero is at the end for good.
AtFront(l, p, q, b, fu, k) ==
  /\ Taken(l, p, k)
  /\ \/ k < p /\ b = l[k + 1] /\ (b.size # 0 => q = SubSeq(l, k + 2, p))
     \/ k = p /\ b.size = 0 /\ ~fu

\* A short read that did not fail is the last one.
ReadTo(l, p, fl, fu) == fl = 0 /\ ~fu => p = Len(l)

ReadsOf(ls, fl, fu) == fl \in [Streams(Len(ls)) -> Nat] /\ fu \in [Streams(Len(ls)) -> BOOLEAN]

\* Stream w has a new front, and no other stream has changed.
NewFront(w, k) ==
  /\ AtFront(Log(w), pos'[w], buf'[w], bls'[w], full'[w], k)
  /\ ReadTo(Log(w), pos'[w], failures'[w], full'[w])
  /\ ReadsOf(logs, failures', full')
  /\ \A v \in Streams(Len(logs)) : v # w =>
       /\ pos'[v] = pos[v] /\ buf'[v] = buf[v] /\ bls'[v] = bls[v]
       /\ full'[v] = full[v] /\ failures'[v] = failures[v]

LEMMA MaxOfReads ==
  ASSUME NEW m \in Nat, NEW R, R = {m} \/ R = {m} \union (0 .. m - 1)
  PROVE  Max(R) = m
<1>1. m \in R /\ \A x \in R : m >= x
  OBVIOUS
<1>2. \A x \in R : (\A y \in R : x >= y) => x = m
  OBVIOUS
<1> QED BY <1>1, <1>2 DEF Max

\* How many records a read may give, and what that says of the log.
LEMMA ReadsTell ==
  ASSUME StreamsOf(logs, pos, buf, bls), NEW w \in Streams(Len(logs)), NEW n \in Reads(w), failures[w] \in Nat
  PROVE  n = Max(Reads(w)) /\ n # BufferSize => pos[w] + n = Len(Log(w))
<1>1. w + 1 \in 1 .. Len(logs) /\ Log(w) = logs[w + 1]
  <2>1. Len(logs) \in Nat
    BY DEF StreamsOf
  <2> QED BY <2>1 DEF Streams, Log
<1>2. Log(w) \in Seq(Block) /\ pos[w] \in Nat /\ pos[w] <= Len(Log(w))
  BY <1>1 DEF StreamsOf
<1>3. PICK l \in Nat, p \in Nat : l = Len(Log(w)) /\ p = pos[w] /\ p <= l
  BY <1>2
<1>4. PICK most \in Nat : most = IF l - p < BufferSize THEN l - p ELSE BufferSize
  BY <1>3, LogsAssumption
<1>5. Reads(w) = {most} \union (IF failures[w] < MaxFailures THEN 0 .. most - 1 ELSE {})
  BY <1>3, <1>4 DEF Reads
<1>6. Max(Reads(w)) = most
  <2>1. Reads(w) = {most} \/ Reads(w) = {most} \union (0 .. most - 1)
    BY <1>5
  <2> QED BY <2>1, MaxOfReads
<1>7. most # BufferSize => p + most = l
  BY <1>3, <1>4
<1> QED BY <1>3, <1>6, <1>7

LEMMA LoadBufferFront ==
  ASSUME StreamsOf(logs, pos, buf, bls), ReadsOf(logs, failures, full), NEW w \in Streams(Len(logs)), LoadBuffer(w),
         NEW k, Taken(Log(w), pos[w], k), k = pos[w]
  PROVE  NewFront(w, k)
<1> DEFINE F == Streams(Len(logs))
<1>1. PICK n \in Reads(w) :
        LET got == SubSeq(Log(w), pos[w] + 1, pos[w] + n)
        IN  /\ pos' = [pos EXCEPT ![w] = @ + n]
            /\ full' = [full EXCEPT ![w] = n = BufferSize]
            /\ failures' = [failures EXCEPT ![w] = IF n = Max(Reads(w)) THEN @ ELSE @ + 1]
            /\ buf' = [buf EXCEPT ![w] = IF n = 0 THEN <<>> ELSE Tail(got)]
            /\ bls' = [bls EXCEPT ![w] = IF n = 0 THEN [@ EXCEPT !.size = 0] ELSE Head(got)]
  BY DEF LoadBuffer
<1>2. n \in Nat /\ pos[w] + n <= Len(Log(w))
  BY ReadsAre
<1>3. w + 1 \in 1 .. Len(logs) /\ Log(w) = logs[w + 1]
  <2>1. Len(logs) \in Nat
    BY DEF StreamsOf
  <2> QED BY <2>1 DEF Streams, Log
<1>4. PICK l \in Seq(Block), p \in Nat : l = Log(w) /\ p = pos[w] /\ p + n <= Len(l) /\ p = k
  BY <1>2, <1>3 DEF StreamsOf
<1>5. PICK most : most = Max(Reads(w))
  OBVIOUS
<1> DEFINE got == SubSeq(l, p + 1, p + n)
<1>6. /\ pos' = [pos EXCEPT ![w] = p + n]
      /\ full' = [full EXCEPT ![w] = n = BufferSize]
      /\ failures' = [failures EXCEPT ![w] = IF n = most THEN failures[w] ELSE failures[w] + 1]
      /\ buf' = [buf EXCEPT ![w] = IF n = 0 THEN <<>> ELSE Tail(got)]
      /\ bls' = [bls EXCEPT ![w] = IF n = 0 THEN [bls[w] EXCEPT !.size = 0] ELSE Head(got)]
  BY <1>1, <1>4, <1>5
<1>7. /\ pos \in [F -> Nat] /\ buf \in [F -> Seq(Block)] /\ bls \in [F -> Block] /\ w \in F
      /\ failures \in [F -> Nat] /\ full \in [F -> BOOLEAN]
  BY DEF StreamsOf, ReadsOf
<1> HIDE DEF F, got
<1>8. /\ pos'[w] = p + n /\ (full'[w] <=> n = BufferSize)
      /\ failures'[w] = IF n = most THEN failures[w] ELSE failures[w] + 1
      /\ buf'[w] = (IF n = 0 THEN <<>> ELSE Tail(got))
      /\ bls'[w] = (IF n = 0 THEN [bls[w] EXCEPT !.size = 0] ELSE Head(got))
  BY <1>6, <1>7
<1>9. \A v \in F : v # w =>
        /\ pos'[v] = pos[v] /\ buf'[v] = buf[v] /\ bls'[v] = bls[v]
        /\ full'[v] = full[v] /\ failures'[v] = failures[v]
  BY <1>6, <1>7
<1>10. failures' \in [F -> Nat] /\ full' \in [F -> BOOLEAN]
  <2>1. PICK x \in Nat : x = IF n = most THEN failures[w] ELSE failures[w] + 1
    BY <1>7
  <2>2. failures' = [failures EXCEPT ![w] = x]
    BY <1>6, <2>1
  <2>3. PICK y \in BOOLEAN : y = (n = BufferSize)
    OBVIOUS
  <2>4. full' = [full EXCEPT ![w] = y]
    BY <1>6, <2>3
  <2> QED BY <1>7, <2>2, <2>4
<1>11. ReadTo(l, p + n, failures'[w], full'[w])
  <2> SUFFICES ASSUME failures'[w] = 0, ~full'[w] PROVE p + n = Len(l)
    BY DEF ReadTo
  <2>1. n # BufferSize
    BY <1>8
  <2>2. n = most
    <3>1. failures[w] \in Nat
      BY <1>7
    <3> QED BY <1>8, <3>1
  <2> QED BY <1>4, <1>5, <1>7, <2>1, <2>2, ReadsTell
<1>12. Taken(l, p + n, k) /\ k \in Nat
  BY <1>2, <1>4 DEF Taken
<1>13. CASE n = 0
  <2>1. [bls[w] EXCEPT !.size = 0].size = 0
    <3>1. bls[w] \in Block
      BY <1>7
    <3> QED BY <3>1 DEF Block
  <2>2. bls'[w].size = 0 /\ k = p + n
    BY <1>4, <1>8, <1>13, <2>1
  <2>3. ~full'[w]
    BY <1>8, <1>13, LogsAssumption
  <2> QED BY <1>3, <1>4, <1>8, <1>9, <1>10, <1>11, <1>12, <2>2, <2>3 DEF NewFront, AtFront, ReadsOf, F
<1>14. CASE n # 0
  <2>1. n > 0 /\ p + 1 \in 1 .. Len(l) /\ p + n \in 1 .. Len(l)
    BY <1>2, <1>4, <1>14
  <2>2. Head(got) = l[p + 1] /\ Tail(got) = SubSeq(l, p + 2, p + n)
    <3>1. p + 1 \in 1 .. Len(l) /\ p + n \in (p + 1) .. Len(l) /\ (p + 1) + 1 = p + 2
      BY <1>2, <1>4, <2>1, SMTT(30)
    <3>2. PICK a \in 1 .. Len(l), b \in Int :
            a = p + 1 /\ b = p + n /\ b \in a .. Len(l) /\ a + 1 = p + 2
      BY <3>1
    <3>3. Head(SubSeq(l, a, b)) = l[a] /\ Tail(SubSeq(l, a, b)) = SubSeq(l, a + 1, b)
      BY <1>4, <3>2, HeadTailOfSubSeq
    <3> QED BY <3>2, <3>3 DEF got
  <2>3. k < p + n /\ k + 1 = p + 1 /\ k + 2 = p + 2
    BY <1>2, <1>4, <1>14
  <2>4. bls'[w] = l[k + 1] /\ buf'[w] = SubSeq(l, k + 2, p + n)
    BY <1>8, <1>14, <2>2, <2>3
  <2> QED BY <1>3, <1>4, <1>8, <1>9, <1>10, <1>11, <1>12, <2>3, <2>4 DEF NewFront, AtFront, ReadsOf, F
<1> QED BY <1>13, <1>14


\* load_block behind the records that were taken.
LEMMA LoadBlockFront ==
  ASSUME StreamsOf(logs, pos, buf, bls), ReadsOf(logs, failures, full), NEW w \in Streams(Len(logs)), LoadBlock(w),
         NEW k, Past(Log(w), pos[w], buf[w], k), ReadTo(Log(w), pos[w], failures[w], full[w])
  PROVE  NewFront(w, k)
<1> DEFINE F == Streams(Len(logs))
<1>1. w + 1 \in 1 .. Len(logs) /\ Log(w) = logs[w + 1]
  <2>1. Len(logs) \in Nat
    BY DEF StreamsOf
  <2> QED BY <2>1 DEF Streams, Log
<1>2. PICK l \in Seq(Block), p \in Nat : l = Log(w) /\ p = pos[w] /\ p <= Len(l)
  BY <1>1 DEF StreamsOf
<1>3. Taken(l, p, k) /\ k \in 0 .. p /\ buf[w] = SubSeq(l, k + 1, p)
  BY <1>2 DEF Past, Taken
<1>4. /\ pos \in [F -> Nat] /\ buf \in [F -> Seq(Block)] /\ bls \in [F -> Block] /\ w \in F
      /\ failures \in [F -> Nat] /\ full \in [F -> BOOLEAN]
  BY DEF StreamsOf, ReadsOf
<1>5. k = p <=> buf[w] = <<>>
  <2>1. k + 1 \in Int /\ p \in Int
    BY <1>3
  <2>2. k < p => Len(SubSeq(l, k + 1, p)) = p - k
    BY <1>2, <1>3
  <2>3. k = p => SubSeq(l, k + 1, p) = <<>>
    BY <1>2, <2>1, SubSeqEmpty
  <2>4. k = p \/ k < p
    BY <1>2, <1>3
  <2>5. ASSUME k < p PROVE k # p /\ buf[w] # <<>>
    <3>1. Len(buf[w]) = p - k /\ p - k # 0
      BY <1>2, <1>3, <2>2, <2>5
    <3>2. k # p
      BY <1>2, <1>3, <2>5
    <3>3. buf[w] # <<>>
      <4> SUFFICES ASSUME buf[w] = <<>> PROVE FALSE
        OBVIOUS
      <4>1. Len(buf[w]) = 0
        OBVIOUS
      <4> QED BY <3>1, <4>1
    <3> QED BY <3>2, <3>3
  <2> QED BY <1>3, <2>3, <2>4, <2>5, SMTT(30)
<1>6. CASE buf[w] = <<>> /\ full[w]
  <2>1. LoadBuffer(w)
    BY <1>6 DEF LoadBlock
  <2> QED BY <1>2, <1>3, <1>5, <1>6, <2>1, LoadBufferFront
<1>7. CASE buf[w] = <<>> /\ ~full[w]
  <2>1. /\ pos' = pos /\ full' = full /\ failures' = failures /\ buf' = buf
        /\ bls' = [bls EXCEPT ![w] = [bls[w] EXCEPT !.size = 0]]
    BY <1>7 DEF LoadBlock
  <2>2. [bls[w] EXCEPT !.size = 0].size = 0
    <3>1. bls[w] \in Block
      BY <1>4
    <3> QED BY <3>1 DEF Block
  <2> HIDE DEF F
  <2>3. bls'[w].size = 0 /\ \A v \in F : v # w => bls'[v] = bls[v]
    BY <1>4, <2>1, <2>2
  <2>4. AtFront(Log(w), pos'[w], buf'[w], bls'[w], full'[w], k)
    BY <1>2, <1>3, <1>5, <1>7, <2>1, <2>3 DEF AtFront
  <2> QED BY <2>1, <2>3, <2>4 DEF NewFront, ReadsOf, F
<1>8. CASE buf[w] # <<>>
  <2>1. /\ pos' = pos /\ full' = full /\ failures' = failures
        /\ bls' = [bls EXCEPT ![w] = Head(buf[w])] /\ buf' = [buf EXCEPT ![w] = Tail(buf[w])]
    BY <1>8 DEF LoadBlock
  <2>2. Head(buf[w]) = l[k + 1] /\ Tail(buf[w]) = SubSeq(l, k + 2, p)
    <3>1. PICK m \in 1 .. Len(l) : m = k + 1 /\ p \in m .. Len(l) /\ m + 1 = k + 2
      BY <1>2, <1>3, <1>5, <1>8
    <3>2. Head(SubSeq(l, m, p)) = l[m] /\ Tail(SubSeq(l, m, p)) = SubSeq(l, m + 1, p)
      BY <1>2, <3>1, HeadTailOfSubSeq
    <3> QED BY <1>3, <3>1, <3>2
  <2> HIDE DEF F
  <2>3. /\ bls'[w] = l[k + 1] /\ buf'[w] = SubSeq(l, k + 2, p)
        /\ \A v \in F : v # w => bls'[v] = bls[v] /\ buf'[v] = buf[v]
    BY <1>4, <2>1, <2>2
  <2>4. k < p
    BY <1>3, <1>5, <1>8
  <2>5. AtFront(Log(w), pos'[w], buf'[w], bls'[w], full'[w], k)
    BY <1>2, <1>3, <2>1, <2>3, <2>4 DEF AtFront
  <2> QED BY <2>1, <2>3, <2>5 DEF NewFront, ReadsOf, F
<1> QED BY <1>6, <1>7, <1>8

-----------------------------------------------------------------------------
(* One block is counted, or none *)

LEMMA CountersAreKept ==
  ASSUME NEW bc \in Counters, NEW c, NEW k \in Int
  PROVE  CountedOnce(bc, c) \in Counters /\ CountedMore(bc, c, k) \in Counters
<1>1. CounterSize \in Nat \ {0}
  BY CountersAssumption
<1>2. \A x \in Int : (x + 1) % CounterSize \in Int /\ (x + k) % CounterSize \in Int
  BY <1>1
<1>3. c \in 0 .. CounterSize - 1 => bc[c] \in Int
  BY DEF Counters
<1>4. CountedOnce(bc, c) \in Counters
  BY <1>2, <1>3 DEF CountedOnce, Counters
<1>5. CountedMore(bc, c, k) \in Counters
  BY <1>2, <1>3 DEF CountedMore, Counters
<1> QED BY <1>4, <1>5

\* Blocks of a size other than zero are the same if their checksums are.
LEMMA SameByCksum ==
  ASSUME NEW a \in Block, NEW b \in Block, a.size # 0, b.size # 0
  PROVE  SameBlock(a, b) <=> a.cksum = b.cksum
BY DEF SameBlock, After, Block

\* And are not the same as one of size zero.
LEMMA SameAsNone ==
  ASSUME NEW a \in Block, NEW b \in Block, a.size = 0
  PROVE  /\ SameBlock(a, b) <=> b.size = 0
         /\ SameBlock(b, a) <=> b.size = 0
BY DEF SameBlock, After, Block

\* Block x is not less than those before it, and the same as one of its checksum.
MayFollow(ls, A, x) ==
  \A b \in Occurring(ls, A) : b \in Block /\ b.size # 0 /\ b.cksum <= x.cksum /\ (b.cksum = x.cksum => b = x)

\* What count makes of the counters when block x makes B of what was counted.
CountedUpTo(ls, B, x, last, dup, bc, sc, dc) ==
  IF SameBlock(x, last)
  THEN IsCounting(ls, B, x, (dup + 1) % CounterSize) /\ InCounters(ls, B, Occurring(ls, B) \ {x}, bc, sc, dc)
  ELSE /\ IsCounting(ls, B, x, 1)
       /\ InCounters(ls, B, Occurring(ls, B) \ {x}, CountedOnce(bc, OldCounter(dup)),
                     CountedMore(sc, OldCounter(dup), last.size * dup), CountedMore(dc, OldCounter(dup), last.size))

LEMMA OneIsCounted ==
  ASSUME NEW ls, NEW A, IsFiniteSet(A), NEW q, q \notin A, NEW B, B = A \union {q},
         NEW x \in Block, x = Rec(ls, q), x.size # 0, MayFollow(ls, A, x),
         NEW last \in Block, NEW dup, IsCounting(ls, A, last, dup),
         NEW bc \in Counters, NEW sc \in Counters, NEW dc \in Counters,
         InCounters(ls, A, Occurring(ls, A) \ {last}, bc, sc, dc)
  PROVE  CountedUpTo(ls, B, x, last, dup, bc, sc, dc)
<1>1. PICK o : o = OldCounter(dup)
  OBVIOUS
<1>2. \A b \in Occurring(ls, A) : b \in Block /\ b.size # 0 /\ b.cksum <= x.cksum /\ (b.cksum = x.cksum => b = x)
  BY DEF MayFollow
<1>3. CASE A = {}
  <2>1. last = EndBlock /\ dup = 1 /\ EndBlock.size = 0
    BY <1>3 DEF IsCounting, EndBlock
  <2>2. ~SameBlock(x, last)
    BY <2>1, SameAsNone
  <2>3. Occurring(ls, A) = {} /\ Occurring(ls, A) \ {last} = {}
    BY <1>3 DEF Occurring
  <2>4. ASSUME NoWrap(ls, B)
        PROVE  Histogram(Occurring(ls, A), Occurrences(ls, A, Occurring(ls, A)), 1, CountedOnce(bc, o),
                         CountedMore(sc, o, last.size * dup), CountedMore(dc, o, last.size))
    <3>1. 1 < CounterSize
      <4>1. TimesIn(ls, B, x) = TimesIn(ls, A, x) + 1 /\ x \in Occurring(ls, B)
        BY OnePlaceMore
      <4>2. TimesIn(ls, A, x) = 0
        BY <2>3, TimesAre
      <4>3. TimesIn(ls, B, x) < CounterSize
        BY <2>4, <4>1 DEF NoWrap
      <4> QED BY <4>1, <4>2, <4>3
    <3>2. NoWrap(ls, A)
      BY <2>4, OnePlaceMore
    <3>3. Histogram({}, Occurrences(ls, {}, {}), 0, bc, sc, dc)
      BY <1>3, <2>3, <3>2 DEF InCounters
    <3>4. Histogram({}, Occurrences(ls, A, Occurring(ls, A)), 1, CountedOnce(bc, OldCounter(1)),
                    CountedMore(sc, OldCounter(1), EndBlock.size * 1), CountedMore(dc, OldCounter(1), EndBlock.size))
      BY <3>1, <3>3, TheFirstIsCounted
    <3> QED BY <1>1, <2>1, <2>3, <3>4
  <2>5. x \notin Occurring(ls, A) /\ \A b \in Occurring(ls, A) : b.cksum <= x.cksum
    BY <2>3
  <2>6. /\ IsCounting(ls, B, x, 1)
        /\ InCounters(ls, B, Occurring(ls, B) \ {x}, CountedOnce(bc, o),
                      CountedMore(sc, o, last.size * dup), CountedMore(dc, o, last.size))
    BY <2>4, <2>5, CountBegins
  <2> QED BY <1>1, <2>2, <2>6 DEF CountedUpTo
<1>4. CASE A # {}
  <2>1. last \in Occurring(ls, A) /\ \A b \in Occurring(ls, A) : b.cksum <= last.cksum
    BY <1>4 DEF IsCounting
  <2>2. last.size # 0 /\ last.cksum <= x.cksum /\ (last.cksum = x.cksum => last = x)
    BY <1>2, <2>1
  <2>3. SameBlock(x, last) <=> x = last
    BY <2>2, SameByCksum
  <2>4. CASE x = last
    <3>1. /\ IsCounting(ls, B, last, (dup + 1) % CounterSize)
          /\ InCounters(ls, B, Occurring(ls, B) \ {last}, bc, sc, dc)
      BY <1>4, <2>4, CountedAgain
    <3> QED BY <2>3, <2>4, <3>1 DEF CountedUpTo
  <2>5. CASE x # last
    <3>1. x \notin Occurring(ls, A)
      <4> SUFFICES ASSUME x \in Occurring(ls, A) PROVE FALSE
        OBVIOUS
      <4>1. x.cksum <= last.cksum /\ x.cksum \in Nat /\ last.cksum \in Nat
        BY <2>1 DEF Block
      <4> QED BY <2>2, <2>5, <4>1
    <3>2. InCounters(ls, A, Occurring(ls, A), CountedOnce(bc, o), CountedMore(sc, o, last.size * dup),
                     CountedMore(dc, o, last.size))
      <4>1. Occurring(ls, A) \subseteq Block
        BY <1>2
      <4> QED BY <1>1, <1>4, <4>1, CountIsEnded
    <3>3. NoWrap(ls, B) =>
            Histogram(Occurring(ls, A), Occurrences(ls, A, Occurring(ls, A)), 1, CountedOnce(bc, o),
                      CountedMore(sc, o, last.size * dup), CountedMore(dc, o, last.size))
      <4>1. NoWrap(ls, B) => NoWrap(ls, A)
        BY OnePlaceMore
      <4> QED BY <1>4, <3>2, <4>1 DEF InCounters
    <3>4. \A b \in Occurring(ls, A) : b.cksum <= x.cksum
      BY <1>2
    <3>5. /\ IsCounting(ls, B, x, 1)
          /\ InCounters(ls, B, Occurring(ls, B) \ {x}, CountedOnce(bc, o),
                        CountedMore(sc, o, last.size * dup), CountedMore(dc, o, last.size))
      BY <3>1, <3>3, <3>4, CountBegins
    <3> QED BY <1>1, <2>3, <2>5, <3>5 DEF CountedUpTo
  <2> QED BY <2>4, <2>5
<1> QED BY <1>3, <1>4

\* A block of size zero.
LEMMA NoneIsCounted ==
  ASSUME NEW ls, NEW A, IsFiniteSet(A), NEW x \in Block, x.size = 0,
         \A b \in Occurring(ls, A) : b \in Block /\ b.size # 0,
         NEW last \in Block, NEW dup, IsCounting(ls, A, last, dup),
         NEW bc \in Counters, NEW sc \in Counters, NEW dc \in Counters,
         InCounters(ls, A, Occurring(ls, A) \ {last}, bc, sc, dc), NEW o, o = OldCounter(dup)
  PROVE  IF SameBlock(x, last) THEN InCounters(ls, A, Occurring(ls, A), bc, sc, dc)
         ELSE InCounters(ls, A, Occurring(ls, A), CountedOnce(bc, o), CountedMore(sc, o, last.size * dup),
                         CountedMore(dc, o, last.size))
<1>1. CASE A = {}
  <2>1. last.size = 0
    BY <1>1 DEF IsCounting, EndBlock
  <2>2. Occurring(ls, A) \ {last} = Occurring(ls, A)
    BY <1>1 DEF Occurring
  <2> QED BY <2>1, <2>2, SameAsNone
<1>2. CASE A # {}
  <2>1. last.size # 0
    BY <1>2 DEF IsCounting
  <2>2. Occurring(ls, A) \subseteq Block
    OBVIOUS
  <2> QED BY <1>2, <2>1, <2>2, SameAsNone, CountIsEnded
<1> QED BY <1>1, <1>2

-----------------------------------------------------------------------------
(* HistogramIsRight: tk[w] records were taken of stream w, and counted *)

InFront(w, k) ==
  /\ AtFront(Log(w), pos[w], buf[w], bls[w], full[w], k)
  /\ ReadTo(Log(w), pos[w], failures[w], full[w])

\* The block that was counted last is the one before stream w's next.
IsCounted(w, k) ==
  /\ Past(Log(w), pos[w], buf[w], k)
  /\ ReadTo(Log(w), pos[w], failures[w], full[w])
  /\ k > 0 /\ Log(w)[k] = last_blk /\ bls[w] = last_blk

\* What is next in a stream is not less than what was counted.
InOrder(A) ==
  \A w \in Streams(Len(logs)) : bls[w].size # 0 => \A b \in Occurring(logs, A) : b.cksum <= bls[w].cksum

AllAtEnd(ls, blks) == \A w \in Streams(Len(ls)) : blks[w].size = 0

Streaming(tk) ==
  /\ pc \in {"open", "load"} =>
       \A w \in Streams(Len(logs)) : tk[w] = 0 /\ (w < i => InFront(w, 0)) /\ (w >= i => pos[w] = 0)
  /\ pc \in {"count", "end", "done"} => \A w \in Streams(Len(logs)) : InFront(w, tk[w])
  /\ pc = "next" => /\ IsCounted(winner, tk[winner])
                    /\ \A w \in Streams(Len(logs)) : w # winner => InFront(w, tk[w])
  /\ pc \in {"end", "done"} => AllAtEnd(logs, bls)

Counting(A) ==
  /\ pc \in {"open", "load", "count", "next"} =>
       /\ InCounters(logs, A, Occurring(logs, A) \ {last_blk}, blk_count, size_count, dedup_count)
       /\ IsCounting(logs, A, last_blk, dup_count)
  /\ pc \in {"count", "next"} => InOrder(A)
  /\ pc = "end" => InCounters(logs, A, Occurring(logs, A), blk_count, size_count, dedup_count)
  /\ pc = "done" => (NoWrap(logs, A) =>
       Histogram(Occurring(logs, A), Occurrences(logs, A, Occurring(logs, A)), IF A = {} THEN -1 ELSE 0,
                 blk_count, size_count, dedup_count))

Progress(tk) ==
  /\ IsFiniteSet(Places(Len(logs), tk))
  /\ Streaming(tk)
  /\ Counting(Places(Len(logs), tk))

CountersType ==
  /\ blk_count \in Counters /\ size_count \in Counters /\ dedup_count \in Counters
  /\ last_blk \in Block /\ dup_count \in Nat

HistInv ==
  release = "old" =>
    /\ logs \in Logs /\ \A w \in Streams(Len(logs)) : Sorted(Log(w))
    /\ ReadsOf(logs, failures, full)
    /\ CountersType
    /\ pc \in {"open", "load", "count", "next", "end", "done"}
    /\ pc = "open" => i = 0
    /\ pc \in {"count", "next", "end"} => i = Len(logs)
    /\ pc # "done" \/ i = Len(logs) => \E tk \in [Streams(Len(logs)) -> Nat] : Progress(tk)

LEMMA LogOf ==
  ASSUME StreamsOf(logs, pos, buf, bls), NEW w \in Streams(Len(logs))
  PROVE  /\ w + 1 \in DOMAIN logs /\ Log(w) = logs[w + 1] /\ Log(w) \in Seq(Block)
         /\ pos[w] \in Nat /\ pos[w] <= Len(Log(w)) /\ bls[w] \in Block
<1>1. Len(logs) \in Nat /\ DOMAIN logs = 1 .. Len(logs)
  BY DEF StreamsOf
<1>2. w + 1 \in 1 .. Len(logs)
  BY <1>1 DEF Streams
<1> QED BY <1>1, <1>2 DEF StreamsOf, Log

\* What was taken of the streams is blocks of their logs.
LEMMA TakenAre ==
  ASSUME StreamsOf(logs, pos, buf, bls), NEW tk \in [Streams(Len(logs)) -> Nat],
         \A w \in Streams(Len(logs)) : Taken(Log(w), pos[w], tk[w])
  PROVE  /\ \A p \in Places(Len(logs), tk) : p[1] + 1 \in DOMAIN logs /\ p[2] \in DOMAIN logs[p[1] + 1]
         /\ \A b \in Occurring(logs, Places(Len(logs), tk)) : b \in Block /\ b.size # 0
<1>1. ASSUME NEW p \in Places(Len(logs), tk)
      PROVE  /\ p[1] + 1 \in DOMAIN logs /\ p[2] \in DOMAIN logs[p[1] + 1]
             /\ Rec(logs, p) \in Block /\ Rec(logs, p).size # 0
  <2>1. PICK w \in Streams(Len(logs)), j \in Nat \ {0} : w = p[1] /\ j = p[2] /\ j <= tk[w]
    BY DEF Places
  <2>2. PICK l \in Seq(Block), n \in Nat :
          l = Log(w) /\ l = logs[w + 1] /\ n = pos[w] /\ n <= Len(l) /\ w + 1 \in DOMAIN logs
    BY LogOf
  <2>3. tk[w] \in 0 .. n /\ \A m \in 1 .. tk[w] : l[m].size # 0
    BY <2>2 DEF Taken
  <2>4. j \in 1 .. tk[w] /\ j \in 1 .. Len(l)
    BY <2>1, <2>2, <2>3
  <2>5. l[j] \in Block /\ l[j].size # 0 /\ j \in DOMAIN l
    BY <2>2, <2>3, <2>4
  <2> QED BY <2>1, <2>2, <2>5 DEF Rec
<1> QED BY <1>1 DEF Occurring

\* Of such blocks and one more at a place of a log no two have one checksum.
LEMMA ContentOf ==
  ASSUME logs \in Logs, NEW A, NEW j \in DOMAIN logs, NEW m \in DOMAIN logs[j], logs[j][m].size # 0,
         \A p \in A : p[1] + 1 \in DOMAIN logs /\ p[2] \in DOMAIN logs[p[1] + 1],
         \A b \in Occurring(logs, A) : b.size # 0
  PROVE  \A b \in Occurring(logs, A) : b.cksum = logs[j][m].cksum => b = logs[j][m]
<1> SUFFICES ASSUME NEW b \in Occurring(logs, A), b.cksum = logs[j][m].cksum PROVE b = logs[j][m]
  OBVIOUS
<1>1. PICK p \in A : b = logs[p[1] + 1][p[2]]
  BY DEF Occurring, Rec
<1>2. PICK k \in DOMAIN logs : \E n \in DOMAIN logs[k] : b = logs[k][n]
  BY <1>1
<1> QED BY <1>2, ContentAssumption

LEMMA HistInvInit == Init => HistInv
<1> SUFFICES ASSUME Init, release = "old" PROVE HistInv
  BY DEF HistInv
<1>1. /\ logs \in Logs /\ logs \in Seq(Seq(Block)) \ {<<>>} /\ Len(logs) \in Nat /\ DOMAIN logs = 1 .. Len(logs)
      /\ \A k \in DOMAIN logs : Sorted(logs[k])
  BY LogsAssumption DEF Init
<1>2. \A w \in Streams(Len(logs)) : Sorted(Log(w))
  <2>1. \A w \in Streams(Len(logs)) : w + 1 \in DOMAIN logs
    BY <1>1 DEF Streams
  <2> QED BY <1>1, <2>1 DEF Log
<1>3. ReadsOf(logs, failures, full)
  BY FilesAre DEF Init, ReadsOf
<1>4. CountersType
  <2>1. EndBlock \in Block
    BY DEF EndBlock, Block
  <2> QED BY <2>1 DEF Init, CountersType, Counters
<1>5. pc = "open" /\ i = 0 /\ last_blk = EndBlock /\ dup_count = 1
  BY DEF Init
<1> DEFINE tk == [w \in Streams(Len(logs)) |-> 0]
<1>6. tk \in [Streams(Len(logs)) -> Nat] /\ \A w \in Streams(Len(logs)) : tk[w] = 0
  OBVIOUS
<1>7. Places(Len(logs), tk) = {}
  <2>1. \A p \in Streams(Len(logs)) \X (Nat \ {0}) : ~(p[2] <= 0)
    OBVIOUS
  <2>2. \A p \in Streams(Len(logs)) \X (Nat \ {0}) : tk[p[1]] = 0
    BY <1>6
  <2> HIDE DEF tk
  <2> QED BY <2>1, <2>2 DEF Places
<1>8. Streaming(tk)
  <2>1. \A w \in Streams(Len(logs)) : pos[w] = 0 /\ ~(w < 0)
    <3>1. pos = [w \in Streams(Len(logs)) |-> 0]
      BY FilesAre DEF Init
    <3>2. \A w \in Streams(Len(logs)) : ~(w < 0)
      BY <1>1 DEF Streams
    <3> QED BY <3>1, <3>2
  <2> QED BY <1>5, <1>6, <2>1 DEF Streaming
<1>9. Counting({})
  <2>1. IsCounting(logs, {}, last_blk, dup_count)
    BY <1>5 DEF IsCounting
  <2>2. InCounters(logs, {}, {}, blk_count, size_count, dedup_count)
    <3>1. \A n \in 0 .. CounterSize - 1 : blk_count[n] = 0 /\ size_count[n] = 0 /\ dedup_count[n] = 0
      BY DEF Init
    <3> QED BY <3>1, NothingIsCounted
  <2>3. Occurring(logs, {}) = {}
    BY DEF Occurring
  <2> QED BY <1>5, <2>1, <2>2, <2>3 DEF Counting
<1>10. Progress(tk)
  BY <1>7, <1>8, <1>9, FS_EmptySet DEF Progress
<1> QED BY <1>1, <1>2, <1>3, <1>4, <1>5, <1>6, <1>10 DEF HistInv

LEMMA HistInvNext ==
  ASSUME HistInv, release = "old", logs' = logs, ReadsOf(logs, failures', full'), CountersType',
         pc' \in {"open", "load", "count", "next", "end", "done"}, pc' = "open" => i' = 0,
         pc' \in {"count", "next", "end"} => i' = Len(logs),
         pc' # "done" \/ i' = Len(logs) => \E tk \in [Streams(Len(logs)) -> Nat] : Progress(tk)'
  PROVE  HistInv'
<1>1. logs' \in Logs /\ \A w \in Streams(Len(logs')) : Sorted(Log(w))'
  BY DEF HistInv, Log
<1> QED BY <1>1 DEF HistInv

LEMMA NoPlaces ==
  ASSUME NEW n, NEW tk, \A w \in Streams(n) : tk[w] = 0
  PROVE  Places(n, tk) = {}
<1>1. \A p \in Streams(n) \X (Nat \ {0}) : ~(p[2] <= 0)
  OBVIOUS
<1>2. \A p \in Streams(n) \X (Nat \ {0}) : tk[p[1]] = 0
  OBVIOUS
<1> QED BY <1>1, <1>2 DEF Places

\* Where nothing but the step changes.
LEMMA CountingIsKept ==
  ASSUME NEW A, Counting(A), logs' = logs,
         blk_count' = blk_count, size_count' = size_count, dedup_count' = dedup_count,
         last_blk' = last_blk, dup_count' = dup_count,
         pc \in {"open", "load", "count", "next"}, pc' \in {"open", "load", "count", "next"},
         pc' \in {"count", "next"} => InOrder(A)'
  PROVE  Counting(A)'
BY DEF Counting

LEMMA FrontIsKept ==
  ASSUME NEW w, NEW k, logs' = logs, pos'[w] = pos[w], buf'[w] = buf[w], bls'[w] = bls[w],
         full'[w] = full[w], failures'[w] = failures[w], InFront(w, k)
  PROVE  InFront(w, k)'
BY DEF InFront, Log

\* load: the first record of a stream.
LEMMA LoadFirstIsInFront ==
  ASSUME LoserInv, HistInv, release = "old", LoadFirst PROVE HistInv'
<1>1. PICK n \in Nat \ {0} : n = Len(logs) /\ num_files = n
  BY FilesAre DEF LoserInv, StreamsOf
<1>2. PICK w \in 0 .. n : w = i
  BY <1>1 DEF LoserInv
<1>3. /\ w < n /\ LoadBuffer(w) /\ i' = w + 1 /\ logs' = logs /\ pc = "load" /\ pc' = "load"
      /\ last_blk' = last_blk /\ dup_count' = dup_count
      /\ blk_count' = blk_count /\ size_count' = size_count /\ dedup_count' = dedup_count
  BY <1>1, <1>2 DEF LoadFirst, inputVars, countVars
<1>4. w \in Streams(n) /\ w \in Streams(Len(logs))
  BY <1>1, <1>3 DEF Streams
<1>5. PICK tk \in [Streams(Len(logs)) -> Nat] : Progress(tk)
  BY <1>3 DEF HistInv
<1>6. \A v \in Streams(n) : tk[v] = 0 /\ (v < w => InFront(v, 0)) /\ (v >= w => pos[v] = 0)
  BY <1>1, <1>2, <1>3, <1>5 DEF Progress, Streaming
<1>7. NewFront(w, 0)
  <2>1. pos[w] = 0
    BY <1>2, <1>4, <1>6
  <2>2. Taken(Log(w), pos[w], 0)
    BY <2>1 DEF Taken
  <2> QED BY <1>3, <1>4, <2>1, <2>2, LoadBufferFront DEF LoserInv, HistInv
<1>8. InFront(w, 0)'
  BY <1>3, <1>7 DEF NewFront, InFront, Log
<1>9. ASSUME NEW v \in Streams(n), v # w
      PROVE  pos'[v] = pos[v] /\ (InFront(v, 0) => InFront(v, 0)')
  <2>1. /\ pos'[v] = pos[v] /\ buf'[v] = buf[v] /\ bls'[v] = bls[v]
        /\ full'[v] = full[v] /\ failures'[v] = failures[v]
    BY <1>1, <1>7, <1>9 DEF NewFront
  <2> QED BY <1>3, <2>1, FrontIsKept
<1>10. Streaming(tk)'
  <2>1. ASSUME NEW v \in Streams(n)
        PROVE  tk[v] = 0 /\ (v < w + 1 => InFront(v, 0)') /\ (v >= w + 1 => pos'[v] = 0)
    <3>1. v < w + 1 <=> v = w \/ v < w
      BY <1>2 DEF Streams
    <3>2. v >= w + 1 <=> v # w /\ v >= w
      BY <1>2 DEF Streams
    <3> QED BY <1>6, <1>8, <1>9, <3>1, <3>2
  <2> QED BY <1>1, <1>3, <2>1 DEF Streaming
<1>11. Counting(Places(Len(logs), tk))'
  <2>1. PICK A : A = Places(Len(logs), tk) /\ Counting(A)
    BY <1>5 DEF Progress
  <2>2. Counting(A)'
    BY <1>3, <2>1, CountingIsKept
  <2> QED BY <1>3, <2>1, <2>2
<1>12. Progress(tk)'
  BY <1>3, <1>5, <1>10, <1>11 DEF Progress
<1>13. CountersType'
  BY <1>3 DEF HistInv, CountersType
<1> QED BY <1>3, <1>7, <1>12, <1>13, HistInvNext DEF NewFront

\* Between load and count nothing was taken yet.
LEMMA MergeStarts ==
  ASSUME LoserInv, HistInv, release = "old", StartMerge PROVE HistInv'
<1>1. PICK n \in Nat \ {0} : n = Len(logs) /\ num_files = n
  BY FilesAre DEF LoserInv, StreamsOf
<1>2. /\ pc = "load" /\ pc' = "count" /\ i = n /\ i' = i /\ logs' = logs
      /\ pos' = pos /\ buf' = buf /\ bls' = bls /\ full' = full /\ failures' = failures
      /\ last_blk' = last_blk /\ dup_count' = dup_count
      /\ blk_count' = blk_count /\ size_count' = size_count /\ dedup_count' = dedup_count
  BY <1>1 DEF StartMerge, inputVars, streamVars, countVars
<1>3. PICK tk \in [Streams(Len(logs)) -> Nat] : Progress(tk)
  BY <1>2 DEF HistInv
<1>4. \A v \in Streams(n) : tk[v] = 0 /\ InFront(v, 0)
  <2>1. \A v \in Streams(n) : v < n
    BY DEF Streams
  <2> QED BY <1>1, <1>2, <1>3, <2>1 DEF Progress, Streaming
<1>5. \A v \in Streams(n) : InFront(v, tk[v])'
  BY <1>2, <1>4 DEF InFront, Log
<1>6. Streaming(tk)'
  BY <1>1, <1>2, <1>5 DEF Streaming
<1>7. Places(Len(logs), tk) = {}
  BY <1>1, <1>4, NoPlaces
<1>8. Counting({})'
  <2>1. InOrder({})'
    BY DEF InOrder, Occurring
  <2>2. Counting({})
    BY <1>3, <1>7 DEF Progress
  <2> QED BY <1>2, <2>1, <2>2, CountingIsKept
<1>9. Progress(tk)'
  BY <1>2, <1>6, <1>7, <1>8, FS_EmptySet DEF Progress
<1>10. CountersType' /\ ReadsOf(logs, failures', full')
  BY <1>2 DEF HistInv, CountersType
<1> QED BY <1>1, <1>2, <1>9, <1>10, HistInvNext

\* load_block: the next of a sorted log is not less than the one before it.
LEMMA LoadNextIsInOrder ==
  ASSUME LoserInv, HistInv, release = "old", LoadNext PROVE HistInv'
<1> DEFINE F == Streams(Len(logs))
<1>1. /\ pc = "next" /\ pc' = "count" /\ i' = i /\ logs' = logs
      /\ last_blk' = last_blk /\ dup_count' = dup_count
      /\ blk_count' = blk_count /\ size_count' = size_count /\ dedup_count' = dedup_count
  BY DEF LoadNext, inputVars, countVars
<1>2. PICK w \in F : w = winner
  BY <1>1, WinnerIsAStream
<1>3. PICK tk \in [F -> Nat] : Progress(tk)
  BY <1>1 DEF HistInv
<1>4. PICK k \in Nat : k = tk[w]
  BY <1>2, <1>3
<1>5. IsCounted(w, k) /\ \A v \in F : v # w => InFront(v, tk[v])
  BY <1>1, <1>2, <1>3, <1>4 DEF Progress, Streaming
<1>6. NewFront(w, k)
  <2>1. LoadBlock(w)
    BY <1>2 DEF LoadNext
  <2> QED BY <1>2, <1>5, <2>1, LoadBlockFront DEF LoserInv, HistInv, IsCounted
<1>7. StreamsOf(logs', pos', buf', bls')
  <2>1. LoadBlock(w)
    BY <1>2 DEF LoadNext
  <2> QED BY <1>1, <1>2, <2>1, LoadBlockLoads DEF LoserInv
<1>8. InFront(w, k)'
  BY <1>1, <1>6 DEF NewFront, InFront, Log
<1>9. ASSUME NEW v \in F, v # w
      PROVE  bls'[v] = bls[v] /\ InFront(v, tk[v])'
  <2>1. /\ pos'[v] = pos[v] /\ buf'[v] = buf[v] /\ bls'[v] = bls[v]
        /\ full'[v] = full[v] /\ failures'[v] = failures[v]
    BY <1>6, <1>9 DEF NewFront
  <2>2. PICK m : m = tk[v]
    OBVIOUS
  <2>3. InFront(v, m)'
    BY <1>1, <1>5, <1>9, <2>1, <2>2, FrontIsKept
  <2> QED BY <2>1, <2>2, <2>3
<1>10. Streaming(tk)'
  BY <1>1, <1>4, <1>8, <1>9 DEF Streaming
<1>11. PICK A : A = Places(Len(logs), tk) /\ Counting(A) /\ IsFiniteSet(A)
  BY <1>3 DEF Progress
<1>12. <<w, k>> \in A
  BY <1>2, <1>4, <1>5, <1>11 DEF IsCounted, Places
<1>13. PICK l \in Seq(Block), p \in Nat : l = Log(w) /\ p = pos'[w] /\ p <= Len(l) /\ Sorted(l)
  <2>1. Log(w) \in Seq(Block) /\ Log(w) = logs[w + 1]
    BY <1>2, LogOf DEF LoserInv
  <2>2. pos'[w] \in Nat /\ pos'[w] <= Len(logs[w + 1])
    BY <1>1, <1>2, <1>7 DEF StreamsOf
  <2>3. Sorted(Log(w))
    BY <1>2 DEF HistInv
  <2> QED BY <2>1, <2>2, <2>3
<1>14. ASSUME bls'[w].size # 0 PROVE \A b \in Occurring(logs, A) : b.cksum <= bls'[w].cksum
  <2>1. k < p /\ bls'[w] = l[k + 1]
    BY <1>6, <1>13, <1>14 DEF NewFront, AtFront
  <2>2. k > 0 /\ l[k] = last_blk
    BY <1>5, <1>13 DEF IsCounted
  <2>3. k \in DOMAIN l /\ k + 1 \in DOMAIN l /\ k < k + 1
    BY <1>13, <2>1, <2>2
  <2>4. last_blk.cksum <= l[k + 1].cksum /\ l[k] \in Block /\ l[k + 1] \in Block
    BY <1>13, <2>2, <2>3 DEF Sorted
  <2>5. \A b \in Occurring(logs, A) : b.cksum <= last_blk.cksum
    BY <1>1, <1>11, <1>12 DEF Counting, IsCounting
  <2>6. \A b \in Occurring(logs, A) : b \in Block
    <3>1. \A v \in F : Taken(Log(v), pos[v], tk[v])
      BY <1>4, <1>5 DEF IsCounted, Past, InFront, AtFront
    <3> QED BY <1>3, <1>11, <3>1, TakenAre DEF LoserInv
  <2>7. last_blk.cksum \in Nat /\ l[k + 1].cksum \in Nat /\ \A b \in Occurring(logs, A) : b.cksum \in Nat
    BY <2>2, <2>4, <2>6 DEF Block
  <2> QED BY <2>1, <2>4, <2>5, <2>7
<1>15. InOrder(A)'
  <2>1. InOrder(A)
    BY <1>1, <1>11 DEF Counting
  <2>2. ASSUME NEW v \in F, bls'[v].size # 0 PROVE \A b \in Occurring(logs, A) : b.cksum <= bls'[v].cksum
    BY <1>9, <1>14, <2>1, <2>2 DEF InOrder
  <2> QED BY <1>1, <2>2 DEF InOrder
<1>16. Counting(A)'
  BY <1>1, <1>11, <1>15, CountingIsKept
<1>17. Progress(tk)'
  BY <1>1, <1>10, <1>11, <1>16 DEF Progress
<1>18. CountersType' /\ ReadsOf(logs, failures', full')
  BY <1>1, <1>6 DEF HistInv, CountersType, NewFront
<1>19. i' = Len(logs)
  BY <1>1 DEF HistInv
<1> QED BY <1>1, <1>3, <1>17, <1>18, <1>19, HistInvNext

\* count: what it does to the counters.
LEMMA CountCounts ==
  ASSUME Count, release = "old", NEW x, x = bls[winner], NEW o, o = OldCounter(dup_count)
  PROVE  /\ last_blk' = x
         /\ IF SameBlock(x, last_blk)
            THEN /\ dup_count' = (dup_count + 1) % CounterSize
                 /\ blk_count' = blk_count /\ size_count' = size_count /\ dedup_count' = dedup_count
            ELSE /\ dup_count' = 1
                 /\ blk_count' = CountedOnce(blk_count, o)
                 /\ size_count' = CountedMore(size_count, o, last_blk.size * dup_count)
                 /\ dedup_count' = CountedMore(dedup_count, o, last_blk.size)
<1>1. Counter(dup_count) = o
  BY DEF Counter, OldCounter
<1>2. CASE SameBlock(x, last_blk)
  BY <1>2 DEF Count, CountBlock
<1>3. CASE ~SameBlock(x, last_blk)
  BY <1>1, <1>3 DEF Count, CountBlock, CountedOnce, CountedMore
<1> QED BY <1>2, <1>3

LEMMA CountersTypeKept ==
  ASSUME Count, release = "old", CountersType, NEW x \in Block, x = bls[winner]
  PROVE  CountersType'
<1>1. PICK o : o = OldCounter(dup_count)
  OBVIOUS
<1>2. last_blk' = x
  BY <1>1, CountCounts
<1>3. CASE SameBlock(x, last_blk)
  <2>1. (dup_count + 1) % CounterSize \in Nat
    BY CountersAssumption DEF CountersType
  <2> QED BY <1>1, <1>2, <1>3, <2>1, CountCounts DEF CountersType
<1>4. CASE ~SameBlock(x, last_blk)
  <2>1. last_blk.size \in Int /\ last_blk.size * dup_count \in Int
    BY DEF CountersType, Block
  <2>2. CountedOnce(blk_count, o) \in Counters
    BY <2>1, CountersAreKept DEF CountersType
  <2>3. CountedMore(size_count, o, last_blk.size * dup_count) \in Counters
    BY <2>1, CountersAreKept DEF CountersType
  <2>4. CountedMore(dedup_count, o, last_blk.size) \in Counters
    BY <2>1, CountersAreKept DEF CountersType
  <2>5. /\ dup_count' = 1 /\ blk_count' = CountedOnce(blk_count, o)
        /\ size_count' = CountedMore(size_count, o, last_blk.size * dup_count)
        /\ dedup_count' = CountedMore(dedup_count, o, last_blk.size)
    BY <1>1, <1>4, CountCounts
  <2> QED BY <1>2, <2>2, <2>3, <2>4, <2>5 DEF CountersType
<1> QED BY <1>3, <1>4

\* count: the record at the front of the winner is one more that was taken, or
\* there is no record left.
LEMMA CountTakes ==
  ASSUME LoserInv, HistInv, release = "old", Count PROVE HistInv'
<1> DEFINE F == Streams(Len(logs))
<1>1. /\ pc = "count" /\ i' = i /\ i = Len(logs) /\ logs' = logs /\ tree' = tree
      /\ pos' = pos /\ buf' = buf /\ bls' = bls /\ full' = full /\ failures' = failures
      /\ pc' = IF bls[winner].size = 0 THEN "end" ELSE "next"
  BY DEF Count, HistInv, inputVars, streamVars
<1>2. PICK w \in F : w = winner /\ \A v \in F : ~After(bls[w], bls[v])
  BY <1>1, WinnerIsAStream
<1>3. PICK tk \in [F -> Nat] : Progress(tk)
  BY <1>1 DEF HistInv
<1>4. PICK x \in Block : x = bls[w]
  BY <1>2, LogOf DEF LoserInv
<1>5. PICK A : A = Places(Len(logs), tk) /\ Counting(A) /\ IsFiniteSet(A)
  BY <1>3 DEF Progress
<1>6. \A v \in F : InFront(v, tk[v])
  BY <1>1, <1>3 DEF Progress, Streaming
<1>7. /\ \A p \in A : p[1] + 1 \in DOMAIN logs /\ p[2] \in DOMAIN logs[p[1] + 1]
      /\ \A b \in Occurring(logs, A) : b \in Block /\ b.size # 0
  <2>1. \A v \in F : Taken(Log(v), pos[v], tk[v])
    BY <1>6 DEF InFront, AtFront
  <2> QED BY <1>3, <1>5, <2>1, TakenAre DEF LoserInv
<1>8. /\ InCounters(logs, A, Occurring(logs, A) \ {last_blk}, blk_count, size_count, dedup_count)
      /\ IsCounting(logs, A, last_blk, dup_count)
      /\ InOrder(A)
  BY <1>1, <1>5 DEF Counting
<1>9. PICK o : o = OldCounter(dup_count)
  OBVIOUS
<1>10. /\ last_blk \in Block /\ blk_count \in Counters /\ size_count \in Counters /\ dedup_count \in Counters
       /\ CountersType' /\ ReadsOf(logs, failures', full')
  <2>1. CountersType /\ ReadsOf(logs, failures, full)
    BY DEF HistInv
  <2> QED BY <1>1, <1>2, <1>4, <2>1, CountersTypeKept DEF CountersType
<1>11. /\ last_blk' = x
       /\ IF SameBlock(x, last_blk)
          THEN /\ dup_count' = (dup_count + 1) % CounterSize
               /\ blk_count' = blk_count /\ size_count' = size_count /\ dedup_count' = dedup_count
          ELSE /\ dup_count' = 1
               /\ blk_count' = CountedOnce(blk_count, o)
               /\ size_count' = CountedMore(size_count, o, last_blk.size * dup_count)
               /\ dedup_count' = CountedMore(dedup_count, o, last_blk.size)
  BY <1>2, <1>4, <1>9, CountCounts
<1>12. CASE x.size = 0
  <2>1. AllAtEnd(logs, bls)
    <3> SUFFICES ASSUME NEW v \in F PROVE bls[v].size = 0
      BY DEF AllAtEnd
    <3>1. PICK b \in Block : b = bls[v]
      BY LogOf DEF LoserInv
    <3>2. ~(b.size > 0) /\ b.size \in Nat
      BY <1>2, <1>4, <1>12, <3>1 DEF After, Block
    <3> QED BY <3>1, <3>2
  <2>2. IF SameBlock(x, last_blk) THEN InCounters(logs, A, Occurring(logs, A), blk_count, size_count, dedup_count)
        ELSE InCounters(logs, A, Occurring(logs, A), CountedOnce(blk_count, o),
                        CountedMore(size_count, o, last_blk.size * dup_count), CountedMore(dedup_count, o, last_blk.size))
    BY <1>5, <1>7, <1>8, <1>9, <1>10, <1>12, NoneIsCounted
  <2>3. InCounters(logs, A, Occurring(logs, A), blk_count', size_count', dedup_count')
    BY <1>11, <2>2
  <2>4. pc' = "end"
    BY <1>1, <1>2, <1>4, <1>12
  <2>5. Streaming(tk)'
    <3>1. \A v \in F : InFront(v, tk[v])'
      BY <1>1, <1>6 DEF InFront, Log
    <3> QED BY <1>1, <2>1, <2>4, <3>1 DEF Streaming
  <2>6. Counting(A)'
    BY <1>1, <2>3, <2>4 DEF Counting
  <2>7. Progress(tk)'
    BY <1>1, <1>5, <2>5, <2>6 DEF Progress
  <2> QED BY <1>1, <1>3, <1>10, <2>4, <2>7, HistInvNext
<1>13. CASE x.size # 0
  <2>1. PICK l \in Seq(Block), p \in Nat : l = Log(w) /\ l = logs[w + 1] /\ p = pos[w] /\ p <= Len(l) /\ w + 1 \in DOMAIN logs
    BY <1>2, LogOf DEF LoserInv
  <2>2. PICK k \in Nat : k = tk[w]
    BY <1>2, <1>3
  <2>3. Taken(l, p, k) /\ k < p /\ x = l[k + 1] /\ buf[w] = SubSeq(l, k + 2, p)
    BY <1>2, <1>4, <1>6, <1>13, <2>1, <2>2 DEF InFront, AtFront
  <2>4. Past(l, p, buf[w], k + 1)
    <3>1. (k + 1) + 1 = k + 2
      OBVIOUS
    <3>2. k + 1 \in 0 .. p /\ \A j \in 1 .. k + 1 : l[j].size # 0
      <4>1. \A j \in 1 .. k + 1 : j \in 1 .. k \/ j = k + 1
        OBVIOUS
      <4>2. (\A j \in 1 .. k : l[j].size # 0) /\ l[k + 1].size # 0
        BY <1>13, <2>3 DEF Taken
      <4>3. k + 1 \in 0 .. p
        BY <2>1, <2>3
      <4> QED BY <4>1, <4>2, <4>3
    <3> QED BY <2>3, <3>1, <3>2 DEF Past, Taken
  <2>5. PICK uk \in [F -> Nat] : uk = [tk EXCEPT ![w] = @ + 1] /\ uk[w] = k + 1 /\ \A v \in F : v # w => uk[v] = tk[v]
    <3>1. [tk EXCEPT ![w] = @ + 1] = [tk EXCEPT ![w] = k + 1]
      BY <2>2
    <3>2. [tk EXCEPT ![w] = k + 1] \in [F -> Nat]
      <4> HIDE DEF F
      <4> QED BY <1>3
    <3> QED BY <1>2, <1>3, <3>1, <3>2
  <2>6. PICK q : q = <<w, k + 1>>
    OBVIOUS
  <2>7. PICK B : B = A \union {q} /\ B = Places(Len(logs), uk) /\ q \notin A
    <3>1. Len(logs) \in Nat \ {0}
      BY DEF LoserInv, StreamsOf
    <3>2. /\ Places(Len(logs), [tk EXCEPT ![w] = @ + 1]) = Places(Len(logs), tk) \union {<<w, tk[w] + 1>>}
          /\ <<w, tk[w] + 1>> \notin Places(Len(logs), tk)
      BY <1>2, <1>3, <3>1, PlacesGrow
    <3> QED BY <1>5, <2>2, <2>5, <2>6, <3>2
  <2>8. x = Rec(logs, q) /\ k + 1 \in DOMAIN l
    BY <2>1, <2>3, <2>6 DEF Rec
  <2>9. MayFollow(logs, A, x)
    <3>1. \A b \in Occurring(logs, A) : b.cksum <= x.cksum
      BY <1>2, <1>4, <1>8, <1>13 DEF InOrder
    <3>2. \A b \in Occurring(logs, A) : b.cksum = x.cksum => b = x
      <4>1. PICK j \in DOMAIN logs : \E m \in DOMAIN logs[j] : x = logs[j][m]
        BY <2>1, <2>3, <2>8
      <4>2. PICK m \in DOMAIN logs[j] : x = logs[j][m]
        BY <4>1
      <4>3. logs \in Logs
        BY DEF HistInv
      <4> QED BY <1>7, <1>13, <4>2, <4>3, ContentOf
    <3> QED BY <1>7, <3>1, <3>2 DEF MayFollow
  <2>10. CountedUpTo(logs, B, x, last_blk, dup_count, blk_count, size_count, dedup_count)
    BY <1>5, <1>8, <1>10, <1>13, <2>7, <2>8, <2>9, OneIsCounted
  <2>11. /\ IsCounting(logs, B, x, dup_count')
         /\ InCounters(logs, B, Occurring(logs, B) \ {x}, blk_count', size_count', dedup_count')
    BY <1>9, <1>11, <2>10 DEF CountedUpTo
  <2>12. pc' = "next" /\ winner' = w
    BY <1>1, <1>2, <1>4, <1>13 DEF winner
  <2>13. InOrder(B)'
    <3>1. ASSUME NEW v \in F, bls[v].size # 0, NEW b \in Occurring(logs, B) PROVE b.cksum <= bls[v].cksum
      <4>1. b = x \/ b \in Occurring(logs, A)
        BY <1>5, <2>7, <2>8, OnePlaceMore
      <4>2. x.cksum <= bls[v].cksum
        <5>1. PICK y \in Block : y = bls[v]
          BY LogOf DEF LoserInv
        <5>2. ~(x.cksum > y.cksum) /\ x.cksum \in Nat /\ y.cksum \in Nat
          BY <1>2, <1>4, <1>13, <3>1, <5>1 DEF After, Block
        <5> QED BY <5>1, <5>2
      <4> QED BY <1>8, <3>1, <4>1, <4>2 DEF InOrder
    <3> QED BY <1>1, <3>1 DEF InOrder
  <2>14. Counting(B)'
    BY <1>1, <1>11, <2>11, <2>12, <2>13 DEF Counting
  <2>15. Streaming(uk)'
    <3>1. IsCounted(w, k + 1)'
      <4>1. ReadTo(Log(w), pos[w], failures[w], full[w])
        BY <1>2, <1>6 DEF InFront
      <4> QED BY <1>1, <1>2, <1>4, <1>11, <2>1, <2>3, <2>4, <4>1 DEF IsCounted, Log
    <3>2. \A v \in F : v # w => InFront(v, uk[v])'
      BY <1>1, <1>6, <2>5 DEF InFront, Log
    <3> QED BY <1>1, <2>5, <2>12, <3>1, <3>2 DEF Streaming
  <2>16. Progress(uk)'
    <3>1. IsFiniteSet(B)
      BY <1>5, <2>7, FS_AddElement
    <3> QED BY <1>1, <2>7, <2>14, <2>15, <3>1 DEF Progress
  <2> QED BY <1>1, <1>10, <2>5, <2>12, <2>16, HistInvNext
<1> QED BY <1>12, <1>13

\* The block that stands before the first one is taken out of its counter.
LEMMA FirstIsTakenOut ==
  ASSUME NEW D, IsFiniteSet(D), NEW t, NEW m \in Int, NEW bc \in Counters, NEW sc, NEW dc, Histogram(D, t, m, bc, sc, dc)
  PROVE  Histogram(D, t, m - 1, [bc EXCEPT ![1] = (@ - 1) % CounterSize], sc, dc)
<1> PICK ec : ec = [bc EXCEPT ![1] = (@ - 1) % CounterSize]
  OBVIOUS
<1> SUFFICES ASSUME NEW c \in 1 .. CounterSize - 1
             PROVE  ec[c] = (Cardinality(Class(D, t, c)) + (IF c = 1 THEN m - 1 ELSE 0)) % CounterSize
  BY DEF Histogram
<1>1. c \in DOMAIN bc /\ CounterSize \in Nat \ {0}
  BY CountersAssumption DEF Counters
<1>2. bc[c] = (Cardinality(Class(D, t, c)) + (IF c = 1 THEN m ELSE 0)) % CounterSize
  BY DEF Histogram
<1>3. CASE c # 1
  BY <1>1, <1>2, <1>3
<1>4. CASE c = 1
  <2>1. PICK n \in Nat : n = Cardinality(Class(D, t, c))
    <3>1. Class(D, t, c) \subseteq D
      BY DEF Class
    <3> QED BY <3>1, FS_Subset, FS_CardinalityType
  <2>2. ec[c] = (((n + m) % CounterSize) + (-1)) % CounterSize
    <3>1. bc[c] = (n + m) % CounterSize /\ (n + m) % CounterSize \in Int
      BY <1>1, <1>2, <1>4, <2>1
    <3>2. \A y \in Int : y - 1 = y + (-1)
      OBVIOUS
    <3>3. ec[c] = (bc[c] - 1) % CounterSize
      BY <1>1, <1>4
    <3> QED BY <3>1, <3>2, <3>3
  <2>3. ec[c] = ((n + m) + (-1)) % CounterSize
    <3>1. n + m \in Int /\ -1 \in Int
      OBVIOUS
    <3> QED BY <1>1, <2>2, <3>1, AddRemainder
  <2>4. (n + m) + (-1) = n + (m - 1)
    OBVIOUS
  <2> QED BY <1>4, <2>1, <2>3, <2>4
<1> QED BY <1>3, <1>4

\* The end of count.
LEMMA FinishCounts ==
  ASSUME LoserInv, HistInv, release = "old", Finish PROVE HistInv'
<1>1. /\ pc = "end" /\ pc' = "done" /\ i' = i /\ i = Len(logs) /\ logs' = logs
      /\ pos' = pos /\ buf' = buf /\ bls' = bls /\ full' = full /\ failures' = failures
      /\ last_blk' = last_blk /\ dup_count' = dup_count
      /\ blk_count' = [blk_count EXCEPT ![1] = (@ - 1) % CounterSize]
      /\ size_count' = size_count /\ dedup_count' = dedup_count
  BY DEF Finish, HistInv, inputVars, streamVars
<1>2. PICK tk \in [Streams(Len(logs)) -> Nat] : Progress(tk)
  BY <1>1 DEF HistInv
<1>3. PICK A : A = Places(Len(logs), tk) /\ Counting(A) /\ IsFiniteSet(A)
  BY <1>2 DEF Progress
<1>4. Streaming(tk)'
  <2>1. \A v \in Streams(Len(logs)) : InFront(v, tk[v])
    BY <1>1, <1>2 DEF Progress, Streaming
  <2>2. \A v \in Streams(Len(logs)) : InFront(v, tk[v])'
    BY <1>1, <2>1 DEF InFront, Log
  <2>3. AllAtEnd(logs, bls)
    BY <1>1, <1>2 DEF Progress, Streaming
  <2> QED BY <1>1, <2>2, <2>3 DEF Streaming
<1>5. CountersType /\ CountersType'
  <2>1. CountersType
    BY DEF HistInv
  <2>2. \A y \in Int : (y - 1) % CounterSize \in Int
    BY CountersAssumption
  <2>3. blk_count' \in Counters
    BY <1>1, <2>1, <2>2 DEF CountersType, Counters
  <2> QED BY <1>1, <2>1, <2>3 DEF CountersType
<1>6. Counting(A)'
  <2>1. ASSUME NoWrap(logs, A)
        PROVE  Histogram(Occurring(logs, A), Occurrences(logs, A, Occurring(logs, A)), IF A = {} THEN -1 ELSE 0,
                         blk_count', size_count', dedup_count')
    <3>1. PICK m \in Int : m = IF A = {} THEN 0 ELSE 1
      OBVIOUS
    <3>2. Histogram(Occurring(logs, A), Occurrences(logs, A, Occurring(logs, A)), m, blk_count, size_count, dedup_count)
      BY <1>1, <1>3, <2>1, <3>1 DEF Counting, InCounters
    <3>3. IsFiniteSet(Occurring(logs, A))
      BY <1>3, OccurringIsFinite
    <3>4. Histogram(Occurring(logs, A), Occurrences(logs, A, Occurring(logs, A)), m - 1, blk_count', size_count, dedup_count)
      BY <1>1, <1>5, <3>2, <3>3, FirstIsTakenOut DEF CountersType
    <3>5. m - 1 = IF A = {} THEN -1 ELSE 0
      BY <3>1
    <3> QED BY <1>1, <3>4, <3>5
  <2> QED BY <1>1, <2>1 DEF Counting
<1>7. Progress(tk)'
  BY <1>1, <1>3, <1>4, <1>6 DEF Progress
<1>8. ReadsOf(logs, failures', full')
  BY <1>1 DEF HistInv
<1> QED BY <1>1, <1>2, <1>5, <1>7, <1>8, HistInvNext

LEMMA HistInvKept == LoserInv /\ HistInv /\ [Next]_vars => HistInv'
<1> SUFFICES ASSUME LoserInv, HistInv, [Next]_vars, release' = "old" PROVE HistInv'
  BY DEF HistInv
<1>1. release = "old"
  BY DEF Next, Open, CannotOpen, LoadFirst, StartMerge, Count, LoadNext, LoadPastEnd, Finish, vars, inputVars
<1>2. CountersType /\ ReadsOf(logs, failures, full)
  BY <1>1 DEF HistInv
<1>3. CASE Open
  <2>1. /\ pc = "open" /\ pc' = "load" /\ i' = i /\ logs' = logs
        /\ pos' = pos /\ buf' = buf /\ bls' = bls /\ full' = full /\ failures' = failures
        /\ last_blk' = last_blk /\ dup_count' = dup_count
        /\ blk_count' = blk_count /\ size_count' = size_count /\ dedup_count' = dedup_count
    BY <1>3 DEF Open, inputVars, streamVars, countVars
  <2>2. PICK tk \in [Streams(Len(logs)) -> Nat] : Progress(tk)
    BY <1>1, <2>1 DEF HistInv
  <2>3. Streaming(tk)'
    <3>1. \A w \in Streams(Len(logs)) : tk[w] = 0 /\ (w < i => InFront(w, 0)) /\ (w >= i => pos[w] = 0)
      BY <2>1, <2>2 DEF Progress, Streaming
    <3>2. \A w \in Streams(Len(logs)) : InFront(w, 0) => InFront(w, 0)'
      BY <2>1 DEF InFront, Log
    <3> QED BY <2>1, <3>1, <3>2 DEF Streaming
  <2>4. PICK A : A = Places(Len(logs), tk) /\ Counting(A)
    BY <2>2 DEF Progress
  <2>5. Counting(A)'
    BY <2>1, <2>4, CountingIsKept
  <2>6. Progress(tk)'
    BY <2>1, <2>2, <2>3, <2>4, <2>5 DEF Progress
  <2> QED BY <1>1, <1>2, <2>1, <2>2, <2>6, HistInvNext DEF CountersType
<1>4. CASE CannotOpen
  <2>1. /\ pc' = "done" /\ i' = i /\ i = 0 /\ logs' = logs /\ full' = full /\ failures' = failures
        /\ last_blk' = last_blk /\ dup_count' = dup_count
        /\ blk_count' = blk_count /\ size_count' = size_count /\ dedup_count' = dedup_count
    BY <1>1, <1>4 DEF CannotOpen, HistInv, inputVars, streamVars, countVars
  <2>2. Len(logs) # 0
    BY DEF LoserInv, StreamsOf
  <2> QED BY <1>1, <1>2, <2>1, <2>2, HistInvNext DEF CountersType
<1>5. CASE LoadFirst
  BY <1>1, <1>5, LoadFirstIsInFront
<1>6. CASE StartMerge
  BY <1>1, <1>6, MergeStarts
<1>7. CASE Count
  BY <1>1, <1>7, CountTakes
<1>8. CASE LoadNext
  BY <1>1, <1>8, LoadNextIsInOrder
<1>9. CASE LoadPastEnd
  BY <1>1, <1>9 DEF LoadPastEnd
<1>10. CASE Finish
  BY <1>1, <1>10, FinishCounts
<1>11. CASE UNCHANGED vars
  <2>1. /\ pc' = pc /\ i' = i /\ logs' = logs /\ tree' = tree
        /\ pos' = pos /\ buf' = buf /\ bls' = bls /\ full' = full /\ failures' = failures
        /\ last_blk' = last_blk /\ dup_count' = dup_count
        /\ blk_count' = blk_count /\ size_count' = size_count /\ dedup_count' = dedup_count
    BY <1>11 DEF vars, inputVars, streamVars, countVars
  <2>2. ASSUME NEW tk, Progress(tk) PROVE Progress(tk)'
    <3>1. Streaming(tk) => Streaming(tk)'
      BY <2>1 DEF Streaming, InFront, IsCounted, Log, winner
    <3>2. \A A : Counting(A) => Counting(A)'
      BY <2>1 DEF Counting, InOrder
    <3> QED BY <2>1, <2>2, <3>1, <3>2 DEF Progress
  <2>3. CountersType'
    BY <1>2, <2>1 DEF CountersType
  <2>4. pc # "done" \/ i = Len(logs) => \E tk \in [Streams(Len(logs)) -> Nat] : Progress(tk)'
    BY <1>1, <2>2 DEF HistInv
  <2>5. /\ pc \in {"open", "load", "count", "next", "end", "done"} /\ (pc = "open" => i = 0)
        /\ pc \in {"count", "next", "end"} => i = Len(logs)
    BY <1>1 DEF HistInv
  <2> QED BY <1>1, <1>2, <2>1, <2>3, <2>4, <2>5, HistInvNext
<1> QED BY <1>3, <1>4, <1>5, <1>6, <1>7, <1>8, <1>9, <1>10, <1>11 DEF Next

\* A stream that is at its end: all of it was taken that is to be counted.
LEMMA CountedIsTaken ==
  ASSUME StreamsOf(logs, pos, buf, bls), NEW w \in Streams(Len(logs)), NEW k, InFront(w, k), bls[w].size = 0,
         failures[w] \in Nat
  PROVE  k \in Nat /\ DOMAIN Counted(w) = 1 .. k /\ ReadInFull(w)
<1>1. PICK l \in Seq(Block), p \in Nat : l = Log(w) /\ p = pos[w] /\ p <= Len(l)
  BY LogOf
<1>2. /\ k \in 0 .. p /\ \A j \in 1 .. k : l[j].size # 0
      /\ (k < p /\ l[k + 1].size = 0) \/ (k = p /\ ~full[w])
      /\ failures[w] = 0 /\ ~full[w] => p = Len(l)
  BY <1>1 DEF InFront, AtFront, Taken, ReadTo
<1>3. PICK read \in Seq(Block) : read = SubSeq(l, 1, p) /\ Len(read) = p /\ \A j \in 1 .. p : read[j] = l[j]
  <2>1. SubSeq(l, 1, p) \in Seq(Block) /\ Len(SubSeq(l, 1, p)) = p
    BY <1>1
  <2>2. \A j \in 1 .. p : SubSeq(l, 1, p)[j] = l[j]
    BY <1>1
  <2> QED BY <2>1, <2>2
<1>4. DOMAIN read = 1 .. p
  BY <1>3
<1>5. PICK zeros : zeros = {j \in DOMAIN read : read[j].size = 0}
  OBVIOUS
<1>6. Counted(w) = IF zeros = {} THEN read ELSE SubSeq(read, 1, Min(zeros) - 1)
  BY <1>1, <1>3, <1>5 DEF Counted
<1>7. CASE k < p /\ l[k + 1].size = 0
  <2>1. k + 1 \in zeros /\ zeros \in SUBSET Nat /\ k + 1 \in Nat
    BY <1>2, <1>3, <1>4, <1>5, <1>7
  <2>2. PICK m \in Nat : m = Min(zeros) /\ m \in zeros /\ m <= k + 1
    BY <2>1, MinOfNat
  <2>3. m \in 1 .. p /\ l[m].size = 0
    BY <1>3, <1>4, <1>5, <2>2
  <2>4. m = k + 1 /\ m - 1 = k
    BY <1>2, <2>2, <2>3
  <2>5. Counted(w) = SubSeq(read, 1, k)
    BY <1>6, <2>1, <2>2, <2>4
  <2>6. DOMAIN SubSeq(read, 1, k) = 1 .. k /\ Len(SubSeq(read, 1, k)) = k
    BY <1>2, <1>3
  <2> QED BY <1>1, <1>2, <1>7, <2>5, <2>6 DEF ReadInFull
<1>8. CASE k = p /\ ~full[w]
  <2>1. zeros = {}
    BY <1>2, <1>3, <1>4, <1>5, <1>8
  <2>2. Counted(w) = read
    BY <1>6, <2>1
  <2> QED BY <1>1, <1>2, <1>4, <1>8, <2>2 DEF ReadInFull
<1> QED BY <1>2, <1>7, <1>8

\* When the old release has counted the last block each counter tells how many
\* blocks occur so often, modulo its size (count, dedup_merge.cpp.old): the
\* logs' records are taken in order, so that all of a block are counted
\* together, and the last count is ended too.
THEOREM HistogramRight == Spec => []HistogramIsRight
<1>1. Init => LoserInv /\ HistInv
  BY LoserInvInit, HistInvInit
<1>2. (LoserInv /\ HistInv) /\ [Next]_vars => (LoserInv /\ HistInv)'
  BY LoserInvKept, HistInvKept
<1>3. LoserInv /\ HistInv => HistogramIsRight
  <2> SUFFICES ASSUME LoserInv, HistInv, pc = "done", release = "old", i = num_files PROVE HistogramIsRight
    BY DEF HistogramIsRight
  <2>1. PICK n \in Nat \ {0} : n = Len(logs) /\ num_files = n /\ Files = Streams(n)
    BY FilesAre DEF LoserInv, StreamsOf
  <2>2. PICK tk \in [Streams(n) -> Nat] : Progress(tk)
    BY <2>1 DEF HistInv
  <2>3. \A w \in Streams(n) : DOMAIN Counted(w) = 1 .. tk[w] /\ ReadInFull(w)
    <3>1. ASSUME NEW w \in Streams(n) PROVE DOMAIN Counted(w) = 1 .. tk[w] /\ ReadInFull(w)
      <4>1. InFront(w, tk[w]) /\ bls[w].size = 0
        BY <2>1, <2>2 DEF Progress, Streaming, AllAtEnd
      <4>2. failures[w] \in Nat
        BY <2>1 DEF HistInv, ReadsOf
      <4>3. PICK k : k = tk[w]
        OBVIOUS
      <4> QED BY <2>1, <4>1, <4>2, <4>3, CountedIsTaken DEF LoserInv
    <3> QED BY <3>1
  <2>4. PICK A : A = Places(n, tk) /\ Counting(A) /\ IsFiniteSet(A)
    BY <2>1, <2>2 DEF Progress
  <2>5. AllCounted = A
    <3>1. AllCounted = UNION {{w} \X (1 .. tk[w]) : w \in Streams(n)}
      BY <2>1, <2>3 DEF AllCounted
    <3>2. ASSUME NEW w \in Streams(n), NEW j \in 1 .. tk[w] PROVE <<w, j>> \in A
      BY <2>4 DEF Places
    <3>3. ASSUME NEW p \in A PROVE \E w \in Streams(n) : p \in {w} \X (1 .. tk[w])
      <4>1. PICK w \in Streams(n), j \in Nat \ {0} : p = <<w, j>> /\ j <= tk[w]
        BY <2>4 DEF Places
      <4>2. j \in 1 .. tk[w]
        BY <4>1
      <4> QED BY <4>1, <4>2
    <3> QED BY <3>1, <3>2, <3>3
  <2>6. \A p : BlockAt(p) = Rec(logs, p)
    BY DEF BlockAt, Rec, Log
  <2>7. \A b : Times(b) = TimesIn(logs, A, b)
    BY <2>5, <2>6 DEF Times, TimesIn
  <2>8. PICK D : D = Occurring(logs, A) /\ D = {BlockAt(p) : p \in AllCounted}
    BY <2>5, <2>6 DEF Occurring
  <2>9. PICK t : t = Occurrences(logs, A, D)
    OBVIOUS
  <2>10. \A b \in D : t[b] = Times(b)
    BY <2>7, <2>9 DEF Occurrences
  <2>11. \A c : InCounter(c) = Class(D, t, c)
    <3>1. \A b : Counter(Times(b)) = OldCounter(Times(b))
      BY DEF Counter, OldCounter
    <3> QED BY <2>8, <2>10, <3>1 DEF InCounter, Class
  <2>12. ASSUME \A p \in AllCounted : Times(BlockAt(p)) < CounterSize, NEW c \in 1 .. CounterSize - 1
         PROVE  LET wrong == IF AllCounted = {} /\ c = 1 THEN -1 ELSE 0
                    total == SumFunction([b \in InCounter(c) |-> b.size * Times(b)])
                IN  /\ blk_count[c] = (Cardinality(InCounter(c)) + wrong) % CounterSize
                    /\ size_count[c] = total % CounterSize
                    /\ dedup_count[c] = SumFunction([b \in InCounter(c) |-> b.size]) % CounterSize
    <3>1. NoWrap(logs, A)
      BY <2>7, <2>8, <2>12 DEF NoWrap
    <3>2. Histogram(D, t, IF A = {} THEN -1 ELSE 0, blk_count, size_count, dedup_count)
      BY <2>4, <2>8, <2>9, <3>1 DEF Counting
    <3>3. PICK e : e = Class(D, t, c) /\ e = InCounter(c) /\ e \subseteq D
      BY <2>11 DEF Class
    <3>4. /\ blk_count[c] = (Cardinality(e) + (IF c = 1 THEN (IF A = {} THEN -1 ELSE 0) ELSE 0)) % CounterSize
          /\ size_count[c] = SumFunction([b \in e |-> b.size * t[b]]) % CounterSize
          /\ dedup_count[c] = SumFunction([b \in e |-> b.size]) % CounterSize
      BY <3>2, <3>3 DEF Histogram
    <3>5. [b \in e |-> b.size * t[b]] = [b \in e |-> b.size * Times(b)]
      BY <2>10, <3>3
    <3>6. (IF c = 1 THEN (IF A = {} THEN -1 ELSE 0) ELSE 0) = IF AllCounted = {} /\ c = 1 THEN -1 ELSE 0
      BY <2>5
    <3> QED BY <3>3, <3>4, <3>5, <3>6
  <2> QED BY <2>1, <2>3, <2>12 DEF HistogramIsRight
<1> QED BY <1>1, <1>2, <1>3, PTL DEF Spec

=============================================================================
