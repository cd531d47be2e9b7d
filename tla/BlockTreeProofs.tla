-------------------------- MODULE BlockTreeProofs ---------------------------
(***************************************************************************)
(* Facts about ancestries and forks, and about iteration over a bounded    *)
(* range, that the proofs of several components share.                     *)
(***************************************************************************)
EXTENDS BlockTree, WellFoundedInduction, TLAPS

\* A block is in its own ancestry, and ancestries nest.
LEMMA AncNests ==
    ASSUME NEW b \in Block, NEW a \in Anc[b]
    PROVE  a \in Block /\ b \in Anc[b] /\ Anc[a] \subseteq Anc[b]
BY TreeTypes, TreeLinear

\* No block of an ancestry is higher than its head.
LEMMA AncHeight ==
    ASSUME NEW b \in Block, NEW a \in Anc[b]
    PROVE  height[a] <= height[b]
<1>1. Anc[b] = {c \in Anc[b] : height[c] <= height[b]}
  BY TreeLinear
<1> QED
  BY <1>1

\* The fork point is on both branches, and the blocks of either branch up to
\* its height are shared.
LEMMA ForkShared ==
    ASSUME NEW a \in Block, NEW b \in Block
    PROVE  /\ Fork(a, b) \in Block
           /\ Anc[Fork(a, b)] = Anc[a] \cap Anc[b]
           /\ \A c \in Anc[b] : height[c] <= height[Fork(a, b)] => c \in Anc[a]
<1> DEFINE f == Fork(a, b)
<1>1. f \in Block /\ Anc[f] = Anc[a] \cap Anc[b]
  BY TreeFork DEF Fork
<1>2. f \in Anc[b]
  BY <1>1, TreeLinear
<1>3. Anc[f] = {c \in Anc[b] : height[c] <= height[f]}
  BY <1>2, TreeLinear
<1> QED
  BY <1>1, <1>3

\* Only the genesis block has height 0.
LEMMA HeightZero ==
    ASSUME NEW b \in Block, height[b] = 0
    PROVE  b = Genesis
<1> SUFFICES ASSUME b # Genesis
             PROVE  FALSE
  OBVIOUS
<1>1. prev[b] \in Block /\ height[prev[b]] \in Nat
  BY TreeTypes
<1>2. height[b] = height[prev[b]] + 1
  BY TreeStep
<1> QED
  BY <1>1, <1>2

\* The parent of a block of an ancestry is in the ancestry.
LEMMA ParentInAnc ==
    ASSUME NEW b \in Block, NEW a \in Anc[b], a # Genesis
    PROVE  prev[a] \in Anc[b] /\ height[a] = height[prev[a]] + 1
<1>1. a \in Block /\ prev[a] \in Block
  BY TreeTypes
<1>2. prev[a] \in Anc[a]
  BY <1>1, TreeStep, TreeLinear
<1> QED
  BY <1>1, <1>2, AncNests, TreeStep

\* Equal ancestries are those of one block.
LEMMA AncInjective ==
    ASSUME NEW a \in Block, NEW b \in Block, Anc[a] = Anc[b]
    PROVE  a = b
<1>1. a \in Anc[b] /\ b \in Anc[a]
  BY TreeLinear
<1>2. height[a] = height[b]
  BY <1>1, AncHeight, TreeTypes
<1> QED
  BY <1>1, <1>2, TreeLinear

-----------------------------------------------------------------------------
(* Iteration over a bounded range: what an induction would show, from the  *)
(* least element of the set of counterexamples.                            *)

\* A set of natural numbers has a least element.
LEMMA LeastExists ==
    ASSUME NEW V, V \subseteq Nat, V # {}
    PROVE  \E i \in V : \A j \in V : i <= j
<1>1. IsWellFoundedOn(OpToRel(<, Nat), Nat)
  BY NatLessThanWellFounded
<1>2. PICK i \in V : \A j \in V : ~(<<j, i>> \in OpToRel(<, Nat))
  BY <1>1, WFMin
<1>3. \A a, b \in Nat : b < a => <<b, a>> \in OpToRel(<, Nat)
  BY DEF OpToRel
<1>4. \A j \in V : ~(j < i)
  BY <1>2, <1>3
<1>5. \A j \in V : i <= j
  BY <1>4
<1> QED
  BY <1>5

\* f is the iteration of the step G from x, up to n.
Iterates(f, n, X, x, G) ==
    /\ f \in [0..n -> X] /\ f[0] = x
    /\ \A i \in 1..n : f[i] = G[<<i, f[i - 1]>>]

\* Iterating a step over a bounded range defines a function.
LEMMA IterationExists ==
    ASSUME NEW n \in Nat, NEW X, NEW x \in X, NEW G \in [(1..n) \X X -> X]
    PROVE  \E f : Iterates(f, n, X, x, G)
<1> DEFINE Fits(f, m) == /\ f \in [0..m -> X] /\ f[0] = x
                         /\ \A i \in 1..m : f[i] = G[<<i, f[i - 1]>>]
           bad == {m \in 0..n : ~ \E f : Fits(f, m)}
<1>1. bad = {}
  <2> SUFFICES ASSUME bad # {}
               PROVE  FALSE
    OBVIOUS
  <2>1. bad \subseteq Nat
    OBVIOUS
  <2>2. PICK m \in bad : \A k \in bad : m <= k
    <3> HIDE DEF bad
    <3> QED
      BY <2>1, LeastExists
  <2>3. m \in 0..n /\ ~ \E f : Fits(f, m)
    BY <2>2
  <2>4. CASE m = 0
    <3> DEFINE f == [i \in 0..m |-> x]
    <3>1. Fits(f, m)
      BY <2>4
    <3> QED
      BY <3>1, <2>3
  <2>5. CASE m # 0
    <3>1. m - 1 \in 0..n /\ m - 1 \notin bad
      <4>1. m \in Nat /\ m - 1 \in 0..n /\ ~(m <= m - 1)
        BY <2>3, <2>5
      <4> HIDE DEF bad
      <4> QED
        BY <4>1, <2>2
    <3>2. PICK g : Fits(g, m - 1)
      BY <3>1
    <3> DEFINE v == G[<<m, g[m - 1]>>]
               f == [i \in 0..m |-> IF i = m THEN v ELSE g[i]]
    <3>3. v \in X
      <4>1. g[m - 1] \in X /\ m \in 1..n
        BY <3>2, <2>3, <2>5
      <4> QED
        BY <4>1
    <3>4. f[m] = v /\ \A i \in 0..m - 1 : f[i] = g[i]
      BY <2>3, <2>5
    <3>5. f \in [0..m -> X]
      BY <3>2, <3>3, <2>3, <2>5
    <3>6. \A i \in 1..m : f[i] = G[<<i, f[i - 1]>>]
      <4> HIDE DEF f
      <4> TAKE i \in 1..m
      <4>1. i - 1 \in 0..m - 1 /\ f[i - 1] = g[i - 1]
        BY <3>4, <2>3
      <4>2. CASE i = m
        BY <4>1, <4>2, <3>4
      <4>3. CASE i # m
        <5>1. i \in 1..m - 1 /\ i \in 0..m - 1
          BY <4>3, <2>3
        <5> QED
          BY <5>1, <4>1, <3>2, <3>4
      <4> QED
        BY <4>2, <4>3
    <3>7. f[0] = x
      BY <3>2, <2>3, <2>5
    <3>8. Fits(f, m)
      BY <3>5, <3>6, <3>7, Zenon
    <3> QED
      BY <3>8, <2>3
  <2> QED
    BY <2>4, <2>5
<1>2. PICK f : Fits(f, n)
  BY <1>1
<1> QED
  BY <1>2, Zenon DEF Iterates

\* What every step keeps, all the values have.
LEMMA IterationKeeps ==
    ASSUME NEW n \in Nat, NEW X, NEW f, f[0] \in X, \A i \in 1..n : f[i - 1] \in X => f[i] \in X
    PROVE  \A i \in 0..n : f[i] \in X
<1> DEFINE bad == {i \in 0..n : f[i] \notin X}
<1> SUFFICES ASSUME bad # {}
             PROVE  FALSE
  OBVIOUS
<1>1. bad \subseteq Nat
  OBVIOUS
<1>2. PICK i \in bad : \A j \in bad : i <= j
  <2> HIDE DEF bad
  <2> QED
    BY <1>1, LeastExists
<1>3. i \in 1..n
  BY <1>2
<1>4. i - 1 \in 0..n /\ i - 1 \notin bad
  BY <1>2, <1>3
<1> QED
  BY <1>2, <1>3, <1>4

\* Iteration by index: what holds of 0 and of each index after one it holds of.
LEMMA UpTo ==
    ASSUME NEW n \in Nat, NEW S, 0 \in S, \A i \in 1..n : i - 1 \in S => i \in S
    PROVE  \A i \in 0..n : i \in S
<1> DEFINE id == [i \in 0..n |-> i]
<1>1. id[0] = 0 /\ \A i \in 1..n : id[i - 1] = i - 1 /\ id[i] = i
  OBVIOUS
<1>2. id[0] \in S /\ \A i \in 1..n : id[i - 1] \in S => id[i] \in S
  BY <1>1
<1>3. \A i \in 0..n : id[i] \in S
  <2> HIDE DEF id
  <2> QED
    BY <1>2, IterationKeeps
<1> QED
  BY <1>3
=============================================================================
