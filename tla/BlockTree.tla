----------------------------- MODULE BlockTree -----------------------------
(***************************************************************************)
(* The block headers a node may ever meet, as a constant tree.  A hash is  *)
(* an element of Block; everything a header or a body fixes about a block  *)
(* is a constant function of it, because nothing the node does changes it. *)
(* Anc is the ancestry relation HeaderIndex walks through `prev` links     *)
(* (lib/chain/src/index.rs): it is a constant with the facts of a tree as  *)
(* assumptions, so that proofs need no induction over heights.             *)
(***************************************************************************)
EXTENDS Integers, FiniteSets

CONSTANTS
    Block,      \* the hashes
    Genesis,    \* the block at height 0
    prev,       \* prev[b]: parent; the genesis block is its own parent here
    height,     \* height[b]
    work,       \* work[b]: cumulative work up to and including b
    hashKey,    \* hashKey[b]: big-endian order of the hashes
    Anc,        \* Anc[b]: b and its ancestors
    BadBody     \* blocks whose body fails validate_block_body on its branch

ASSUME TreeTypes ==
    /\ Genesis \in Block
    /\ prev \in [Block -> Block]
    /\ height \in [Block -> Nat]
    /\ work \in [Block -> Nat]
    /\ hashKey \in [Block -> Nat]
    /\ Anc \in [Block -> SUBSET Block]
    /\ BadBody \in SUBSET (Block \ {Genesis})

ASSUME TreeRoot ==
    /\ Anc[Genesis] = {Genesis}
    /\ height[Genesis] = 0
    /\ \A b \in Block : Genesis \in Anc[b]

ASSUME TreeStep ==
    \A b \in Block \ {Genesis} :
        /\ Anc[b] = {b} \cup Anc[prev[b]]
        /\ b \notin Anc[prev[b]]
        /\ height[b] = height[prev[b]] + 1
        /\ work[b] > work[prev[b]]

\* An ancestry is a chain: its members are ordered by height, and the
\* ancestry of a member is the part of the chain at or below it.
ASSUME TreeLinear ==
    \A b \in Block :
        /\ b \in Anc[b]
        /\ \A a \in Anc[b] : Anc[a] = {c \in Anc[b] : height[c] <= height[a]}
        /\ \A a, c \in Anc[b] : height[a] = height[c] => a = c

\* Two ancestries share an initial segment, and it ends in one block: the
\* fork point plan_reorg walks back to.
ASSUME TreeFork ==
    \A a, b \in Block : \E f \in Block : Anc[f] = Anc[a] \cap Anc[b]

\* An ancestry has a block at every height up to its head.
ASSUME TreeLevels ==
    \A b \in Block : \A k \in 0..height[b] : \E a \in Anc[b] : height[a] = k

\* Work grows along an ancestry.
ASSUME TreeWork ==
    \A b \in Block : \A a \in Anc[b] \ {b} : work[a] < work[b]

ASSUME TreeHash ==
    \A a, b \in Block : hashKey[a] = hashKey[b] => a = b

\* The last block two branches share.
Fork(a, b) == CHOOSE f \in Block : Anc[f] = Anc[a] \cap Anc[b]

\* The order fork choice uses: more cumulative work, then the lower hash.
Better(a, b) ==
    \/ work[a] > work[b]
    \/ work[a] = work[b] /\ hashKey[a] < hashKey[b]
=============================================================================
