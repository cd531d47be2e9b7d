---------------------------- MODULE AtomicStore ----------------------------
(***************************************************************************)
(* What the chain manager may rely on: a store that moves from one stored  *)
(* chain to the next in a single step, whatever is written, fails or       *)
(* crashes in between.  BlockStore implements it, and ChainManager's       *)
(* durable state moves the way it says.                                    *)
(***************************************************************************)
EXTENDS BlockTree

CONSTANTS
    StoreReorgCap,  \* MAX_REORG_DEPTH, the depth Committer::reorg accepts
    UndoRing        \* UNDO_RING, the undo rows the store keeps

VARIABLES
    stored,     \* tip of the stored chain
    undoLow     \* lowest height with an undo row

\* The undo rows still held once b is the tip.
RingLow(b, low) ==
    IF height[b] + 1 > low + UndoRing THEN height[b] + 1 - UndoRing ELSE low

Init == stored = Genesis /\ undoLow = 0

\* A better chain replaces the stored one; every block it drops has its undo
\* row, and no more than the cap are dropped.
Commit(b) ==
    /\ Better(b, stored)
    /\ height[stored] - height[Fork(b, stored)] <= StoreReorgCap
    /\ height[Fork(b, stored)] = height[stored] \/ height[Fork(b, stored)] + 1 >= undoLow
    /\ stored' = b
    /\ undoLow' = RingLow(b, undoLow)

Next == \E b \in Block : Commit(b)

Spec == Init /\ [][Next]_<<stored, undoLow>>
=============================================================================
