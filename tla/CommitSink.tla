----------------------------- MODULE CommitSink -----------------------------
(***************************************************************************)
(* The node's sink (node/src/wire/store.rs): the validator commits blocks  *)
(* through it, and RPC and P2P threads read the chain through NodeStore,   *)
(* the ring of unsealed blocks first and the storage engine behind it.     *)
(* The author notes an RPC serves are an index in memory (rpcview.rs).     *)
(*                                                                         *)
(* Ring, engine and notes change one after the other, each under its own   *)
(* lock, so a step of a commit is a state a reader may see.  The engine    *)
(* itself is the atomic store of AtomicStore; its publication is part of   *)
(* its step.                                                               *)
(***************************************************************************)
EXTENDS BlockTree, Sequences

CONSTANTS
    Announces,      \* blocks whose body has an author announcement
    SinkReorgCap,  \* MAX_REORG_DEPTH
    MaxRestarts     \* bound on restarts

ASSUME SinkParams ==
    /\ Announces \subseteq Block
    /\ SinkReorgCap \in Nat /\ MaxRestarts \in Nat

VARIABLES
    stored,     \* tip the storage engine has published
    ring,       \* unsealed blocks, oldest first
    notes,      \* notes[b]: how often the notes of block b are in the list
    sinkPc,     \* next step of the commit under way
    sinkTarget, \* head of the branch being committed
    forkHeight, \* height it leaves the stored chain at
    unlisted,   \* its blocks whose notes are not listed yet
    halted,     \* a fatal error stopped the manager
    restarts

sinkVars == <<stored, ring, notes, sinkPc, sinkTarget, forkHeight, unlisted, halted, restarts>>

-----------------------------------------------------------------------------
(* What a reader gets at any moment.                                       *)

\* NodeStore::tip.
Tip == IF ring = <<>> THEN stored ELSE ring[Len(ring)]

\* NodeStore::issued, in block subsidies.
Issued == height[stored] + Len(ring)

Listed == {b \in Block : notes[b] > 0}

-----------------------------------------------------------------------------
SinkInit ==
    /\ stored = Genesis /\ ring = <<>> /\ notes = [b \in Block |-> 0]
    /\ sinkPc = "idle" /\ sinkTarget = Genesis /\ forkHeight = 0 /\ unlisted = {}
    /\ halted = FALSE /\ restarts = 0

\* on_block: the notes of a block are listed.
OnBlock(b) == notes' = IF b \in Announces THEN [notes EXCEPT ![b] = @ + 1] ELSE notes

\* commit_block: one block on the stored tip.
PushRing(b) ==
    /\ sinkPc = "idle" /\ ~halted /\ b # Genesis /\ prev[b] = stored
    /\ ring' = Append(ring, b)
    /\ sinkTarget' = b /\ sinkPc' = "extend"
    /\ UNCHANGED <<stored, notes, forkHeight, unlisted, halted, restarts>>

Extend ==
    /\ sinkPc = "extend"
    /\ stored' = sinkTarget /\ sinkPc' = "note"
    /\ UNCHANGED <<ring, notes, sinkTarget, forkHeight, unlisted, halted, restarts>>

NoteBlock ==
    /\ sinkPc = "note"
    /\ OnBlock(sinkTarget)
    /\ sinkPc' = "prune"
    /\ UNCHANGED <<stored, ring, sinkTarget, forkHeight, unlisted, halted, restarts>>

\* after_write: entries below the published watermark leave the ring; they
\* are the first ones, because a ring is filled upwards and cleared as a whole.
RingFrom(watermark) ==
    SubSeq(ring, Cardinality({i \in 1..Len(ring) : height[ring[i]] < watermark}) + 1, Len(ring))
\* mutant: the entry of the tip stays
KeptAtTip == RingFrom(height[stored])
Kept == RingFrom(height[stored] + 1)

Prune ==
    /\ sinkPc = "prune"
    /\ ring' = Kept
    /\ sinkPc' = "idle"
    /\ UNCHANGED <<stored, notes, sinkTarget, forkHeight, unlisted, halted, restarts>>

\* commit_reorg: any other better branch, a longer one on the tip included.
ClearRing(b) ==
    /\ sinkPc = "idle" /\ ~halted /\ Better(b, stored) /\ prev[b] # stored
    /\ ring' = <<>>
    /\ sinkTarget' = b /\ forkHeight' = height[Fork(b, stored)]
    /\ unlisted' = Anc[b] \ Anc[stored]
    /\ sinkPc' = "reorg"
    /\ UNCHANGED <<stored, notes, halted, restarts>>

TooDeep == height[stored] - forkHeight > SinkReorgCap

Reorg ==
    /\ sinkPc = "reorg" /\ ~TooDeep
    /\ stored' = sinkTarget /\ sinkPc' = "notes"
    /\ UNCHANGED <<ring, notes, sinkTarget, forkHeight, unlisted, halted, restarts>>

\* BadPlan: the manager carries on, the ring stays cleared.
RefuseReorg ==
    /\ sinkPc = "reorg" /\ TooDeep
    /\ sinkPc' = "idle" /\ unlisted' = {}
    /\ UNCHANGED <<stored, ring, notes, sinkTarget, forkHeight, halted, restarts>>

NoteBranch ==
    /\ sinkPc = "notes"
    /\ \E b \in unlisted :
          /\ \A c \in unlisted : height[b] <= height[c]
          /\ OnBlock(b)
          /\ unlisted' = unlisted \ {b}
    /\ UNCHANGED <<stored, ring, sinkPc, sinkTarget, forkHeight, halted, restarts>>

StaysListed(b) == height[b] <= forkHeight

RollbackNotes ==
    /\ sinkPc = "notes" /\ unlisted = {}
    /\ notes' = [b \in Block |-> IF StaysListed(b) THEN notes[b] ELSE 0]
    /\ sinkPc' = "idle"
    /\ UNCHANGED <<stored, ring, sinkTarget, forkHeight, unlisted, halted, restarts>>

\* A storage error before or after the transaction is durable: the call ends
\* where it is and the manager halts.
Fatal ==
    /\ sinkPc \in {"extend", "reorg"}
    /\ stored' \in {stored, sinkTarget}
    /\ sinkPc = "reorg" => ~TooDeep
    /\ halted' = TRUE /\ sinkPc' = "idle" /\ unlisted' = {}
    /\ UNCHANGED <<ring, notes, sinkTarget, forkHeight, restarts>>

\* The ring and the note index start empty.
Restart ==
    /\ restarts < MaxRestarts
    /\ restarts' = restarts + 1
    /\ ring' = <<>> /\ notes' = [b \in Block |-> 0]
    /\ sinkPc' = "idle" /\ unlisted' = {} /\ halted' = FALSE
    /\ UNCHANGED <<stored, sinkTarget, forkHeight>>

SinkNext ==
    \/ \E b \in Block : PushRing(b) \/ ClearRing(b)
    \/ Extend \/ NoteBlock \/ Prune
    \/ Reorg \/ RefuseReorg \/ NoteBranch \/ RollbackNotes
    \/ Fatal \/ Restart

SinkSpec == SinkInit /\ [][SinkNext]_sinkVars
-----------------------------------------------------------------------------
(* Properties.                                                             *)

\* Between two commits of a running node readers see exactly the stored
\* chain: its tip, and each subsidy counted once (ring_push, after_write,
\* commit_reorg), whatever was refused, failed or restarted before.
SettledReads ==
    sinkPc = "idle" /\ ~halted => Tip = stored /\ Issued = height[stored]

\* Between two commits of a running node every listed note is of a block on
\* the chain, and none is listed twice: a reorg leaves nothing of the branch
\* it dropped (on_block, rollback_above).
NotesOnlyOfChain ==
    sinkPc = "idle" /\ ~halted =>
        /\ Listed \subseteq Anc[stored] \cap Announces
        /\ \A b \in Listed : notes[b] = 1

\* What readers get between two commits: tip, issued coins and notes of one chain.
ReadsSound == SettledReads /\ NotesOnlyOfChain

\* "Drop notes from blocks a reorg orphaned" (rpcview.rs): the notes of the
\* other blocks, those of the new branch included, stay listed.
NotesComplete == sinkPc = "idle" /\ ~halted => Anc[stored] \cap Announces \subseteq Listed
=============================================================================
