---------------------------- MODULE ChainManager ----------------------------
(***************************************************************************)
(* ChainManager (lib/chain/src/manager.rs): the header arena, fork choice, *)
(* the adoption loop, checkpoints and the crash-restart path, over the     *)
(* store the node gives it (node/src/wire/store.rs, lib/storage).          *)
(*                                                                         *)
(* The validator thread owns the manager: it takes one command, runs it,   *)
(* and calls `advance` once (node/src/validator.rs).  So a command action  *)
(* leaves pc = "advance", the passes of advance's loop are actions of      *)
(* their own, and the pass that returns sets pc = "idle".  A crash may     *)
(* fall between any two passes.                                            *)
(*                                                                         *)
(* Which headers are staged, and the work, clock and quota gates they pass *)
(* while staged, belong to header ingest; here a promotion may connect any *)
(* run whose heaviest header wins the claimed-work gate.  Each storage     *)
(* commit is one atomic step that may fail before or after it is durable.  *)
(***************************************************************************)
EXTENDS BlockTree

CONSTANTS
    MaxReorgDepth,  \* params.max_reorg_depth; 0 turns the rule off
    StoreReorgCap,  \* MAX_REORG_DEPTH, the depth Committer::reorg accepts
    UndoRing,       \* undo rows the store keeps
    WantedCap,      \* WANTED_BODIES_CAP
    MaxSide,        \* params.max_side_headers
    SideRowsCap,    \* cfg.side_headers_cap of the store
    Signed,         \* blocks the authority signs checkpoints for
    Garbled,        \* blocks whose body may arrive with other bytes
    Faults,         \* sink calls that may fail: "side", "invalid", "anchor", "commit"
    MaxRestarts,    \* bound on crashes
    NoAnchor

ASSUME ManagerParams ==
    /\ MaxReorgDepth \in Nat /\ StoreReorgCap \in Nat
    /\ UndoRing \in Nat \ {0} /\ UndoRing >= StoreReorgCap
    /\ WantedCap \in Nat \ {0} /\ MaxSide \in Nat /\ SideRowsCap \in Nat
    /\ Signed \subseteq Block /\ Garbled \subseteq Block
    /\ Faults \subseteq {"side", "invalid", "anchor", "commit"}
    /\ MaxRestarts \in Nat
    /\ NoAnchor \notin Block

VARIABLES
    \* --- in memory ---
    indexed,    \* hashes of the arena
    invalid,    \* those flagged FLAG_INVALID
    bodies,     \* hashes with a body in memory
    garbled,    \* those of them whose bytes are not the block's
    sideRaws,   \* hashes with raw header bytes in memory
    tip,        \* last element of the canonical chain
    enforced,   \* checkpoints reorgs are held to
    anchor,     \* the latest signed checkpoint, or NoAnchor
    halted,     \* a storage failure stopped the manager
    wanted,     \* bodies asked of the network
    \* --- the call to advance under way ---
    pc,         \* "idle" or "advance"
    refused,    \* branch heads this call skips
    pending,    \* missing bodies this call met
    \* --- durable ---
    dTip,       \* tip of the stored chain
    dUndoLow,   \* lowest height with an undo row
    dSide,      \* side header rows
    dInvalid,   \* invalid rows
    dAnchor,    \* anchor record
    restarts

memory == <<indexed, invalid, bodies, garbled, sideRaws, tip, enforced, anchor, halted, wanted>>
call == <<pc, refused, pending>>
disk == <<dTip, dUndoLow, dSide, dInvalid, dAnchor>>
vars == <<memory, call, disk, restarts>>

-----------------------------------------------------------------------------
(* What the manager reads.                                                 *)

Canonical == Anc[tip]

\* plan_reorg: the blocks to connect, the fork point and the depth.
Apply(b) == Anc[b] \ Anc[tip]
ForkPoint(b) == Fork(b, tip)
Depth(b) == height[tip] - height[ForkPoint(b)]

HaveBody(b) == b \in bodies \/ b \in Anc[dTip]
StoredHeader(b) == b \in Anc[dTip] \/ b \in dSide
HaveRaw(b) == b \in sideRaws \/ StoredHeader(b)
MissingBodies(b) == {c \in Apply(b) : ~HaveBody(c)}

Lowest(S) == {c \in S : \A d \in S : height[c] <= height[d]}

\* select_best_excluding: the scan starts at the tip, whatever is skipped.
Candidates(skip) == {tip} \cup (indexed \ (skip \cup invalid))
IsBest(b, skip) ==
    /\ b \in Candidates(skip)
    /\ \A c \in Candidates(skip) : c = b \/ Better(b, c)

\* evaluate_reorg_with_cap, its four verdicts in the order it gives them.
DepthAllowed(b) ==
    \/ MaxReorgDepth = 0
    \/ Depth(b) <= MaxReorgDepth
    \/ anchor \in Apply(b)

KeepsCheckpointHeights(b) ==
    \A c \in enforced :
        ~ /\ height[c] > height[ForkPoint(b)]
          /\ height[c] <= height[tip]
          /\ height[c] > height[b]

MatchesCheckpointsBelowHead(b) ==                          \* mutant
    \A c \in enforced :
        height[c] > height[ForkPoint(b)] /\ height[c] < height[b]
            => c \in Apply(b)
MatchesCheckpoints(b) ==
    \A c \in enforced :
        height[c] > height[ForkPoint(b)] /\ height[c] <= height[b]
            => c \in Apply(b)

TieBreakPrefers(b) ==
    /\ Depth(b) = 1
    /\ work[b] = work[tip]
    /\ height[b] = height[tip]
    /\ hashKey[b] < hashKey[tip]

EvaluateReorg(b) ==
    /\ DepthAllowed(b)
    /\ KeepsCheckpointHeights(b)
    /\ MatchesCheckpoints(b)
    /\ work[b] > work[tip] \/ TieBreakPrefers(b)

\* rewind_to_fork: an undo row for every rolled-back height.  Without them
\* the store would need a state snapshot, and NodeStore never has one.
HaveAllUndo(b) == height[ForkPoint(b)] = height[tip] \/ height[ForkPoint(b)] + 1 >= dUndoLow

\* The blocks of the branch try_adopt cannot build or validate.
RawMissing(b) == {c \in Apply(b) : ~HaveRaw(c)}
HeadFails(b) == {c \in {b} : c \in BadBody \/ c \in garbled}  \* mutant
BodyFails(b) == {c \in Apply(b) : c \in BadBody \/ c \in garbled}

\* put_side_headers: the table keeps the highest rows.
RowAbove(a, b) == height[a] > height[b] \/ (height[a] = height[b] /\ hashKey[a] > hashKey[b])
CapRows(S) == {b \in S : Cardinality({c \in S : RowAbove(c, b)}) < SideRowsCap}

\* side_headers_from(0, MaxSide): the lowest rows.
RowsRead == {b \in dSide : Cardinality({c \in dSide : RowAbove(b, c)}) < MaxSide}

-----------------------------------------------------------------------------
Init ==
    /\ indexed = {Genesis} /\ invalid = {} /\ bodies = {} /\ garbled = {}
    /\ sideRaws = {} /\ tip = Genesis
    /\ enforced = {} /\ anchor = NoAnchor
    /\ halted = FALSE /\ wanted = {}
    /\ pc = "idle" /\ refused = {} /\ pending = {}
    /\ dTip = Genesis /\ dUndoLow = 0 /\ dSide = {} /\ dInvalid = {} /\ dAnchor = NoAnchor
    /\ restarts = 0

\* The validator calls advance once after every command.
CallAdvance ==
    /\ pc' = IF halted THEN "idle" ELSE "advance"
    /\ refused' = {} /\ pending' = {}

\* Whether the disk takes the write, or it is lost because the call failed.
Written(call_, new, old) == {new} \cup (IF call_ \in Faults THEN {old} ELSE {})

\* Cmd::Tick: nothing but the call to advance.
Tick ==
    /\ pc = "idle" /\ ~halted
    /\ CallAdvance
    /\ UNCHANGED <<memory, disk, restarts>>

\* s6_claimed_work, the gate the heaviest staged header must pass.  Its
\* depth is measured from the fork height recorded at staging, which a reorg
\* may have made stale, so a tie is not held to depth 1 here.
WinsClaimedWork(h) == Better(h, tip)

\* promote + ingest_headers: the run of staged headers is inserted parents
\* first, up to the side capacity.  A header may already be indexed, when
\* another source promoted it after this one staged it.  The heaviest one
\* need not be in the run: the verification budget may end it early.
ConnectHeaders(run) ==
    LET new == run \ indexed IN
    /\ pc = "idle" /\ ~halted
    /\ run # {} /\ Genesis \notin run
    /\ \A b \in run : Anc[b] \subseteq indexed \cup run
    /\ \E h \in Block : WinsClaimedWork(h)
    /\ Cardinality(run) <= MaxSide - Cardinality(sideRaws)
    /\ new \cap dInvalid = {}
    /\ indexed' = indexed \cup run
    /\ invalid' = invalid \cup {b \in new : Anc[b] \cap invalid # {}}
    /\ sideRaws' = sideRaws \cup run
    /\ \E lost \in IF "side" \in Faults THEN SUBSET run ELSE {{}} :
          dSide' = CapRows(dSide \cup (run \ lost))
    /\ CallAdvance
    /\ UNCHANGED <<bodies, garbled, tip, enforced, anchor, halted, wanted,
                   dTip, dUndoLow, dInvalid, dAnchor, restarts>>

\* The flag a readmitted header is inserted with.
ReadmitInherits(b) == prev[b] \in invalid                  \* mutant
ReadmitFlagged(b) == prev[b] \in invalid \/ b \in dInvalid

\* submit_block, with readmit_persisted_header for a header the arena does
\* not hold.  Nothing compares the bytes with the header here.
SubmitBlock(b, good) ==
    LET flagged == b \in invalid \/ (b \notin indexed /\ ReadmitFlagged(b))
        held == flagged \/ HaveBody(b)
    IN
    /\ pc = "idle" /\ ~halted
    /\ b \in indexed \/ (StoredHeader(b) /\ prev[b] \in indexed)
    /\ indexed' = indexed \cup {b}
    /\ invalid' = IF flagged THEN invalid \cup {b} ELSE invalid
    /\ bodies' = IF held THEN bodies ELSE bodies \cup {b}
    /\ garbled' = IF held \/ good THEN garbled ELSE garbled \cup {b}
    /\ CallAdvance
    /\ UNCHANGED <<sideRaws, tip, enforced, anchor, halted, wanted, disk, restarts>>

\* submit_checkpoint: enforced when the block is on our chain, and the
\* recovery anchor when it is higher than the last one.  A halted manager
\* still takes it.
SubmitCheckpoint(cp) ==
    LET installs == height[cp] # 0 /\ (anchor = NoAnchor \/ height[cp] > height[anchor]) IN
    /\ pc = "idle"
    /\ height[cp] # 0
    /\ enforced' = IF cp \in Canonical /\ \A c \in enforced : height[c] # height[cp]
                   THEN enforced \cup {cp} ELSE enforced
    /\ anchor' = IF installs THEN cp ELSE anchor
    /\ IF installs THEN dAnchor' \in Written("anchor", cp, dAnchor) ELSE UNCHANGED dAnchor
    /\ CallAdvance
    /\ UNCHANGED <<indexed, invalid, bodies, garbled, sideRaws, tip, halted, wanted,
                   dTip, dUndoLow, dSide, dInvalid, restarts>>

-----------------------------------------------------------------------------
(* The passes of advance's loop.  `best` is what fork choice selects.      *)

Selected(best) == pc = "advance" /\ IsBest(best, refused)

\* How a call returns: the bodies it met missing become the wanted list.
Return ==
    /\ wanted' = pending
    /\ pc' = "idle" /\ refused' = {} /\ pending' = {}

\* The tip is the best branch left: settle.
Settle ==
    /\ Selected(tip)
    /\ Return
    /\ UNCHANGED <<indexed, invalid, bodies, garbled, sideRaws, tip, enforced, anchor, halted,
                   disk, restarts>>

QueueNone(missing) == pending                              \* mutant

\* The missing bodies, lowest first, while the wanted list has room.
QueueMissing(missing) ==
    LET new == missing \ pending IN
    pending \cup {m \in new :
        Cardinality(pending) + Cardinality({c \in new : height[c] < height[m]}) < WantedCap}

\* Bodies are missing: skip the branch from the first gap on.
SkipMissing(best) ==
    /\ Selected(best) /\ best # tip
    /\ MissingBodies(best) # {}
    /\ \E gap \in Lowest(MissingBodies(best)) :
          refused' = refused \cup {c \in Apply(best) : height[c] >= height[gap]}
    /\ pending' = QueueMissing(MissingBodies(best))
    /\ UNCHANGED <<memory, pc, disk, restarts>>

\* try_adopt is reached: every body of the branch is held.
TryAdopt(best) ==
    /\ Selected(best) /\ best # tip
    /\ MissingBodies(best) = {}

\* mutant: the refused head is not skipped
RefuseForgotten(best) ==
    /\ TryAdopt(best)
    /\ ~EvaluateReorg(best)
    /\ refused' = refused
    /\ UNCHANGED <<memory, pc, pending, disk, restarts>>

\* The reorg rules refuse the branch: skip its head, look at the next one.
RefuseBranch(best) ==
    /\ TryAdopt(best)
    /\ ~EvaluateReorg(best)
    /\ refused' = refused \cup {best}
    /\ UNCHANGED <<memory, pc, pending, disk, restarts>>

\* mutant: the failing block's parent and its siblings are flagged too
InvalidateParent(b) ==
    /\ invalid' = invalid \cup {c \in indexed : prev[b] \in Anc[c]}
    /\ dInvalid' \in Written("invalid", dInvalid \cup {b}, dInvalid)
    /\ UNCHANGED <<indexed, bodies, garbled, sideRaws, tip, enforced, anchor, halted, wanted,
                   call, dTip, dUndoLow, dSide, dAnchor, restarts>>

\* mark_invalid and the durable row of its root; the loop goes on.
Invalidate(b) ==
    /\ invalid' = invalid \cup {c \in indexed : b \in Anc[c]}
    /\ dInvalid' \in Written("invalid", dInvalid \cup {b}, dInvalid)
    /\ UNCHANGED <<indexed, bodies, garbled, sideRaws, tip, enforced, anchor, halted, wanted,
                   call, dTip, dUndoLow, dSide, dAnchor, restarts>>

\* A header of the branch whose 132 bytes cannot be produced.
RejectRawless(best) ==
    /\ TryAdopt(best)
    /\ EvaluateReorg(best)
    /\ \E b \in Lowest(RawMissing(best)) : Invalidate(b)

\* A body of the branch that fails validate_block_body.
RejectBody(best) ==
    /\ TryAdopt(best)
    /\ EvaluateReorg(best)
    /\ RawMissing(best) = {}
    /\ HaveAllUndo(best)
    /\ \E b \in Lowest(BodyFails(best)) : Invalidate(b)

\* The branch is fit to commit as far as the manager can tell.
Validated(best) ==
    /\ TryAdopt(best)
    /\ EvaluateReorg(best)
    /\ RawMissing(best) = {}
    /\ HaveAllUndo(best)
    /\ BodyFails(best) = {}

\* ResyncRequired and SinkRefused end the call with nothing changed: the
\* undo rows do not reach the fork, or Committer::reorg finds the rollback
\* too deep.
GiveUp(best) ==
    /\ \/ /\ TryAdopt(best) /\ EvaluateReorg(best) /\ RawMissing(best) = {}
          /\ ~HaveAllUndo(best)
       \/ /\ Validated(best)
          /\ Depth(best) > StoreReorgCap
    /\ Return
    /\ UNCHANGED <<indexed, invalid, bodies, garbled, sideRaws, tip, enforced, anchor, halted,
                   disk, restarts>>

\* mutant: the transaction is acknowledged and lost
StoreBranchLost(best) == UNCHANGED <<dTip, dUndoLow>>

\* mutant: the ring gives up its lowest row one block late
StoreBranchLate(best) ==
    /\ dTip' = best
    /\ dUndoLow' = IF height[best] > dUndoLow + UndoRing THEN height[best] - UndoRing ELSE dUndoLow

\* The storage transaction: new tip, and the undo ring moves up with it.
StoreBranch(best) ==
    /\ dTip' = best
    /\ dUndoLow' = IF height[best] + 1 > dUndoLow + UndoRing
                   THEN height[best] + 1 - UndoRing ELSE dUndoLow

\* The sink commits, the arena follows.
Adopt(best) ==
    /\ Validated(best)
    /\ Depth(best) <= StoreReorgCap
    /\ StoreBranch(best)
    /\ tip' = best
    /\ bodies' = bodies \ Apply(best)
    /\ garbled' = garbled \ Apply(best)
    /\ sideRaws' = sideRaws \ Apply(best)
    /\ Return
    /\ UNCHANGED <<indexed, invalid, enforced, anchor, halted, dSide, dInvalid, dAnchor, restarts>>

\* The sink fails for good, before or after its transaction is durable.
CommitFails(best) ==
    /\ "commit" \in Faults
    /\ Validated(best)
    /\ Depth(best) <= StoreReorgCap
    /\ StoreBranch(best) \/ UNCHANGED <<dTip, dUndoLow>>
    /\ halted' = TRUE
    /\ Return
    /\ UNCHANGED <<indexed, invalid, bodies, garbled, sideRaws, tip, enforced, anchor,
                   dSide, dInvalid, dAnchor, restarts>>

-----------------------------------------------------------------------------
\* load_from_store: the chain is read back up to the stored tip.
LoadedTipShort == prev[dTip]                               \* mutant
LoadedTip == dTip
LoadedChain == Anc[LoadedTip]

\* A crash at any point and the next start: load_from_store,
\* rebuild_side_arena and load_anchor.  Only the lowest MaxSide rows are
\* read, and a row whose parent is not in the arena is left out.
Restart ==
    LET side == {b \in RowsRead : Anc[b] \subseteq LoadedChain \cup RowsRead} \ LoadedChain IN
    /\ restarts < MaxRestarts
    /\ restarts' = restarts + 1
    /\ indexed' = LoadedChain \cup side
    /\ invalid' = {b \in side : Anc[b] \cap side \cap dInvalid # {}}
    /\ tip' = LoadedTip
    /\ bodies' = {} /\ garbled' = {} /\ sideRaws' = {}
    /\ enforced' = {} /\ anchor' = dAnchor
    /\ halted' = FALSE /\ wanted' = {}
    /\ pc' = "idle" /\ refused' = {} /\ pending' = {}
    /\ UNCHANGED disk

Command ==
    \/ Tick
    \/ \E run \in SUBSET Block : ConnectHeaders(run)
    \/ \E b \in Block : SubmitBlock(b, TRUE)
    \/ \E b \in Garbled : SubmitBlock(b, FALSE)
    \/ \E cp \in Signed : SubmitCheckpoint(cp)

Pass(best) ==
    \/ SkipMissing(best)
    \/ RefuseBranch(best)
    \/ RejectRawless(best)
    \/ RejectBody(best)
    \/ GiveUp(best)
    \/ Adopt(best)
    \/ CommitFails(best)

Advance == Settle \/ \E best \in Block : Pass(best)

Next == Command \/ Advance \/ Restart

Spec == Init /\ [][Next]_vars

\* advance is a loop that runs to its end; the node sends Tick on a timer
\* (node.rs); a wanted body is asked for until it arrives, and commands are
\* served in order, so each such delivery is taken again and again until it
\* counts.
FairSpec ==
    /\ Spec
    /\ WF_vars(Advance)
    /\ WF_vars(Tick)
    /\ \A b \in Block : SF_vars(b \in wanted /\ SubmitBlock(b, TRUE))
-----------------------------------------------------------------------------
(* Properties.                                                             *)

\* The arena holds the whole ancestry of each of its headers.
ArenaClosed == \A b \in indexed : Anc[b] \subseteq indexed

\* A halted manager does not advance.
RunningAdvances == pc = "advance" => ~halted

\* The types of the state, with the inclusions the manager relies on: flags,
\* bodies and raws are of arena nodes, and both tips are in the arena after
\* any crash (load_from_store, rebuild_side_arena).
TypeOK ==
    /\ indexed \subseteq Block /\ invalid \subseteq indexed
    /\ bodies \subseteq indexed /\ garbled \subseteq bodies
    /\ sideRaws \subseteq indexed
    /\ tip \in indexed /\ enforced \subseteq Block
    /\ anchor \in Block \cup {NoAnchor}
    /\ halted \in BOOLEAN
    /\ wanted \subseteq Block /\ pending \subseteq Block /\ refused \subseteq Block
    /\ pc \in {"idle", "advance"}
    /\ dTip \in indexed /\ dUndoLow \in Nat
    /\ dSide \subseteq Block /\ dInvalid \subseteq Block
    /\ dAnchor \in Block \cup {NoAnchor}
    /\ restarts \in 0..MaxRestarts

\* An admitted checkpoint stays on the canonical chain: no reorg, however it
\* was ordered with the checkpoint's arrival, drops or replaces it
\* (evaluate_reorg_with_cap against Checkpoints::submit).
CheckpointsKept == enforced \subseteq Canonical

\* While the manager runs, the arena's tip and the store's tip are the same
\* block; a halted manager may be one branch behind the disk, never ahead of
\* it (try_adopt commits before set_canonical).
StoreAgrees ==
    /\ ~halted => dTip = tip
    /\ dTip = tip \/ Better(dTip, tip)

\* No block that fails validation, that is flagged invalid in the arena or
\* that the store has on its invalid list is ever on the chain, in memory or
\* on disk (validate_branch, mark_invalid, rebuild_side_arena).
AdoptedAreValid ==
    /\ Canonical \cap (BadBody \cup invalid \cup dInvalid) = {}
    /\ Anc[dTip] \cap (BadBody \cup invalid \cup dInvalid) = {}

\* Whatever order headers, bodies, invalidations and restarts come in, a
\* descendant of a flagged header is flagged and a header on the store's
\* invalid list is flagged as soon as the arena holds it (index.rs insert,
\* mark_invalid; readmit_persisted_header; rebuild_side_arena).
InvalidInherited ==
    \A b \in indexed :
        Anc[b] \cap (invalid \cup (indexed \cap dInvalid)) # {} => b \in invalid

\* A header is flagged only when a block of its branch has a body that fails:
\* a refusal that depends on order or timing never poisons a valid branch.
ValidNeverPoisoned == \A b \in invalid : Anc[b] \cap BadBody # {}

\* The chain only ever changes to a better one, across crashes too: every
\* move of the tip gains work, or is a depth-1 tie won by the lower hash.
TipOnlyImproves == [][tip' = tip \/ Better(tip', tip)]_vars

\* What the manager commits is what the storage engine promises to take, as
\* one step (BlockStore implements the same AtomicStore): no branch reaches
\* the disk that is worse, too deep, or whose rollback lacks an undo row,
\* also when a call fails after its transaction was durable.
Store == INSTANCE AtomicStore WITH stored <- dTip, undoLow <- dUndoLow
UsesStore == Store!Spec

\* The loop of advance comes to an end: every pass that does not return
\* skips or invalidates a branch that was not skipped before.
AdvanceReturns == []<>(pc = "idle")

\* A branch the manager could adopt now.
Adoptable(b) ==
    /\ b \in indexed \ invalid /\ b \notin Canonical
    /\ \A c \in Apply(b) : HaveBody(c) /\ HaveRaw(c) /\ c \notin BadBody \cup garbled
    /\ EvaluateReorg(b)

\* The same without the bodies: they are found missing, asked for, and the
\* branch is adopted once they are in, with any bound on the wanted list.
BranchToAdopt(b) ==
    /\ b \in indexed \ invalid /\ b \notin Canonical
    /\ \A c \in Apply(b) : HaveRaw(c) /\ c \notin BadBody
    /\ EvaluateReorg(b)
Converges == \A b \in Block : []<>(halted \/ ~BranchToAdopt(b))
=============================================================================
