---------------------------- MODULE ChainProofs ----------------------------
(***************************************************************************)
(* Safety of the chain manager and of its mempool, for every block tree,   *)
(* every set of transactions and every parameter.                          *)
(*                                                                         *)
(* The chain manager first; the mempool follows.                           *)
(*                                                                         *)
(* CheckpointsKept and StoreAgrees follow action by action.  For           *)
(* AdoptedAreValid the branch fork choice selects must carry no flag at    *)
(* any depth, which is InvalidInherited; and that holds across readmission *)
(* and restart only if the arena is closed under ancestry and the stored   *)
(* chain avoids the store's invalid list.  Inv is the conjunction.         *)
(***************************************************************************)
EXTENDS ChainManager, Mempool, BlockTreeProofs, FiniteSetTheorems

\* The inductive invariant.
Inv ==
    /\ TypeOK
    /\ RunningAdvances
    /\ ArenaClosed
    /\ CheckpointsKept
    /\ StoreAgrees
    /\ AdoptedAreValid
    /\ InvalidInherited

-----------------------------------------------------------------------------
(* What a selected branch satisfies.                                       *)

\* A branch fork choice selects beats the tip, and nothing on it is flagged,
\* in memory or on disk.
LEMMA SelectedClean ==
    ASSUME Inv, NEW best \in Block, Selected(best), best # tip
    PROVE  /\ best \in indexed
           /\ Better(best, tip)
           /\ Anc[best] \cap (invalid \cup dInvalid) = {}
           /\ dTip = tip
<1>1. best \in indexed /\ best \notin invalid
  BY DEF Inv, TypeOK, Selected, IsBest, Candidates
<1>2. Better(best, tip)
  BY DEF Selected, IsBest, Candidates
<1>3. Anc[best] \subseteq indexed
  BY <1>1 DEF Inv, ArenaClosed
<1>4. Anc[best] \cap (invalid \cup dInvalid) = {}
  BY <1>1, <1>3 DEF Inv, InvalidInherited
<1>5. dTip = tip
  BY DEF Inv, Selected, RunningAdvances, StoreAgrees
<1> QED
  BY <1>1, <1>2, <1>4, <1>5

\* What the reorg rules let through keeps every enforced checkpoint.
LEMMA RulesKeepCheckpoints ==
    ASSUME Inv, NEW best \in Block, EvaluateReorg(best)
    PROVE  enforced \subseteq Anc[best]
<1> SUFFICES ASSUME NEW c \in enforced
             PROVE  c \in Anc[best]
  OBVIOUS
<1>1. tip \in Block /\ c \in Anc[tip] /\ c \in Block
  BY DEF Inv, TypeOK, CheckpointsKept, Canonical
<1>2. height[c] <= height[tip]
  BY <1>1, AncHeight
<1>3. CASE height[c] <= height[ForkPoint(best)]
  BY <1>1, <1>3, ForkShared DEF ForkPoint
<1>4. CASE ~(height[c] <= height[ForkPoint(best)])
  <2>1. ForkPoint(best) \in Block
    BY <1>1, ForkShared DEF ForkPoint
  <2>2. height[c] \in Nat /\ height[ForkPoint(best)] \in Nat /\ height[best] \in Nat
    BY <1>1, <2>1, TreeTypes
  <2>3. height[c] > height[ForkPoint(best)]
    BY <1>4, <2>2
  <2>4. height[c] <= height[best]
    BY <1>2, <2>2, <2>3 DEF EvaluateReorg, KeepsCheckpointHeights
  <2> QED
    BY <2>3, <2>4 DEF EvaluateReorg, MatchesCheckpoints, Apply
<1> QED
  BY <1>3, <1>4
-----------------------------------------------------------------------------
(* One lemma per action.                                                   *)

\* The empty node with its genesis block satisfies Inv (ChainManager::new).
LEMMA InitInv == Init => Inv
<1> SUFFICES ASSUME Init PROVE Inv
  OBVIOUS
<1> USE DEF Init
<1>0. RunningAdvances
  BY DEF RunningAdvances
<1>1. TypeOK
  <2>1. Genesis \in Block /\ MaxRestarts \in Nat
    BY TreeTypes, ManagerParams
  <2>2. restarts \in 0..MaxRestarts
    BY <2>1
  <2>3. /\ anchor \in Block \cup {NoAnchor} /\ dAnchor \in Block \cup {NoAnchor}
        /\ pc \in {"idle", "advance"} /\ halted \in BOOLEAN /\ dUndoLow \in Nat
    OBVIOUS
  <2>4. /\ indexed \subseteq Block /\ tip \in indexed /\ dTip \in indexed
        /\ invalid \subseteq indexed /\ bodies \subseteq indexed /\ sideRaws \subseteq indexed
        /\ garbled \subseteq bodies
    BY <2>1
  <2>5. /\ enforced \subseteq Block /\ wanted \subseteq Block /\ pending \subseteq Block
        /\ refused \subseteq Block /\ dSide \subseteq Block /\ dInvalid \subseteq Block
    OBVIOUS
  <2> HIDE DEF Init
  <2> QED
    BY <2>2, <2>3, <2>4, <2>5 DEF TypeOK
<1>2. ArenaClosed /\ CheckpointsKept /\ StoreAgrees
  BY TreeRoot DEF ArenaClosed, CheckpointsKept, StoreAgrees
<1>3. AdoptedAreValid
  BY TreeTypes, TreeRoot DEF AdoptedAreValid, Canonical
<1>4. InvalidInherited
  BY DEF InvalidInherited
<1> QED
  BY <1>0, <1>1, <1>2, <1>3, <1>4 DEF Inv

\* A step that moves only the call's bookkeeping.
LEMMA QuietStep ==
    ASSUME Inv,
           UNCHANGED <<indexed, invalid, bodies, garbled, sideRaws, tip, enforced, anchor, halted,
                       disk, restarts>>,
           wanted' \subseteq Block, pending' \subseteq Block, refused' \subseteq Block,
           pc' \in {"idle", "advance"}, pc' = "advance" => ~halted
    PROVE  Inv'
BY DEF Inv, TypeOK, RunningAdvances, ArenaClosed, CheckpointsKept, Canonical,
       StoreAgrees, AdoptedAreValid, InvalidInherited, disk

\* Promotion keeps Inv: a new header inherits the flags below it
\* (ingest_headers, HeaderIndex::insert).
LEMMA ConnectHeadersInv ==
    ASSUME Inv, NEW run \in SUBSET Block, ConnectHeaders(run)
    PROVE  Inv'
<1> DEFINE new == run \ indexed
<1> USE DEF ConnectHeaders
<1>1. /\ indexed' = indexed \cup run
      /\ invalid' = invalid \cup {b \in new : Anc[b] \cap invalid # {}}
      /\ new \cap dInvalid = {}
      /\ dSide' \subseteq dSide \cup run
      /\ UNCHANGED <<bodies, garbled, tip, enforced, anchor, halted, wanted,
                     dTip, dUndoLow, dInvalid, dAnchor, restarts>>
  <2>1. PICK lost \in IF "side" \in Faults THEN SUBSET run ELSE {{}} :
            dSide' = CapRows(dSide \cup (run \ lost))
    OBVIOUS
  <2>2. dSide' \subseteq dSide \cup run
    BY <2>1 DEF CapRows
  <2> QED
    BY <2>2
<1>2. TypeOK'
  BY <1>1 DEF Inv, TypeOK, CallAdvance
<1>7. RunningAdvances'
  BY <1>1 DEF CallAdvance, RunningAdvances
<1>3. ArenaClosed'
  BY <1>1 DEF Inv, ArenaClosed
<1>4. CheckpointsKept' /\ StoreAgrees'
  BY <1>1 DEF Inv, CheckpointsKept, StoreAgrees, Canonical
<1>5. AdoptedAreValid'
  <2>1. Anc[tip] \subseteq indexed /\ Anc[dTip] \subseteq indexed
    BY DEF Inv, ArenaClosed, TypeOK
  <2> QED
    BY <1>1, <2>1 DEF Inv, AdoptedAreValid, Canonical
<1>6. InvalidInherited'
  <2> SUFFICES ASSUME NEW b \in indexed', NEW x \in Anc[b],
                      x \in invalid' \/ (x \in indexed' /\ x \in dInvalid')
               PROVE  b \in invalid'
    BY DEF InvalidInherited
  <2>0. b \in Block
    BY <1>1 DEF Inv, TypeOK
  <2>1. b \in Anc[b] /\ Anc[x] \subseteq Anc[b] /\ x \in Anc[x]
    BY <2>0, AncNests, TreeLinear
  <2>2. PICK y \in Anc[b] : y \in invalid
    <3>1. CASE x \in new /\ Anc[x] \cap invalid # {}
      BY <3>1, <2>1
    <3>2. CASE x \in invalid
      BY <3>2
    <3>3. CASE x \in indexed /\ x \in dInvalid
      BY <3>3, <2>1 DEF Inv, InvalidInherited
    <3> QED
      BY <3>1, <3>2, <3>3, <1>1
  <2>3. CASE b \in indexed
    BY <2>2, <2>3, <1>1 DEF Inv, InvalidInherited
  <2>4. CASE b \in new
    BY <2>2, <2>4, <1>1
  <2> QED
    BY <2>3, <2>4, <1>1
<1> QED
  BY <1>2, <1>3, <1>4, <1>5, <1>6, <1>7 DEF Inv

\* A body, and the readmission of a header the arena had lost, keep Inv
\* (submit_block, readmit_persisted_header).
LEMMA SubmitBlockInv ==
    ASSUME Inv, NEW b0 \in Block, NEW good \in BOOLEAN, SubmitBlock(b0, good)
    PROVE  Inv'
<1> DEFINE flagged == b0 \in invalid \/ (b0 \notin indexed /\ ReadmitFlagged(b0))
<1>1. /\ b0 \in indexed \/ prev[b0] \in indexed
      /\ indexed' = indexed \cup {b0}
      /\ invalid' = IF flagged THEN invalid \cup {b0} ELSE invalid
      /\ UNCHANGED <<sideRaws, tip, enforced, anchor, halted, wanted, disk, restarts>>
  BY DEF SubmitBlock
<1>2. bodies' \subseteq bodies \cup {b0} /\ garbled' \subseteq garbled \cup {b0}
      /\ garbled' \subseteq bodies'
  BY DEF SubmitBlock, Inv, TypeOK
<1>3. TypeOK' /\ RunningAdvances'
  BY <1>1, <1>2 DEF Inv, TypeOK, RunningAdvances, SubmitBlock, CallAdvance, disk
<1>4. b0 \notin indexed => Anc[b0] = {b0} \cup Anc[prev[b0]] /\ Anc[prev[b0]] \subseteq indexed
  <2> SUFFICES ASSUME b0 \notin indexed
               PROVE  Anc[b0] = {b0} \cup Anc[prev[b0]] /\ Anc[prev[b0]] \subseteq indexed
    OBVIOUS
  <2>1. Genesis \in indexed
    BY TreeRoot, TreeTypes DEF Inv, TypeOK, ArenaClosed
  <2> QED
    BY <1>1, <2>1, TreeStep DEF Inv, ArenaClosed
<1>5. ArenaClosed'
  BY <1>1, <1>4 DEF Inv, ArenaClosed
<1>6. CheckpointsKept' /\ StoreAgrees'
  BY <1>1 DEF Inv, CheckpointsKept, StoreAgrees, Canonical, disk
<1>7. AdoptedAreValid'
  <2>1. Anc[tip] \subseteq indexed /\ Anc[dTip] \subseteq indexed
    BY DEF Inv, ArenaClosed, TypeOK
  <2>2. b0 \in invalid' => b0 \in invalid \/ b0 \notin indexed
    BY <1>1
  <2> QED
    BY <1>1, <2>1, <2>2 DEF Inv, AdoptedAreValid, Canonical, disk
<1>8. InvalidInherited'
  <2> SUFFICES ASSUME NEW b \in indexed', NEW x \in Anc[b],
                      x \in invalid' \/ (x \in indexed' /\ x \in dInvalid')
               PROVE  b \in invalid'
    BY DEF InvalidInherited
  <2>0. dInvalid' = dInvalid
    BY <1>1 DEF disk
  <2>1. CASE b0 \in indexed
    BY <2>0, <2>1, <1>1 DEF Inv, InvalidInherited
  <2>2. CASE b0 \notin indexed /\ b \in indexed
    <3>1. x \in indexed
      BY <2>2 DEF Inv, ArenaClosed
    <3> QED
      BY <2>0, <2>2, <3>1, <1>1 DEF Inv, InvalidInherited
  <2>3. CASE b0 \notin indexed /\ b = b0
    <3>1. CASE x = b0
      <4>1. b0 \notin invalid
        BY <2>3 DEF Inv, TypeOK
      <4>2. b0 \in dInvalid \/ b0 \in invalid'
        BY <3>1, <2>0
      <4> QED
        BY <2>3, <4>1, <4>2, <1>1 DEF ReadmitFlagged
    <3>2. CASE x # b0
      <4>1. x \in Anc[prev[b0]] /\ x \in indexed /\ prev[b0] \in indexed
        BY <2>3, <3>2, <1>1, <1>4
      <4>2. x \in invalid \/ (x \in indexed /\ x \in dInvalid)
        BY <4>1, <3>2, <1>1, <2>0
      <4>3. prev[b0] \in invalid
        BY <4>1, <4>2 DEF Inv, InvalidInherited
      <4> QED
        BY <2>3, <4>3, <1>1 DEF ReadmitFlagged
    <3> QED
      BY <3>1, <3>2
  <2> QED
    BY <2>1, <2>2, <2>3, <1>1
<1> QED
  BY <1>3, <1>5, <1>6, <1>7, <1>8 DEF Inv

\* A signed checkpoint keeps Inv: it is enforced only when it is on the chain
\* (submit_checkpoint).
LEMMA SubmitCheckpointInv ==
    ASSUME Inv, NEW cp \in Block, SubmitCheckpoint(cp)
    PROVE  Inv'
<1>1. /\ enforced' \subseteq enforced \cup (Canonical \cap {cp})
      /\ anchor' \in {anchor, cp} /\ dAnchor' \in {dAnchor, cp}
      /\ UNCHANGED <<indexed, invalid, bodies, garbled, sideRaws, tip, halted, wanted,
                     dTip, dUndoLow, dSide, dInvalid, restarts>>
  BY DEF SubmitCheckpoint, Written
<1>2. TypeOK'
  BY <1>1 DEF Inv, TypeOK, SubmitCheckpoint, CallAdvance
<1>3. RunningAdvances'
  BY <1>1 DEF SubmitCheckpoint, CallAdvance, RunningAdvances
<1>4. CheckpointsKept'
  BY <1>1 DEF Inv, CheckpointsKept, Canonical
<1>5. (ArenaClosed /\ StoreAgrees /\ AdoptedAreValid /\ InvalidInherited)'
  BY <1>1 DEF Inv, ArenaClosed, StoreAgrees, AdoptedAreValid, InvalidInherited, Canonical
<1> QED
  BY <1>2, <1>3, <1>4, <1>5 DEF Inv

\* Flagging a block off the chain and its descendants.
LEMMA InvalidateInv ==
    ASSUME Inv, NEW b0 \in Block, b0 \notin Anc[tip], dTip = tip, Invalidate(b0)
    PROVE  Inv'
<1>1. /\ invalid' = invalid \cup {c \in indexed : b0 \in Anc[c]}
      /\ dInvalid' \subseteq dInvalid \cup {b0} /\ dInvalid \subseteq dInvalid'
      /\ UNCHANGED <<indexed, bodies, garbled, sideRaws, tip, enforced, anchor, halted, wanted,
                     pc, refused, pending, dTip, dUndoLow, dSide, dAnchor, restarts>>
  BY DEF Invalidate, Written, call
<1>2. TypeOK' /\ RunningAdvances'
  BY <1>1 DEF Inv, TypeOK, RunningAdvances
<1>3. (ArenaClosed /\ CheckpointsKept /\ StoreAgrees)'
  BY <1>1 DEF Inv, ArenaClosed, CheckpointsKept, StoreAgrees, Canonical
<1>4. AdoptedAreValid'
  <2>1. tip \in Block
    BY DEF Inv, TypeOK
  <2>2. ASSUME NEW c \in Anc[tip] PROVE b0 \notin Anc[c]
    BY <2>1, AncNests
  <2> QED
    BY <1>1, <2>2 DEF Inv, AdoptedAreValid, Canonical
<1>5. InvalidInherited'
  <2> SUFFICES ASSUME NEW b \in indexed, NEW x \in Anc[b],
                      x \in invalid' \/ (x \in indexed /\ x \in dInvalid')
               PROVE  b \in invalid'
    BY <1>1 DEF InvalidInherited
  <2>1. b \in Block
    BY DEF Inv, TypeOK
  <2>2. Anc[x] \subseteq Anc[b]
    BY <2>1, AncNests
  <2>3. CASE x \in invalid \/ (x \in indexed /\ x \in dInvalid)
    BY <2>3, <1>1 DEF Inv, InvalidInherited
  <2>4. CASE x = b0 \/ b0 \in Anc[x]
    BY <2>2, <2>4, <1>1
  <2> QED
    BY <2>3, <2>4, <1>1
<1> QED
  BY <1>2, <1>3, <1>4, <1>5 DEF Inv

\* A validated branch may be the chain, in memory or on disk.
LEMMA ValidatedBranch ==
    ASSUME Inv, NEW best \in Block, Validated(best)
    PROVE  /\ best \in indexed /\ Better(best, tip) /\ dTip = tip
           /\ enforced \subseteq Anc[best]
           /\ Anc[best] \cap (BadBody \cup invalid \cup dInvalid) = {}
<1>1. /\ Selected(best) /\ best # tip
      /\ EvaluateReorg(best)
      /\ BodyFails(best) = {}
  BY DEF Validated, TryAdopt
<1>2. enforced \subseteq Anc[best]
  BY <1>1, RulesKeepCheckpoints
<1>3. Anc[best] \cap BadBody = {}
  BY <1>1 DEF BodyFails, Apply, Inv, AdoptedAreValid, Canonical
<1> QED
  BY <1>1, <1>2, <1>3, SelectedClean

\* The stored tip and the ring's lower end after a commit (apply_block).
LEMMA StoreBranchType ==
    ASSUME Inv, NEW best \in Block, StoreBranch(best)
    PROVE  dTip' = best /\ dUndoLow' \in Nat
<1>1. height[best] \in Nat /\ UndoRing \in Nat /\ dUndoLow \in Nat
  BY TreeTypes, ManagerParams DEF Inv, TypeOK
<1> QED
  BY <1>1 DEF StoreBranch

\* An adoption keeps Inv (try_adopt).
LEMMA AdoptInv ==
    ASSUME Inv, NEW best \in Block, Adopt(best)
    PROVE  Inv'
<1>1. Validated(best) /\ StoreBranch(best)
  BY DEF Adopt
<1>2. /\ best \in indexed /\ enforced \subseteq Anc[best]
      /\ Anc[best] \cap (BadBody \cup invalid \cup dInvalid) = {}
  BY <1>1, ValidatedBranch
<1>3. dTip' = best /\ dUndoLow' \in Nat
  BY <1>1, StoreBranchType
<1>4. /\ tip' = best
      /\ bodies' \subseteq bodies /\ sideRaws' \subseteq sideRaws
      /\ garbled' \subseteq bodies'
      /\ wanted' = pending /\ pc' = "idle" /\ refused' = {} /\ pending' = {}
      /\ UNCHANGED <<indexed, invalid, enforced, anchor, halted, dSide, dInvalid, dAnchor, restarts>>
  BY DEF Adopt, Return, Inv, TypeOK
<1>5. TypeOK' /\ RunningAdvances'
  BY <1>2, <1>3, <1>4 DEF Inv, TypeOK, RunningAdvances
<1>6. (ArenaClosed /\ CheckpointsKept /\ StoreAgrees)'
  BY <1>2, <1>3, <1>4 DEF Inv, ArenaClosed, CheckpointsKept, StoreAgrees, Canonical
<1>7. (AdoptedAreValid /\ InvalidInherited)'
  BY <1>2, <1>3, <1>4 DEF Inv, AdoptedAreValid, InvalidInherited, Canonical
<1> QED
  BY <1>5, <1>6, <1>7 DEF Inv

\* A commit that fails, before or after it is durable, keeps Inv: the store
\* may be ahead of the arena, with a branch that was validated.
LEMMA CommitFailsInv ==
    ASSUME Inv, NEW best \in Block, CommitFails(best)
    PROVE  Inv'
<1>1. Validated(best) /\ (StoreBranch(best) \/ UNCHANGED <<dTip, dUndoLow>>)
  BY DEF CommitFails
<1>2. /\ best \in indexed /\ Better(best, tip)
      /\ Anc[best] \cap (BadBody \cup invalid \cup dInvalid) = {}
  BY <1>1, ValidatedBranch
<1>3. (dTip' = best \/ dTip' = dTip) /\ dUndoLow' \in Nat
  BY <1>1, StoreBranchType DEF Inv, TypeOK
<1>4. /\ halted' = TRUE
      /\ wanted' = pending /\ pc' = "idle" /\ refused' = {} /\ pending' = {}
      /\ UNCHANGED <<indexed, invalid, bodies, garbled, sideRaws, tip, enforced, anchor,
                     dSide, dInvalid, dAnchor, restarts>>
  BY DEF CommitFails, Return
<1>5. TypeOK' /\ RunningAdvances'
  BY <1>2, <1>3, <1>4 DEF Inv, TypeOK, RunningAdvances
<1>6. (ArenaClosed /\ CheckpointsKept)'
  BY <1>4 DEF Inv, ArenaClosed, CheckpointsKept, Canonical
<1>7. StoreAgrees'
  BY <1>2, <1>3, <1>4 DEF Inv, StoreAgrees, Better
<1>8. (AdoptedAreValid /\ InvalidInherited)'
  BY <1>2, <1>3, <1>4 DEF Inv, AdoptedAreValid, InvalidInherited, Canonical
<1> QED
  BY <1>5, <1>6, <1>7, <1>8 DEF Inv

\* A crash and the rebuilding of the arena keep Inv (load_from_store,
\* rebuild_side_arena).
LEMMA RestartInv ==
    ASSUME Inv, Restart
    PROVE  Inv'
<1> DEFINE chain == Anc[dTip]
           side == {b \in RowsRead : Anc[b] \subseteq chain \cup RowsRead} \ chain
<1>1. /\ indexed' = chain \cup side
      /\ invalid' = {b \in side : Anc[b] \cap side \cap dInvalid # {}}
      /\ tip' = dTip
      /\ restarts < MaxRestarts /\ restarts' = restarts + 1
      /\ bodies' = {} /\ garbled' = {} /\ sideRaws' = {} /\ enforced' = {} /\ anchor' = dAnchor
      /\ halted' = FALSE /\ wanted' = {}
      /\ pc' = "idle" /\ refused' = {} /\ pending' = {}
      /\ UNCHANGED <<dTip, dUndoLow, dSide, dInvalid, dAnchor>>
  BY DEF Restart, LoadedChain, LoadedTip, disk
<1>2. /\ dTip \in Block /\ dTip \in chain /\ chain \subseteq Block
      /\ side \subseteq Block /\ side \cap chain = {}
  BY TreeLinear, TreeTypes DEF Inv, TypeOK, RowsRead
<1>3. TypeOK'
  <2>1. restarts' \in 0..MaxRestarts
    BY <1>1, ManagerParams DEF Inv, TypeOK
  <2>2. indexed' \subseteq Block /\ invalid' \subseteq indexed' /\ tip' \in indexed' /\ dTip' \in indexed'
    BY <1>1, <1>2
  <2> QED
    BY <2>1, <2>2, <1>1 DEF Inv, TypeOK
<1>4. RunningAdvances' /\ CheckpointsKept' /\ StoreAgrees'
  BY <1>1 DEF RunningAdvances, CheckpointsKept, StoreAgrees
<1>5. ArenaClosed'
  <2> SUFFICES ASSUME NEW b \in indexed', NEW x \in Anc[b]
               PROVE  x \in indexed'
    BY DEF ArenaClosed
  <2>1. b \in Block
    BY <1>1, <1>2
  <2>2. Anc[x] \subseteq Anc[b]
    BY <2>1, AncNests
  <2>3. CASE b \in chain
    BY <2>3, <1>1, <1>2, AncNests
  <2>4. CASE b \in side
    BY <2>2, <2>4, <1>1
  <2> QED
    BY <2>3, <2>4, <1>1
<1>6. AdoptedAreValid'
  BY <1>1, <1>2 DEF Inv, AdoptedAreValid, Canonical
<1>7. InvalidInherited'
  <2> SUFFICES ASSUME NEW b \in indexed', NEW x \in Anc[b],
                      x \in invalid' \/ (x \in indexed' /\ x \in dInvalid)
               PROVE  b \in invalid'
    BY <1>1 DEF InvalidInherited
  <2>1. b \in Block
    BY <1>1, <1>2
  <2>2. Anc[x] \subseteq Anc[b]
    BY <2>1, AncNests
  <2>3. chain \cap dInvalid = {}
    BY DEF Inv, AdoptedAreValid
  <2>4. PICK y \in Anc[b] : y \in side /\ y \in dInvalid
    BY <1>1, <2>2, <2>3
  <2>5. b \notin chain
    BY <2>4, <1>2, AncNests
  <2> QED
    BY <2>4, <2>5, <1>1
<1> QED
  BY <1>3, <1>4, <1>5, <1>6, <1>7 DEF Inv

-----------------------------------------------------------------------------
(* The theorems.                                                           *)

\* Every pass of the loop keeps Inv (advance).
LEMMA PassInv ==
    ASSUME Inv, NEW best \in Block, Pass(best)
    PROVE  Inv'
<1>1. CASE SkipMissing(best)
  <2>1. Apply(best) \subseteq Block /\ MissingBodies(best) \subseteq Block
    BY TreeTypes DEF Apply, MissingBodies
  <2>2. refused' \subseteq Block
    BY <1>1, <2>1 DEF SkipMissing, Inv, TypeOK
  <2>3. pending' \subseteq Block
    BY <1>1, <2>1 DEF SkipMissing, QueueMissing, Inv, TypeOK
  <2> QED
    BY <1>1, <2>2, <2>3, QuietStep DEF SkipMissing, memory, Inv, TypeOK, RunningAdvances
<1>2. CASE RefuseBranch(best)
  BY <1>2, QuietStep DEF RefuseBranch, memory, Inv, TypeOK, RunningAdvances
<1>3. CASE RejectRawless(best)
  <2>1. PICK b \in Lowest(RawMissing(best)) : Invalidate(b)
    BY <1>3 DEF RejectRawless
  <2>2. b \in Block /\ b \notin Anc[tip]
    BY <2>1, TreeTypes DEF Lowest, RawMissing, Apply
  <2>3. dTip = tip
    BY <1>3, SelectedClean DEF RejectRawless, TryAdopt
  <2> QED
    BY <2>1, <2>2, <2>3, InvalidateInv
<1>4. CASE RejectBody(best)
  <2>1. PICK b \in Lowest(BodyFails(best)) : Invalidate(b)
    BY <1>4 DEF RejectBody
  <2>2. b \in Block /\ b \notin Anc[tip]
    BY <2>1, TreeTypes DEF Lowest, BodyFails, Apply
  <2>3. dTip = tip
    BY <1>4, SelectedClean DEF RejectBody, TryAdopt
  <2> QED
    BY <2>1, <2>2, <2>3, InvalidateInv
<1>5. CASE GiveUp(best)
  BY <1>5, QuietStep DEF GiveUp, Return, Inv, TypeOK
<1>6. CASE Adopt(best)
  BY <1>6, AdoptInv
<1>7. CASE CommitFails(best)
  BY <1>7, CommitFailsInv
<1> QED
  BY <1>1, <1>2, <1>3, <1>4, <1>5, <1>6, <1>7 DEF Pass

\* Every step keeps Inv.
LEMMA NextInv ==
    ASSUME Inv, [Next]_vars
    PROVE  Inv'
<1>1. CASE Tick
  BY <1>1, QuietStep DEF Tick, CallAdvance, memory, Inv, TypeOK
<1>2. CASE \E run \in SUBSET Block : ConnectHeaders(run)
  BY <1>2, ConnectHeadersInv
<1>3. CASE \E b \in Block : SubmitBlock(b, TRUE)
  BY <1>3, SubmitBlockInv
<1>4. CASE \E b \in Garbled : SubmitBlock(b, FALSE)
  <2>1. Garbled \subseteq Block
    BY ManagerParams
  <2> QED
    BY <1>4, <2>1, SubmitBlockInv
<1>5. CASE \E cp \in Signed : SubmitCheckpoint(cp)
  <2>1. Signed \subseteq Block
    BY ManagerParams
  <2> QED
    BY <1>5, <2>1, SubmitCheckpointInv
<1>6. CASE Settle
  BY <1>6, QuietStep DEF Settle, Return, Inv, TypeOK
<1>7. CASE \E best \in Block : Pass(best)
  BY <1>7, PassInv
<1>8. CASE Restart
  BY <1>8, RestartInv
<1>9. CASE UNCHANGED vars
  BY <1>9, QuietStep DEF vars, memory, call, Inv, TypeOK, RunningAdvances
<1> QED
  BY <1>1, <1>2, <1>3, <1>4, <1>5, <1>6, <1>7, <1>8, <1>9 DEF Next, Command, Advance

\* Inv holds in every reachable state, for every tree and parameters.
THEOREM Invariance == Spec => []Inv
<1>1. Init => Inv
  BY InitInv
<1>2. Inv /\ [Next]_vars => Inv'
  BY NextInv
<1> QED
  BY <1>1, <1>2, PTL DEF Spec

\* The arena, the call in progress and the stored chain keep their types:
\* in particular both tips are in the arena after any crash.
THEOREM TypeCorrect == Spec => []TypeOK
<1>1. Inv => TypeOK
  BY DEF Inv
<1> QED
  BY <1>1, Invariance, PTL

\* No reorg drops an admitted checkpoint while the process lives
\* (evaluate_reorg_with_cap).
THEOREM CheckpointsSafe == Spec => []CheckpointsKept
<1>1. Inv => CheckpointsKept
  BY DEF Inv
<1> QED
  BY <1>1, Invariance, PTL

\* The store and the arena agree on the tip, or the manager has halted and
\* the store is ahead (try_adopt).
THEOREM StoreConsistent == Spec => []StoreAgrees
<1>1. Inv => StoreAgrees
  BY DEF Inv
<1> QED
  BY <1>1, Invariance, PTL

\* No block that fails validation or is flagged is on the chain, in memory or
\* on disk, through any crash and any failed sink call.
THEOREM OnlyValidAdopted == Spec => []AdoptedAreValid
<1>1. Inv => AdoptedAreValid
  BY DEF Inv
<1> QED
  BY <1>1, Invariance, PTL

\* Flags reach every descendant the arena holds.
THEOREM FlagsInherited == Spec => []InvalidInherited
<1>1. Inv => InvalidInherited
  BY DEF Inv
<1> QED
  BY <1>1, Invariance, PTL

\* The tip only moves to a better block, restarts included.
THEOREM TipMonotone == Spec => TipOnlyImproves
<1>1. Inv /\ [Next]_vars => [tip' = tip \/ Better(tip', tip)]_vars
  <2> SUFFICES ASSUME Inv, [Next]_vars
               PROVE  tip' = tip \/ Better(tip', tip)
    OBVIOUS
  <2>1. CASE \E best \in Block : Adopt(best)
    <3>1. PICK best \in Block : Adopt(best)
      BY <2>1
    <3>2. Better(best, tip)
      BY <3>1, ValidatedBranch DEF Adopt
    <3> QED
      BY <3>1, <3>2 DEF Adopt, Better
  <2>2. CASE Restart
    BY <2>2 DEF Restart, LoadedTip, Inv, StoreAgrees, Better
  <2>3. CASE UNCHANGED vars
    BY <2>3 DEF vars, memory
  <2>4. CASE Command \/ Settle
    BY <2>4 DEF Command, Tick, ConnectHeaders, SubmitBlock, SubmitCheckpoint, Settle, memory
  <2>5. ASSUME NEW best \in Block, Pass(best), ~Adopt(best)
        PROVE  tip' = tip
    BY <2>5 DEF Pass, SkipMissing, RefuseBranch, RejectRawless, RejectBody, Invalidate,
               GiveUp, CommitFails, memory
  <2> QED
    BY <2>1, <2>2, <2>3, <2>4, <2>5 DEF Next, Advance
<1> QED
  BY <1>1, Invariance, PTL DEF Spec, TipOnlyImproves

\* A validated branch within the store's depth is a commit of the atomic store.
LEMMA StoreBranchCommits ==
    ASSUME Inv, NEW best \in Block, Validated(best), Depth(best) <= StoreReorgCap,
           StoreBranch(best)
    PROVE  Store!Commit(best)
<1>1. Better(best, tip) /\ dTip = tip
  BY ValidatedBranch
<1>2. HaveAllUndo(best)
  BY DEF Validated
<1> QED
  BY <1>1, <1>2 DEF Store!Commit, Store!Better, Store!Fork, Store!RingLow, Better, Fork,
                    ForkPoint, Depth, HaveAllUndo, StoreBranch

\* The manager's durable chain moves as the atomic store allows: every commit,
\* failed calls and restarts included, is a step the storage engine promises
\* to make whole (try_adopt, CommitSink).
THEOREM CommitsAreAtomic == Spec => UsesStore
<1>1. Init => Store!Init
  BY DEF Init, Store!Init
<1>2. Inv /\ [Next]_vars => [Store!Next]_<<dTip, dUndoLow>>
  <2> SUFFICES ASSUME Inv, [Next]_vars
               PROVE  Store!Next \/ UNCHANGED <<dTip, dUndoLow>>
    OBVIOUS
  <2>1. ASSUME NEW best \in Block, Adopt(best) \/ CommitFails(best)
        PROVE  Store!Next \/ UNCHANGED <<dTip, dUndoLow>>
    BY <2>1, StoreBranchCommits DEF Adopt, CommitFails, Store!Next
  <2>2. CASE Restart \/ UNCHANGED vars
    BY <2>2 DEF Restart, vars, disk
  <2>3. CASE Command \/ Settle
    BY <2>3 DEF Command, Tick, ConnectHeaders, SubmitBlock, SubmitCheckpoint, Settle, disk
  <2>4. ASSUME NEW best \in Block, Pass(best), ~Adopt(best), ~CommitFails(best)
        PROVE  UNCHANGED <<dTip, dUndoLow>>
    BY <2>4 DEF Pass, SkipMissing, RefuseBranch, RejectRawless, RejectBody, Invalidate,
                GiveUp, disk
  <2> QED
    BY <2>1, <2>2, <2>3, <2>4 DEF Next, Advance
<1> QED
  BY <1>1, <1>2, Invariance, PTL DEF Spec, UsesStore, Store!Spec

-----------------------------------------------------------------------------
(* A valid branch is never flagged, when the table of side rows has room   *)
(* for every header, its writes succeed and every body is its block's.     *)

\* Beside Inv: the bytes held are the blocks', flags in memory and on disk
\* lie on or above a block that fails validation, and every header of the
\* arena has a row to rebuild it from.
Clean ==
    /\ garbled = {}
    /\ \A b \in invalid \cup dInvalid : Anc[b] \cap BadBody # {}
    /\ indexed \subseteq dSide \cup {Genesis}

\* A set that lies within the cap keeps every row (put_side_headers).
LEMMA CapKeeps ==
    ASSUME IsFiniteSet(Block), Cardinality(Block) <= SideRowsCap,
           NEW S \in SUBSET Block
    PROVE  CapRows(S) = S
<1> SUFFICES ASSUME NEW b \in S
             PROVE  Cardinality({c \in S : RowAbove(c, b)}) < SideRowsCap
  BY DEF CapRows
<1> DEFINE above == {c \in S : RowAbove(c, b)}
<1>1. height[b] \in Nat /\ hashKey[b] \in Nat
  BY TreeTypes
<1>2. b \notin above
  BY <1>1 DEF RowAbove
<1>3. above \subseteq Block /\ above # Block
  BY <1>2
<1>4. Cardinality(above) < Cardinality(Block)
  <2> HIDE DEF above
  <2> QED
    BY <1>3, FS_Subset, FS_CardinalityType
<1>5. Cardinality(above) \in Nat /\ Cardinality(Block) \in Nat /\ SideRowsCap \in Nat
  <2> HIDE DEF above
  <2> QED
    BY <1>3, FS_Subset, FS_CardinalityType, ManagerParams
<1> QED
  BY <1>4, <1>5

\* A block above one whose branch fails validation is on such a branch
\* itself (AncNests).
LEMMA FlagsClimb ==
    ASSUME NEW b \in Block, NEW x \in Anc[b], Anc[x] \cap BadBody # {}
    PROVE  Anc[b] \cap BadBody # {}
BY AncNests

\* Every pass keeps Clean: no header of a selected branch is without a row,
\* so only a block that fails validation is flagged (try_adopt).
LEMMA PassClean ==
    ASSUME Inv, Clean, NEW best \in Block, Pass(best)
    PROVE  Clean'
<1>1. CASE SkipMissing(best) \/ RefuseBranch(best) \/ GiveUp(best) \/ CommitFails(best)
  BY <1>1 DEF SkipMissing, RefuseBranch, GiveUp, CommitFails, memory, disk, Clean
<1>2. CASE RejectRawless(best)
  <2>1. best \in indexed
    BY <1>2, SelectedClean DEF RejectRawless, TryAdopt
  <2>2. Anc[best] \subseteq dSide \cup {Genesis}
    BY <2>1 DEF Inv, ArenaClosed, Clean
  <2>3. Genesis \in Anc[tip]
    BY TreeRoot DEF Inv, TypeOK
  <2>4. RawMissing(best) = {}
    BY <2>2, <2>3 DEF RawMissing, Apply, HaveRaw, StoredHeader
  <2> QED
    BY <1>2, <2>4 DEF RejectRawless, Lowest
<1>3. CASE RejectBody(best)
  <2>1. PICK b \in Lowest(BodyFails(best)) : Invalidate(b)
    BY <1>3 DEF RejectBody
  <2>2. b \in BadBody /\ b \in Block
    BY <2>1, TreeTypes DEF Lowest, BodyFails, Clean
  <2>3. b \in Anc[b]
    BY <2>2, TreeLinear
  <2>4. /\ invalid' = invalid \cup {c \in indexed : b \in Anc[c]}
        /\ dInvalid' \subseteq dInvalid \cup {b}
        /\ UNCHANGED <<indexed, garbled, dSide>>
    BY <2>1 DEF Invalidate, Written
  <2> QED
    BY <2>2, <2>3, <2>4 DEF Clean
<1>4. CASE Adopt(best)
  BY <1>4 DEF Adopt, Clean
<1> QED
  BY <1>1, <1>2, <1>3, <1>4 DEF Pass

\* Every step keeps Clean: a promoted header is written down before the
\* arena can lose it, and a readmitted or rebuilt one takes its flag from a
\* header below it (ingest_headers, readmit_persisted_header,
\* rebuild_side_arena).
LEMMA NextClean ==
    ASSUME Garbled = {}, "side" \notin Faults,
           IsFiniteSet(Block), Cardinality(Block) <= SideRowsCap,
           Inv, Clean, [Next]_vars
    PROVE  Clean'
<1>1. CASE Tick \/ Settle \/ UNCHANGED vars
  BY <1>1 DEF Tick, Settle, vars, memory, disk, Clean
<1>2. ASSUME NEW run \in SUBSET Block, ConnectHeaders(run)
      PROVE  Clean'
  <2>1. dSide' = CapRows(dSide \cup run)
    <3>1. run \ {} = run
      OBVIOUS
    <3> QED
      BY <1>2, <3>1 DEF ConnectHeaders
  <2>2. dSide \cup run \in SUBSET Block
    BY DEF Inv, TypeOK
  <2>3. dSide' = dSide \cup run
    BY <2>1, <2>2, CapKeeps
  <2>4. /\ indexed' = indexed \cup run
        /\ invalid' = invalid \cup {b \in run \ indexed : Anc[b] \cap invalid # {}}
        /\ garbled' = garbled /\ dInvalid' = dInvalid
    BY <1>2 DEF ConnectHeaders
  <2>5. ASSUME NEW b \in run, Anc[b] \cap invalid # {}
        PROVE  Anc[b] \cap BadBody # {}
    <3>1. PICK x \in Anc[b] : x \in invalid
      BY <2>5
    <3> QED
      BY <3>1, FlagsClimb DEF Clean
  <2> QED
    BY <2>3, <2>4, <2>5 DEF Clean
<1>3. ASSUME NEW b \in Block, NEW good \in BOOLEAN, SubmitBlock(b, good), good
      PROVE  Clean'
  <2>1. /\ b \in indexed \/ (StoredHeader(b) /\ prev[b] \in indexed)
        /\ indexed' = indexed \cup {b}
        /\ invalid' \subseteq invalid \cup {b}
        /\ b \in invalid' => b \in invalid \/ (b \notin indexed /\ ReadmitFlagged(b))
        /\ garbled' = garbled /\ dSide' = dSide /\ dInvalid' = dInvalid
    BY <1>3 DEF SubmitBlock, disk
  <2>2. b \in dSide \cup {Genesis}
    <3>1. Anc[dTip] \subseteq indexed
      BY DEF Inv, TypeOK, ArenaClosed
    <3> QED
      BY <2>1, <3>1 DEF StoredHeader, Clean
  <2>3. ASSUME b \in invalid'
        PROVE  Anc[b] \cap BadBody # {}
    <3>1. CASE b \in invalid \cup dInvalid
      BY <3>1 DEF Clean
    <3>2. CASE b \notin indexed /\ prev[b] \in invalid
      <4>1. b # Genesis
        BY <3>2, TreeRoot, TreeTypes DEF Inv, TypeOK, ArenaClosed
      <4>2. prev[b] \in Block /\ prev[b] \in Anc[b]
        BY <4>1, TreeTypes, TreeStep, TreeLinear
      <4> QED
        BY <3>2, <4>2, FlagsClimb DEF Clean
    <3> QED
      BY <2>1, <2>3, <3>1, <3>2 DEF ReadmitFlagged
  <2> QED
    BY <2>1, <2>2, <2>3 DEF Clean
<1>4. ASSUME NEW cp \in Block, SubmitCheckpoint(cp)
      PROVE  Clean'
  BY <1>4 DEF SubmitCheckpoint, Clean
<1>5. CASE Restart
  <2> DEFINE side == {b \in RowsRead : Anc[b] \subseteq Anc[dTip] \cup RowsRead} \ Anc[dTip]
  <2>1. /\ indexed' = Anc[dTip] \cup side
        /\ invalid' = {b \in side : Anc[b] \cap side \cap dInvalid # {}}
        /\ garbled' = {} /\ dSide' = dSide /\ dInvalid' = dInvalid
    BY <1>5 DEF Restart, LoadedChain, LoadedTip, disk
  <2>2. Anc[dTip] \subseteq dSide \cup {Genesis}
    BY DEF Inv, TypeOK, ArenaClosed, Clean
  <2>3. side \subseteq dSide /\ side \subseteq Block
    BY DEF RowsRead, Inv, TypeOK
  <2>4. ASSUME NEW b \in side, Anc[b] \cap side \cap dInvalid # {}
        PROVE  Anc[b] \cap BadBody # {}
    <3>1. PICK x \in Anc[b] : x \in dInvalid
      BY <2>4
    <3>2. b \in Block
      BY <2>3
    <3> HIDE DEF side
    <3> QED
      BY <3>1, <3>2, FlagsClimb DEF Clean
  <2> QED
    BY <2>1, <2>2, <2>3, <2>4 DEF Clean
<1>6. CASE Command
  <2>1. Signed \subseteq Block
    BY ManagerParams
  <2>2. CASE \E b \in Block : SubmitBlock(b, TRUE)
    BY <2>2, <1>3
  <2> QED
    BY <1>1, <1>2, <1>4, <1>6, <2>1, <2>2 DEF Command
<1>7. CASE \E best \in Block : Pass(best)
  BY <1>7, PassClean
<1> QED
  BY <1>1, <1>5, <1>6, <1>7 DEF Next, Advance

\* A header is flagged only when a block of its branch fails validation: no
\* order of headers, bodies, refusals, failed commits and restarts poisons a
\* valid branch.  The hypotheses are those under which it holds: a branch
\* whose side row was lost or evicted is flagged by try_adopt for want of its
\* raw header, and one whose body arrived garbled for failing validation.
THEOREM NeverPoisoned ==
    ASSUME Garbled = {}, "side" \notin Faults,
           IsFiniteSet(Block), Cardinality(Block) <= SideRowsCap
    PROVE  Spec => []ValidNeverPoisoned
<1>1. Init => Clean
  BY DEF Init, Clean
<1>2. Inv /\ Clean /\ [Next]_vars => Clean'
  BY NextClean
<1>3. Clean => ValidNeverPoisoned
  BY DEF Clean, ValidNeverPoisoned
<1> QED
  BY <1>1, <1>2, <1>3, Invariance, PTL DEF Spec

-----------------------------------------------------------------------------
(***************************************************************************)
(* The pool fits the chain it stands on, for every set of transactions,    *)
(* accounts and blocks and for all caps: proofs about Mempool.             *)
(*                                                                         *)
(* The invariant relates three things that different steps change: the     *)
(* chain, every block of which is valid where it stands; the marks of the  *)
(* pool, the run from each account's nonce; and the memo of that nonce,    *)
(* from which an expiry sets marks anew.  From valid blocks follows what   *)
(* the accounts need: nonces are used once and what may be spent is never  *)
(* negative.                                                               *)
(***************************************************************************)

-----------------------------------------------------------------------------
(* Sums over finite sets.                                                  *)

\* The partial sums of f over the subsets of S, one element after another.
Partial(f, S) ==
    CHOOSE iter : iter = [s \in SUBSET S |->
        IF s = {} THEN 0 ELSE f[CHOOSE x \in s : TRUE] + iter[s \ {CHOOSE x \in s : TRUE}]]
\* The element CHOOSE takes of a set.
AnyOf(s) == CHOOSE x \in s : TRUE

\* The library's sum of a function over a set is the last of the partial sums.
LEMMA SumUnfolds ==
    ASSUME NEW f, NEW S
    PROVE  SumFunctionOnSet(f, S) = Partial(f, S)[S]
<1> DEFINE iter[s \in SUBSET S] == IF s = {} THEN 0 ELSE f[CHOOSE x \in s : TRUE] + iter[s \ {CHOOSE x \in s : TRUE}]
<1>1. SumFunctionOnSet(f, S) = iter[S]
  BY Zenon DEF SumFunctionOnSet, FoldFunctionOnSet, MapThenFoldSet
<1>2. iter = Partial(f, S)
  BY Zenon DEF Partial
<1> QED
  BY <1>1, <1>2

\* A set that is not empty holds the element CHOOSE takes of it.
LEMMA AnyIs ==
    ASSUME NEW s, s # {}
    PROVE  AnyOf(s) \in s
BY DEF AnyOf

\* The partial sums exist: those of the sets of k elements from those of k - 1.
LEMMA PartialIs ==
    ASSUME NEW f, NEW S, IsFiniteSet(S), \A x \in S : f[x] \in Int
    PROVE  /\ Partial(f, S) \in [SUBSET S -> Int]
           /\ \A s \in SUBSET S : Partial(f, S)[s] = IF s = {} THEN 0 ELSE f[AnyOf(s)] + Partial(f, S)[s \ {AnyOf(s)}]
<1> DEFINE X == [SUBSET S -> Int]
           n == Cardinality(S)
           x0 == [s \in SUBSET S |-> 0]
           Next1(h) == [s \in SUBSET S |-> IF s = {} THEN 0 ELSE f[AnyOf(s)] + h[s \ {AnyOf(s)}]]
           G == [p \in (1..n) \X X |-> Next1(p[2])]
<1>1. n \in Nat
  BY FS_CardinalityType
<1>2. \A h \in X : Next1(h) \in X
  <2> SUFFICES ASSUME NEW h \in X, NEW s \in SUBSET S, s # {}
               PROVE  f[AnyOf(s)] + h[s \ {AnyOf(s)}] \in Int
    OBVIOUS
  <2>1. AnyOf(s) \in S /\ s \ {AnyOf(s)} \in SUBSET S
    BY AnyIs
  <2>2. f[AnyOf(s)] \in Int /\ h[s \ {AnyOf(s)}] \in Int
    BY <2>1
  <2> QED
    BY <2>2
<1>3. x0 \in X
  OBVIOUS
<1>4. G \in [(1..n) \X X -> X]
  <2> HIDE DEF X, Next1
  <2> QED
    BY <1>2
<1>5. PICK g : Iterates(g, n, X, x0, G)
  <2> HIDE DEF X, n, x0, G
  <2> QED
    BY <1>1, <1>3, <1>4, IterationExists
<1>6. g \in [0..n -> X] /\ \A k \in 1..n : g[k] = G[<<k, g[k - 1]>>]
  <2> HIDE DEF X, n, x0, G
  <2> QED
    BY <1>5, Zenon DEF Iterates
<1>7. \A k \in 1..n : g[k - 1] \in X /\ g[k] = Next1(g[k - 1])
  <2> HIDE DEF X, n, Next1
  <2> TAKE k \in 1..n
  <2>1. k - 1 \in 0..n
    BY <1>1
  <2>2. g[k - 1] \in X
    BY <1>6, <2>1
  <2> QED
    BY <1>6, <2>2
<1> DEFINE h == [s \in SUBSET S |-> IF s = {} THEN 0 ELSE g[Cardinality(s)][s]]
<1>8. \A s \in SUBSET S : s # {} => Cardinality(s) \in 1..n /\ Cardinality(s \ {AnyOf(s)}) = Cardinality(s) - 1
                                   /\ s \ {AnyOf(s)} \in SUBSET S
  <2> TAKE s \in SUBSET S
  <2> HAVE s # {}
  <2>1. IsFiniteSet(s) /\ Cardinality(s) <= n /\ Cardinality(s) \in Nat
    BY FS_Subset, FS_CardinalityType
  <2>2. Cardinality(s) # 0
    BY <2>1, FS_EmptySet
  <2>3. AnyOf(s) \in s
    BY AnyIs
  <2>4. Cardinality(s \ {AnyOf(s)}) = Cardinality(s) - 1
    BY <2>1, <2>3, FS_RemoveElement
  <2> HIDE DEF n
  <2> QED
    BY <1>1, <2>1, <2>2, <2>4
<1>9. h \in X
  <2> SUFFICES ASSUME NEW s \in SUBSET S, s # {} PROVE g[Cardinality(s)][s] \in Int
    OBVIOUS
  <2>1. Cardinality(s) \in 0..n
    <3>1. Cardinality(s) \in 1..n
      BY <1>8
    <3> HIDE DEF n
    <3> QED
      BY <1>1, <3>1
  <2>2. g[Cardinality(s)] \in X
    <3> HIDE DEF X, n
    <3> QED
      BY <1>6, <2>1
  <2> QED
    BY <2>2
<1>10. \A s \in SUBSET S : h[s] = IF s = {} THEN 0 ELSE f[AnyOf(s)] + h[s \ {AnyOf(s)}]
  <2> TAKE s \in SUBSET S
  <2>1. CASE s = {}
    BY <2>1
  <2>2. CASE s # {}
    <3>1. PICK k, r : k = Cardinality(s) /\ r = s \ {AnyOf(s)}
      OBVIOUS
    <3>2. k \in 1..n /\ Cardinality(r) = k - 1 /\ r \in SUBSET S
      <4> HIDE DEF n
      <4> QED
        BY <1>8, <2>2, <3>1
    <3>3. h[s] = g[k][s]
      BY <2>2, <3>1
    <3>4. g[k][s] = f[AnyOf(s)] + g[k - 1][r]
      <4>1. g[k] = Next1(g[k - 1])
        <5> HIDE DEF Next1, X, n
        <5> QED
          BY <1>7, <3>2
      <4>2. Next1(g[k - 1])[s] = f[AnyOf(s)] + g[k - 1][r]
        BY <2>2, <3>1
      <4> QED
        BY <4>1, <4>2
    <3>5. CASE r # {}
      BY <3>1, <3>2, <3>3, <3>4, <3>5, <2>2
    <3>6. CASE r = {}
      <4>1. k = 1
        BY <3>2, <3>6, FS_EmptySet
      <4>2. g[0][r] = 0
        <5>1. g[0] = x0
          <6> HIDE DEF X, n, x0, G
          <6> QED
            BY <1>5, Zenon DEF Iterates
        <5> QED
          BY <5>1, <3>2
      <4> QED
        BY <3>1, <3>2, <3>3, <3>4, <3>6, <4>1, <4>2, <2>2
    <3> QED
      BY <3>5, <3>6
  <2> QED
    BY <2>1, <2>2
<1> HIDE DEF h
<1>11. h = [s \in SUBSET S |->
        IF s = {} THEN 0 ELSE f[CHOOSE x \in s : TRUE] + h[s \ {CHOOSE x \in s : TRUE}]]
  <2>1. h = [s \in SUBSET S |-> h[s]]
    BY <1>9
  <2>2. \A s \in SUBSET S : h[s] = IF s = {} THEN 0 ELSE f[CHOOSE x \in s : TRUE] + h[s \ {CHOOSE x \in s : TRUE}]
    BY <1>10, Zenon DEF AnyOf
  <2> QED
    BY <2>1, <2>2, Zenon
<1> DEFINE iter[s \in SUBSET S] == IF s = {} THEN 0 ELSE f[CHOOSE x \in s : TRUE] + iter[s \ {CHOOSE x \in s : TRUE}]
<1>16. iter = [s \in SUBSET S |->
        IF s = {} THEN 0 ELSE f[CHOOSE x \in s : TRUE] + iter[s \ {CHOOSE x \in s : TRUE}]]
  <2> HIDE DEF X, G, n
  <2> QED
    BY <1>11
<1>17. iter = Partial(f, S)
  BY Zenon DEF Partial
<1> HIDE DEF iter
<1>12. PICK p : p = Partial(f, S)
  OBVIOUS
<1>13. p = [s \in SUBSET S |->
        IF s = {} THEN 0 ELSE f[CHOOSE x \in s : TRUE] + p[s \ {CHOOSE x \in s : TRUE}]]
  BY <1>12, <1>16, <1>17, Zenon
<1>14. \A s \in SUBSET S : p[s] = IF s = {} THEN 0 ELSE f[AnyOf(s)] + p[s \ {AnyOf(s)}]
  <2>1. \A s \in SUBSET S : p[s] = IF s = {} THEN 0 ELSE f[CHOOSE x \in s : TRUE] + p[s \ {CHOOSE x \in s : TRUE}]
    BY <1>13, Zenon
  <2> QED
    BY <2>1, Zenon DEF AnyOf
<1>15. p = h
  <2> DEFINE bad == {k \in 0..n : \E s \in SUBSET S : Cardinality(s) = k /\ p[s] # h[s]}
  <2>1. bad = {}
    <3> SUFFICES ASSUME bad # {} PROVE FALSE
      OBVIOUS
    <3>1. bad \subseteq Nat
      OBVIOUS
    <3>2. PICK k \in bad : \A j \in bad : k <= j
      <4> HIDE DEF bad
      <4> QED
        BY <3>1, LeastExists
    <3>3. PICK s \in SUBSET S : Cardinality(s) = k /\ p[s] # h[s]
      BY <3>2
    <3>4. s # {}
      BY <1>10, <1>14, <3>3
    <3>5. PICK r : r = s \ {AnyOf(s)}
      OBVIOUS
    <3>6. r \in SUBSET S /\ Cardinality(r) = k - 1 /\ k \in 1..n
      <4> HIDE DEF n
      <4> QED
        BY <1>8, <3>3, <3>4, <3>5
    <3>7. p[r] = h[r]
      <4>1. ~(k <= k - 1) /\ k - 1 \in 0..n
        <5> HIDE DEF n
        <5> QED
          BY <1>1, <3>6
      <4>2. k - 1 \notin bad
        <5> HIDE DEF bad
        <5> QED
          BY <3>2, <4>1
      <4> QED
        BY <3>6, <4>1, <4>2
    <3> QED
      BY <1>10, <1>14, <3>3, <3>4, <3>5, <3>7
  <2>2. \A s \in SUBSET S : p[s] = h[s]
    <3> TAKE s \in SUBSET S
    <3>1. Cardinality(s) \in 0..n
      <4>1. IsFiniteSet(s) /\ Cardinality(s) <= n /\ Cardinality(s) \in Nat
        BY FS_Subset, FS_CardinalityType
      <4> HIDE DEF n
      <4> QED
        BY <1>1, <4>1
    <3> QED
      BY <2>1, <3>1
  <2>3. p = [s \in SUBSET S |-> p[s]] /\ h = [s \in SUBSET S |-> h[s]]
    <3>1. DOMAIN p = SUBSET S /\ p = [s \in DOMAIN p |-> p[s]]
      BY <1>13
    <3> QED
      BY <3>1, <1>9
  <2> QED
    BY <2>2, <2>3
<1> QED
  BY <1>9, <1>10, <1>12, <1>15

\* Induction over the subsets of a finite set, as a statement about a set of them.
LEMMA SubsetsUpTo ==
    ASSUME NEW S, IsFiniteSet(S), NEW P, {} \in P,
           \A s \in SUBSET S : s # {} /\ (\A x \in s : s \ {x} \in P) => s \in P
    PROVE  \A s \in SUBSET S : s \in P
<1> DEFINE bad == {k \in Nat : \E s \in SUBSET S : Cardinality(s) = k /\ s \notin P}
<1>1. \A s \in SUBSET S : IsFiniteSet(s) /\ Cardinality(s) \in Nat
  BY FS_Subset, FS_CardinalityType
<1>2. bad = {}
  <2> SUFFICES ASSUME bad # {} PROVE FALSE
    OBVIOUS
  <2>1. bad \subseteq Nat
    OBVIOUS
  <2>2. PICK k \in bad : \A j \in bad : k <= j
    <3> HIDE DEF bad
    <3> QED
      BY <2>1, LeastExists
  <2>3. PICK s \in SUBSET S : Cardinality(s) = k /\ s \notin P
    BY <2>2
  <2>4. s # {}
    BY <2>3
  <2>5. ASSUME NEW x \in s PROVE s \ {x} \in P
    <3>1. Cardinality(s \ {x}) = k - 1 /\ s \ {x} \in SUBSET S
      BY <1>1, <2>3, FS_RemoveElement
    <3>2. k - 1 \in Nat /\ ~(k <= k - 1)
      BY <1>1, <2>2, <3>1
    <3>3. k - 1 \notin bad
      <4> HIDE DEF bad
      <4> QED
        BY <2>2, <3>2
    <3> QED
      BY <3>1, <3>2, <3>3
  <2> QED
    BY <2>3, <2>4, <2>5
<1> QED
  BY <1>1, <1>2

\* The partial sums over a subset are those over the whole set.
LEMMA PartialSame ==
    ASSUME NEW f, NEW S, IsFiniteSet(S), \A x \in S : f[x] \in Int, NEW T \in SUBSET S
    PROVE  \A s \in SUBSET T : Partial(f, T)[s] = Partial(f, S)[s]
<1> DEFINE P == {s \in SUBSET T : Partial(f, T)[s] = Partial(f, S)[s]}
<1>1. IsFiniteSet(T) /\ \A x \in T : f[x] \in Int
  BY FS_Subset
<1>2. \A s \in SUBSET T : Partial(f, T)[s] = IF s = {} THEN 0 ELSE f[AnyOf(s)] + Partial(f, T)[s \ {AnyOf(s)}]
  BY <1>1, PartialIs
<1>3. \A s \in SUBSET S : Partial(f, S)[s] = IF s = {} THEN 0 ELSE f[AnyOf(s)] + Partial(f, S)[s \ {AnyOf(s)}]
  BY PartialIs, ZenonT(40)
<1>4. {} \in P
  BY <1>2, <1>3
<1>5. ASSUME NEW s \in SUBSET T, s # {}, \A x \in s : s \ {x} \in P
      PROVE  s \in P
  <2>1. AnyOf(s) \in s /\ s \in SUBSET S
    BY <1>5, AnyIs
  <2>2. Partial(f, T)[s \ {AnyOf(s)}] = Partial(f, S)[s \ {AnyOf(s)}]
    BY <1>5, <2>1
  <2> QED
    BY <1>2, <1>3, <1>5, <2>1, <2>2
<1>6. \A s \in SUBSET T : s \in P
  <2> HIDE DEF P
  <2> QED
    BY <1>1, <1>4, <1>5, SubsetsUpTo
<1> QED
  BY <1>6

\* A sum is the chosen element's value and the sum of the rest.
LEMMA SumStep ==
    ASSUME NEW f, NEW S, IsFiniteSet(S), \A x \in S : f[x] \in Int
    PROVE  /\ SumFunctionOnSet(f, S) \in Int
           /\ S = {} => SumFunctionOnSet(f, S) = 0
           /\ S # {} => SumFunctionOnSet(f, S) = f[AnyOf(S)] + SumFunctionOnSet(f, S \ {AnyOf(S)})
<1>1. /\ Partial(f, S) \in [SUBSET S -> Int]
      /\ \A s \in SUBSET S : Partial(f, S)[s] = IF s = {} THEN 0 ELSE f[AnyOf(s)] + Partial(f, S)[s \ {AnyOf(s)}]
  BY PartialIs
<1>2. SumFunctionOnSet(f, S) = Partial(f, S)[S] /\ S \in SUBSET S
  BY SumUnfolds
<1>3. ASSUME S # {}
      PROVE  SumFunctionOnSet(f, S) = f[AnyOf(S)] + SumFunctionOnSet(f, S \ {AnyOf(S)})
  <2>1. PICK r : r = S \ {AnyOf(S)}
    OBVIOUS
  <2>2. r \in SUBSET S /\ r \in SUBSET r
    BY <2>1
  <2>3. Partial(f, r)[r] = Partial(f, S)[r]
    BY <2>2, PartialSame
  <2>4. SumFunctionOnSet(f, r) = Partial(f, r)[r]
    BY SumUnfolds
  <2>5. Partial(f, S)[S] = f[AnyOf(S)] + Partial(f, S)[r]
    BY <1>1, <1>2, <1>3, <2>1, Zenon
  <2> QED
    BY <1>2, <2>1, <2>3, <2>4, <2>5
<1> QED
  BY <1>1, <1>2, <1>3

\* The order does not matter: any element may come last.
LEMMA SumRemove ==
    ASSUME NEW f, NEW S, IsFiniteSet(S), \A x \in S : f[x] \in Int
    PROVE  \A x \in S : SumFunctionOnSet(f, S) = f[x] + SumFunctionOnSet(f, S \ {x})
<1> DEFINE Sum(s) == SumFunctionOnSet(f, s)
           P == {s \in SUBSET S : \A x \in s : Sum(s) = f[x] + Sum(s \ {x})}
<1>1. \A s \in SUBSET S : IsFiniteSet(s) /\ (\A x \in s : f[x] \in Int)
  BY FS_Subset
<1>2. \A s \in SUBSET S : Sum(s) \in Int /\ (s # {} => Sum(s) = f[AnyOf(s)] + Sum(s \ {AnyOf(s)}))
  BY <1>1, SumStep
<1> HIDE DEF Sum
<1>3. {} \in P
  OBVIOUS
<1>4. ASSUME NEW s \in SUBSET S, s # {}, \A x \in s : s \ {x} \in P
      PROVE  s \in P
  <2>1. PICK y : y = AnyOf(s)
    OBVIOUS
  <2>2. y \in s
    BY <1>4, <2>1, AnyIs
  <2>3. Sum(s) = f[y] + Sum(s \ {y})
    BY <1>2, <1>4, <2>1
  <2>4. ASSUME NEW x \in s, x # y
        PROVE  Sum(s) = f[x] + Sum(s \ {x})
    <3>1. x \in s \ {y} /\ y \in s \ {x} /\ s \ {y} \in P /\ s \ {x} \in P
      BY <1>4, <2>2, <2>4
    <3>2. Sum(s \ {y}) = f[x] + Sum((s \ {y}) \ {x}) /\ Sum(s \ {x}) = f[y] + Sum((s \ {x}) \ {y})
      BY <3>1
    <3>3. (s \ {y}) \ {x} = (s \ {x}) \ {y} /\ (s \ {y}) \ {x} \in SUBSET S
      OBVIOUS
    <3>4. f[x] \in Int /\ f[y] \in Int /\ Sum((s \ {y}) \ {x}) \in Int
      BY <1>2, <2>2, <3>3
    <3>5. Sum((s \ {x}) \ {y}) = Sum((s \ {y}) \ {x})
      BY <3>3
    <3> QED
      BY <2>3, <3>2, <3>4, <3>5
  <2> QED
    BY <2>3, <2>4
<1>5. \A s \in SUBSET S : s \in P
  <2> HIDE DEF P
  <2> QED
    BY <1>3, <1>4, SubsetsUpTo
<1>6. S \in P
  <2> HIDE DEF P
  <2> QED
    BY <1>5
<1> QED
  BY <1>6 DEF Sum

\* Nothing sums to zero.
LEMMA SumEmpty ==
    ASSUME NEW f
    PROVE  SumFunctionOnSet(f, {}) = 0
<1>1. IsFiniteSet({}) /\ \A x \in {} : f[x] \in Int
  BY FS_EmptySet
<1> QED
  BY <1>1, SumStep

\* Two functions that agree on a set have the same sum.
LEMMA SumSame ==
    ASSUME NEW f, NEW g, NEW S, IsFiniteSet(S), \A x \in S : f[x] \in Int /\ g[x] = f[x]
    PROVE  SumFunctionOnSet(g, S) = SumFunctionOnSet(f, S)
<1> DEFINE P == {s \in SUBSET S : SumFunctionOnSet(g, s) = SumFunctionOnSet(f, s)}
<1>1. \A s \in SUBSET S : IsFiniteSet(s) /\ (\A x \in s : f[x] \in Int) /\ (\A x \in s : g[x] \in Int)
  BY FS_Subset
<1>2. {} \in P
  <2>1. IsFiniteSet({}) /\ (\A x \in {} : f[x] \in Int) /\ (\A x \in {} : g[x] \in Int)
    BY <1>1
  <2>2. SumFunctionOnSet(f, {}) = 0 /\ SumFunctionOnSet(g, {}) = 0
    BY <2>1, SumStep
  <2> QED
    BY <2>2
<1>3. ASSUME NEW s \in SUBSET S, s # {}, \A x \in s : s \ {x} \in P
      PROVE  s \in P
  <2>1. PICK x \in s : TRUE
    BY <1>3
  <2>2. SumFunctionOnSet(f, s) = f[x] + SumFunctionOnSet(f, s \ {x})
    BY <1>1, SumRemove
  <2>3. SumFunctionOnSet(g, s) = g[x] + SumFunctionOnSet(g, s \ {x})
    BY <1>1, SumRemove
  <2> QED
    BY <1>3, <2>1, <2>2, <2>3
<1>4. \A s \in SUBSET S : s \in P
  <2> HIDE DEF P
  <2> QED
    BY <1>2, <1>3, SubsetsUpTo
<1>5. S \in P
  <2> HIDE DEF P
  <2> QED
    BY <1>4
<1> QED
  BY <1>5

\* The sum over two sets that do not meet.
LEMMA SumUnion ==
    ASSUME NEW f, NEW A, NEW B, IsFiniteSet(A), IsFiniteSet(B), A \cap B = {},
           \A x \in A : f[x] \in Int, \A x \in B : f[x] \in Int
    PROVE  SumFunctionOnSet(f, A \cup B) = SumFunctionOnSet(f, A) + SumFunctionOnSet(f, B)
<1> DEFINE Sum(s) == SumFunctionOnSet(f, s)
           P == {s \in SUBSET B : Sum(A \cup s) = Sum(A) + Sum(s)}
<1>1. \A s \in SUBSET B : IsFiniteSet(s) /\ IsFiniteSet(A \cup s) /\ (\A x \in A \cup s : f[x] \in Int)
  BY FS_Subset, FS_Union
<1>2. \A s \in SUBSET B : Sum(s) \in Int /\ Sum(A \cup s) \in Int
  <2> TAKE s \in SUBSET B
  <2>1. \A x \in s : f[x] \in Int
    OBVIOUS
  <2> QED
    BY <1>1, <2>1, SumStep
<1>3. Sum(A) \in Int /\ Sum({}) = 0
  <2>1. IsFiniteSet({}) /\ \A x \in {} : f[x] \in Int
    BY FS_EmptySet
  <2> QED
    BY <2>1, SumStep
<1>4. {} \in P
  <2>1. A \cup {} = A
    OBVIOUS
  <2> HIDE DEF Sum
  <2> QED
    BY <1>3, <2>1
<1>5. ASSUME NEW s \in SUBSET B, s # {}, \A x \in s : s \ {x} \in P
      PROVE  s \in P
  <2>1. PICK x \in s : TRUE
    BY <1>5
  <2>2. Sum(s) = f[x] + Sum(s \ {x})
    <3>1. IsFiniteSet(s) /\ \A y \in s : f[y] \in Int
      BY <1>1
    <3> QED
      BY <2>1, <3>1, SumRemove
  <2>3. Sum(A \cup s) = f[x] + Sum((A \cup s) \ {x})
    <3>1. x \in A \cup s
      BY <2>1
    <3> QED
      BY <1>1, <3>1, SumRemove
  <2>4. (A \cup s) \ {x} = A \cup (s \ {x})
    BY <2>1
  <2>5. Sum(A \cup (s \ {x})) = Sum(A) + Sum(s \ {x})
    BY <1>5, <2>1
  <2>6. f[x] \in Int /\ Sum(s \ {x}) \in Int
    BY <1>2, <2>1
  <2>7. Sum(A \cup s) = Sum(A) + Sum(s)
    <3> HIDE DEF Sum
    <3>1. PICK a, v, w : a = Sum(A) /\ v = f[x] /\ w = Sum(s \ {x})
      OBVIOUS
    <3>2. a \in Int /\ v \in Int /\ w \in Int
      BY <1>3, <2>6, <3>1
    <3>3. Sum((A \cup s) \ {x}) = a + w
      BY <2>4, <2>5, <3>1, Zenon
    <3>4. Sum(A \cup s) = v + (a + w) /\ Sum(s) = v + w
      BY <2>2, <2>3, <3>1, <3>3
    <3>5. v + (a + w) = a + (v + w)
      BY <3>2
    <3> QED
      BY <3>1, <3>4, <3>5
  <2> QED
    BY <2>7
<1>6. \A s \in SUBSET B : s \in P
  <2> HIDE DEF P
  <2> QED
    BY <1>4, <1>5, SubsetsUpTo
<1>7. B \in P
  <2> HIDE DEF P
  <2> QED
    BY <1>6
<1> QED
  BY <1>7

\* A sum of numbers that are not negative grows with the set.
LEMMA SumGrows ==
    ASSUME NEW f, NEW B, IsFiniteSet(B), NEW A \in SUBSET B, \A x \in B : f[x] \in Nat
    PROVE  /\ SumFunctionOnSet(f, A) \in Nat /\ SumFunctionOnSet(f, B) \in Nat
           /\ SumFunctionOnSet(f, A) <= SumFunctionOnSet(f, B)
<1> DEFINE Sum(s) == SumFunctionOnSet(f, s)
           P == {s \in SUBSET B : Sum(s) \in Nat}
<1>1. \A s \in SUBSET B : IsFiniteSet(s) /\ (\A x \in s : f[x] \in Int)
  BY FS_Subset
<1>2. {} \in P
  <2>1. Sum({}) = 0
    BY SumEmpty
  <2> QED
    BY <2>1
<1>3. ASSUME NEW s \in SUBSET B, s # {}, \A x \in s : s \ {x} \in P
      PROVE  s \in P
  <2>1. PICK x \in s : TRUE
    BY <1>3
  <2>2. Sum(s) = f[x] + Sum(s \ {x})
    BY <1>1, SumRemove
  <2>3. Sum(s \ {x}) \in Nat /\ f[x] \in Nat
    BY <1>3, <2>1
  <2> QED
    BY <2>2, <2>3
<1>4. \A s \in SUBSET B : s \in P
  <2> HIDE DEF P
  <2> QED
    BY <1>2, <1>3, SubsetsUpTo
<1>5. \A s \in SUBSET B : Sum(s) \in Nat
  BY <1>4
<1>6. Sum(A \cup (B \ A)) = Sum(A) + Sum(B \ A)
  <2>1. IsFiniteSet(A) /\ IsFiniteSet(B \ A) /\ A \cap (B \ A) = {}
    BY <1>1
  <2> QED
    BY <2>1, SumUnion
<1>7. A \cup (B \ A) = B
  OBVIOUS
<1>8. Sum(A) \in Nat /\ Sum(B) \in Nat /\ Sum(B \ A) \in Nat
  <2>1. B \ A \in SUBSET B /\ B \in SUBSET B
    OBVIOUS
  <2> QED
    BY <1>5, <2>1
<1>9. Sum(A) <= Sum(B)
  <2> HIDE DEF Sum
  <2> QED
    BY <1>6, <1>7, <1>8
<1> QED
  BY <1>8, <1>9

-----------------------------------------------------------------------------
(* What blocks and transactions move.                                      *)

\* Chains every block of which was valid where it stands.
Chains == {c \in Seq(MinedBlocks) : \A k \in 1..Len(c) : validate_block_body(SubSeq(c, 1, k - 1), c[k].txs)}

\* The caps and the other numbers are natural.
LEMMA PoolNumbers ==
    /\ PoolTxs \in Nat /\ SenderTxs \in Nat /\ ReorgCap \in Nat /\ Maturity \in Nat /\ Maturity > ReorgCap
    /\ ReinjectCap \in Nat /\ Reward \in Nat /\ BranchLead \in Nat
BY PoolConstants

\* What a transaction is.
LEMMA TxTypes ==
    ASSUME NEW t \in TxId
    PROVE  /\ From(t) \in Sender /\ TxBody[t].to \in Sender
           /\ Nonce(t) \in Nat /\ Fee(t) \in Nat /\ Amount(t) \in Nat
           /\ Size(t) \in Nat /\ outlay(t) \in Nat /\ fee_per_byte(t) \in Nat
<1>1. /\ TxBody[t].from \in Sender /\ TxBody[t].to \in Sender /\ TxBody[t].nonce \in Nat
      /\ TxBody[t].fee \in Nat /\ TxBody[t].amount \in Nat /\ TxBody[t].size \in Nat \ {0}
  BY PoolConstants
<1>2. \A a \in Nat : \A b \in Nat \ {0} : a \div b \in Nat
  OBVIOUS
<1> QED
  BY <1>1, <1>2 DEF From, Nonce, Fee, Amount, Size, outlay, fee_per_byte

\* A function of every transaction, applied to one.
LEMMA EachIs ==
    /\ \A t \in TxId : Each(Fee)[t] = Fee(t) /\ Each(Size)[t] = Size(t)
    /\ \A t \in TxId : Each(Amount)[t] = Amount(t) /\ Each(outlay)[t] = outlay(t)
BY DEF Each

\* Sums over sets of transactions.
Fees(S) == SumFunctionOnSet(Each(Fee), S)
Amounts(S) == SumFunctionOnSet(Each(Amount), S)
Outlays(S) == SumFunctionOnSet(Each(outlay), S)

\* Sets of transactions are finite.
LEMMA TxSets ==
    ASSUME NEW S \in SUBSET TxId
    PROVE  IsFiniteSet(S) /\ Cardinality(S) \in Nat
BY PoolConstants, FS_Subset, FS_CardinalityType

\* What a set of transactions costs its senders: a number, that one more
\* transaction raises by its outlay and disjoint sets add.
LEMMA OutlaysOf ==
    ASSUME NEW S \in SUBSET TxId
    PROVE  /\ Outlays(S) \in Nat
           /\ \A t \in TxId \ S : Outlays(S \cup {t}) = Outlays(S) + outlay(t)
           /\ \A R \in SUBSET S : Outlays(R) <= Outlays(S)
           /\ \A R \in SUBSET TxId : R \cap S = {} => Outlays(R \cup S) = Outlays(R) + Outlays(S)
<1>1. PICK f : f = Each(outlay)
  OBVIOUS
<1>2. \A t \in TxId : f[t] = outlay(t) /\ f[t] \in Nat
  BY <1>1, EachIs, TxTypes
<1>3. \A R : Outlays(R) = SumFunctionOnSet(f, R)
  BY <1>1 DEF Outlays
<1>4. \A R \in SUBSET TxId : IsFiniteSet(R) /\ (\A t \in R : f[t] \in Nat /\ f[t] \in Int)
  BY <1>2, TxSets
<1>5. SumFunctionOnSet(f, S) \in Nat
  BY <1>4, SumGrows
<1>6. ASSUME NEW t \in TxId \ S PROVE SumFunctionOnSet(f, S \cup {t}) = SumFunctionOnSet(f, S) + outlay(t)
  <2>1. IsFiniteSet(S \cup {t}) /\ (\A x \in S \cup {t} : f[x] \in Int)
    BY <1>4
  <2>2. SumFunctionOnSet(f, S \cup {t}) = f[t] + SumFunctionOnSet(f, (S \cup {t}) \ {t})
    BY <2>1, SumRemove
  <2>3. (S \cup {t}) \ {t} = S
    BY <1>6
  <2>4. SumFunctionOnSet(f, S \cup {t}) = f[t] + SumFunctionOnSet(f, S)
    BY <2>2, <2>3, Zenon
  <2> QED
    BY <1>2, <1>5, <1>6, <2>4
<1>7. ASSUME NEW R \in SUBSET S PROVE SumFunctionOnSet(f, R) <= SumFunctionOnSet(f, S)
  BY <1>4, SumGrows
<1>8. ASSUME NEW R \in SUBSET TxId, R \cap S = {}
      PROVE  SumFunctionOnSet(f, R \cup S) = SumFunctionOnSet(f, R) + SumFunctionOnSet(f, S)
  BY <1>4, <1>8, SumUnion
<1> QED
  BY <1>3, <1>5, <1>6, <1>7, <1>8

\* The same of what it pays.
LEMMA AmountsOf ==
    ASSUME NEW S \in SUBSET TxId
    PROVE  /\ Amounts(S) \in Nat
           /\ \A t \in TxId \ S : Amounts(S \cup {t}) = Amounts(S) + Amount(t)
           /\ \A R \in SUBSET TxId : R \cap S = {} => Amounts(R \cup S) = Amounts(R) + Amounts(S)
<1>1. PICK f : f = Each(Amount)
  OBVIOUS
<1>2. \A t \in TxId : f[t] = Amount(t) /\ f[t] \in Nat
  BY <1>1, EachIs, TxTypes
<1>3. \A R : Amounts(R) = SumFunctionOnSet(f, R)
  BY <1>1 DEF Amounts
<1>4. \A R \in SUBSET TxId : IsFiniteSet(R) /\ (\A t \in R : f[t] \in Nat /\ f[t] \in Int)
  BY <1>2, TxSets
<1>5. SumFunctionOnSet(f, S) \in Nat
  BY <1>4, SumGrows
<1>6. ASSUME NEW t \in TxId \ S PROVE SumFunctionOnSet(f, S \cup {t}) = SumFunctionOnSet(f, S) + Amount(t)
  <2>1. IsFiniteSet(S \cup {t}) /\ (\A x \in S \cup {t} : f[x] \in Int)
    BY <1>4
  <2>2. SumFunctionOnSet(f, S \cup {t}) = f[t] + SumFunctionOnSet(f, (S \cup {t}) \ {t})
    BY <2>1, SumRemove
  <2>3. (S \cup {t}) \ {t} = S
    BY <1>6
  <2>4. SumFunctionOnSet(f, S \cup {t}) = f[t] + SumFunctionOnSet(f, S)
    BY <2>2, <2>3, Zenon
  <2> QED
    BY <1>2, <1>5, <1>6, <2>4
<1>8. ASSUME NEW R \in SUBSET TxId, R \cap S = {}
      PROVE  SumFunctionOnSet(f, R \cup S) = SumFunctionOnSet(f, R) + SumFunctionOnSet(f, S)
  BY <1>4, <1>8, SumUnion
<1> QED
  BY <1>3, <1>5, <1>6, <1>8

\* The fees of a set of transactions are a number that is not negative.
LEMMA FeesAreNat ==
    ASSUME NEW S \in SUBSET TxId
    PROVE  Fees(S) \in Nat
<1>1. PICK f : f = Each(Fee)
  OBVIOUS
<1>2. IsFiniteSet(S) /\ \A t \in S : f[t] \in Nat
  BY <1>1, EachIs, TxTypes, TxSets
<1> QED
  BY <1>1, <1>2, SumGrows DEF Fees

\* What a set of transactions moves to or from an account is an integer.
LEMMA MovedIs ==
    ASSUME NEW S \in SUBSET TxId, NEW s \in Sender
    PROVE  /\ Moved(S, s) = Amounts({t \in S : TxBody[t].to = s}) - Outlays(FromOf(S, s))
           /\ Moved(S, s) \in Int
<1>1. Moved(S, s) = Amounts({t \in S : TxBody[t].to = s}) - Outlays(FromOf(S, s))
  BY Zenon DEF Moved, Amounts, Outlays
<1>2. {t \in S : TxBody[t].to = s} \in SUBSET TxId /\ FromOf(S, s) \in SUBSET TxId
  BY DEF FromOf
<1>3. Amounts({t \in S : TxBody[t].to = s}) \in Nat /\ Outlays(FromOf(S, s)) \in Nat
  BY <1>2, AmountsOf, OutlaysOf
<1> QED
  BY <1>1, <1>3

\* One more transaction takes at most its outlay, from its sender.
LEMMA MovedOne ==
    ASSUME NEW S \in SUBSET TxId, NEW s \in Sender, NEW t \in TxId \ S
    PROVE  Moved(S \cup {t}, s) >= Moved(S, s) - (IF From(t) = s THEN outlay(t) ELSE 0)
<1> DEFINE to(R) == {u \in R : TxBody[u].to = s}
<1>1. S \cup {t} \in SUBSET TxId /\ to(S) \in SUBSET TxId /\ FromOf(S, s) \in SUBSET TxId
  BY DEF FromOf
<1>2. Amounts(to(S \cup {t})) >= Amounts(to(S)) /\ Amounts(to(S \cup {t})) \in Nat /\ Amounts(to(S)) \in Nat
  <2>1. CASE TxBody[t].to = s
    <3>1. to(S \cup {t}) = to(S) \cup {t} /\ t \in TxId \ to(S)
      BY <2>1
    <3>2. Amounts(to(S) \cup {t}) = Amounts(to(S)) + Amount(t) /\ Amounts(to(S)) \in Nat
      BY <1>1, <3>1, AmountsOf
    <3>3. Amount(t) \in Nat
      BY TxTypes
    <3> HIDE DEF to
    <3> QED
      BY <3>1, <3>2, <3>3
  <2>2. CASE TxBody[t].to # s
    <3>1. to(S \cup {t}) = to(S)
      BY <2>2
    <3>2. Amounts(to(S)) \in Nat
      BY <1>1, AmountsOf
    <3> HIDE DEF to
    <3> QED
      BY <3>1, <3>2
  <2> QED
    BY <2>1, <2>2
<1>3. /\ Outlays(FromOf(S \cup {t}, s)) = Outlays(FromOf(S, s)) + (IF From(t) = s THEN outlay(t) ELSE 0)
      /\ Outlays(FromOf(S, s)) \in Nat
  <2>1. CASE From(t) = s
    <3>1. FromOf(S \cup {t}, s) = FromOf(S, s) \cup {t} /\ t \in TxId \ FromOf(S, s)
      BY <2>1 DEF FromOf
    <3> QED
      BY <1>1, <2>1, <3>1, OutlaysOf
  <2>2. CASE From(t) # s
    <3>1. FromOf(S \cup {t}, s) = FromOf(S, s)
      BY <2>2 DEF FromOf
    <3>2. Outlays(FromOf(S, s)) \in Nat
      BY <1>1, OutlaysOf
    <3> QED
      BY <2>2, <3>1, <3>2
  <2> QED
    BY <2>1, <2>2
<1>4. outlay(t) \in Nat
  BY TxTypes
<1>5. /\ Moved(S \cup {t}, s) = Amounts(to(S \cup {t})) - Outlays(FromOf(S \cup {t}, s))
      /\ Moved(S, s) = Amounts(to(S)) - Outlays(FromOf(S, s))
  BY <1>1, MovedIs
<1> HIDE DEF to
<1> QED
  BY <1>2, <1>3, <1>4, <1>5

\* What disjoint sets of transactions move adds up.
LEMMA MovedAdds ==
    ASSUME NEW R \in SUBSET TxId, NEW S \in SUBSET TxId, R \cap S = {}, NEW s \in Sender
    PROVE  Moved(R \cup S, s) = Moved(R, s) + Moved(S, s)
<1> DEFINE to(T) == {u \in T : TxBody[u].to = s}
           fr(T) == FromOf(T, s)
<1>1. \A T \in SUBSET TxId : to(T) \in SUBSET TxId /\ fr(T) \in SUBSET TxId
  BY DEF FromOf
<1>2. to(R \cup S) = to(R) \cup to(S) /\ to(R) \cap to(S) = {}
  OBVIOUS
<1>3. fr(R \cup S) = fr(R) \cup fr(S) /\ fr(R) \cap fr(S) = {}
  BY DEF FromOf
<1>4. \A T \in SUBSET TxId : Moved(T, s) = Amounts(to(T)) - Outlays(fr(T))
  BY MovedIs
<1> HIDE DEF to, fr
<1>5. Amounts(to(R \cup S)) = Amounts(to(R)) + Amounts(to(S))
  BY <1>1, <1>2, AmountsOf
<1>6. Outlays(fr(R \cup S)) = Outlays(fr(R)) + Outlays(fr(S))
  BY <1>1, <1>3, OutlaysOf
<1>7. /\ Amounts(to(R)) \in Nat /\ Amounts(to(S)) \in Nat
      /\ Outlays(fr(R)) \in Nat /\ Outlays(fr(S)) \in Nat
  BY <1>1, AmountsOf, OutlaysOf
<1>8. R \cup S \in SUBSET TxId
  OBVIOUS
<1> QED
  BY <1>4, <1>5, <1>6, <1>7, <1>8

\* What a block is, and what it pays its miner.
LEMMA BlockTypes ==
    ASSUME NEW b \in MinedBlocks
    PROVE  /\ b.to \in Sender /\ b.txs \in Seq(TxId)
           /\ Range(b.txs) \in SUBSET TxId /\ Range(b.txs) = {b.txs[i] : i \in 1..Len(b.txs)}
           /\ coinbase_credit(b) \in Nat
<1>1. b \in [to : Sender, txs : Seq(TxId)]
  BY PoolConstants
<1>2. b.to \in Sender /\ b.txs \in Seq(TxId)
  BY <1>1
<1>3. Range(b.txs) = {b.txs[i] : i \in 1..Len(b.txs)} /\ Range(b.txs) \in SUBSET TxId
  BY <1>2 DEF Range
<1>4. Fees(Range(b.txs)) \in Nat /\ Reward \in Nat
  BY <1>3, FeesAreNat, PoolNumbers
<1>5. coinbase_credit(b) = Reward + Fees(Range(b.txs))
  BY Zenon DEF coinbase_credit, Fees
<1> QED
  BY <1>2, <1>3, <1>4, <1>5

\* The transactions a chain holds.
LEMMA MinedTypes ==
    ASSUME NEW c \in Seq(MinedBlocks)
    PROVE  /\ Len(c) \in Nat /\ DOMAIN c = 1..Len(c) /\ \A h \in 1..Len(c) : c[h] \in MinedBlocks
           /\ Mined(c) \in SUBSET TxId
           /\ \A h \in 1..Len(c) : Range(c[h].txs) \subseteq Mined(c)
<1>1. Len(c) \in Nat /\ DOMAIN c = 1..Len(c) /\ \A h \in 1..Len(c) : c[h] \in MinedBlocks
  OBVIOUS
<1>2. \A h \in 1..Len(c) : Range(c[h].txs) \in SUBSET TxId
  BY <1>1, BlockTypes
<1> QED
  BY <1>1, <1>2 DEF Mined

\* A sender's nonce counts what the chain has of it.
LEMMA NonceTypes ==
    ASSUME NEW c \in Seq(MinedBlocks), NEW s \in Sender
    PROVE  account(c, s).nonce = Cardinality(FromOf(Mined(c), s)) /\ account(c, s).nonce \in Nat
           /\ nonces(c)[s] = account(c, s).nonce
<1>1. FromOf(Mined(c), s) \in SUBSET TxId
  BY MinedTypes DEF FromOf
<1>2. Cardinality(FromOf(Mined(c), s)) \in Nat
  BY <1>1, TxSets
<1> QED
  BY <1>2 DEF account, nonces

\* What a chain pays the miner of some of its blocks is a number.
LEMMA PaidTypes ==
    ASSUME NEW c \in Seq(MinedBlocks), NEW s \in Sender, NEW hs \in SUBSET (1..Len(c))
    PROVE  /\ PaidTo(c, s, hs) \in Nat
           /\ \A gs \in SUBSET hs : PaidTo(c, s, gs) <= PaidTo(c, s, hs)
<1> DEFINE f == [h \in DOMAIN c |-> coinbase_credit(c[h])]
           won(gs) == {h \in gs : c[h].to = s}
<1>1. \A h \in 1..Len(c) : f[h] \in Nat
  BY MinedTypes, BlockTypes
<1>2. \A gs : PaidTo(c, s, gs) = SumFunctionOnSet(f, won(gs))
  BY DEF PaidTo
<1>3. IsFiniteSet(won(hs)) /\ won(hs) \subseteq 1..Len(c)
  <2>1. IsFiniteSet(1..Len(c))
    BY MinedTypes, FS_Interval
  <2> QED
    BY <2>1, FS_Subset
<1>4. \A gs \in SUBSET hs : won(gs) \in SUBSET won(hs)
  OBVIOUS
<1> HIDE DEF f, won
<1>5. \A gs \in SUBSET won(hs) : SumFunctionOnSet(f, gs) <= SumFunctionOnSet(f, won(hs)) /\ SumFunctionOnSet(f, won(hs)) \in Nat
  <2> TAKE gs \in SUBSET won(hs)
  <2>1. \A h \in won(hs) : f[h] \in Nat
    BY <1>1, <1>3
  <2> QED
    BY <1>3, <2>1, SumGrows
<1> QED
  BY <1>2, <1>4, <1>5

\* A new block pays its miner, and nothing to the miners before it.
LEMMA PaidAppend ==
    ASSUME NEW c \in Seq(MinedBlocks), NEW b \in MinedBlocks, NEW s \in Sender, NEW hs \in SUBSET (1..Len(c))
    PROVE  LET due == IF b.to = s THEN coinbase_credit(b) ELSE 0 IN
           /\ due \in Nat
           /\ PaidTo(Append(c, b), s, hs) = PaidTo(c, s, hs)
           /\ PaidTo(Append(c, b), s, hs \cup {Len(c) + 1}) = PaidTo(c, s, hs) + due
<1> DEFINE d == Append(c, b)
           n == Len(c) + 1
           due == IF b.to = s THEN coinbase_credit(b) ELSE 0
           f == [h \in DOMAIN c |-> coinbase_credit(c[h])]
           g == [h \in DOMAIN d |-> coinbase_credit(d[h])]
           won == {h \in hs : c[h].to = s}
<1>1. d \in Seq(MinedBlocks) /\ Len(d) = n /\ d[n] = b /\ \A h \in 1..Len(c) : d[h] = c[h]
  OBVIOUS
<1>2. due \in Nat
  BY BlockTypes
<1>3. /\ DOMAIN c = 1..Len(c) /\ DOMAIN d = 1..n /\ Len(c) \in Nat
      /\ \A h \in 1..Len(c) : c[h] \in MinedBlocks
  BY <1>1
<1>4. \A h \in won : f[h] \in Nat /\ g[h] = f[h]
  BY <1>1, <1>3, BlockTypes
<1>5. IsFiniteSet(won) /\ won \subseteq 1..Len(c) /\ n \notin won
  <2>1. IsFiniteSet(1..Len(c))
    BY <1>3, FS_Interval
  <2>2. won \in SUBSET (1..Len(c))
    OBVIOUS
  <2>4. n \notin 1..Len(c)
    BY <1>3
  <2>3. IsFiniteSet(won)
    <3> HIDE DEF won
    <3> QED
      BY <2>1, <2>2, FS_Subset
  <2> QED
    BY <2>2, <2>3, <2>4
<1>6. {h \in hs : d[h].to = s} = won
  BY <1>1
<1>7. PaidTo(c, s, hs) = SumFunctionOnSet(f, won) /\ PaidTo(d, s, hs) = SumFunctionOnSet(g, won)
  <2>1. PaidTo(d, s, hs) = SumFunctionOnSet(g, {h \in hs : d[h].to = s})
    BY DEF PaidTo
  <2> QED
    BY <1>6, <2>1 DEF PaidTo
<1>8. SumFunctionOnSet(g, won) = SumFunctionOnSet(f, won) /\ SumFunctionOnSet(f, won) \in Nat
  <2>1. \A h \in won : f[h] \in Int /\ g[h] = f[h] /\ f[h] \in Nat
    BY <1>4
  <2> HIDE DEF f, g, won
  <2> QED
    BY <1>5, <2>1, SumSame, SumGrows
<1>9. PaidTo(d, s, hs \cup {n}) = SumFunctionOnSet(g, won) + due
  <2>1. PaidTo(d, s, hs \cup {n}) = SumFunctionOnSet(g, {h \in hs \cup {n} : d[h].to = s})
    BY DEF PaidTo
  <2>2. CASE b.to # s
    <3>1. {h \in hs \cup {n} : d[h].to = s} = won
      BY <1>1, <1>6, <2>2
    <3>2. due = 0
      BY <2>2
    <3>3. PaidTo(d, s, hs \cup {n}) = SumFunctionOnSet(g, won)
      BY <2>1, <3>1, Zenon
    <3> HIDE DEF f, g, won, due, d, n
    <3> QED
      BY <1>8, <3>2, <3>3
  <2>3. CASE b.to = s
    <3>1. {h \in hs \cup {n} : d[h].to = s} = won \cup {n}
      BY <1>1, <1>6, <2>3
    <3>2. g[n] = due
      BY <1>1, <1>3, <2>3
    <3>3. IsFiniteSet(won \cup {n}) /\ (won \cup {n}) \ {n} = won
      <4> HIDE DEF won
      <4> QED
        BY <1>5, FS_AddElement
    <3>4. \A h \in won \cup {n} : g[h] \in Int
      <4> HIDE DEF f, g, won, due
      <4>1. \A h \in won : g[h] \in Int
        BY <1>4
      <4> QED
        BY <1>2, <3>2, <4>1
    <3> HIDE DEF f, g, won, due
    <3>5. SumFunctionOnSet(g, won \cup {n}) = g[n] + SumFunctionOnSet(g, (won \cup {n}) \ {n})
      <4>1. n \in won \cup {n}
        OBVIOUS
      <4> HIDE DEF n
      <4> QED
        BY <3>3, <3>4, <4>1, SumRemove
    <3>6. SumFunctionOnSet(g, won \cup {n}) = due + SumFunctionOnSet(g, won)
      BY <3>2, <3>3, <3>5, Zenon
    <3>7. PaidTo(d, s, hs \cup {n}) = due + SumFunctionOnSet(g, won)
      BY <2>1, <3>1, <3>6, Zenon
    <3> HIDE DEF d, n
    <3> QED
      BY <1>2, <1>8, <3>7
  <2> QED
    BY <2>2, <2>3
<1> HIDE DEF f, g, won
<1> QED
  BY <1>2, <1>7, <1>8, <1>9

-----------------------------------------------------------------------------
(* Chains of valid blocks: nonces used once, and nobody overdrawn.         *)

\* The chain has used every nonce it holds, and nobody spends what is immature.
Young(c) == {h \in DOMAIN c : ~coinbase_is_mature(h, Len(c) + 1)}
UsedBelow(c) == \A t \in Mined(c) : Nonce(t) < account(c, From(t)).nonce
Solvent(c) == \A s \in Sender : spendable(c, s) >= 0

\* What may be spent: what was moved and paid, less what is immature.
LEMMA SpendableIs ==
    ASSUME NEW c \in Seq(MinedBlocks), NEW s \in Sender
    PROVE  /\ spendable(c, s) = Funds[s] + Moved(Mined(c), s) + PaidTo(c, s, 1..Len(c)) - PaidTo(c, s, Young(c))
           /\ account(c, s).balance = Funds[s] + Moved(Mined(c), s) + PaidTo(c, s, 1..Len(c))
           /\ spendable(c, s) \in Int /\ Funds[s] \in Nat /\ Moved(Mined(c), s) \in Int
           /\ Young(c) = {h \in 1..Len(c) : h > Len(c) + 1 - Maturity}
           /\ PaidTo(c, s, 1..Len(c)) \in Nat /\ PaidTo(c, s, Young(c)) \in Nat
<1>1. DOMAIN c = 1..Len(c) /\ Len(c) \in Nat /\ Mined(c) \in SUBSET TxId
  BY MinedTypes
<1>2. Funds[s] \in Nat /\ Maturity \in Nat
  BY PoolConstants
<1>3. Moved(Mined(c), s) \in Int
  BY <1>1, MovedIs
<1>4. Young(c) = {h \in 1..Len(c) : h > Len(c) + 1 - Maturity}
  <2>1. \A h \in 1..Len(c) : (~(Len(c) + 1 - h >= Maturity)) <=> (h > Len(c) + 1 - Maturity)
    BY <1>1, <1>2
  <2> QED
    BY <1>1, <2>1 DEF Young, coinbase_is_mature
<1>5. PaidTo(c, s, 1..Len(c)) \in Nat /\ PaidTo(c, s, Young(c)) \in Nat
  <2>1. Young(c) \in SUBSET (1..Len(c)) /\ 1..Len(c) \in SUBSET (1..Len(c))
    BY <1>4
  <2> QED
    BY <2>1, PaidTypes
<1>6. account(c, s).balance = Funds[s] + Moved(Mined(c), s) + PaidTo(c, s, 1..Len(c))
  BY <1>1 DEF account
<1>7. immature_at(c, s, Len(c) + 1) = PaidTo(c, s, Young(c))
  BY Zenon DEF immature_at, Young
<1>8. spendable(c, s) = account(c, s).balance - PaidTo(c, s, Young(c))
  BY <1>7 DEF spendable
<1> QED
  BY <1>2, <1>3, <1>4, <1>5, <1>6, <1>8

\* What a valid body pays is there at every point of it.
LEMMA BodyPays ==
    ASSUME NEW c \in Seq(MinedBlocks), NEW txs \in Seq(TxId), validate_block_body(c, txs), Solvent(c), NEW s \in Sender
    PROVE  spendable(c, s) + Moved(Range(txs), s) >= 0
<1> DEFINE done(i) == {txs[j] : j \in 1..i}
           S == {i \in 0..Len(txs) : spendable(c, s) + Moved(done(i), s) >= 0}
<1>0. Len(txs) \in Nat /\ DOMAIN txs = 1..Len(txs) /\ (\A i \in 1..Len(txs) : txs[i] \in TxId)
  OBVIOUS
<1>1. spendable(c, s) \in Int /\ spendable(c, s) >= 0
  BY SpendableIs DEF Solvent
<1>2. \A i \in 0..Len(txs) : done(i) \in SUBSET TxId
  BY <1>0
<1>3. 0 \in S
  <2>1. done(0) = {}
    OBVIOUS
  <2>2. Moved({}, s) = 0
    <3>1. {t \in {} : TxBody[t].to = s} = {} /\ FromOf({}, s) = {}
      BY DEF FromOf
    <3>2. Moved({}, s) = Amounts({}) - Outlays({})
      BY <3>1, MovedIs, Zenon
    <3> QED
      BY <3>2, SumEmpty DEF Amounts, Outlays
  <2>3. Moved(done(0), s) = 0
    BY <2>1, <2>2, Zenon
  <2> HIDE DEF done
  <2> QED
    BY <1>0, <1>1, <2>3
<1>4. ASSUME NEW i \in 1..Len(txs), i - 1 \in S PROVE i \in S
  <2> DEFINE t == txs[i]
  <2>1. /\ t \notin done(i - 1)
        /\ spendable(c, From(t)) + Moved(done(i - 1), From(t)) >= outlay(t)
    BY <1>0 DEF validate_block_body
  <2>2. done(i) = done(i - 1) \cup {t}
    BY <1>0
  <2>3. t \in TxId \ done(i - 1) /\ done(i - 1) \in SUBSET TxId /\ i \in 0..Len(txs)
    BY <1>0, <1>2, <2>1
  <2>4. outlay(t) \in Nat /\ From(t) \in Sender
    BY <1>0, TxTypes
  <2>5. spendable(c, s) + Moved(done(i - 1), s) >= 0
    BY <1>4
  <2>6. Moved(done(i), s) >= Moved(done(i - 1), s) - (IF From(t) = s THEN outlay(t) ELSE 0)
    <3> HIDE DEF done, t
    <3>1. Moved(done(i - 1) \cup {t}, s) >= Moved(done(i - 1), s) - (IF From(t) = s THEN outlay(t) ELSE 0)
      BY <2>3, MovedOne
    <3> QED
      BY <2>2, <3>1, Zenon
  <2>7. Moved(done(i), s) \in Int /\ Moved(done(i - 1), s) \in Int
    BY <1>2, <2>3, MovedIs
  <2> HIDE DEF t, done
  <2>8. spendable(c, s) + Moved(done(i), s) >= 0
    <3>1. CASE From(t) = s
      BY <1>1, <2>1, <2>4, <2>6, <2>7, <3>1
    <3>2. CASE From(t) # s
      BY <1>1, <2>5, <2>6, <2>7, <3>2
    <3> QED
      BY <3>1, <3>2
  <2> QED
    BY <2>3, <2>8
<1>5. \A i \in 0..Len(txs) : i \in S
  <2> HIDE DEF S
  <2> QED
    BY <1>0, <1>3, <1>4, UpTo
<1>6. done(Len(txs)) = Range(txs)
  BY <1>0 DEF Range
<1>7. Len(txs) \in S
  <2> HIDE DEF S
  <2> QED
    BY <1>0, <1>5
<1>8. spendable(c, s) + Moved(done(Len(txs)), s) >= 0
  BY <1>7
<1> QED
  BY <1>6, <1>8, Zenon

\* One more block adds its transactions to the chain's.
LEMMA MinedAppend ==
    ASSUME NEW c \in Seq(MinedBlocks), NEW b \in MinedBlocks
    PROVE  /\ Append(c, b) \in Seq(MinedBlocks) /\ Len(Append(c, b)) = Len(c) + 1
           /\ Mined(Append(c, b)) = Mined(c) \cup Range(b.txs)
<1> DEFINE d == Append(c, b)
<1>1. d \in Seq(MinedBlocks) /\ Len(d) = Len(c) + 1 /\ d[Len(c) + 1] = b /\ \A h \in 1..Len(c) : d[h] = c[h]
  OBVIOUS
<1>2. DOMAIN c = 1..Len(c) /\ DOMAIN d = 1..(Len(c) + 1) /\ Len(c) \in Nat
  BY <1>1
<1>3. Mined(d) = UNION {Range(d[h].txs) : h \in 1..(Len(c) + 1)} /\ Mined(c) = UNION {Range(c[h].txs) : h \in 1..Len(c)}
  BY <1>2 DEF Mined
<1>4. 1..(Len(c) + 1) = (1..Len(c)) \cup {Len(c) + 1}
  BY <1>2
<1> HIDE DEF d
<1>5. Mined(d) = Mined(c) \cup Range(b.txs)
  <2>1. ASSUME NEW t \in Mined(d) PROVE t \in Mined(c) \cup Range(b.txs)
    BY <1>1, <1>3, <1>4
  <2>2. ASSUME NEW t \in Mined(c) \cup Range(b.txs) PROVE t \in Mined(d)
    BY <1>1, <1>3, <1>4
  <2> QED
    BY <2>1, <2>2
<1> QED
  BY <1>1, <1>5 DEF d

\* A valid body is of transactions the chain does not hold, and uses up their nonces.
LEMMA BodyUses ==
    ASSUME NEW c \in Seq(MinedBlocks), NEW b \in MinedBlocks, validate_block_body(c, b.txs), UsedBelow(c)
    PROVE  Range(b.txs) \cap Mined(c) = {} /\ UsedBelow(Append(c, b))
<1> DEFINE d == Append(c, b)
           txs == b.txs
           done(i) == {txs[j] : j \in 1..i}
<1>1. /\ txs \in Seq(TxId) /\ Range(txs) \in SUBSET TxId /\ Mined(c) \in SUBSET TxId
      /\ Range(txs) = {txs[i] : i \in 1..Len(txs)}
  BY BlockTypes, MinedTypes
<1>2. d \in Seq(MinedBlocks) /\ Mined(d) = Mined(c) \cup Range(txs)
  BY MinedAppend
<1>3. DOMAIN txs = 1..Len(txs) /\ Len(txs) \in Nat /\ \A i \in 1..Len(txs) : txs[i] \in TxId
  BY <1>1
<1>4. \A s \in Sender : account(c, s).nonce = Cardinality(FromOf(Mined(c), s)) /\ account(c, s).nonce \in Nat
  BY NonceTypes
<1>5. ASSUME NEW i \in 1..Len(txs)
      PROVE  /\ txs[i] \notin done(i - 1)
             /\ Nonce(txs[i]) = account(c, From(txs[i])).nonce + Cardinality(FromOf(done(i - 1), From(txs[i])))
             /\ FromOf(done(i - 1), From(txs[i])) \in SUBSET TxId
  <2>1. /\ txs[i] \notin done(i - 1)
        /\ Nonce(txs[i]) = account(c, From(txs[i])).nonce + Cardinality(FromOf(done(i - 1), From(txs[i])))
    BY <1>3 DEF validate_block_body
  <2>2. done(i - 1) \in SUBSET TxId
    BY <1>3
  <2> HIDE DEF done
  <2> QED
    BY <2>1, <2>2 DEF FromOf
<1>6. ASSUME NEW i \in 1..Len(txs) PROVE txs[i] \notin Mined(c) /\ Nonce(txs[i]) >= account(c, From(txs[i])).nonce
  <2>1. Cardinality(FromOf(done(i - 1), From(txs[i]))) \in Nat /\ From(txs[i]) \in Sender
    BY <1>3, <1>5, TxSets, TxTypes
  <2>4. account(c, From(txs[i])).nonce \in Nat
    BY <1>4, <2>1
  <2>5. PICK k \in Nat : Nonce(txs[i]) = account(c, From(txs[i])).nonce + k
    BY <1>5, <2>1
  <2>2. Nonce(txs[i]) >= account(c, From(txs[i])).nonce /\ account(c, From(txs[i])).nonce \in Nat
    BY <2>4, <2>5
  <2>3. Nonce(txs[i]) \in Nat
    BY <1>3, TxTypes
  <2> QED
    BY <2>2, <2>3 DEF UsedBelow
<1>7. Range(txs) \cap Mined(c) = {}
  BY <1>1, <1>6
<1>8. ASSUME NEW t \in Mined(d)
      PROVE  Nonce(t) < account(d, From(t)).nonce
  <2> DEFINE s == From(t)
             old == FromOf(Mined(c), s)
             all == FromOf(Mined(d), s)
  <2>1. t \in TxId /\ s \in Sender
    BY <1>1, <1>2, TxTypes
  <2>2. account(d, s).nonce = Cardinality(all) /\ all \in SUBSET TxId /\ old \in SUBSET all /\ old \in SUBSET TxId
    BY <1>1, <1>2, <2>1, NonceTypes DEF FromOf
  <2>3. IsFiniteSet(all) /\ Cardinality(all) \in Nat /\ Cardinality(old) \in Nat /\ Cardinality(old) <= Cardinality(all)
    <3> HIDE DEF all, old
    <3> QED
      BY <2>2, TxSets, FS_Subset
  <2>4. CASE t \in Mined(c)
    <3>1. Nonce(t) < Cardinality(old) /\ Nonce(t) \in Nat
      BY <1>4, <2>1, <2>4, TxTypes DEF UsedBelow
    <3> HIDE DEF all, old, s
    <3> QED
      BY <2>2, <2>3, <3>1 DEF s
  <2>5. CASE t \notin Mined(c)
    <3>1. PICK i \in 1..Len(txs) : t = txs[i]
      BY <1>1, <1>2, <2>5
    <3> DEFINE new == FromOf(done(i - 1), s)
    <3>2. t \notin new /\ new \in SUBSET TxId /\ Nonce(t) = Cardinality(old) + Cardinality(new)
      <4>1. t \notin done(i - 1) /\ Nonce(t) = account(c, s).nonce + Cardinality(new) /\ new \in SUBSET TxId
        <5> HIDE DEF done
        <5> QED
          BY <1>5, <3>1
      <4> HIDE DEF done
      <4> QED
        BY <1>4, <2>1, <4>1 DEF FromOf
    <3>3. done(i - 1) \subseteq Range(txs)
      BY <1>1, <1>3
    <3>4. old \cap new = {} /\ old \cup new \subseteq all /\ t \in all /\ t \notin old \cup new
      <4> HIDE DEF done
      <4> QED
        BY <1>2, <1>7, <2>5, <3>2, <3>3 DEF FromOf
    <3> HIDE DEF new, old, all, s
    <3>5. Cardinality(old \cup new) = Cardinality(old) + Cardinality(new) /\ IsFiniteSet(old \cup new)
      <4>1. IsFiniteSet(old) /\ IsFiniteSet(new) /\ Cardinality(old \cap new) = 0
        BY <2>2, <3>2, <3>4, TxSets, FS_EmptySet
      <4>2. /\ IsFiniteSet(old \cup new)
            /\ Cardinality(old \cup new) = Cardinality(old) + Cardinality(new) - Cardinality(old \cap new)
        BY <4>1, FS_Union
      <4>3. Cardinality(new) \in Nat
        BY <3>2, TxSets
      <4> QED
        BY <2>3, <4>1, <4>2, <4>3
    <3>6. Cardinality((old \cup new) \cup {t}) = Cardinality(old) + Cardinality(new) + 1
      BY <3>4, <3>5, FS_AddElement
    <3>7. Cardinality((old \cup new) \cup {t}) <= Cardinality(all)
      <4>1. (old \cup new) \cup {t} \in SUBSET all
        BY <3>4
      <4> QED
        BY <2>3, <4>1, FS_Subset
    <3>8. Cardinality(new) \in Nat
      BY <3>2, TxSets
    <3>9. Nonce(t) < Cardinality(all)
      BY <2>3, <3>2, <3>6, <3>7, <3>8
    <3> QED
      BY <2>2, <3>9 DEF s
  <2> QED
    BY <2>4, <2>5
<1> QED
  BY <1>7, <1>8 DEF UsedBelow

\* A valid block leaves every account able to pay for what is still immature.
LEMMA BlockKeepsSolvent ==
    ASSUME NEW c \in Seq(MinedBlocks), NEW b \in MinedBlocks, validate_block_body(c, b.txs), UsedBelow(c), Solvent(c)
    PROVE  Solvent(Append(c, b))
<1> DEFINE d == Append(c, b)
           n == Len(c) + 1
<1> SUFFICES ASSUME NEW s \in Sender PROVE spendable(d, s) >= 0
  BY DEF Solvent
<1> DEFINE due == IF b.to = s THEN coinbase_credit(b) ELSE 0
           old == {h \in Young(d) : h # n}
<1>1. /\ d \in Seq(MinedBlocks) /\ Len(d) = n /\ Len(c) \in Nat
      /\ Mined(d) = Mined(c) \cup Range(b.txs) /\ Mined(c) \in SUBSET TxId
  BY MinedAppend, MinedTypes
<1>2. /\ spendable(c, s) = Funds[s] + Moved(Mined(c), s) + PaidTo(c, s, 1..Len(c)) - PaidTo(c, s, Young(c))
      /\ spendable(c, s) \in Int /\ Funds[s] \in Nat /\ Moved(Mined(c), s) \in Int
      /\ Young(c) = {h \in 1..Len(c) : h > Len(c) + 1 - Maturity}
      /\ PaidTo(c, s, 1..Len(c)) \in Nat /\ PaidTo(c, s, Young(c)) \in Nat
  BY SpendableIs
<1>3. /\ spendable(d, s) = Funds[s] + Moved(Mined(d), s) + PaidTo(d, s, 1..Len(d)) - PaidTo(d, s, Young(d))
      /\ Young(d) = {h \in 1..n : h > n + 1 - Maturity}
  <2> HIDE DEF n, d
  <2> QED
    BY <1>1, SpendableIs
<1>4. Range(b.txs) \cap Mined(c) = {} /\ Range(b.txs) \in SUBSET TxId /\ b.txs \in Seq(TxId)
  BY BodyUses, BlockTypes
<1>5. Moved(Mined(d), s) = Moved(Mined(c), s) + Moved(Range(b.txs), s) /\ Moved(Range(b.txs), s) \in Int
  <2> HIDE DEF d
  <2>1. Moved(Mined(c) \cup Range(b.txs), s) = Moved(Mined(c), s) + Moved(Range(b.txs), s)
    BY <1>1, <1>4, MovedAdds
  <2>2. Moved(Range(b.txs), s) \in Int
    BY <1>4, MovedIs
  <2> QED
    BY <1>1, <2>1, <2>2, Zenon
<1>6. spendable(c, s) + Moved(Range(b.txs), s) >= 0
  BY <1>4, BodyPays
<1>7. PaidTo(d, s, 1..n) = PaidTo(c, s, 1..Len(c)) + due /\ due \in Nat
  <2>1. 1..n = (1..Len(c)) \cup {n}
    BY <1>1
  <2>2. 1..Len(c) \in SUBSET (1..Len(c))
    OBVIOUS
  <2>3. PaidTo(Append(c, b), s, (1..Len(c)) \cup {Len(c) + 1}) = PaidTo(c, s, 1..Len(c)) + due /\ due \in Nat
    BY <2>2, PaidAppend
  <2> QED
    BY <2>1, <2>3, Zenon
<1>8. old \in SUBSET Young(c) /\ old \in SUBSET (1..Len(c))
  <2>1. Maturity \in Nat
    BY PoolConstants
  <2>2. ASSUME NEW h \in old PROVE h \in 1..Len(c) /\ h > Len(c) + 1 - Maturity
    <3>1. h \in 1..n /\ h > n + 1 - Maturity /\ h # n
      BY <1>3
    <3> QED
      BY <1>1, <2>1, <3>1
  <2> HIDE DEF old
  <2> QED
    BY <1>2, <2>2
<1>9. PaidTo(d, s, Young(d)) <= PaidTo(c, s, Young(c)) + due /\ PaidTo(d, s, Young(d)) \in Int
  <2>1. PaidTo(c, s, old) <= PaidTo(c, s, Young(c)) /\ PaidTo(c, s, old) \in Nat
    <3>1. Young(c) \in SUBSET (1..Len(c))
      BY <1>2
    <3> HIDE DEF old
    <3> QED
      BY <1>8, <3>1, PaidTypes
  <2>2. PaidTo(Append(c, b), s, old) = PaidTo(c, s, old) /\ PaidTo(Append(c, b), s, old \cup {Len(c) + 1}) = PaidTo(c, s, old) + due
    <3> HIDE DEF old
    <3> QED
      BY <1>8, PaidAppend
  <2>3. CASE n \in Young(d)
    <3>1. old \cup {n} = Young(d)
      BY <2>3
    <3>2. PaidTo(d, s, Young(d)) = PaidTo(c, s, old) + due
      BY <2>2, <3>1, Zenon
    <3> HIDE DEF d, due, old, n
    <3> QED
      BY <1>2, <1>7, <2>1, <3>2
  <2>4. CASE n \notin Young(d)
    <3>1. old = Young(d)
      BY <2>4
    <3>2. PaidTo(d, s, Young(d)) = PaidTo(c, s, old)
      BY <2>2, <3>1, Zenon
    <3> HIDE DEF d, due, old, n
    <3> QED
      BY <1>2, <1>7, <2>1, <3>2
  <2> QED
    BY <2>3, <2>4
<1>10. PaidTo(d, s, 1..Len(d)) = PaidTo(c, s, 1..Len(c)) + due
  BY <1>1, <1>7, Zenon
<1> HIDE DEF d, due, n, old
<1>11. PICK m, r, p, q, x, y : /\ m = Moved(Mined(c), s) /\ r = Moved(Range(b.txs), s)
                              /\ p = PaidTo(c, s, 1..Len(c)) /\ q = PaidTo(c, s, Young(c))
                              /\ x = PaidTo(d, s, Young(d)) /\ y = Funds[s]
  OBVIOUS
<1>12. spendable(c, s) = y + m + p - q /\ spendable(d, s) = y + (m + r) + (p + due) - x
  BY <1>2, <1>3, <1>5, <1>10, <1>11, Zenon
<1>13. m \in Int /\ r \in Int /\ p \in Int /\ q \in Int /\ x \in Int /\ y \in Int /\ due \in Int /\ x <= q + due
  BY <1>2, <1>5, <1>7, <1>9, <1>11
<1>14. (y + m + p - q) + r >= 0
  BY <1>6, <1>11, <1>12, Zenon
<1>15. y + (m + r) + (p + due) - x >= 0
  BY <1>13, <1>14
<1> QED
  BY <1>12, <1>15, Zenon

\* A prefix of a valid chain is a valid chain.
LEMMA PrefixIs ==
    ASSUME NEW c \in Chains, NEW k \in 0..Len(c)
    PROVE  /\ SubSeq(c, 1, k) \in Seq(MinedBlocks) /\ Len(SubSeq(c, 1, k)) = k
           /\ SubSeq(c, 1, k) \in Chains
           /\ k > 0 => /\ SubSeq(c, 1, k) = Append(SubSeq(c, 1, k - 1), c[k])
                       /\ c[k] \in MinedBlocks /\ validate_block_body(SubSeq(c, 1, k - 1), c[k].txs)
<1> DEFINE d == SubSeq(c, 1, k)
<1>1. c \in Seq(MinedBlocks) /\ (\A j \in 1..Len(c) : validate_block_body(SubSeq(c, 1, j - 1), c[j].txs)) /\ Len(c) \in Nat
  BY DEF Chains
<1>2. d \in Seq(MinedBlocks) /\ Len(d) = k /\ \A j \in 1..k : d[j] = c[j]
  BY <1>1
<1>3. ASSUME NEW j \in 1..k PROVE SubSeq(d, 1, j - 1) = SubSeq(c, 1, j - 1)
  BY <1>1, <1>2
<1>4. \A j \in 1..k : validate_block_body(SubSeq(d, 1, j - 1), d[j].txs)
  <2> TAKE j \in 1..k
  <2>1. j \in 1..Len(c)
    BY <1>1
  <2>2. validate_block_body(SubSeq(c, 1, j - 1), c[j].txs)
    BY <1>1, <2>1
  <2>3. SubSeq(d, 1, j - 1) = SubSeq(c, 1, j - 1) /\ d[j] = c[j]
    BY <1>2, <1>3
  <2> HIDE DEF d
  <2> QED
    BY <2>2, <2>3, Zenon
<1>5. d \in Chains
  <2> HIDE DEF d
  <2> QED
    BY <1>2, <1>4 DEF Chains
<1>6. k > 0 => d = Append(SubSeq(c, 1, k - 1), c[k]) /\ c[k] \in MinedBlocks
  BY <1>1
<1> QED
  BY <1>1, <1>2, <1>5, <1>6

\* Every chain of valid blocks has used the nonces it holds and is solvent.
LEMMA ChainsKeep ==
    ASSUME NEW c \in Chains
    PROVE  c \in Seq(MinedBlocks) /\ UsedBelow(c) /\ Solvent(c)
<1> DEFINE S == {k \in 0..Len(c) : UsedBelow(SubSeq(c, 1, k)) /\ Solvent(SubSeq(c, 1, k))}
<1>1. c \in Seq(MinedBlocks) /\ Len(c) \in Nat
  BY DEF Chains
<1>2. 0 \in S
  <2> DEFINE e == SubSeq(c, 1, 0)
  <2>1. e \in Seq(MinedBlocks) /\ Len(e) = 0 /\ 0 \in 0..Len(c)
    BY <1>1, PrefixIs
  <2> HIDE DEF e
  <2>2. Mined(e) = {}
    <3>1. DOMAIN e = 1..0
      BY <2>1
    <3> QED
      BY <3>1 DEF Mined
  <2>3. ASSUME NEW s \in Sender PROVE spendable(e, s) >= 0
    <3>1. Young(e) = {} /\ 1..Len(e) = {}
      <4>1. Young(e) = {h \in 1..Len(e) : h > Len(e) + 1 - Maturity}
        BY <2>1, SpendableIs
      <4>2. 1..Len(e) = {}
        BY <2>1
      <4> QED
        BY <4>1, <4>2
    <3>2. spendable(e, s) = Funds[s] + Moved({}, s) + PaidTo(e, s, {}) - PaidTo(e, s, {})
      BY <2>1, <2>2, <3>1, SpendableIs, Zenon
    <3>3. Funds[s] \in Nat /\ PaidTo(e, s, {}) \in Nat
      <4>1. {} \in SUBSET (1..Len(e))
        OBVIOUS
      <4>2. Funds[s] \in Nat
        BY PoolConstants, SMTT(30)
      <4> QED
        BY <2>1, <4>1, <4>2, PaidTypes, Zenon
    <3>4. Moved({}, s) = 0
      <4>1. {t \in {} : TxBody[t].to = s} = {} /\ FromOf({}, s) = {}
        BY DEF FromOf
      <4>2. Moved({}, s) = Amounts({}) - Outlays({})
        BY <4>1, MovedIs, Zenon
      <4> QED
        BY <4>2, SumEmpty DEF Amounts, Outlays
    <3> QED
      BY <3>2, <3>3, <3>4
  <2> QED
    BY <2>1, <2>2, <2>3 DEF UsedBelow, Solvent, e
<1>3. ASSUME NEW k \in 1..Len(c), k - 1 \in S PROVE k \in S
  <2> DEFINE b == SubSeq(c, 1, k - 1)
  <2>1. k \in 0..Len(c) /\ k - 1 \in 0..Len(c) /\ k > 0
    BY <1>1
  <2>2. b \in Seq(MinedBlocks) /\ c[k] \in MinedBlocks /\ validate_block_body(b, c[k].txs) /\ SubSeq(c, 1, k) = Append(b, c[k])
    BY <2>1, PrefixIs
  <2>3. UsedBelow(b) /\ Solvent(b)
    BY <1>3
  <2> HIDE DEF b
  <2>4. UsedBelow(Append(b, c[k])) /\ Solvent(Append(b, c[k]))
    BY <2>2, <2>3, BodyUses, BlockKeepsSolvent
  <2> QED
    BY <2>1, <2>2, <2>4, Zenon
<1>4. \A k \in 0..Len(c) : k \in S
  <2> HIDE DEF S
  <2> QED
    BY <1>1, <1>2, <1>3, UpTo
<1>5. Len(c) \in S /\ SubSeq(c, 1, Len(c)) = c
  BY <1>1, <1>4
<1> QED
  BY <1>1, <1>5

\* A reorg undoes fewer blocks than a reward takes to mature.
LEMMA RewardsWait ==
    ASSUME NEW c \in Chains, NEW s \in Sender
    PROVE  PaidTo(c, s, {h \in DOMAIN c : h > Len(c) - ReorgCap}) <= account(c, s).balance
<1> DEFINE top == {h \in DOMAIN c : h > Len(c) - ReorgCap}
<1>1. c \in Seq(MinedBlocks) /\ Solvent(c) /\ Len(c) \in Nat /\ DOMAIN c = 1..Len(c)
  BY ChainsKeep, MinedTypes
<1>2. /\ spendable(c, s) = Funds[s] + Moved(Mined(c), s) + PaidTo(c, s, 1..Len(c)) - PaidTo(c, s, Young(c))
      /\ account(c, s).balance = Funds[s] + Moved(Mined(c), s) + PaidTo(c, s, 1..Len(c))
      /\ spendable(c, s) \in Int /\ Funds[s] \in Nat /\ Moved(Mined(c), s) \in Int
      /\ Young(c) = {h \in 1..Len(c) : h > Len(c) + 1 - Maturity}
      /\ PaidTo(c, s, 1..Len(c)) \in Nat /\ PaidTo(c, s, Young(c)) \in Nat
  BY <1>1, SpendableIs
<1>3. PICK y : y = Funds[s] + Moved(Mined(c), s) + PaidTo(c, s, 1..Len(c))
  OBVIOUS
<1>4. y \in Int /\ spendable(c, s) = y - PaidTo(c, s, Young(c)) /\ account(c, s).balance = y
  BY <1>2, <1>3
<1>5. spendable(c, s) >= 0
  BY <1>1 DEF Solvent
<1>6. top \in SUBSET Young(c) /\ Young(c) \in SUBSET (1..Len(c))
  <2>1. Maturity \in Nat /\ ReorgCap \in Nat /\ Maturity > ReorgCap
    BY PoolConstants
  <2>2. ASSUME NEW h \in top PROVE h \in 1..Len(c) /\ h > Len(c) + 1 - Maturity
    <3>1. h \in 1..Len(c) /\ h > Len(c) - ReorgCap
      BY <1>1
    <3> QED
      BY <1>1, <2>1, <3>1
  <2> HIDE DEF top
  <2> QED
    BY <1>2, <2>2
<1>7. PaidTo(c, s, top) <= PaidTo(c, s, Young(c)) /\ PaidTo(c, s, top) \in Nat
  <2> HIDE DEF top
  <2>1. top \in SUBSET (1..Len(c))
    BY <1>6
  <2> QED
    BY <1>1, <1>6, <2>1, PaidTypes
<1> HIDE DEF top
<1>8. PaidTo(c, s, top) <= account(c, s).balance
  BY <1>2, <1>4, <1>5, <1>7
<1> QED
  BY <1>8 DEF top

\* A branch of valid blocks makes a valid chain of the one it extends,
LEMMA BranchIs ==
    ASSUME NEW c \in Chains, NEW n \in Nat, NEW branch \in Branches(c, n)
    PROVE  branch \in Seq(MinedBlocks) /\ c \o branch \in Chains
<1>1. c \in Seq(MinedBlocks) /\ (\A j \in 1..Len(c) : validate_block_body(SubSeq(c, 1, j - 1), c[j].txs)) /\ Len(c) \in Nat
  BY DEF Chains
<1>2. /\ branch \in [1..n -> MinedBlocks]
      /\ \A i \in 1..n : validate_block_body(c \o SubSeq(branch, 1, i - 1), branch[i].txs)
  BY DEF Branches
<1>3. branch \in Seq(MinedBlocks) /\ Len(branch) = n
  BY <1>2
<1>4. PICK d : d = c \o branch
  OBVIOUS
<1>5. /\ d \in Seq(MinedBlocks) /\ Len(d) = Len(c) + n
      /\ \A j \in 1..Len(c) : d[j] = c[j]
      /\ \A j \in (Len(c) + 1)..(Len(c) + n) : d[j] = branch[j - Len(c)]
  BY <1>1, <1>3, <1>4
<1>6. ASSUME NEW j \in 1..(Len(c) + n) PROVE validate_block_body(SubSeq(d, 1, j - 1), d[j].txs)
  <2>1. CASE j \in 1..Len(c)
    <3>1. SubSeq(d, 1, j - 1) = SubSeq(c, 1, j - 1)
      BY <1>1, <1>5, <2>1
    <3>2. validate_block_body(SubSeq(c, 1, j - 1), c[j].txs) /\ d[j] = c[j]
      BY <1>1, <1>5, <2>1
    <3> QED
      BY <3>1, <3>2, Zenon
  <2>2. CASE j \in (Len(c) + 1)..(Len(c) + n)
    <3>1. PICK i : i = j - Len(c)
      OBVIOUS
    <3>2. i \in 1..n /\ j = Len(c) + i
      BY <1>1, <2>2, <3>1
    <3>3. SubSeq(d, 1, j - 1) = c \o SubSeq(branch, 1, i - 1)
      BY <1>1, <1>3, <1>4, <3>2, SMTT(30)
    <3>4. d[j] = branch[i]
      BY <1>5, <2>2, <3>1
    <3>5. validate_block_body(c \o SubSeq(branch, 1, i - 1), branch[i].txs)
      BY <1>2, <3>2
    <3> QED
      BY <3>3, <3>4, <3>5, Zenon
  <2> QED
    BY <1>1, <2>1, <2>2
<1>7. d \in Chains
  BY <1>5, <1>6 DEF Chains
<1> QED
  BY <1>3, <1>4, <1>7

\* and so an adoption, however deep it reaches, leaves a valid chain.
LEMMA AdoptedIsValid ==
    ASSUME blocks \in Chains, AdoptAny
    PROVE  blocks' \in Chains /\ \E d \in Nat, branch \in Seq(MinedBlocks) : update_mempool(d, branch)
<1>1. PICK d \in 0..ReorgCap, n \in 1..(ReorgCap + BranchLead) :
         /\ d <= Len(blocks)
         /\ \E branch \in Branches(SubSeq(blocks, 1, Len(blocks) - d), n) : update_mempool(d, branch)
  BY Zenon DEF AdoptAny
<1>2. PICK base : base = SubSeq(blocks, 1, Len(blocks) - d)
  OBVIOUS
<1>3. PICK branch \in Branches(base, n) : update_mempool(d, branch)
  BY <1>1, <1>2, Zenon
<1>4. d \in Nat /\ n \in Nat
  BY PoolConstants
<1>5. base \in Chains
  <2>1. Len(blocks) \in Nat
    BY DEF Chains
  <2>2. Len(blocks) - d \in 0..Len(blocks)
    BY <1>1, <1>4, <2>1
  <2> QED
    BY <1>2, <2>2, PrefixIs
<1>6. branch \in Seq(MinedBlocks) /\ base \o branch \in Chains
  BY <1>4, <1>5, BranchIs
<1>7. blocks' = base \o branch
  BY <1>2, <1>3, Zenon DEF update_mempool
<1> QED
  BY <1>3, <1>4, <1>6, <1>7

-----------------------------------------------------------------------------
(* The pool and the operations on it.                                      *)

\* What a pool is; no two transactions of a sender have one nonce, and the
\* caps on transactions hold.
Rows == [arrived : Nat, executable : BOOLEAN]
Pools == [tx : UNION {[D -> Rows] : D \in SUBSET TxId}, next : UNION {[S -> Nat] : S \in SUBSET Sender}]
Distinct(p) == \A t, u \in DOMAIN p.tx : From(t) = From(u) /\ Nonce(t) = Nonce(u) => t = u
Capped(p) ==
    /\ Cardinality(DOMAIN p.tx) <= PoolTxs
    /\ \A s \in Sender : Cardinality(Of(p, s)) <= SenderTxs
Shaped == {p \in Pools : Distinct(p) /\ Capped(p)}

\* The transactions of a pool.
LEMMA PoolTypes ==
    ASSUME NEW p \in Pools
    PROVE  /\ DOMAIN p.tx \in SUBSET TxId /\ (\A t \in DOMAIN p.tx : p.tx[t] \in Rows)
           /\ DOMAIN p.next \in SUBSET Sender /\ (\A s \in DOMAIN p.next : p.next[s] \in Nat)
           /\ \A s : Of(p, s) \in SUBSET DOMAIN p.tx /\ Of(p, s) \in SUBSET TxId
<1>1. PICK D \in SUBSET TxId : p.tx \in [D -> Rows]
  BY DEF Pools
<1>2. PICK S \in SUBSET Sender : p.next \in [S -> Nat]
  BY DEF Pools
<1>3. \A s : Of(p, s) \in SUBSET DOMAIN p.tx
  BY DEF Of, FromOf
<1> QED
  BY <1>1, <1>2, <1>3

\* A pool from its parts,
LEMMA PoolMade ==
    ASSUME NEW f, NEW g, NEW D \in SUBSET TxId, f \in [D -> Rows], NEW S \in SUBSET Sender, g \in [S -> Nat]
    PROVE  [tx |-> f, next |-> g] \in Pools
BY DEF Pools

\* and what an update of one part of it is.
LEMMA PoolFields ==
    ASSUME NEW p \in Pools
    PROVE  /\ p = [tx |-> p.tx, next |-> p.next]
           /\ p.tx \in [DOMAIN p.tx -> Rows] /\ p.next \in [DOMAIN p.next -> Nat]
           /\ \A f : [p EXCEPT !.tx = f] = [tx |-> f, next |-> p.next]
           /\ \A g : [p EXCEPT !.next = g] = [tx |-> p.tx, next |-> g]
BY DEF Pools

\* The run of a sender depends on its transactions only.
LEMMA RunOf ==
    ASSUME NEW p, NEW q, NEW s, Of(p, s) = Of(q, s)
    PROVE  /\ \A n : AtNonce(p, s, n) = AtNonce(q, s, n)
           /\ \A n : Run(p, s, n) = Run(q, s, n)
BY Zenon DEF Run, AtNonce

\* A pool with fewer transactions keeps its shape.
LEMMA ShapedLess ==
    ASSUME NEW p \in Shaped, NEW q \in Pools, DOMAIN q.tx \subseteq DOMAIN p.tx
    PROVE  q \in Shaped
<1>1. p \in Pools /\ Distinct(p) /\ Capped(p)
  BY DEF Shaped
<1>2. Distinct(q)
  BY <1>1 DEF Distinct
<1>3. IsFiniteSet(DOMAIN p.tx) /\ Cardinality(DOMAIN p.tx) \in Nat /\ Cardinality(DOMAIN q.tx) \in Nat
  BY <1>1, PoolTypes, TxSets
<1>4. Cardinality(DOMAIN q.tx) <= PoolTxs
  <2>1. Cardinality(DOMAIN q.tx) <= Cardinality(DOMAIN p.tx)
    BY <1>3, FS_Subset
  <2> QED
    BY <1>1, <1>3, <2>1, PoolNumbers DEF Capped
<1>5. ASSUME NEW s \in Sender PROVE Cardinality(Of(q, s)) <= SenderTxs
  <2>1. Of(q, s) \in SUBSET Of(p, s)
    BY DEF Of, FromOf
  <2>2. IsFiniteSet(Of(p, s)) /\ Cardinality(Of(p, s)) \in Nat /\ Cardinality(Of(q, s)) \in Nat
    BY <1>1, PoolTypes, TxSets
  <2>3. Cardinality(Of(q, s)) <= Cardinality(Of(p, s))
    BY <2>1, <2>2, FS_Subset
  <2> QED
    BY <1>1, <2>2, <2>3, PoolNumbers DEF Capped
<1> QED
  BY <1>2, <1>4, <1>5 DEF Shaped, Capped

\* remove takes out what it is given, with the memo of a sender that has nothing left.
LEMMA RemoveIs ==
    ASSUME NEW p \in Pools, NEW ids
    PROVE  LET q == remove(p, ids) IN
           /\ q \in Pools
           /\ DOMAIN q.tx = DOMAIN p.tx \ ids
           /\ \A t \in DOMAIN q.tx : q.tx[t] = p.tx[t]
           /\ \A s : Of(q, s) = Of(p, s) \ ids
           /\ \A s \in DOMAIN q.next : s \in DOMAIN p.next /\ q.next[s] = p.next[s]
           /\ \A s \in DOMAIN p.next : s \in DOMAIN q.next \/ Of(q, s) = {}
<1> DEFINE f == Restrict(p.tx, DOMAIN p.tx \ ids)
           kept == [p EXCEPT !.tx = f]
           gone == {s \in Sender : Of(p, s) # {} /\ Of(kept, s) = {}}
           g == Restrict(p.next, DOMAIN p.next \ gone)
           q == remove(p, ids)
<1>1. kept = [tx |-> f, next |-> p.next]
  <2> HIDE DEF f
  <2> QED
    BY PoolFields
<1>2. f \in [DOMAIN p.tx \ ids -> Rows] /\ \A t \in DOMAIN p.tx \ ids : f[t] = p.tx[t]
  BY PoolTypes DEF Restrict
<1>3. g \in [DOMAIN p.next \ gone -> Nat] /\ \A s \in DOMAIN p.next \ gone : g[s] = p.next[s]
  <2> HIDE DEF gone
  <2> QED
    BY PoolTypes DEF Restrict
<1>4. q = [kept EXCEPT !.next = g]
  <2>1. [kept EXCEPT !.next = Restrict(@, DOMAIN @ \ gone)] = [kept EXCEPT !.next = Restrict(kept.next, DOMAIN kept.next \ gone)]
    BY <1>1
  <2>2. kept.next = p.next
    BY <1>1
  <2>3. q = [kept EXCEPT !.next = Restrict(@, DOMAIN @ \ gone)]
    BY Zenon DEF remove
  <2> HIDE DEF gone, kept
  <2> QED
    BY <2>1, <2>2, <2>3, Zenon
<1>5. q = [tx |-> f, next |-> g]
  <2> HIDE DEF f, g, q
  <2> QED
    BY <1>1, <1>4
<1>6. DOMAIN p.tx \ ids \in SUBSET TxId /\ DOMAIN p.next \ gone \in SUBSET Sender
  BY PoolTypes
<1>7. q \in Pools
  <2> HIDE DEF f, g, q, gone
  <2> QED
    BY <1>2, <1>3, <1>5, <1>6, PoolMade
<1>8. DOMAIN q.tx = DOMAIN p.tx \ ids /\ DOMAIN q.next = DOMAIN p.next \ gone
  <2> HIDE DEF f, g, q, gone
  <2> QED
    BY <1>2, <1>3, <1>5
<1>9. /\ \A t \in DOMAIN q.tx : q.tx[t] = p.tx[t]
      /\ \A s \in DOMAIN q.next : q.next[s] = p.next[s]
  <2> HIDE DEF f, g, q, gone
  <2> QED
    BY <1>2, <1>3, <1>5, <1>8
<1>10. \A s : Of(q, s) = Of(p, s) \ ids /\ Of(kept, s) = Of(q, s)
  <2>1. DOMAIN kept.tx = DOMAIN q.tx
    <3> HIDE DEF f, g, q, gone
    <3> QED
      BY <1>1, <1>2, <1>8
  <2> HIDE DEF q, kept
  <2> QED
    BY <1>8, <2>1 DEF Of, FromOf
<1>11. \A s \in gone : Of(q, s) = {}
  <2> HIDE DEF q, kept
  <2> QED
    BY <1>10
<1> HIDE DEF q, gone
<1>12. \A s \in DOMAIN q.next : s \in DOMAIN p.next
  BY <1>8
<1>13. \A s \in DOMAIN p.next : s \in DOMAIN q.next \/ Of(q, s) = {}
  BY <1>8, <1>11
<1> QED
  BY <1>7, <1>8, <1>9, <1>10, <1>12, <1>13 DEF q

\* resplit sets the marks of the senders it is given, and touches nothing else.
LEMMA ResplitIs ==
    ASSUME NEW p \in Pools, NEW S, NEW next
    PROVE  LET q == resplit(p, S, next) IN
           /\ q \in Pools /\ DOMAIN q.tx = DOMAIN p.tx /\ q.next = p.next
           /\ \A t \in DOMAIN q.tx :
                 /\ q.tx[t].arrived = p.tx[t].arrived
                 /\ q.tx[t].executable = IF From(t) \in S THEN t \in Run(p, From(t), next[From(t)]) ELSE p.tx[t].executable
           /\ \A s : Of(q, s) = Of(p, s)
<1> DEFINE f == [t \in DOMAIN p.tx |->
                    IF From(t) \in S THEN [p.tx[t] EXCEPT !.executable = t \in Run(p, From(t), next[From(t)])] ELSE p.tx[t]]
           q == resplit(p, S, next)
<1>1. q = [p EXCEPT !.tx = f]
  BY Zenon DEF resplit
<1>2. q = [tx |-> f, next |-> p.next]
  <2> HIDE DEF f, q
  <2> QED
    BY <1>1, PoolFields
<1>3. ASSUME NEW t \in DOMAIN p.tx
      PROVE  /\ f[t] \in Rows /\ f[t].arrived = p.tx[t].arrived
             /\ f[t].executable = IF From(t) \in S THEN t \in Run(p, From(t), next[From(t)]) ELSE p.tx[t].executable
  <2>1. p.tx[t] \in Rows
    BY PoolTypes
  <2>2. f[t] = IF From(t) \in S THEN [p.tx[t] EXCEPT !.executable = t \in Run(p, From(t), next[From(t)])] ELSE p.tx[t]
    OBVIOUS
  <2>3. PICK e : e = (t \in Run(p, From(t), next[From(t)]))
    OBVIOUS
  <2>4. e \in BOOLEAN
    BY <2>3
  <2>5. PICK r : r = p.tx[t]
    OBVIOUS
  <2>6. f[t] = IF From(t) \in S THEN [r EXCEPT !.executable = e] ELSE r
    BY <2>2, <2>3, <2>5, Zenon
  <2>7. r \in Rows
    BY <2>1, <2>5
  <2>8. [r EXCEPT !.executable = e] \in Rows /\ [r EXCEPT !.executable = e].arrived = r.arrived /\ [r EXCEPT !.executable = e].executable = e
    BY <2>4, <2>7 DEF Rows
  <2> HIDE DEF f
  <2>9. f[t].executable = IF From(t) \in S THEN e ELSE r.executable
    BY <2>6, <2>8
  <2>10. f[t].executable = IF From(t) \in S THEN t \in Run(p, From(t), next[From(t)]) ELSE p.tx[t].executable
    BY <2>3, <2>5, <2>9, Zenon
  <2>11. f[t] \in Rows /\ f[t].arrived = p.tx[t].arrived
    BY <2>5, <2>6, <2>7, <2>8
  <2> QED
    BY <2>10, <2>11
<1>4. f \in [DOMAIN p.tx -> Rows]
  <2>1. DOMAIN f = DOMAIN p.tx /\ f = [t \in DOMAIN f |-> f[t]]
    OBVIOUS
  <2> HIDE DEF f
  <2> QED
    BY <1>3, <2>1
<1>5. DOMAIN p.tx \in SUBSET TxId /\ DOMAIN p.next \in SUBSET Sender /\ p.next \in [DOMAIN p.next -> Nat]
  BY PoolTypes, PoolFields
<1> HIDE DEF f, q
<1>6. q \in Pools
  BY <1>2, <1>4, <1>5, PoolMade
<1>7. q.tx = f /\ q.next = p.next /\ DOMAIN q.tx = DOMAIN p.tx
  BY <1>2, <1>4
<1>8. \A s : Of(q, s) = Of(p, s)
  BY <1>7 DEF Of
<1>9. \A t \in DOMAIN q.tx :
         /\ q.tx[t].arrived = p.tx[t].arrived
         /\ q.tx[t].executable = IF From(t) \in S THEN t \in Run(p, From(t), next[From(t)]) ELSE p.tx[t].executable
  BY <1>3, <1>7, Zenon
<1> QED
  BY <1>6, <1>7, <1>8, <1>9, Zenon DEF q

\* remember sets the memo of the senders it is given.
LEMMA RememberIs ==
    ASSUME NEW p \in Pools, NEW S \in SUBSET Sender, NEW next \in [Sender -> Nat]
    PROVE  LET q == remember(p, S, next) IN
           /\ q \in Pools /\ q.tx = p.tx /\ DOMAIN q.next = DOMAIN p.next \cup S
           /\ \A s \in S : q.next[s] = next[s]
           /\ \A s \in DOMAIN p.next \ S : q.next[s] = p.next[s]
           /\ \A s : Of(q, s) = Of(p, s)
<1> DEFINE g == [s \in DOMAIN p.next \cup S |-> IF s \in S THEN next[s] ELSE p.next[s]]
           q == remember(p, S, next)
<1>1. q = [p EXCEPT !.next = g]
  BY Zenon DEF remember
<1>2. q = [tx |-> p.tx, next |-> g]
  <2> HIDE DEF g, q
  <2> QED
    BY <1>1, PoolFields
<1>3. DOMAIN p.tx \in SUBSET TxId /\ DOMAIN p.next \cup S \in SUBSET Sender /\ p.tx \in [DOMAIN p.tx -> Rows]
  BY PoolTypes, PoolFields
<1>4. g \in [DOMAIN p.next \cup S -> Nat]
  BY PoolTypes
<1>5. q \in Pools
  <2> HIDE DEF g, q
  <2> QED
    BY <1>2, <1>3, <1>4, PoolMade
<1>6. q.tx = p.tx /\ q.next = g
  <2> HIDE DEF g, q
  <2> QED
    BY <1>2
<1>7. \A s : Of(q, s) = Of(p, s)
  <2> HIDE DEF g, q
  <2> QED
    BY <1>6 DEF Of
<1>8. /\ DOMAIN g = DOMAIN p.next \cup S
      /\ \A s \in S : g[s] = next[s]
      /\ \A s \in DOMAIN p.next \ S : g[s] = p.next[s]
  OBVIOUS
<1> HIDE DEF g, q
<1> QED
  BY <1>5, <1>6, <1>7, <1>8 DEF q

\* insert adds one transaction.
LEMMA InsertIs ==
    ASSUME NEW p \in Pools, NEW t \in TxId, NEW row \in Rows
    PROVE  LET q == insert(p, t, row) IN
           /\ q \in Pools /\ q.next = p.next /\ DOMAIN q.tx = DOMAIN p.tx \cup {t}
           /\ \A u \in DOMAIN q.tx \ {t} : q.tx[u] = p.tx[u]
           /\ Of(q, From(t)) = Of(p, From(t)) \cup {t}
           /\ \A s : s # From(t) => Of(q, s) = Of(p, s)
<1> DEFINE f == [u \in DOMAIN p.tx \cup {t} |-> IF u = t THEN row ELSE p.tx[u]]
           q == insert(p, t, row)
<1>1. q = [p EXCEPT !.tx = f]
  BY Zenon DEF insert
<1>2. q = [tx |-> f, next |-> p.next]
  <2> HIDE DEF f, q
  <2> QED
    BY <1>1, PoolFields
<1>3. DOMAIN p.tx \cup {t} \in SUBSET TxId /\ DOMAIN p.next \in SUBSET Sender /\ p.next \in [DOMAIN p.next -> Nat]
  BY PoolTypes, PoolFields
<1>4. f \in [DOMAIN p.tx \cup {t} -> Rows] /\ \A u \in DOMAIN p.tx : u # t => f[u] = p.tx[u]
  BY PoolTypes
<1> HIDE DEF f, q
<1>5. q \in Pools
  BY <1>2, <1>3, <1>4, PoolMade
<1>6. q.tx = f /\ q.next = p.next /\ DOMAIN q.tx = DOMAIN p.tx \cup {t}
  BY <1>2, <1>4
<1>7. \A u \in DOMAIN q.tx \ {t} : q.tx[u] = p.tx[u]
  BY <1>4, <1>6
<1>8. Of(q, From(t)) = Of(p, From(t)) \cup {t} /\ \A s : s # From(t) => Of(q, s) = Of(p, s)
  BY <1>6 DEF Of, FromOf
<1> QED
  BY <1>5, <1>6, <1>7, <1>8 DEF q

-----------------------------------------------------------------------------
(* Eviction.                                                               *)

\* A finite set with an order on it has a least element.
LEMMA FiniteLeast ==
    ASSUME NEW S, IsFiniteSet(S), S # {}, NEW R,
           \A x, y \in S : x # y => <<x, y>> \in R \/ <<y, x>> \in R,
           \A x, y, z \in S : <<x, y>> \in R /\ <<y, z>> \in R => <<x, z>> \in R
    PROVE  \E x \in S : \A y \in S \ {x} : <<x, y>> \in R
<1> DEFINE P == {s \in SUBSET S : s # {} => \E x \in s : \A y \in s \ {x} : <<x, y>> \in R}
<1>1. {} \in P
  OBVIOUS
<1>2. ASSUME NEW s \in SUBSET S, s # {}, \A x \in s : s \ {x} \in P
      PROVE  s \in P
  <2>1. PICK a \in s : TRUE
    BY <1>2
  <2>2. CASE s \ {a} = {}
    BY <2>1, <2>2
  <2>3. CASE s \ {a} # {}
    <3>1. PICK b \in s \ {a} : \A y \in (s \ {a}) \ {b} : <<b, y>> \in R
      BY <1>2, <2>1, <2>3
    <3>2. CASE <<b, a>> \in R
      <4>1. \A y \in s \ {b} : <<b, y>> \in R
        BY <3>1, <3>2
      <4> QED
        BY <3>1, <4>1
    <3>3. CASE <<a, b>> \in R
      <4>1. ASSUME NEW y \in s \ {a} PROVE <<a, y>> \in R
        <5>1. CASE y = b
          BY <3>3, <5>1
        <5>2. CASE y # b
          <6>1. <<b, y>> \in R
            BY <3>1, <5>2
          <6> QED
            BY <2>1, <3>1, <3>3, <6>1
        <5> QED
          BY <5>1, <5>2
      <4> QED
        BY <2>1, <4>1
    <3> QED
      BY <2>1, <3>1, <3>2, <3>3
  <2> QED
    BY <2>2, <2>3
<1>3. \A s \in SUBSET S : s \in P
  <2> HIDE DEF P
  <2> QED
    BY <1>1, <1>2, SubsetsUpTo
<1>4. S \in P
  <2> HIDE DEF P
  <2> QED
    BY <1>3
<1> QED
  BY <1>4

\* A set of natural numbers that is not empty has a least element.
LEMMA LeastOf ==
    ASSUME NEW V, V \subseteq Nat, V # {}
    PROVE  Min(V) \in V
BY LeastExists DEF Min

\* The order in which queued transactions are evicted is total and transitive.
LEMMA QueuedOrder ==
    ASSUME NEW p \in Pools
    PROVE  /\ \A t, u \in DOMAIN p.tx : t # u => QueuedLess(p, t, u) \/ QueuedLess(p, u, t)
           /\ \A t, u, v \in DOMAIN p.tx : QueuedLess(p, t, u) /\ QueuedLess(p, u, v) => QueuedLess(p, t, v)
<1>1. \A t \in DOMAIN p.tx : t \in Nat /\ fee_per_byte(t) \in Nat /\ p.tx[t].arrived \in Nat
  BY PoolTypes, TxTypes, PoolConstants DEF Rows
<1>2. ASSUME NEW t \in DOMAIN p.tx, NEW u \in DOMAIN p.tx, t # u
      PROVE  QueuedLess(p, t, u) \/ QueuedLess(p, u, t)
  <2>1. t > u \/ u > t
    BY <1>1, <1>2
  <2>2. fee_per_byte(t) < fee_per_byte(u) \/ fee_per_byte(t) = fee_per_byte(u) \/ fee_per_byte(u) < fee_per_byte(t)
    BY <1>1
  <2>3. p.tx[t].arrived > p.tx[u].arrived \/ p.tx[t].arrived = p.tx[u].arrived \/ p.tx[u].arrived > p.tx[t].arrived
    BY <1>1
  <2> QED
    BY <2>1, <2>2, <2>3 DEF QueuedLess
<1>3. ASSUME NEW t \in DOMAIN p.tx, NEW u \in DOMAIN p.tx, NEW v \in DOMAIN p.tx, QueuedLess(p, t, u), QueuedLess(p, u, v)
      PROVE  QueuedLess(p, t, v)
  <2>1. PICK a, b, c, x, y, z : /\ a = fee_per_byte(t) /\ b = fee_per_byte(u) /\ c = fee_per_byte(v)
                                /\ x = p.tx[t].arrived /\ y = p.tx[u].arrived /\ z = p.tx[v].arrived
    OBVIOUS
  <2>2. a \in Nat /\ b \in Nat /\ c \in Nat /\ x \in Nat /\ y \in Nat /\ z \in Nat /\ t \in Nat /\ u \in Nat /\ v \in Nat
    BY <1>1, <2>1
  <2>3. a < b \/ (a = b /\ x > y) \/ (a = b /\ x = y /\ t > u)
    BY <1>3, <2>1 DEF QueuedLess
  <2>4. b < c \/ (b = c /\ y > z) \/ (b = c /\ y = z /\ u > v)
    BY <1>3, <2>1 DEF QueuedLess
  <2>5. a < c \/ (a = c /\ x > z) \/ (a = c /\ x = z /\ t > v)
    BY <2>2, <2>3, <2>4
  <2> QED
    BY <2>1, <2>5 DEF QueuedLess
<1> QED
  BY <1>2, <1>3

\* What is evicted is not executable, or the last of its sender.
LEMMA CandidateIs ==
    ASSUME NEW p \in Pools, DOMAIN p.tx # {}
    PROVE  LET t == eviction_candidate(p) IN
           /\ t \in DOMAIN p.tx
           /\ ~p.tx[t].executable \/ \A u \in Of(p, From(t)) : Nonce(u) <= Nonce(t)
<1> DEFINE queued == {t \in DOMAIN p.tx : ~p.tx[t].executable}
           prices == {fee_per_byte(t) : t \in DOMAIN p.tx}
           cheapest == Min(prices)
           heads == {u \in DOMAIN p.tx : fee_per_byte(u) = cheapest}
           senders == {From(t) : t \in heads}
           sender == Min(senders)
           c == eviction_candidate(p)
<1>1. DOMAIN p.tx \in SUBSET TxId /\ Of(p, sender) \in SUBSET TxId
  BY PoolTypes
<1>2. CASE queued # {}
  <2>1. c = CHOOSE t \in queued : \A u \in queued \ {t} : QueuedLess(p, t, u)
    BY <1>2 DEF eviction_candidate
  <2> DEFINE R == {e \in queued \X queued : QueuedLess(p, e[1], e[2])}
  <2>2. IsFiniteSet(queued) /\ queued \subseteq DOMAIN p.tx
    <3>1. queued \in SUBSET TxId
      BY <1>1
    <3> HIDE DEF queued
    <3> QED
      BY <3>1, TxSets DEF queued
  <2> HIDE DEF queued, c
  <2>3. \A x, y \in queued : <<x, y>> \in R <=> QueuedLess(p, x, y)
    OBVIOUS
  <2> HIDE DEF R
  <2>4. /\ \A x, y \in queued : x # y => <<x, y>> \in R \/ <<y, x>> \in R
        /\ \A x, y, z \in queued : <<x, y>> \in R /\ <<y, z>> \in R => <<x, z>> \in R
    <3>1. \A x, y \in queued : x # y => QueuedLess(p, x, y) \/ QueuedLess(p, y, x)
      BY <2>2, QueuedOrder
    <3>2. \A x, y, z \in queued : QueuedLess(p, x, y) /\ QueuedLess(p, y, z) => QueuedLess(p, x, z)
      BY <2>2, QueuedOrder
    <3> QED
      BY <2>3, <3>1, <3>2
  <2>5. \E x \in queued : \A y \in queued \ {x} : <<x, y>> \in R
    BY <1>2, <2>2, <2>4, FiniteLeast
  <2>6. \E x \in queued : \A y \in queued \ {x} : QueuedLess(p, x, y)
    BY <2>3, <2>5
  <2>7. c \in queued
    BY <2>1, <2>6
  <2> QED
    BY <2>7 DEF queued, c
<1>3. CASE queued = {}
  <2>1. c = CHOOSE t \in Of(p, sender) : \A u \in Of(p, sender) : Nonce(u) <= Nonce(t)
    BY <1>3 DEF eviction_candidate
  <2>2. cheapest \in prices
    <3>1. prices \subseteq Nat /\ prices # {}
      BY <1>1, TxTypes
    <3> HIDE DEF prices
    <3> QED
      BY <3>1, LeastOf
  <2>3. sender \in senders
    <3> HIDE DEF cheapest
    <3>1. senders \subseteq Nat /\ senders # {}
      BY <1>1, <2>2, TxTypes, PoolConstants
    <3> HIDE DEF senders
    <3> QED
      BY <3>1, LeastOf
  <2> HIDE DEF cheapest, sender, c
  <2>4. Of(p, sender) # {}
    BY <2>3 DEF Of, FromOf
  <2> DEFINE T == Of(p, sender)
             R == {e \in T \X T : Nonce(e[2]) <= Nonce(e[1])}
  <2>5. IsFiniteSet(T) /\ T \subseteq DOMAIN p.tx /\ \A t \in T : Nonce(t) \in Nat /\ From(t) = sender
    <3>1. T \in SUBSET TxId /\ T \subseteq DOMAIN p.tx
      BY <1>1, PoolTypes
    <3>2. IsFiniteSet(T)
      BY <3>1, TxSets
    <3> QED
      BY <3>1, <3>2, TxTypes DEF Of, FromOf
  <2> HIDE DEF T
  <2>6. \A x, y \in T : <<x, y>> \in R <=> Nonce(y) <= Nonce(x)
    OBVIOUS
  <2> HIDE DEF R
  <2>7. /\ \A x, y \in T : x # y => <<x, y>> \in R \/ <<y, x>> \in R
        /\ \A x, y, z \in T : <<x, y>> \in R /\ <<y, z>> \in R => <<x, z>> \in R
    BY <2>5, <2>6
  <2>11. T # {}
    BY <2>4 DEF T
  <2>13. IsFiniteSet(T)
    BY <2>5
  <2>14. \E x \in T : \A y \in T \ {x} : <<x, y>> \in R
    BY <2>7, <2>11, <2>13, FiniteLeast
  <2>8. PICK x \in T : \A y \in T \ {x} : <<x, y>> \in R
    BY <2>14
  <2>12. ASSUME NEW y \in T PROVE Nonce(y) <= Nonce(x)
    <3>1. CASE y = x
      BY <2>5, <3>1
    <3>2. CASE y # x
      BY <2>6, <2>8, <3>2
    <3> QED
      BY <3>1, <3>2
  <2>9. \E z \in T : \A y \in T : Nonce(y) <= Nonce(z)
    BY <2>12
  <2>10. c \in T /\ \A y \in T : Nonce(y) <= Nonce(c)
    BY <2>1, <2>9 DEF T
  <2> QED
    BY <2>5, <2>10 DEF T, c
<1> QED
  BY <1>2, <1>3

\* The marks of s are the run from n; no nonce of s is below n.
Exact(p, s, n) == \A t \in Of(p, s) : p.tx[t].executable <=> t \in Run(p, s, n)
Above(p, s, n) == \A t \in Of(p, s) : Nonce(t) >= n

\* The marks of a sender depend on its own transactions only.
LEMMA ExactSame ==
    ASSUME NEW p, NEW q, NEW s, NEW n, Of(q, s) = Of(p, s), Exact(p, s, n),
           \A t \in Of(p, s) : q.tx[t].executable = p.tx[t].executable
    PROVE  Exact(q, s, n)
<1>1. Run(q, s, n) = Run(p, s, n)
  BY RunOf
<1> QED
  BY <1>1 DEF Exact

\* Taking out what is not executable, or the last, leaves the rest of the run.
LEMMA EvictKeepsExact ==
    ASSUME NEW p \in Pools, Distinct(p), NEW s \in Sender, NEW n \in Nat, Exact(p, s, n), Above(p, s, n),
           NEW t \in DOMAIN p.tx, ~p.tx[t].executable \/ \A u \in Of(p, From(t)) : Nonce(u) <= Nonce(t)
    PROVE  Exact(remove(p, {t}), s, n)
<1> DEFINE q == remove(p, {t})
<1>1. /\ q \in Pools /\ DOMAIN q.tx = DOMAIN p.tx \ {t}
      /\ \A u \in DOMAIN q.tx : q.tx[u] = p.tx[u]
      /\ Of(q, s) = Of(p, s) \ {t}
  BY RemoveIs
<1>2. /\ \A u \in Of(p, s) : u \in TxId /\ Nonce(u) \in Nat /\ u \in DOMAIN p.tx /\ From(u) = s
      /\ t \in TxId /\ Nonce(t) \in Nat
  BY PoolTypes, TxTypes DEF Of, FromOf
<1> HIDE DEF q
<1>3. CASE From(t) # s
  <2>1. Of(q, s) = Of(p, s)
    BY <1>1, <1>2, <1>3
  <2>2. \A u \in Of(p, s) : q.tx[u].executable = p.tx[u].executable
    BY <1>1, <1>2, <1>3
  <2> QED
    BY <2>1, <2>2, ExactSame DEF q
<1>4. CASE From(t) = s
  <2>1. \A m : AtNonce(q, s, m) = AtNonce(p, s, m) \ {t}
    BY <1>1 DEF AtNonce
  <2>2. t \in Of(p, s)
    BY <1>4 DEF Of, FromOf
  <2>3. ASSUME NEW u \in Of(q, s), u \in Run(q, s, n) PROVE u \in Run(p, s, n)
    BY <1>1, <2>1, <2>3 DEF Run
  <2>4. ASSUME NEW u \in Of(q, s), u \in Run(p, s, n) PROVE u \in Run(q, s, n)
    <3>1. u \in Of(p, s) /\ u # t /\ Nonce(u) >= n /\ \A m \in n..Nonce(u) : AtNonce(p, s, m) # {}
      BY <1>1, <2>4 DEF Run
    <3>2. ~(Nonce(t) <= Nonce(u))
      <4> SUFFICES ASSUME Nonce(t) <= Nonce(u) PROVE FALSE
        OBVIOUS
      <4>1. CASE \A v \in Of(p, From(t)) : Nonce(v) <= Nonce(t)
        <5>1. Nonce(u) = Nonce(t)
          BY <1>2, <1>4, <3>1, <4>1
        <5> QED
          BY <1>2, <1>4, <2>2, <3>1, <5>1 DEF Distinct
      <4>2. CASE ~p.tx[t].executable
        <5>1. Nonce(t) >= n
          BY <2>2 DEF Above
        <5>2. \A m \in n..Nonce(t) : AtNonce(p, s, m) # {}
          BY <1>2, <3>1
        <5>3. t \in Run(p, s, n)
          BY <2>2, <5>1, <5>2 DEF Run
        <5> QED
          BY <2>2, <4>2, <5>3 DEF Exact
      <4> QED
        BY <4>1, <4>2
    <3>3. ASSUME NEW m \in n..Nonce(u) PROVE AtNonce(q, s, m) # {}
      <4>1. PICK v : v \in AtNonce(p, s, m)
        BY <3>1
      <4>2. Nonce(v) = m /\ m \in Int /\ m <= Nonce(u)
        BY <1>2, <3>1, <4>1 DEF AtNonce
      <4>3. v # t
        BY <1>2, <3>1, <3>2, <4>2
      <4> QED
        BY <2>1, <4>1, <4>3
    <3> QED
      BY <2>4, <3>1, <3>3 DEF Run
  <2>5. \A u \in Of(q, s) : u \in Of(p, s) /\ q.tx[u] = p.tx[u]
    BY <1>1, <1>2
  <2>6. \A u \in Of(q, s) : q.tx[u].executable <=> u \in Run(q, s, n)
    <3> TAKE u \in Of(q, s)
    <3>1. p.tx[u].executable <=> u \in Run(p, s, n)
      BY <2>5 DEF Exact
    <3>2. q.tx[u] = p.tx[u]
      BY <2>5
    <3> QED
      BY <2>3, <2>4, <3>1, <3>2, Zenon
  <2> QED
    BY <2>6 DEF Exact, q
<1> QED
  BY <1>3, <1>4

\* q is what is left of p when transactions of p were taken out.
LeftOf(q, p) ==
    /\ q \in Pools /\ DOMAIN q.tx \subseteq DOMAIN p.tx
    /\ \A t \in DOMAIN q.tx : q.tx[t] = p.tx[t]
    /\ \A s \in DOMAIN q.next : s \in DOMAIN p.next /\ q.next[s] = p.next[s]
    /\ \A s \in DOMAIN p.next : s \in DOMAIN q.next \/ Of(q, s) = {}

\* What is left of what is left is left.
LEMMA LeftLess ==
    ASSUME NEW p \in Pools, NEW q, LeftOf(q, p), NEW ids
    PROVE  LeftOf(remove(q, ids), p)
<1> DEFINE r == remove(q, ids)
<1>1. q \in Pools
  BY DEF LeftOf
<1>2. /\ r \in Pools /\ DOMAIN r.tx = DOMAIN q.tx \ ids
      /\ \A t \in DOMAIN r.tx : r.tx[t] = q.tx[t]
      /\ \A s : Of(r, s) = Of(q, s) \ ids
      /\ \A s \in DOMAIN r.next : s \in DOMAIN q.next /\ r.next[s] = q.next[s]
      /\ \A s \in DOMAIN q.next : s \in DOMAIN r.next \/ Of(r, s) = {}
  BY <1>1, RemoveIs
<1> HIDE DEF r
<1>3. \A s \in DOMAIN p.next : s \in DOMAIN r.next \/ Of(r, s) = {}
  BY <1>2 DEF LeftOf
<1>4. LeftOf(r, p)
  BY <1>2, <1>3 DEF LeftOf
<1> QED
  BY <1>4 DEF r

\* Everything is left when nothing is taken.
LEMMA LeftRefl ==
    ASSUME NEW p \in Pools
    PROVE  LeftOf(p, p)
BY DEF LeftOf

\* The pools the eviction loop goes through.
Evictions(p, t) ==
    CHOOSE left : left = [k \in 0..Cardinality(DOMAIN p.tx) |-> IF k = 0 THEN p ELSE evict_one(left[k - 1], t)]

\* The eviction loop takes transactions out, and leaves exact the marks that were.
LEMMA MakeRoomIs ==
    ASSUME NEW p \in Shaped, NEW t, NEW E \in SUBSET Sender, NEW next \in [Sender -> Nat],
           \A s \in Sender : Above(p, s, next[s]), \A s \in E : Exact(p, s, next[s])
    PROVE  LET room == MakeRoom(p, t) IN
           /\ room.ok = ~Full(room.pool, t) /\ LeftOf(room.pool, p)
           /\ \A s \in E : Exact(room.pool, s, next[s])
<1> DEFINE X == {q \in Pools : LeftOf(q, p) /\ \A s \in E : Exact(q, s, next[s])}
           n == Cardinality(DOMAIN p.tx)
           G == [e \in (1..n) \X X |-> evict_one(e[2], t)]
<1>1. p \in Pools /\ Distinct(p) /\ n \in Nat
  BY PoolTypes, TxSets DEF Shaped
<1>2. p \in X
  BY <1>1, LeftRefl
<1>3. ASSUME NEW q \in X PROVE evict_one(q, t) \in X
  <2>1. q \in Pools /\ LeftOf(q, p) /\ DOMAIN q.tx \subseteq DOMAIN p.tx
    BY DEF LeftOf
  <2>2. CASE ~Evicts(q, t)
    BY <2>2 DEF evict_one
  <2>3. CASE Evicts(q, t)
    <3> DEFINE c == eviction_candidate(q)
               r == remove(q, {c})
    <3>1. DOMAIN q.tx # {}
      BY <2>3 DEF Evicts
    <3>2. c \in DOMAIN q.tx /\ (~q.tx[c].executable \/ \A u \in Of(q, From(c)) : Nonce(u) <= Nonce(c))
      BY <2>1, <3>1, CandidateIs
    <3>3. Distinct(q)
      BY <1>1, <2>1 DEF Distinct
    <3>4. LeftOf(r, p)
      BY <1>1, <2>1, LeftLess
    <3>5. ASSUME NEW s \in E PROVE Exact(r, s, next[s])
      <4>1. Exact(q, s, next[s]) /\ s \in Sender /\ next[s] \in Nat
        OBVIOUS
      <4>2. Above(q, s, next[s])
        <5>1. Above(p, s, next[s]) /\ Of(q, s) \subseteq Of(p, s)
          BY <2>1, <4>1 DEF Of, FromOf
        <5> QED
          BY <5>1 DEF Above
      <4> HIDE DEF c, X
      <4> QED
        BY <2>1, <3>2, <3>3, <4>1, <4>2, EvictKeepsExact
    <3> HIDE DEF r
    <3>6. r \in X
      BY <3>4, <3>5 DEF LeftOf
    <3>7. evict_one(q, t) = r
      BY <2>3 DEF evict_one, r
    <3> QED
      BY <3>6, <3>7
  <2> QED
    BY <2>2, <2>3
<1>4. G \in [(1..n) \X X -> X]
  <2> HIDE DEF X, n
  <2> QED
    BY <1>3
<1>5. PICK g : Iterates(g, n, X, p, G)
  <2> HIDE DEF X, n, G
  <2> QED
    BY <1>1, <1>2, <1>4, IterationExists
<1>6. g \in [0..n -> X] /\ g[0] = p /\ \A k \in 1..n : g[k] = G[<<k, g[k - 1]>>]
  <2> HIDE DEF X, n, G
  <2> QED
    BY <1>5, Zenon DEF Iterates
<1>7. \A k \in 1..n : g[k] = evict_one(g[k - 1], t)
  <2> HIDE DEF X, n
  <2> TAKE k \in 1..n
  <2>1. k - 1 \in 0..n
    BY <1>1
  <2>2. g[k - 1] \in X
    BY <1>6, <2>1
  <2> QED
    BY <1>6, <2>2
<1>8. g = [k \in 0..n |-> IF k = 0 THEN p ELSE evict_one(g[k - 1], t)]
  <2> HIDE DEF X, n, G
  <2>1. g = [k \in 0..n |-> g[k]]
    BY <1>6
  <2>2. ASSUME NEW k \in 0..n
        PROVE  g[k] = IF k = 0 THEN p ELSE evict_one(g[k - 1], t)
    <3>1. CASE k = 0
      BY <1>6, <3>1
    <3>2. CASE k # 0
      <4>1. k \in 1..n
        BY <1>1, <3>2
      <4> QED
        BY <1>7, <3>2, <4>1, Zenon
    <3> QED
      BY <3>1, <3>2
  <2> QED
    BY <2>1, <2>2, Zenon
<1> DEFINE ev == Evictions(p, t)
<1>9. ev = [k \in 0..n |-> IF k = 0 THEN p ELSE evict_one(ev[k - 1], t)]
  <2> HIDE DEF X, G
  <2> QED
    BY <1>8, Zenon DEF Evictions
<1> HIDE DEF ev
<1>10. ev[0] \in X
  <2>1. 0 \in 0..n
    BY <1>1
  <2>2. ev[0] = p
    <3> HIDE DEF X, n, G
    <3> QED
      BY <1>9, <2>1, Zenon
  <2> QED
    BY <1>2, <2>2
<1>11. \A k \in 1..n : ev[k - 1] \in X => ev[k] \in X
  <2> HIDE DEF X, n, G
  <2> TAKE k \in 1..n
  <2> HAVE ev[k - 1] \in X
  <2>1. k \in 0..n /\ k # 0
    BY <1>1
  <2>2. ev[k] = evict_one(ev[k - 1], t)
    BY <1>9, <2>1, Zenon DEF evict_one
  <2> QED
    BY <1>3, <2>2
<1>12. ev[n] \in X
  <2> HIDE DEF X, n, G
  <2>1. \A k \in 0..n : ev[k] \in X
    BY <1>1, <1>10, <1>11, IterationKeeps
  <2> QED
    BY <1>1, <2>1
<1>13. MakeRoom(p, t) = [pool |-> ev[n], ok |-> ~Full(ev[n], t)]
  <2> HIDE DEF X, G
  <2> QED
    BY Zenon DEF MakeRoom, Room, Evictions, ev, n
<1>14. MakeRoom(p, t).pool = ev[n] /\ MakeRoom(p, t).ok = ~Full(ev[n], t)
  <2> HIDE DEF X, G, n
  <2> QED
    BY <1>13
<1> QED
  BY <1>12, <1>14

-----------------------------------------------------------------------------
(* A submission.                                                           *)

\* next_nonce of s is n, or s has at most one transaction, whose removal needs no memo.
Memo(p, s, n) == (s \in DOMAIN p.next /\ p.next[s] = n) \/ \A t, u \in Of(p, s) : t = u
Fits(p, next) == \A s \in Sender : Exact(p, s, next[s]) /\ Above(p, s, next[s]) /\ Memo(p, s, next[s])
\* q has no transaction that p has not, and the memos of the senders it has.
Fewer(q, p) ==
    /\ q \in Pools /\ DOMAIN q.tx \subseteq DOMAIN p.tx
    /\ \A s \in DOMAIN q.next : s \in DOMAIN p.next /\ q.next[s] = p.next[s]
    /\ \A s \in DOMAIN p.next : s \in DOMAIN q.next \/ Of(q, s) = {}

\* Memos and nonces stay right when transactions go.
LEMMA FewerKeeps ==
    ASSUME NEW p \in Pools, NEW q, Fewer(q, p), NEW s, NEW n
    PROVE  /\ Of(q, s) \subseteq Of(p, s)
           /\ Memo(p, s, n) => Memo(q, s, n)
           /\ Above(p, s, n) => Above(q, s, n)
<1>1. Of(q, s) \subseteq Of(p, s)
  BY DEF Of, FromOf, Fewer
<1>2. ASSUME Memo(p, s, n) PROVE Memo(q, s, n)
  <2>1. CASE \A t, u \in Of(p, s) : t = u
    BY <1>1, <2>1 DEF Memo
  <2>2. CASE s \in DOMAIN p.next /\ p.next[s] = n
    BY <2>2 DEF Memo, Fewer
  <2> QED
    BY <1>2, <2>1, <2>2 DEF Memo
<1> QED
  BY <1>1, <1>2 DEF Above

\* What is left of a pool is fewer.
LEMMA LeftIsFewer ==
    ASSUME NEW p, NEW q, LeftOf(q, p)
    PROVE  Fewer(q, p)
BY DEF LeftOf, Fewer

\* The sweep of what expired leaves right the marks and memos of every sender:
\* of one that lost a transaction it sets the marks from the memo.
LEMMA SweepIs ==
    ASSUME NEW p \in Pools, NEW now
    PROVE  LET q == sweep_expired(p, now) IN
           /\ Fewer(q, p)
           /\ \A s \in Sender : \A n : Exact(p, s, n) /\ Memo(p, s, n) => Exact(q, s, n)
<1> DEFINE dead == {t \in DOMAIN p.tx : now - p.tx[t].arrived > PoolTtl}
           left == remove(p, dead)
           memo == [s \in Sender |-> IF s \in DOMAIN left.next THEN left.next[s] ELSE 0]
           S == {From(t) : t \in dead}
           q == resplit(left, S, memo)
<1>1. sweep_expired(p, now) = q
  BY Zenon DEF sweep_expired
<1>2. /\ left \in Pools /\ DOMAIN left.tx = DOMAIN p.tx \ dead
      /\ \A t \in DOMAIN left.tx : left.tx[t] = p.tx[t]
      /\ \A s : Of(left, s) = Of(p, s) \ dead
      /\ \A s \in DOMAIN left.next : s \in DOMAIN p.next /\ left.next[s] = p.next[s]
      /\ \A s \in DOMAIN p.next : s \in DOMAIN left.next \/ Of(left, s) = {}
  <2> HIDE DEF dead
  <2> QED
    BY RemoveIs
<1>3. /\ q \in Pools /\ DOMAIN q.tx = DOMAIN left.tx /\ q.next = left.next
      /\ \A t \in DOMAIN q.tx : q.tx[t].executable = IF From(t) \in S THEN t \in Run(left, From(t), memo[From(t)]) ELSE left.tx[t].executable
      /\ \A s : Of(q, s) = Of(left, s)
  <2> HIDE DEF left, S, memo
  <2> QED
    BY <1>2, ResplitIs
<1>4. \A t \in S : \E u \in dead : From(u) = t
  OBVIOUS
<1>5. \A s \in Sender : s \in DOMAIN left.next => memo[s] = left.next[s]
  OBVIOUS
<1>6. dead \subseteq DOMAIN p.tx
  OBVIOUS
<1>7. \A t \in dead : From(t) \in S
  OBVIOUS
<1> HIDE DEF dead, left, memo, S, q
<1>8. Fewer(q, p)
  BY <1>2, <1>3 DEF Fewer
<1>9. ASSUME NEW s \in Sender, NEW n, Exact(p, s, n), Memo(p, s, n)
      PROVE  Exact(q, s, n)
  <2>1. CASE s \notin S
    <3>1. Of(p, s) \cap dead = {}
      BY <1>7, <2>1 DEF Of, FromOf
    <3>2. Of(q, s) = Of(p, s)
      BY <1>2, <1>3, <3>1
    <3>3. \A t \in Of(p, s) : q.tx[t].executable = p.tx[t].executable
      <4> TAKE t \in Of(p, s)
      <4>1. From(t) = s /\ t \in DOMAIN q.tx
        BY <3>2 DEF Of, FromOf
      <4> QED
        BY <1>2, <1>3, <2>1, <4>1
    <3> QED
      BY <1>9, <3>2, <3>3, ExactSame
  <2>2. CASE s \in S
    <3>1. PICK u \in dead : From(u) = s
      BY <1>4, <2>2
    <3>2. u \in Of(p, s)
      BY <1>6, <3>1 DEF Of, FromOf
    <3>3. ASSUME NEW t \in Of(q, s) PROVE q.tx[t].executable <=> t \in Run(q, s, n)
      <4>1. t \in Of(p, s) /\ t # u /\ t \in DOMAIN q.tx /\ From(t) = s /\ Of(left, s) # {}
        BY <1>2, <1>3, <3>3 DEF Of, FromOf
      <4>2. s \in DOMAIN p.next /\ p.next[s] = n
        BY <1>9, <3>2, <4>1 DEF Memo
      <4>3. s \in DOMAIN left.next /\ left.next[s] = n
        BY <1>2, <4>1, <4>2
      <4>4. memo[s] = n
        BY <1>5, <4>3
      <4>5. Run(left, s, n) = Run(q, s, n)
        BY <1>3, RunOf
      <4>6. q.tx[t].executable = (t \in Run(left, s, memo[s]))
        BY <1>3, <2>2, <4>1
      <4> QED
        BY <4>4, <4>5, <4>6
    <3> QED
      BY <3>3 DEF Exact
  <2> QED
    BY <2>1, <2>2
<1> QED
  BY <1>1, <1>8, <1>9

\* What the checks of a submission say of the pool they were made on.
LEMMA CheckIs ==
    ASSUME NEW p \in Pools, NEW c \in Seq(MinedBlocks), NEW t \in TxId, check(p, c, t)
    PROVE  /\ t \notin DOMAIN p.tx /\ Nonce(t) >= nonces(c)[From(t)]
           /\ Cardinality(Of(p, From(t)) \ AtNonce(p, From(t), Nonce(t))) < SenderTxs
<1>1. From(t) \in Sender /\ Nonce(t) \in Nat
  BY TxTypes
<1>2. account(c, From(t)).nonce \in Nat /\ nonces(c)[From(t)] = account(c, From(t)).nonce
  BY <1>1, NonceTypes
<1>3. /\ t \notin DOMAIN p.tx
      /\ Nonce(t) \in account(c, From(t)).nonce..(account(c, From(t)).nonce + NonceGap)
      /\ Cardinality(Of(p, From(t)) \ AtNonce(p, From(t), Nonce(t))) < SenderTxs
  BY Zenon DEF check
<1>4. NonceGap \in Nat
  BY PoolConstants
<1> QED
  BY <1>1, <1>2, <1>3, <1>4

\* Room was made: the transaction goes in, and its sender's marks are set anew.
AdmitInto(p, t, now, next) ==
    resplit(insert(remember(p, {From(t)}, next), t, [arrived |-> now, executable |-> FALSE]), {From(t)}, next)

\* An admission keeps the shape of the pool and every sender's marks.
LEMMA AdmitIs ==
    ASSUME NEW p \in Shaped, NEW t \in TxId \ DOMAIN p.tx, NEW now \in Nat, NEW next \in [Sender -> Nat],
           ~Full(p, t), AtNonce(p, From(t), Nonce(t)) = {}, Cardinality(Of(p, From(t))) < SenderTxs
    PROVE  LET q == AdmitInto(p, t, now, next) IN
           /\ q \in Shaped
           /\ \A s \in Sender \ {From(t)} : Exact(p, s, next[s]) /\ Above(p, s, next[s]) /\ Memo(p, s, next[s])
                 => Exact(q, s, next[s]) /\ Above(q, s, next[s]) /\ Memo(q, s, next[s])
           /\ Nonce(t) >= next[From(t)] /\ Above(p, From(t), next[From(t)])
                 => Exact(q, From(t), next[From(t)]) /\ Above(q, From(t), next[From(t)]) /\ Memo(q, From(t), next[From(t)])
<1> DEFINE s == From(t)
           row == [arrived |-> now, executable |-> FALSE]
           r == remember(p, {s}, next)
           i == insert(r, t, row)
           q == resplit(i, {s}, next)
<1>1. p \in Pools /\ Distinct(p) /\ Capped(p) /\ s \in Sender /\ row \in Rows
  BY TxTypes DEF Shaped, Rows
<1>2. /\ r \in Pools /\ r.tx = p.tx /\ DOMAIN r.next = DOMAIN p.next \cup {s} /\ r.next[s] = next[s]
      /\ \A x \in DOMAIN p.next \ {s} : r.next[x] = p.next[x]
      /\ \A x : Of(r, x) = Of(p, x)
  <2>1. PICK S : S = {s}
    OBVIOUS
  <2>2. S \in SUBSET Sender
    BY <1>1, <2>1
  <2> HIDE DEF s
  <2>3. LET q1 == remember(p, S, next) IN
        /\ q1 \in Pools /\ q1.tx = p.tx /\ DOMAIN q1.next = DOMAIN p.next \cup S
        /\ \A x \in S : q1.next[x] = next[x]
        /\ \A x \in DOMAIN p.next \ S : q1.next[x] = p.next[x]
        /\ \A x : Of(q1, x) = Of(p, x)
    BY <1>1, <2>2, RememberIs, ZenonT(40)
  <2>4. r = remember(p, S, next)
    BY <2>1, Zenon
  <2> HIDE DEF r
  <2> QED
    BY <2>1, <2>3, <2>4
<1>3. /\ i \in Pools /\ i.next = r.next /\ DOMAIN i.tx = DOMAIN r.tx \cup {t}
      /\ \A u \in DOMAIN i.tx \ {t} : i.tx[u] = r.tx[u]
      /\ Of(i, s) = Of(r, s) \cup {t} /\ \A x : x # s => Of(i, x) = Of(r, x)
  <2> HIDE DEF r, row
  <2> QED
    BY <1>1, <1>2, InsertIs
<1>4. /\ q \in Pools /\ DOMAIN q.tx = DOMAIN i.tx /\ q.next = i.next
      /\ \A u \in DOMAIN q.tx : q.tx[u].executable = IF From(u) \in {s} THEN u \in Run(i, From(u), next[From(u)]) ELSE i.tx[u].executable
      /\ \A x : Of(q, x) = Of(i, x)
  <2> HIDE DEF i, s
  <2>1. PICK S : S = {s}
    OBVIOUS
  <2>2. LET q1 == resplit(i, S, next) IN
        /\ q1 \in Pools /\ DOMAIN q1.tx = DOMAIN i.tx /\ q1.next = i.next
        /\ \A u \in DOMAIN q1.tx :
              /\ q1.tx[u].arrived = i.tx[u].arrived
              /\ q1.tx[u].executable = IF From(u) \in S THEN u \in Run(i, From(u), next[From(u)]) ELSE i.tx[u].executable
        /\ \A x : Of(q1, x) = Of(i, x)
    <3>1. i \in Pools
      BY <1>3
    <3> QED
      BY <3>1, ResplitIs
  <2>3. q = resplit(i, S, next)
    BY <2>1, Zenon
  <2> HIDE DEF q
  <2> QED
    BY <2>1, <2>2, <2>3
<1> HIDE DEF r, i, q, row
<1>5. DOMAIN q.tx = DOMAIN p.tx \cup {t} /\ Of(q, s) = Of(p, s) \cup {t} /\ \A x : x # s => Of(q, x) = Of(p, x)
  BY <1>2, <1>3, <1>4
<1>6. ASSUME NEW u \in Of(p, s) PROVE Nonce(u) # Nonce(t)
  BY DEF AtNonce
<1>7. Distinct(q)
  <2> SUFFICES ASSUME NEW a \in DOMAIN q.tx, NEW b \in DOMAIN q.tx, From(a) = From(b), Nonce(a) = Nonce(b) PROVE a = b
    BY DEF Distinct
  <2>1. CASE a = t /\ b # t
    <3>1. b \in Of(p, s)
      BY <1>5, <2>1 DEF Of, FromOf
    <3> QED
      BY <1>6, <2>1, <3>1
  <2>2. CASE b = t /\ a # t
    <3>1. a \in Of(p, s)
      BY <1>5, <2>2 DEF Of, FromOf
    <3> QED
      BY <1>6, <2>2, <3>1
  <2>3. CASE a # t /\ b # t
    BY <1>1, <1>5, <2>3 DEF Distinct
  <2> QED
    BY <2>1, <2>2, <2>3
<1>8. Capped(q)
  <2>1. IsFiniteSet(DOMAIN p.tx) /\ Cardinality(DOMAIN p.tx) \in Nat
    BY <1>1, PoolTypes, TxSets
  <2>2. Cardinality(DOMAIN q.tx) <= PoolTxs
    <3>1. ~(Cardinality(DOMAIN p.tx) >= PoolTxs)
      BY DEF Full
    <3>2. Cardinality(DOMAIN p.tx \cup {t}) = Cardinality(DOMAIN p.tx) + 1
      BY <2>1, FS_AddElement
    <3> QED
      BY <1>5, <2>1, <3>1, <3>2, PoolNumbers
  <2>3. Cardinality(Of(q, s)) <= SenderTxs
    <3>1. IsFiniteSet(Of(p, s)) /\ Cardinality(Of(p, s)) \in Nat /\ t \notin Of(p, s)
      BY <1>1, PoolTypes, TxSets
    <3>2. Cardinality(Of(p, s) \cup {t}) = Cardinality(Of(p, s)) + 1
      BY <3>1, FS_AddElement
    <3> QED
      BY <1>5, <3>1, <3>2, PoolNumbers
  <2> QED
    BY <1>1, <1>5, <2>2, <2>3 DEF Capped
<1>9. ASSUME NEW x \in Sender \ {s}, Exact(p, x, next[x]), Above(p, x, next[x]), Memo(p, x, next[x])
      PROVE  Exact(q, x, next[x]) /\ Above(q, x, next[x]) /\ Memo(q, x, next[x])
  <2>1. Of(q, x) = Of(p, x)
    BY <1>5
  <2>2. \A u \in Of(p, x) : q.tx[u].executable = p.tx[u].executable
    <3> TAKE u \in Of(p, x)
    <3>1. From(u) = x /\ u \in DOMAIN p.tx /\ u \in DOMAIN q.tx /\ u # t
      BY <1>5 DEF Of, FromOf
    <3> QED
      BY <1>2, <1>3, <1>4, <3>1
  <2>3. Exact(q, x, next[x])
    BY <1>9, <2>1, <2>2, ExactSame
  <2>4. Memo(q, x, next[x])
    <3>1. CASE x \in DOMAIN p.next /\ p.next[x] = next[x]
      BY <1>2, <1>3, <1>4, <3>1 DEF Memo
    <3> QED
      BY <1>9, <2>1, <3>1 DEF Memo
  <2> QED
    BY <1>9, <2>1, <2>3, <2>4 DEF Above
<1>10. ASSUME Nonce(t) >= next[s], Above(p, s, next[s])
       PROVE  Exact(q, s, next[s]) /\ Above(q, s, next[s]) /\ Memo(q, s, next[s])
  <2>1. Above(q, s, next[s])
    BY <1>5, <1>10 DEF Above
  <2>2. Memo(q, s, next[s])
    BY <1>2, <1>3, <1>4 DEF Memo
  <2>3. ASSUME NEW u \in Of(q, s) PROVE q.tx[u].executable <=> u \in Run(q, s, next[s])
    <3>1. From(u) = s /\ u \in DOMAIN q.tx
      BY DEF Of, FromOf
    <3>2. Run(i, s, next[s]) = Run(q, s, next[s])
      BY <1>4, RunOf
    <3>3. q.tx[u].executable = (u \in Run(i, s, next[s]))
      BY <1>4, <3>1
    <3> QED
      BY <3>2, <3>3
  <2> QED
    BY <2>1, <2>2, <2>3 DEF Exact
<1>11. q \in Shaped
  BY <1>4, <1>7, <1>8 DEF Shaped
<1>12. AdmitInto(p, t, now, next) = q
  BY Zenon DEF AdmitInto, q, i, r, row
<1> QED
  BY <1>9, <1>10, <1>11, <1>12

\* Fewer of fewer is fewer.
LEMMA FewerTrans ==
    ASSUME NEW p, NEW q, NEW r, Fewer(q, p), Fewer(r, q)
    PROVE  Fewer(r, p)
<1>1. \A s : Of(r, s) \subseteq Of(q, s)
  BY DEF Of, FromOf, Fewer
<1>2. \A s \in DOMAIN p.next : s \in DOMAIN r.next \/ Of(r, s) = {}
  BY <1>1 DEF Fewer
<1> QED
  BY <1>2 DEF Fewer

\* A replacement without room: what it took out is back, in its place.
BackIn(room, swept, replaces) ==
    [room EXCEPT !.tx = [u \in DOMAIN @ \cup replaces |-> IF u \in replaces THEN swept.tx[u] ELSE @[u]]]

\* What was taken out for a replacement goes back, and nothing else changes.
LEMMA BackInIs ==
    ASSUME NEW room \in Pools, NEW swept \in Pools, NEW replaces \in SUBSET DOMAIN swept.tx
    PROVE  LET b == BackIn(room, swept, replaces) IN
           /\ b \in Pools /\ b.next = room.next /\ DOMAIN b.tx = DOMAIN room.tx \cup replaces
           /\ \A u \in DOMAIN room.tx \ replaces : b.tx[u] = room.tx[u]
           /\ \A s : Of(b, s) = Of(room, s) \cup FromOf(replaces, s)
<1> DEFINE f == [u \in DOMAIN room.tx \cup replaces |-> IF u \in replaces THEN swept.tx[u] ELSE room.tx[u]]
           b == BackIn(room, swept, replaces)
<1>1. b = [room EXCEPT !.tx = f]
  BY Zenon DEF BackIn
<1>2. b = [tx |-> f, next |-> room.next]
  <2> HIDE DEF f, b
  <2> QED
    BY <1>1, PoolFields
<1>3. DOMAIN room.tx \cup replaces \in SUBSET TxId /\ DOMAIN room.next \in SUBSET Sender /\ room.next \in [DOMAIN room.next -> Nat]
  BY PoolTypes, PoolFields
<1>4. f \in [DOMAIN room.tx \cup replaces -> Rows] /\ \A u \in DOMAIN room.tx \ replaces : f[u] = room.tx[u]
  BY PoolTypes
<1> HIDE DEF f, b
<1>5. b \in Pools
  BY <1>2, <1>3, <1>4, PoolMade
<1>6. b.next = room.next /\ b.tx = f /\ DOMAIN b.tx = DOMAIN room.tx \cup replaces
  BY <1>2, <1>4
<1>7. \A s : Of(b, s) = Of(room, s) \cup FromOf(replaces, s)
  BY <1>6 DEF Of, FromOf
<1>8. \A u \in DOMAIN room.tx \ replaces : b.tx[u] = room.tx[u]
  BY <1>4, <1>6
<1> QED
  BY <1>5, <1>6, <1>7, <1>8 DEF b

\* The stages of a submission: swept, the replaced one out, room made.
SweptOf(p, now) == sweep_expired(p, now)
ReplacedBy(p, t, now) == AtNonce(SweptOf(p, now), From(t), Nonce(t))
RoomFor(p, t, now) == MakeRoom(remove(SweptOf(p, now), ReplacedBy(p, t, now)), t)

\* What is left when the transactions of the sender's nonce are taken out and room is made.
LEMMA RoomIs ==
    ASSUME NEW p \in Shaped, NEW t \in TxId, NEW now \in Nat, NEW next \in [Sender -> Nat]
    PROVE  LET swept == SweptOf(p, now)
               replaces == ReplacedBy(p, t, now)
               room == RoomFor(p, t, now)
           IN  /\ swept \in Shaped /\ Fewer(swept, p) /\ replaces \in SUBSET DOMAIN swept.tx
               /\ replaces \subseteq Of(swept, From(t))
               /\ room.pool \in Shaped /\ Fewer(room.pool, remove(swept, replaces))
               /\ Fewer(room.pool, p) /\ DOMAIN room.pool.tx \subseteq DOMAIN swept.tx \ replaces
               /\ room.ok = ~Full(room.pool, t)
               /\ Fits(p, next) =>
                     /\ Fits(swept, next)
                     /\ \A s \in Sender : s # From(t) \/ replaces = {} => Exact(room.pool, s, next[s])
<1> DEFINE swept == SweptOf(p, now)
           replaces == ReplacedBy(p, t, now)
           base == remove(swept, replaces)
           room == RoomFor(p, t, now)
<1>1. p \in Pools
  BY DEF Shaped
<1>2. /\ Fewer(swept, p) /\ swept \in Pools
      /\ \A s \in Sender : \A n : Exact(p, s, n) /\ Memo(p, s, n) => Exact(swept, s, n)
  BY <1>1, SweepIs DEF SweptOf, Fewer
<1>3. swept \in Shaped
  BY <1>2, ShapedLess DEF Fewer
<1>4. replaces \in SUBSET DOMAIN swept.tx /\ replaces \subseteq Of(swept, From(t)) /\ \A u \in replaces : From(u) = From(t)
  BY DEF ReplacedBy, AtNonce, Of, FromOf
<1> HIDE DEF swept, replaces
<1>5. /\ base \in Pools /\ DOMAIN base.tx = DOMAIN swept.tx \ replaces
      /\ \A u \in DOMAIN base.tx : base.tx[u] = swept.tx[u]
      /\ \A s : Of(base, s) = Of(swept, s) \ replaces
  BY <1>2, RemoveIs
<1>6. LeftOf(base, swept) /\ Fewer(base, swept) /\ Fewer(base, p)
  <2>1. LeftOf(base, swept)
    BY <1>2, LeftRefl, LeftLess
  <2>2. Fewer(base, swept)
    BY <2>1, LeftIsFewer
  <2> QED
    BY <1>2, <2>1, <2>2, FewerTrans
<1>7. base \in Shaped
  BY <1>3, <1>5, ShapedLess
<1>8. RoomFor(p, t, now) = MakeRoom(base, t)
  BY Zenon DEF RoomFor, swept, replaces, base
<1> HIDE DEF base
<1>9. room.ok = ~Full(room.pool, t) /\ LeftOf(room.pool, base)
  <2> DEFINE zero == [s \in Sender |-> 0]
  <2>1. zero \in [Sender -> Nat] /\ {} \in SUBSET Sender
    OBVIOUS
  <2>2. \A s \in Sender : Above(base, s, zero[s])
    BY <1>5, PoolTypes, TxTypes DEF Above
  <2> HIDE DEF zero
  <2> QED
    BY <1>7, <1>8, <2>1, <2>2, MakeRoomIs
<1>10. /\ Fewer(room.pool, base) /\ Fewer(room.pool, p) /\ room.pool \in Pools
       /\ DOMAIN room.pool.tx \subseteq DOMAIN swept.tx \ replaces
  <2> HIDE DEF room
  <2>1. Fewer(room.pool, base)
    BY <1>9, LeftIsFewer
  <2> QED
    BY <1>5, <1>6, <2>1, FewerTrans DEF Fewer
<1>11. room.pool \in Shaped
  <2> HIDE DEF room
  <2> QED
    BY <1>3, <1>10, ShapedLess
<1>12. ASSUME Fits(p, next)
       PROVE  /\ Fits(swept, next)
              /\ \A s \in Sender : s # From(t) \/ replaces = {} => Exact(room.pool, s, next[s])
  <2>1. Fits(swept, next)
    <3> SUFFICES ASSUME NEW s \in Sender
                 PROVE  Exact(swept, s, next[s]) /\ Above(swept, s, next[s]) /\ Memo(swept, s, next[s])
      BY DEF Fits
    <3>1. Exact(p, s, next[s]) /\ Above(p, s, next[s]) /\ Memo(p, s, next[s])
      BY <1>12 DEF Fits
    <3> QED
      BY <1>1, <1>2, <3>1, FewerKeeps
  <2> DEFINE E == {s \in Sender : s # From(t) \/ replaces = {}}
  <2>2. \A s \in Sender : Above(base, s, next[s])
    <3> TAKE s \in Sender
    <3>1. Above(p, s, next[s])
      BY <1>12 DEF Fits
    <3> QED
      BY <1>1, <1>6, <3>1, FewerKeeps
  <2>3. ASSUME NEW s \in E PROVE Exact(base, s, next[s])
    <3>1. Of(base, s) = Of(swept, s)
      <4>1. \A u \in Of(swept, s) : From(u) = s
        BY DEF Of, FromOf
      <4> QED
        BY <1>4, <1>5, <4>1
    <3>2. \A u \in Of(swept, s) : base.tx[u].executable = swept.tx[u].executable
      <4> TAKE u \in Of(swept, s)
      <4>1. u \in DOMAIN base.tx
        BY <3>1 DEF Of, FromOf
      <4> QED
        BY <1>5, <4>1
    <3>3. Exact(swept, s, next[s])
      BY <2>1 DEF Fits
    <3> QED
      BY <3>1, <3>2, <3>3, ExactSame
  <2>4. E \in SUBSET Sender
    OBVIOUS
  <2> HIDE DEF E
  <2>5. \A s \in E : Exact(room.pool, s, next[s])
    BY <1>7, <1>8, <2>2, <2>3, <2>4, MakeRoomIs
  <2> QED
    BY <2>1, <2>5 DEF E
<1> QED
  BY <1>2, <1>3, <1>4, <1>9, <1>10, <1>11, <1>12 DEF swept, replaces, base

\* The nonces of a chain's accounts are natural numbers.
LEMMA NoncesIs ==
    ASSUME NEW c \in Seq(MinedBlocks)
    PROVE  nonces(c) \in [Sender -> Nat]
<1>1. \A s \in Sender : account(c, s).nonce \in Nat
  BY NonceTypes
<1> QED
  BY <1>1 DEF nonces

\* A submission, admitted or refused, leaves a pool that fits if it did.
LEMMA SubmitIs ==
    ASSUME NEW p \in Shaped, NEW c \in Seq(MinedBlocks), NEW t \in TxId, NEW now \in Nat
    PROVE  LET r == submit(p, c, t, now) IN
           /\ r.pool \in Shaped /\ r.ok \in BOOLEAN
           /\ Fits(p, nonces(c)) => Fits(r.pool, nonces(c))
<1> DEFINE next == nonces(c)
           s == From(t)
           swept == SweptOf(p, now)
           replaces == ReplacedBy(p, t, now)
           room == RoomFor(p, t, now)
           r == submit(p, c, t, now)
<1>1. CASE ~check(p, c, t)
  <2>1. r = [pool |-> p, ok |-> FALSE]
    BY <1>1, Zenon DEF submit
  <2> HIDE DEF r, next
  <2> QED
    BY <2>1 DEF r, next
<1>2. CASE check(p, c, t)
  <2>1. p \in Pools /\ next \in [Sender -> Nat] /\ s \in Sender
    BY NoncesIs, TxTypes DEF Shaped
  <2>2. t \notin DOMAIN p.tx /\ Nonce(t) >= next[s] /\ Cardinality(Of(p, s) \ AtNonce(p, s, Nonce(t))) < SenderTxs
    BY <1>2, <2>1, CheckIs
  <2> HIDE DEF next
  <2>3. /\ swept \in Shaped /\ Fewer(swept, p) /\ replaces \in SUBSET DOMAIN swept.tx
        /\ replaces \subseteq Of(swept, s)
        /\ room.pool \in Shaped /\ Fewer(room.pool, remove(swept, replaces))
        /\ Fewer(room.pool, p) /\ DOMAIN room.pool.tx \subseteq DOMAIN swept.tx \ replaces
        /\ room.ok = ~Full(room.pool, t)
        /\ Fits(p, next) =>
              /\ Fits(swept, next)
              /\ \A x \in Sender : x # s \/ replaces = {} => Exact(room.pool, x, next[x])
    BY <2>1, RoomIs
  <2>4. r = commit(p, c, t, now)
    BY <1>2, Zenon DEF submit
  <2>5. /\ room.ok => r = [pool |-> AdmitInto(room.pool, t, now, next), ok |-> TRUE]
        /\ ~room.ok /\ replaces = {} => r = [pool |-> room.pool, ok |-> FALSE]
        /\ ~room.ok /\ replaces # {} =>
              r = [pool |-> resplit(BackIn(room.pool, swept, replaces), {s}, next), ok |-> FALSE]
    <3>1. /\ room.ok => commit(p, c, t, now) = [pool |-> AdmitInto(room.pool, t, now, next), ok |-> TRUE]
          /\ ~room.ok /\ replaces = {} => commit(p, c, t, now) = [pool |-> room.pool, ok |-> FALSE]
          /\ ~room.ok /\ replaces # {} =>
                commit(p, c, t, now) = [pool |-> resplit(BackIn(room.pool, swept, replaces), {s}, next), ok |-> FALSE]
      BY Zenon DEF commit, SweptOf, ReplacedBy, RoomFor, AdmitInto, BackIn, next
    <3> HIDE DEF room, replaces, swept, r
    <3> QED
      BY <2>4, <3>1, Zenon
  <2>6. \A x \in Sender : Fits(p, next) => Above(room.pool, x, next[x]) /\ Memo(room.pool, x, next[x])
    <3> HIDE DEF room
    <3> TAKE x \in Sender
    <3> HAVE Fits(p, next)
    <3>1. Above(p, x, next[x]) /\ Memo(p, x, next[x])
      BY DEF Fits
    <3> QED
      BY <2>1, <2>3, <3>1, FewerKeeps
  <2>7. \A u \in replaces : u \in Of(swept, s) /\ Nonce(u) = Nonce(t)
    BY DEF ReplacedBy, AtNonce
  <2>8. \A u \in Of(swept, s) : Nonce(u) = Nonce(t) => u \in replaces
    BY DEF ReplacedBy, AtNonce
  <2> HIDE DEF room, swept, replaces, r, s
  <2>9. CASE room.ok
    <3>1. r.pool = AdmitInto(room.pool, t, now, next) /\ r.ok = TRUE
      BY <2>5, <2>9
    <3>2. ~Full(room.pool, t)
      BY <2>3, <2>9
    <3>3. Of(room.pool, s) \subseteq Of(p, s) \ AtNonce(p, s, Nonce(t))
      <4> SUFFICES ASSUME NEW u \in Of(room.pool, s) PROVE u \in Of(p, s) /\ Nonce(u) # Nonce(t)
        BY DEF AtNonce
      <4>1. u \in DOMAIN swept.tx /\ u \notin replaces /\ From(u) = s /\ u \in DOMAIN p.tx
        BY <2>3 DEF Of, FromOf, Fewer
      <4>2. u \in Of(swept, s) /\ u \in Of(p, s)
        BY <4>1 DEF Of, FromOf
      <4> QED
        BY <2>8, <4>1, <4>2
    <3>4. AtNonce(room.pool, s, Nonce(t)) = {}
      BY <3>3 DEF AtNonce
    <3>5. Cardinality(Of(room.pool, s)) < SenderTxs
      <4>1. Of(p, s) \ AtNonce(p, s, Nonce(t)) \in SUBSET TxId
        BY <2>1, PoolTypes
      <4>2. /\ IsFiniteSet(Of(p, s) \ AtNonce(p, s, Nonce(t)))
            /\ Cardinality(Of(p, s) \ AtNonce(p, s, Nonce(t))) \in Nat
        BY <4>1, TxSets
      <4>3. /\ Cardinality(Of(room.pool, s)) <= Cardinality(Of(p, s) \ AtNonce(p, s, Nonce(t)))
            /\ Cardinality(Of(room.pool, s)) \in Nat
        BY <3>3, <4>1, <4>2, FS_Subset, TxSets
      <4> QED
        BY <2>2, <4>2, <4>3, PoolNumbers
    <3>6. t \in TxId \ DOMAIN room.pool.tx
      BY <2>2, <2>3 DEF Fewer
    <3> DEFINE q == AdmitInto(room.pool, t, now, next)
    <3>7. /\ q \in Shaped
          /\ \A x \in Sender \ {s} : Exact(room.pool, x, next[x]) /\ Above(room.pool, x, next[x]) /\ Memo(room.pool, x, next[x])
                => Exact(q, x, next[x]) /\ Above(q, x, next[x]) /\ Memo(q, x, next[x])
          /\ Nonce(t) >= next[s] /\ Above(room.pool, s, next[s])
                => Exact(q, s, next[s]) /\ Above(q, s, next[s]) /\ Memo(q, s, next[s])
      BY <2>1, <2>3, <3>2, <3>4, <3>5, <3>6, AdmitIs DEF s
    <3> HIDE DEF q
    <3>8. ASSUME Fits(p, next) PROVE Fits(q, next)
      <4>1. \A x \in Sender \ {s} : Exact(room.pool, x, next[x]) /\ Above(room.pool, x, next[x]) /\ Memo(room.pool, x, next[x])
        BY <2>3, <2>6, <3>8
      <4>2. Above(room.pool, s, next[s])
        BY <2>1, <2>6, <3>8
      <4> QED
        BY <2>2, <3>7, <4>1, <4>2 DEF Fits
    <3> QED
      BY <3>1, <3>7, <3>8 DEF q, r, next
  <2>10. CASE ~room.ok /\ replaces = {}
    <3>1. r.pool = room.pool /\ r.ok = FALSE
      BY <2>5, <2>10
    <3>2. ASSUME Fits(p, next) PROVE Fits(room.pool, next)
      BY <2>3, <2>6, <2>10, <3>2 DEF Fits
    <3> QED
      BY <2>3, <3>1, <3>2 DEF r, next
  <2>11. CASE ~room.ok /\ replaces # {}
    <3> DEFINE b == BackIn(room.pool, swept, replaces)
               q == resplit(b, {s}, next)
    <3>1. r.pool = q /\ r.ok = FALSE
      BY <2>5, <2>11
    <3>2. /\ b \in Pools /\ b.next = room.pool.next /\ DOMAIN b.tx = DOMAIN room.pool.tx \cup replaces
          /\ \A u \in DOMAIN room.pool.tx \ replaces : b.tx[u] = room.pool.tx[u]
          /\ \A x : Of(b, x) = Of(room.pool, x) \cup FromOf(replaces, x)
      <4>1. room.pool \in Pools /\ swept \in Pools
        BY <2>3 DEF Shaped
      <4> QED
        BY <2>3, <4>1, BackInIs
    <3> HIDE DEF b
    <3>3. /\ q \in Pools /\ DOMAIN q.tx = DOMAIN b.tx /\ q.next = b.next
          /\ \A u \in DOMAIN q.tx : q.tx[u].executable = IF From(u) = s THEN u \in Run(b, From(u), next[From(u)]) ELSE b.tx[u].executable
          /\ \A x : Of(q, x) = Of(b, x)
      <4>1. PICK S : S = {s}
        OBVIOUS
      <4>2. LET q1 == resplit(b, S, next) IN
            /\ q1 \in Pools /\ DOMAIN q1.tx = DOMAIN b.tx /\ q1.next = b.next
            /\ \A u \in DOMAIN q1.tx :
                  /\ q1.tx[u].arrived = b.tx[u].arrived
                  /\ q1.tx[u].executable = IF From(u) \in S THEN u \in Run(b, From(u), next[From(u)]) ELSE b.tx[u].executable
            /\ \A x : Of(q1, x) = Of(b, x)
        <5>1. b \in Pools
          BY <3>2
        <5> QED
          BY <5>1, ResplitIs
      <4>3. q = resplit(b, S, next)
        BY <4>1, Zenon
      <4> HIDE DEF q
      <4> QED
        BY <4>1, <4>2, <4>3
    <3> HIDE DEF q
    <3>4. DOMAIN q.tx \subseteq DOMAIN swept.tx
      BY <2>3, <3>2, <3>3
    <3>5. q \in Shaped
      BY <2>3, <3>3, <3>4, ShapedLess
    <3>6. \A x \in Sender : x # s => Of(q, x) = Of(room.pool, x)
      <4>1. \A x \in Sender : x # s => FromOf(replaces, x) = {}
        BY <2>3 DEF FromOf, Of
      <4> QED
        BY <3>2, <3>3, <4>1
    <3>7. ASSUME Fits(p, next), NEW x \in Sender PROVE Exact(q, x, next[x]) /\ Above(q, x, next[x]) /\ Memo(q, x, next[x])
      <4>1. Above(swept, x, next[x]) /\ Memo(swept, x, next[x])
        BY <2>3, <3>7 DEF Fits
      <4>2. Above(q, x, next[x])
        <5>1. Of(q, x) \subseteq Of(swept, x)
          BY <3>4 DEF Of, FromOf
        <5> QED
          BY <4>1, <5>1 DEF Above
      <4>3. CASE x # s
        <5>1. Of(q, x) = Of(room.pool, x) /\ q.next = room.pool.next
          BY <3>2, <3>3, <3>6, <4>3
        <5>2. Memo(q, x, next[x])
          <6>1. Memo(room.pool, x, next[x])
            BY <2>6, <3>7
          <6> QED
            BY <5>1, <6>1 DEF Memo
        <5>3. \A u \in Of(room.pool, x) : q.tx[u].executable = room.pool.tx[u].executable
          <6> TAKE u \in Of(room.pool, x)
          <6>1. From(u) = x /\ u \in DOMAIN room.pool.tx /\ u \notin replaces /\ u \in DOMAIN q.tx
            BY <2>3, <5>1 DEF Of, FromOf
          <6> QED
            BY <3>2, <3>3, <4>3, <6>1
        <5>4. Exact(room.pool, x, next[x])
          BY <2>3, <3>7, <4>3
        <5>5. Exact(q, x, next[x])
          BY <5>1, <5>3, <5>4, ExactSame
        <5> QED
          BY <4>2, <5>2, <5>5
      <4>4. CASE x = s
        <5>1. ASSUME NEW u \in Of(q, s) PROVE q.tx[u].executable <=> u \in Run(q, s, next[s])
          <6>1. From(u) = s /\ u \in DOMAIN q.tx
            BY DEF Of, FromOf
          <6>2. Run(b, s, next[s]) = Run(q, s, next[s])
            BY <3>3, RunOf
          <6>3. q.tx[u].executable = (u \in Run(b, s, next[s]))
            BY <3>3, <6>1
          <6> QED
            BY <6>2, <6>3
        <5>2. Memo(q, s, next[s])
          <6> DEFINE base == remove(swept, replaces)
          <6>1. swept \in Pools /\ Distinct(swept)
            BY <2>3 DEF Shaped
          <6>2. /\ base \in Pools /\ Of(base, s) = Of(swept, s) \ replaces
                /\ \A y \in DOMAIN base.next : y \in DOMAIN swept.next /\ base.next[y] = swept.next[y]
                /\ \A y \in DOMAIN swept.next : y \in DOMAIN base.next \/ Of(base, y) = {}
            BY <6>1, RemoveIs
          <6>3. Fewer(room.pool, base)
            BY <2>3
          <6> HIDE DEF base
          <6>4. CASE s \in DOMAIN room.pool.next /\ room.pool.next[s] = next[s]
            BY <3>2, <3>3, <6>4 DEF Memo
          <6>5. CASE ~(s \in DOMAIN room.pool.next /\ room.pool.next[s] = next[s])
            <7>1. Of(room.pool, s) = {}
              <8>1. Of(room.pool, s) \subseteq Of(base, s)
                BY <6>2, <6>3, FewerKeeps
              <8>2. CASE \A y, z \in Of(swept, s) : y = z
                BY <2>7, <2>11, <6>2, <8>1, <8>2
              <8>3. CASE s \in DOMAIN swept.next /\ swept.next[s] = next[s]
                BY <6>2, <6>3, <6>5, <8>1, <8>3 DEF Fewer
              <8> QED
                BY <4>1, <4>4, <8>2, <8>3 DEF Memo
            <7>2. FromOf(replaces, s) \subseteq replaces
              BY DEF FromOf
            <7>3. \A y, z \in replaces : y = z
              BY <2>7, <6>1 DEF Distinct, Of, FromOf
            <7>4. \A y, z \in Of(q, s) : y = z
              BY <3>2, <3>3, <7>1, <7>2, <7>3
            <7> QED
              BY <7>4 DEF Memo
          <6> QED
            BY <6>4, <6>5
        <5> QED
          BY <4>2, <4>4, <5>1, <5>2 DEF Exact
      <4> QED
        BY <4>3, <4>4
    <3>8. Fits(p, next) => Fits(q, next)
      BY <3>7 DEF Fits
    <3> QED
      BY <3>1, <3>5, <3>8 DEF r, next
  <2> QED
    BY <2>9, <2>10, <2>11
<1> QED
  BY <1>1, <1>2

-----------------------------------------------------------------------------
(* The end of an adoption.                                                 *)

\* The senders of S follow the chain: used nonces go, the marks are set anew.
LEMMA FollowIs ==
    ASSUME NEW p \in Shaped, NEW c \in Seq(MinedBlocks), NEW S \in SUBSET Sender
    PROVE  LET q == Follow(p, c, S) IN
           /\ q \in Shaped /\ DOMAIN q.tx \subseteq DOMAIN p.tx
           /\ \A s \in S : Exact(q, s, nonces(c)[s]) /\ Above(q, s, nonces(c)[s]) /\ Memo(q, s, nonces(c)[s])
<1> DEFINE next == nonces(c)
           r == remember(p, S, next)
           used == {t \in DOMAIN r.tx : From(t) \in S /\ Nonce(t) < next[From(t)]}
           d == remove(r, used)
           q == resplit(d, S, next)
<1>1. Follow(p, c, S) = q
  BY Zenon DEF Follow, drop_below_nonce
<1>2. p \in Pools /\ next \in [Sender -> Nat]
  BY NoncesIs DEF Shaped
<1> HIDE DEF next
<1>3. /\ r \in Pools /\ r.tx = p.tx /\ DOMAIN r.next = DOMAIN p.next \cup S
      /\ \A s \in S : r.next[s] = next[s]
      /\ \A s : Of(r, s) = Of(p, s)
  BY <1>2, RememberIs
<1>4. \A t \in DOMAIN r.tx : t \in used <=> From(t) \in S /\ Nonce(t) < next[From(t)]
  OBVIOUS
<1> HIDE DEF r, used
<1>5. /\ d \in Pools /\ DOMAIN d.tx = DOMAIN r.tx \ used
      /\ \A s : Of(d, s) = Of(r, s) \ used
      /\ \A s \in DOMAIN d.next : s \in DOMAIN r.next /\ d.next[s] = r.next[s]
      /\ \A s \in DOMAIN r.next : s \in DOMAIN d.next \/ Of(d, s) = {}
  BY <1>3, RemoveIs
<1> HIDE DEF d
<1>6. /\ q \in Pools /\ DOMAIN q.tx = DOMAIN d.tx /\ q.next = d.next
      /\ \A t \in DOMAIN q.tx :
            /\ q.tx[t].arrived = d.tx[t].arrived
            /\ q.tx[t].executable = IF From(t) \in S THEN t \in Run(d, From(t), next[From(t)]) ELSE d.tx[t].executable
      /\ \A s : Of(q, s) = Of(d, s)
  <2>1. d \in Pools
    BY <1>5
  <2> QED
    BY <2>1, ResplitIs
<1> HIDE DEF q
<1>7. DOMAIN q.tx \subseteq DOMAIN p.tx
  BY <1>3, <1>5, <1>6
<1>8. q \in Shaped
  BY <1>6, <1>7, ShapedLess
<1>9. ASSUME NEW s \in S PROVE Exact(q, s, next[s]) /\ Above(q, s, next[s]) /\ Memo(q, s, next[s])
  <2>1. ASSUME NEW t \in Of(q, s) PROVE q.tx[t].executable <=> t \in Run(q, s, next[s])
    <3>1. From(t) = s /\ t \in DOMAIN q.tx
      BY DEF Of, FromOf
    <3>2. Run(d, s, next[s]) = Run(q, s, next[s])
      BY <1>6, RunOf
    <3>3. q.tx[t].executable = (t \in Run(d, s, next[s]))
      BY <1>6, <3>1
    <3> QED
      BY <3>2, <3>3
  <2>2. ASSUME NEW t \in Of(q, s) PROVE Nonce(t) >= next[s]
    <3>1. t \in DOMAIN r.tx /\ t \notin used /\ From(t) = s /\ t \in DOMAIN p.tx
      BY <1>3, <1>5, <1>6 DEF Of, FromOf
    <3>2. ~(Nonce(t) < next[s])
      BY <1>4, <3>1
    <3>3. Nonce(t) \in Nat /\ next[s] \in Nat
      BY <1>2, <3>1, PoolTypes, TxTypes
    <3> QED
      BY <3>2, <3>3
  <2>3. Memo(q, s, next[s])
    <3>1. s \in DOMAIN r.next /\ r.next[s] = next[s]
      BY <1>3
    <3>2. (s \in DOMAIN q.next /\ q.next[s] = next[s]) \/ Of(q, s) = {}
      BY <1>5, <1>6, <3>1
    <3> QED
      BY <3>2 DEF Memo
  <2> QED
    BY <2>1, <2>2, <2>3 DEF Exact, Above
<1> QED
  BY <1>1, <1>7, <1>8, <1>9 DEF next

\* After resplit_all the marks are those of the new tip, for every sender.
LEMMA ResplitAllIs ==
    ASSUME NEW p \in Shaped, NEW c \in Seq(MinedBlocks)
    PROVE  resplit_all(p, c) \in Shaped /\ Fits(resplit_all(p, c), nonces(c))
<1> DEFINE S == {s \in Sender : Of(p, s) # {}}
           q == Follow(p, c, S)
<1>1. /\ q \in Shaped /\ DOMAIN q.tx \subseteq DOMAIN p.tx
      /\ \A s \in S : Exact(q, s, nonces(c)[s]) /\ Above(q, s, nonces(c)[s]) /\ Memo(q, s, nonces(c)[s])
  <2>1. S \in SUBSET Sender
    OBVIOUS
  <2> HIDE DEF S
  <2> QED
    BY <2>1, FollowIs
<1> HIDE DEF q
<1>2. ASSUME NEW s \in Sender \ S
      PROVE  Exact(q, s, nonces(c)[s]) /\ Above(q, s, nonces(c)[s]) /\ Memo(q, s, nonces(c)[s])
  <2>1. Of(p, s) = {}
    OBVIOUS
  <2>2. Of(q, s) = {}
    BY <1>1, <2>1 DEF Of, FromOf
  <2> QED
    BY <2>2 DEF Exact, Above, Memo
<1>3. Fits(q, nonces(c))
  <2> HIDE DEF S
  <2> QED
    BY <1>1, <1>2 DEF Fits
<1>4. resplit_all(p, c) = q
  BY Zenon DEF resplit_all, q
<1> QED
  BY <1>1, <1>3, <1>4

\* What on_block_connected leaves has the shape of a pool.
LEMMA ConnectedIs ==
    ASSUME NEW p \in Shaped, NEW c \in Seq(MinedBlocks), NEW spent \in SUBSET TxId
    PROVE  on_block_connected(p, c, spent) \in Shaped
<1> DEFINE ids == UNION {AtNonce(p, From(t), Nonce(t)) : t \in spent}
           r == remove(p, ids)
           S == {From(t) : t \in spent}
<1>1. p \in Pools
  BY DEF Shaped
<1>2. S \in SUBSET Sender
  BY TxTypes
<1>3. r \in Shaped
  <2> HIDE DEF ids
  <2>1. r \in Pools /\ DOMAIN r.tx = DOMAIN p.tx \ ids
    BY <1>1, RemoveIs
  <2> HIDE DEF r
  <2> QED
    BY <2>1, ShapedLess
<1>4. on_block_connected(p, c, spent) = Follow(r, c, S)
  BY Zenon DEF on_block_connected
<1> HIDE DEF r, S
<1> QED
  BY <1>2, <1>3, <1>4, FollowIs

\* The turns of the two loops that take back what a reorg undid.
Accs == [pool : Shaped, taken : Nat]
Reinjections(acc, c, txs, now) ==
    CHOOSE after : after = [i \in 0..Len(txs) |-> IF i = 0 THEN acc ELSE take_back(after[i - 1], c, txs[i], now)]

\* One transaction taken back keeps the pool in shape,
LEMMA TakeBackIs ==
    ASSUME NEW acc \in Accs, NEW c \in Seq(MinedBlocks), NEW t \in TxId, NEW now \in Nat
    PROVE  take_back(acc, c, t, now) \in Accs
<1>1. acc.pool \in Shaped /\ acc.taken \in Nat
  BY DEF Accs
<1> DEFINE r == submit(acc.pool, c, t, now)
<1>2. r.pool \in Shaped /\ r.ok \in BOOLEAN
  BY <1>1, SubmitIs
<1> HIDE DEF r
<1>3. take_back(acc, c, t, now) = IF acc.taken >= ReinjectCap THEN acc
                                ELSE [pool |-> r.pool, taken |-> acc.taken + (IF r.ok THEN 1 ELSE 0)]
  BY Zenon DEF take_back, tally, r
<1> QED
  BY <1>1, <1>2, <1>3 DEF Accs

\* so does a block,
LEMMA ReinjectIs ==
    ASSUME NEW acc \in Accs, NEW c \in Seq(MinedBlocks), NEW txs \in Seq(TxId), NEW now \in Nat
    PROVE  reinject(acc, c, txs, now) \in Accs
<1> DEFINE n == Len(txs)
           G == [e \in (1..n) \X Accs |-> take_back(e[2], c, txs[e[1]], now)]
<1>1. n \in Nat /\ \A i \in 1..n : txs[i] \in TxId
  OBVIOUS
<1> HIDE DEF n
<1>2. G \in [(1..n) \X Accs -> Accs]
  BY <1>1, TakeBackIs
<1>3. PICK g : Iterates(g, n, Accs, acc, G)
  <2> HIDE DEF G
  <2> QED
    BY <1>1, <1>2, IterationExists
<1>4. g \in [0..n -> Accs] /\ g[0] = acc /\ \A i \in 1..n : g[i] = G[<<i, g[i - 1]>>]
  <2> HIDE DEF G
  <2> QED
    BY <1>3, Zenon DEF Iterates
<1>5. \A i \in 1..n : g[i] = take_back(g[i - 1], c, txs[i], now)
  <2> TAKE i \in 1..n
  <2>1. i - 1 \in 0..n
    BY <1>1
  <2>2. g[i - 1] \in Accs
    BY <1>4, <2>1
  <2> QED
    BY <1>4, <2>2
<1> HIDE DEF G
<1>6. g = [i \in 0..n |-> IF i = 0 THEN acc ELSE take_back(g[i - 1], c, txs[i], now)]
  <2>1. g = [i \in 0..n |-> g[i]]
    BY <1>4
  <2>2. ASSUME NEW i \in 0..n PROVE g[i] = IF i = 0 THEN acc ELSE take_back(g[i - 1], c, txs[i], now)
    <3>1. CASE i = 0
      BY <1>4, <3>1
    <3>2. CASE i # 0
      <4>1. i \in 1..n
        BY <1>1, <3>2
      <4> QED
        BY <1>5, <3>2, <4>1, Zenon
    <3> QED
      BY <3>1, <3>2
  <2> QED
    BY <2>1, <2>2, Zenon
<1> DEFINE a == Reinjections(acc, c, txs, now)
<1>7. a = [i \in 0..n |-> IF i = 0 THEN acc ELSE take_back(a[i - 1], c, txs[i], now)]
  <2>1. a = CHOOSE f : f = [i \in 0..n |-> IF i = 0 THEN acc ELSE take_back(f[i - 1], c, txs[i], now)]
    BY Zenon DEF Reinjections, n
  <2> HIDE DEF a
  <2> QED
    BY <1>6, <2>1, Zenon
<1> HIDE DEF a
<1>8. a[0] \in Accs
  <2>1. 0 \in 0..n
    BY <1>1
  <2>2. a[0] = acc
    BY <1>7, <2>1, Zenon
  <2> QED
    BY <2>2
<1>9. \A i \in 1..n : a[i - 1] \in Accs => a[i] \in Accs
  <2> TAKE i \in 1..n
  <2> HAVE a[i - 1] \in Accs
  <2>1. i \in 0..n /\ i # 0
    BY <1>1
  <2>2. a[i] = take_back(a[i - 1], c, txs[i], now)
    BY <1>7, <2>1, Zenon
  <2> QED
    BY <1>1, <2>2, TakeBackIs
<1>10. a[n] \in Accs
  <2>1. \A i \in 0..n : a[i] \in Accs
    BY <1>1, <1>8, <1>9, IterationKeeps
  <2> QED
    BY <1>1, <2>1
<1>11. reinject(acc, c, txs, now) = a[n]
  BY Zenon DEF reinject, Reinjections, a, n
<1> QED
  BY <1>10, <1>11

\* the turns over the blocks,
Disconnections(p, c, gone, now) ==
    CHOOSE after : after = [i \in 0..Len(gone) |->
        IF i = 0 THEN [pool |-> p, taken |-> 0]
        ELSE reinject(after[i - 1], c, gone[Len(gone) + 1 - i].txs, now)]

\* and the whole of the reorg: a pool goes in, a pool comes out.
LEMMA ReorgReinjectIs ==
    ASSUME NEW p \in Shaped, NEW c \in Seq(MinedBlocks), NEW gone \in Seq(MinedBlocks), NEW now \in Nat
    PROVE  on_reorg_reinject(p, c, gone, now) \in Shaped
<1> DEFINE n == Len(gone)
           x == [pool |-> p, taken |-> 0]
           txs(i) == gone[n + 1 - i].txs
           G == [e \in (1..n) \X Accs |-> reinject(e[2], c, txs(e[1]), now)]
<1>0. n \in Nat
  OBVIOUS
<1>1. ASSUME NEW i \in 1..n PROVE txs(i) \in Seq(TxId)
  <2>1. gone[n + 1 - i] \in MinedBlocks
    BY <1>0
  <2> QED
    BY <2>1, BlockTypes
<1>2. x \in Accs
  BY DEF Accs
<1> HIDE DEF n, txs, x
<1>3. G \in [(1..n) \X Accs -> Accs]
  BY <1>1, ReinjectIs
<1>4. PICK g : Iterates(g, n, Accs, x, G)
  <2> HIDE DEF G
  <2> QED
    BY <1>0, <1>2, <1>3, IterationExists
<1>5. g \in [0..n -> Accs] /\ g[0] = x /\ \A i \in 1..n : g[i] = G[<<i, g[i - 1]>>]
  <2> HIDE DEF G
  <2> QED
    BY <1>4, Zenon DEF Iterates
<1>6. \A i \in 1..n : g[i] = reinject(g[i - 1], c, txs(i), now)
  <2> TAKE i \in 1..n
  <2>1. i - 1 \in 0..n
    BY <1>0
  <2>2. g[i - 1] \in Accs
    BY <1>5, <2>1
  <2> QED
    BY <1>5, <2>2
<1> HIDE DEF G
<1>7. g = [i \in 0..n |-> IF i = 0 THEN x ELSE reinject(g[i - 1], c, txs(i), now)]
  <2>1. g = [i \in 0..n |-> g[i]]
    BY <1>5
  <2>2. ASSUME NEW i \in 0..n PROVE g[i] = IF i = 0 THEN x ELSE reinject(g[i - 1], c, txs(i), now)
    <3>1. CASE i = 0
      BY <1>5, <3>1
    <3>2. CASE i # 0
      <4>1. i \in 1..n
        BY <1>0, <3>2
      <4> QED
        BY <1>6, <3>2, <4>1, Zenon
    <3> QED
      BY <3>1, <3>2
  <2> QED
    BY <2>1, <2>2, Zenon
<1> DEFINE a == Disconnections(p, c, gone, now)
<1>8. a = [i \in 0..n |-> IF i = 0 THEN x ELSE reinject(a[i - 1], c, txs(i), now)]
  <2>1. a = CHOOSE f : f = [i \in 0..n |-> IF i = 0 THEN x ELSE reinject(f[i - 1], c, txs(i), now)]
    BY Zenon DEF Disconnections, n, x, txs
  <2> HIDE DEF a
  <2> QED
    BY <1>7, <2>1, Zenon
<1> HIDE DEF a
<1>9. a[0] \in Accs
  <2>1. 0 \in 0..n
    BY <1>0
  <2>2. a[0] = x
    BY <1>8, <2>1, Zenon
  <2> QED
    BY <1>2, <2>2
<1>10. \A i \in 1..n : a[i - 1] \in Accs => a[i] \in Accs
  <2> TAKE i \in 1..n
  <2> HAVE a[i - 1] \in Accs
  <2>1. i \in 0..n /\ i # 0
    BY <1>0
  <2>2. a[i] = reinject(a[i - 1], c, txs(i), now)
    BY <1>8, <2>1, Zenon
  <2> QED
    BY <1>1, <2>2, ReinjectIs
<1>11. a[n] \in Accs
  <2>1. \A i \in 0..n : a[i] \in Accs
    BY <1>0, <1>9, <1>10, IterationKeeps
  <2> QED
    BY <1>0, <2>1
<1>12. on_reorg_reinject(p, c, gone, now) = a[n].pool
  BY Zenon DEF on_reorg_reinject, Disconnections, a, n
<1> QED
  BY <1>11, <1>12 DEF Accs

-----------------------------------------------------------------------------
(* The invariant.                                                          *)

\* The inductive invariant: every block is valid where it stands, the pool is
\* in shape, and its marks, nonces and memos are those of the tip.
PoolFits == pool \in Shaped /\ Fits(pool, nonces(blocks))
PoolInv == blocks \in Chains /\ poolClock \in Nat /\ PoolFits

\* An adoption, however deep, leaves a pool that fits the new tip.
LEMMA AdoptFits ==
    ASSUME PoolInv, NEW d \in Nat, NEW branch \in Seq(MinedBlocks), update_mempool(d, branch)
    PROVE  pool' \in Shaped /\ Fits(pool', nonces(blocks'))
<1> DEFINE fork == Len(blocks) - d
           now == SubSeq(blocks, 1, fork) \o branch
           gone == SubSeq(blocks, fork + 1, Len(blocks))
           connected == on_block_connected(pool, now, Mined(branch))
           back == IF d = 0 THEN connected ELSE on_reorg_reinject(connected, now, gone, poolClock)
<1>1. d <= Len(blocks) /\ blocks' = now /\ pool' = resplit_all(back, now)
  BY Zenon DEF update_mempool
<1>2. blocks \in Seq(MinedBlocks) /\ poolClock \in Nat /\ pool \in Shaped
  BY DEF PoolInv, Chains, PoolFits
<1>3. now \in Seq(MinedBlocks) /\ gone \in Seq(MinedBlocks)
  <2>1. Len(blocks) \in Nat /\ fork \in 0..Len(blocks)
    BY <1>1, <1>2
  <2>2. SubSeq(blocks, 1, fork) \in Seq(MinedBlocks)
    <3> HIDE DEF fork
    <3> QED
      BY <1>2, <2>1
  <2>3. SubSeq(blocks, fork + 1, Len(blocks)) \in Seq(MinedBlocks)
    <3> HIDE DEF fork
    <3> QED
      BY <1>2, <2>1
  <2> QED
    BY <2>2, <2>3
<1> HIDE DEF now, gone
<1>4. connected \in Shaped
  <2>1. Mined(branch) \in SUBSET TxId
    BY MinedTypes
  <2> QED
    BY <1>2, <1>3, <2>1, ConnectedIs
<1> HIDE DEF connected
<1>5. back \in Shaped
  <2>1. on_reorg_reinject(connected, now, gone, poolClock) \in Shaped
    BY <1>2, <1>3, <1>4, ReorgReinjectIs
  <2> QED
    BY <1>4, <2>1
<1> HIDE DEF back
<1>6. resplit_all(back, now) \in Shaped /\ Fits(resplit_all(back, now), nonces(now))
  BY <1>3, <1>5, ResplitAllIs
<1> QED
  BY <1>1, <1>6, Zenon

\* The empty pool over the genesis state fits.
LEMMA PoolInvInit == PoolInit => PoolInv
<1> SUFFICES ASSUME PoolInit PROVE PoolInv
  OBVIOUS
<1>1. pool = [tx |-> <<>>, next |-> <<>>] /\ blocks = <<>> /\ poolClock = 0
  BY DEF PoolInit
<1>2. blocks \in Chains
  <2>1. <<>> \in Seq(MinedBlocks) /\ Len(<<>>) = 0
    OBVIOUS
  <2> QED
    BY <1>1, <2>1 DEF Chains
<1>3. pool.tx = <<>> /\ pool.next = <<>> /\ DOMAIN pool.tx = {}
  BY <1>1
<1>4. pool \in Pools
  <2>1. PICK e : e = <<>>
    OBVIOUS
  <2>2. e \in [{} -> Rows] /\ e \in [{} -> Nat]
    BY <2>1
  <2>3. [tx |-> e, next |-> e] \in Pools
    BY <2>2, PoolMade
  <2> QED
    BY <1>1, <2>1, <2>3
<1>5. \A s : Of(pool, s) = {}
  BY <1>3 DEF Of, FromOf
<1>6. pool \in Shaped
  <2>1. Cardinality({}) = 0
    BY FS_EmptySet
  <2>2. PoolTxs >= 0 /\ SenderTxs >= 0
    BY PoolConstants
  <2> QED
    BY <1>3, <1>4, <1>5, <2>1, <2>2 DEF Shaped, Distinct, Capped
<1>7. Fits(pool, nonces(blocks))
  BY <1>5 DEF Fits, Exact, Above, Memo
<1> QED
  BY <1>1, <1>2, <1>6, <1>7 DEF PoolInv, PoolFits

\* Every step leaves a pool that fits the chain of valid blocks it stands on.
LEMMA PoolInvNext == PoolInv /\ [PoolNext]_poolVars => PoolInv'
<1> SUFFICES ASSUME PoolInv, [PoolNext]_poolVars PROVE PoolInv'
  OBVIOUS
<1>0. blocks \in Chains /\ blocks \in Seq(MinedBlocks) /\ poolClock \in Nat /\ pool \in Shaped /\ Fits(pool, nonces(blocks))
  BY DEF PoolInv, PoolFits, Chains
<1>1. ASSUME NEW t \in TxId, submit_tx(t) PROVE PoolInv'
  <2>1. pool' = submit(pool, blocks, t, poolClock).pool /\ blocks' = blocks /\ poolClock' = poolClock
    BY <1>1 DEF submit_tx
  <2> DEFINE r == submit(pool, blocks, t, poolClock)
  <2>2. r.pool \in Shaped /\ Fits(r.pool, nonces(blocks))
    BY <1>0, SubmitIs
  <2> HIDE DEF r
  <2>3. pool' \in Shaped /\ Fits(pool', nonces(blocks'))
    BY <2>1, <2>2, Zenon DEF r
  <2> QED
    BY <1>0, <2>1, <2>3 DEF PoolInv, PoolFits
<1>2. CASE AdoptAny
  <2>1. blocks' \in Chains
    BY <1>0, <1>2, AdoptedIsValid
  <2>2. \E d \in Nat, branch \in Seq(MinedBlocks) : update_mempool(d, branch)
    BY <1>0, <1>2, AdoptedIsValid
  <2>3. PICK d \in Nat, branch \in Seq(MinedBlocks) : update_mempool(d, branch)
    BY <2>2
  <2>4. pool' \in Shaped /\ Fits(pool', nonces(blocks'))
    BY <2>3, AdoptFits
  <2>5. poolClock' = poolClock
    BY <2>3, Zenon DEF update_mempool
  <2> QED
    BY <1>0, <2>1, <2>4, <2>5 DEF PoolInv, PoolFits
<1>3. CASE PoolTick
  <2>1. pool' = pool /\ blocks' = blocks /\ poolClock' \in Nat
    BY <1>0, <1>3 DEF PoolTick
  <2> QED
    BY <1>0, <2>1 DEF PoolInv, PoolFits
<1>4. CASE UNCHANGED poolVars
  BY <1>0, <1>4 DEF PoolInv, PoolFits, poolVars
<1> QED
  BY <1>1, <1>2, <1>3, <1>4 DEF PoolNext

\* The pool fits its tip: what the invariant says by definition, sender by sender.
LEMMA FitsTip == PoolInv => PoolFitsTip
<1> SUFFICES ASSUME PoolInv PROVE PoolFitsTip
  OBVIOUS
<1>1. /\ blocks \in Seq(MinedBlocks) /\ pool \in Pools /\ Distinct(pool) /\ Capped(pool)
      /\ Fits(pool, nonces(blocks))
  BY DEF PoolInv, PoolFits, Chains, Shaped
<1>2. ASSUME NEW s \in Sender
      PROVE  /\ Cardinality(Of(pool, s)) <= SenderTxs
             /\ {t \in Of(pool, s) : pool.tx[t].executable} = Run(pool, s, account(blocks, s).nonce)
             /\ \A t \in Of(pool, s) : Nonce(t) >= account(blocks, s).nonce /\ AtNonce(pool, s, Nonce(t)) = {t}
  <2>1. nonces(blocks)[s] = account(blocks, s).nonce
    BY <1>1, NonceTypes
  <2>2. Exact(pool, s, account(blocks, s).nonce) /\ Above(pool, s, account(blocks, s).nonce)
    BY <1>1, <2>1 DEF Fits
  <2>3. Run(pool, s, account(blocks, s).nonce) \subseteq Of(pool, s)
    BY DEF Run
  <2>4. {t \in Of(pool, s) : pool.tx[t].executable} = Run(pool, s, account(blocks, s).nonce)
    BY <2>2, <2>3 DEF Exact
  <2>5. \A t \in Of(pool, s) : AtNonce(pool, s, Nonce(t)) = {t}
    BY <1>1 DEF AtNonce, Of, FromOf, Distinct
  <2> QED
    BY <1>1, <2>2, <2>4, <2>5 DEF Capped, Above
<1> QED
  BY <1>1, <1>2 DEF PoolFitsTip, Capped

\* No reward in reach of a reorg is spent: the chain is solvent, and such a
\* reward is immature.
LEMMA RewardsUnspent == PoolInv => RewardsInReachUnspent
BY RewardsWait DEF PoolInv, RewardsInReachUnspent

-----------------------------------------------------------------------------
(* The template.                                                           *)

\* In a strict order of a finite set every rank is taken.
LEMMA RankExists ==
    ASSUME NEW S, IsFiniteSet(S), NEW R,
           \A x \in S : <<x, x>> \notin R,
           \A x, y \in S : x # y => <<x, y>> \in R \/ <<y, x>> \in R,
           \A x, y, z \in S : <<x, y>> \in R /\ <<y, z>> \in R => <<x, z>> \in R
    PROVE  \A k \in 1..Cardinality(S) : \E x \in S : Cardinality({y \in S : <<y, x>> \in R}) = k - 1
<1> DEFINE Good(s) == \A k \in 1..Cardinality(s) : \E x \in s : Cardinality({y \in s : <<y, x>> \in R}) = k - 1
           P == {s \in SUBSET S : Good(s)}
<1>1. {} \in P
  <2>1. Cardinality({}) = 0
    BY FS_EmptySet
  <2>2. 1..Cardinality({}) = {}
    BY <2>1
  <2> QED
    BY <2>2
<1>2. ASSUME NEW s \in SUBSET S, s # {}, \A x \in s : s \ {x} \in P
      PROVE  s \in P
  <2> DEFINE Q == {e \in S \X S : <<e[2], e[1]>> \in R}
  <2>1. \A x, y \in S : <<x, y>> \in Q <=> <<y, x>> \in R
    OBVIOUS
  <2> HIDE DEF Q
  <2>2. IsFiniteSet(s) /\ Cardinality(s) \in Nat
    BY FS_Subset, FS_CardinalityType
  <2>3. PICK g \in s : \A y \in s \ {g} : <<g, y>> \in Q
    <3>1. \A x, y \in s : x # y => <<x, y>> \in Q \/ <<y, x>> \in Q
      BY <2>1
    <3>2. \A x, y, z \in s : <<x, y>> \in Q /\ <<y, z>> \in Q => <<x, z>> \in Q
      BY <2>1
    <3>3. \E x \in s : \A y \in s \ {x} : <<x, y>> \in Q
      BY <1>2, <2>2, <3>1, <3>2, FiniteLeast
    <3> QED
      BY <3>3
  <2>4. \A y \in s \ {g} : <<y, g>> \in R /\ <<g, y>> \notin R
    BY <2>1, <2>3
  <2> DEFINE r == s \ {g}
  <2>5. Cardinality(r) = Cardinality(s) - 1 /\ Cardinality(r) \in Nat
    BY <2>2, FS_RemoveElement, FS_CardinalityType
  <2>6. Good(r)
    BY <1>2
  <2> SUFFICES ASSUME NEW k \in 1..Cardinality(s) PROVE \E x \in s : Cardinality({y \in s : <<y, x>> \in R}) = k - 1
    BY <2>2
  <2>7. CASE k = Cardinality(s)
    <3>1. {y \in s : <<y, g>> \in R} = r
      BY <2>4
    <3> QED
      BY <2>5, <2>7, <3>1
  <2>8. CASE k # Cardinality(s)
    <3>1. k \in 1..Cardinality(r)
      BY <2>2, <2>5, <2>8
    <3>2. PICK x \in r : Cardinality({y \in r : <<y, x>> \in R}) = k - 1
      BY <2>6, <3>1
    <3>3. {y \in s : <<y, x>> \in R} = {y \in r : <<y, x>> \in R}
      BY <2>4
    <3> QED
      BY <3>2, <3>3
  <2> QED
    BY <2>7, <2>8
<1>3. \A s \in SUBSET S : s \in P
  <2> HIDE DEF P
  <2> QED
    BY <1>1, <1>2, SubsetsUpTo
<1>4. S \in P
  <2> HIDE DEF P
  <2> QED
    BY <1>3
<1> QED
  BY <1>4

\* What stands before x.
Down(S, R, x) == {y \in S : <<y, x>> \in R}

\* A set listed by rank: each position holds one element, after exactly those before it.
LEMMA ListedByRank ==
    ASSUME NEW S, IsFiniteSet(S), NEW R,
           \A x \in S : <<x, x>> \notin R,
           \A x, y \in S : x # y => <<x, y>> \in R \/ <<y, x>> \in R,
           \A x, y, z \in S : <<x, y>> \in R /\ <<y, z>> \in R => <<x, z>> \in R,
           NEW all, \A i \in 1..Cardinality(S) : all[i] \in S /\ Cardinality(Down(S, R, all[i])) = i - 1
    PROVE  \A i \in 1..Cardinality(S) : all[i] \in S /\ {all[j] : j \in 1..(i - 1)} = Down(S, R, all[i])
<1> DEFINE n == Cardinality(S)
           down(x) == {y \in S : <<y, x>> \in R}
<1>1. n \in Nat
  BY FS_CardinalityType
<1>2. \A i \in 1..n : all[i] \in S /\ Cardinality(down(all[i])) = i - 1
  BY DEF Down
<1>3. \A x \in S : IsFiniteSet(down(x)) /\ Cardinality(down(x)) \in Nat
  <2> TAKE x \in S
  <2>1. down(x) \in SUBSET S
    OBVIOUS
  <2> HIDE DEF down
  <2> QED
    BY <2>1, FS_Subset, FS_CardinalityType
<1>4. ASSUME NEW x \in S, NEW y \in S, <<y, x>> \in R
      PROVE  Cardinality(down(y)) < Cardinality(down(x))
  <2>1. y \notin down(y) /\ down(y) \cup {y} \in SUBSET down(x)
    BY <1>4
  <2> HIDE DEF down
  <2>2. Cardinality(down(y) \cup {y}) = Cardinality(down(y)) + 1
    BY <1>3, <2>1, FS_AddElement
  <2>3. Cardinality(down(y) \cup {y}) <= Cardinality(down(x))
    BY <1>3, <2>1, FS_Subset
  <2> QED
    BY <1>3, <2>2, <2>3
<1>5. ASSUME NEW x \in S, NEW y \in S, Cardinality(down(x)) = Cardinality(down(y)) PROVE x = y
  <2> SUFFICES ASSUME x # y PROVE FALSE
    OBVIOUS
  <2> HIDE DEF down
  <2>1. CASE <<x, y>> \in R
    BY <1>3, <1>4, <1>5, <2>1
  <2>2. CASE <<y, x>> \in R
    BY <1>3, <1>4, <1>5, <2>2
  <2> QED
    BY <2>1, <2>2
<1>6. ASSUME NEW x \in S PROVE Cardinality(down(x)) + 1 \in 1..n
  <2>1. down(x) \cup {x} \in SUBSET S /\ x \notin down(x)
    OBVIOUS
  <2> HIDE DEF down
  <2>2. Cardinality(down(x) \cup {x}) = Cardinality(down(x)) + 1
    BY <1>3, <2>1, FS_AddElement
  <2>3. Cardinality(down(x) \cup {x}) <= n
    BY <2>1, FS_Subset
  <2> HIDE DEF n
  <2> QED
    BY <1>1, <1>3, <2>2, <2>3
<1> SUFFICES ASSUME NEW i \in 1..n
             PROVE  all[i] \in S /\ {all[j] : j \in 1..(i - 1)} = down(all[i])
  BY DEF Down
<1> HIDE DEF n
<1>7. ASSUME NEW j \in 1..(i - 1) PROVE all[j] \in down(all[i])
  <2>1. j \in 1..n /\ j < i
    BY <1>1
  <2>2. all[j] \in S /\ all[i] \in S /\ Cardinality(down(all[j])) < Cardinality(down(all[i]))
    <3> HIDE DEF down
    <3> QED
      BY <1>1, <1>2, <2>1
  <2>3. ~(<<all[i], all[j]>> \in R) /\ all[i] # all[j]
    <3> HIDE DEF down
    <3>1. Cardinality(down(all[j])) \in Nat /\ Cardinality(down(all[i])) \in Nat
      BY <1>3, <2>2
    <3> QED
      BY <1>4, <2>2, <3>1
  <2> QED
    BY <2>2, <2>3
<1>8. ASSUME NEW y \in down(all[i]) PROVE \E j \in 1..(i - 1) : y = all[j]
  <2>1. y \in S /\ all[i] \in S /\ <<y, all[i]>> \in R
    BY <1>2
  <2> HIDE DEF down
  <2>2. PICK j : j = Cardinality(down(y)) + 1
    OBVIOUS
  <2>3. j \in 1..n /\ Cardinality(down(y)) \in Nat
    BY <1>3, <1>6, <2>1, <2>2
  <2>4. Cardinality(down(all[j])) = j - 1 /\ all[j] \in S
    BY <1>2, <2>3
  <2>5. all[j] = y
    BY <1>5, <2>1, <2>2, <2>3, <2>4
  <2>6. Cardinality(down(y)) < Cardinality(down(all[i]))
    BY <1>4, <2>1
  <2>7. Cardinality(down(all[i])) = i - 1
    BY <1>2
  <2>8. j \in 1..(i - 1)
    BY <1>1, <2>2, <2>3, <2>6, <2>7
  <2> QED
    BY <2>5, <2>8
<1> HIDE DEF down
<1>9. {all[j] : j \in 1..(i - 1)} \subseteq down(all[i])
  BY <1>7
<1>10. down(all[i]) \subseteq {all[j] : j \in 1..(i - 1)}
  BY <1>8
<1>11. all[i] \in S
  BY <1>2
<1> QED
  BY <1>9, <1>10, <1>11, Zenon

\* The definitions inside template, by name.
Ready(p) == {t \in DOMAIN p.tx : p.tx[t].executable}
head_of(p, s) == CHOOSE t \in FromOf(Ready(p), s) : \A u \in FromOf(Ready(p), s) : Nonce(t) <= Nonce(u)
Price(p, s) == fee_per_byte(head_of(p, s))
Before(p, t, u) ==
    IF From(t) = From(u) THEN Nonce(t) < Nonce(u)
    ELSE Price(p, From(t)) > Price(p, From(u)) \/ (Price(p, From(t)) = Price(p, From(u)) /\ From(t) < From(u))
Listed(p) ==
    [i \in 1..Cardinality(Ready(p)) |->
        CHOOSE t \in Ready(p) : Cardinality({u \in Ready(p) : Before(p, u, t)}) = i - 1]

\* A bounded set of numbers that is not empty has a greatest element.
LEMMA GreatestOf ==
    ASSUME NEW n \in Nat, NEW V \in SUBSET (0..n), V # {}
    PROVE  Max(V) \in V
<1> DEFINE W == {n - v : v \in V}
<1>1. W \subseteq Nat /\ W # {}
  <2>1. \A v \in V : n - v \in Nat
    OBVIOUS
  <2> QED
    BY <2>1
<1>2. PICK i \in W : \A j \in W : i <= j
  <2> HIDE DEF W
  <2> QED
    BY <1>1, LeastExists
<1>3. PICK v \in V : i = n - v
  BY <1>2
<1>4. ASSUME NEW y \in V PROVE v >= y
  <2>1. n - y \in W
    OBVIOUS
  <2>2. n - v <= n - y
    BY <1>2, <1>3, <2>1
  <2>3. v \in Int /\ y \in Int
    OBVIOUS
  <2> HIDE DEF W
  <2> QED
    BY <2>2, <2>3
<1> QED
  BY <1>4 DEF Max

\* A template is the beginning of the list of what is executable.
LEMMA TemplateIs ==
    ASSUME NEW p \in Pools
    PROVE  \E m \in 0..Cardinality(Ready(p)) : template(p) = SubSeq(Listed(p), 1, m)
<1> DEFINE all == Listed(p)
           n == Cardinality(Ready(p))
           fits(i) == i <= TemplateTxs /\ SumFunctionOnSet(Each(Size), {all[j] : j \in 1..i}) <= TemplateBytes
           V == {0} \cup {i \in DOMAIN all : fits(i)}
<1>1. template(p) = SubSeq(all, 1, Max(V))
  BY Zenon DEF template, Listed, Before, Price, head_of, Ready
<1>2. n \in Nat /\ DOMAIN all = 1..n
  <2>1. Ready(p) \in SUBSET TxId
    BY PoolTypes DEF Ready
  <2> QED
    BY <2>1, TxSets DEF Listed
<1> HIDE DEF all, fits, n
<1>3. V \in SUBSET (0..n) /\ V # {}
  BY <1>2
<1> HIDE DEF V
<1>4. Max(V) \in V
  BY <1>2, <1>3, GreatestOf
<1>5. Max(V) \in 0..n
  BY <1>3, <1>4
<1> QED
  BY <1>1, <1>5, Zenon DEF all, n

\* The price of a sender's head is a natural number.
LEMMA PriceIs ==
    ASSUME NEW p \in Pools, NEW t \in Ready(p)
    PROVE  Price(p, From(t)) \in Nat
<1> DEFINE T == FromOf(Ready(p), From(t))
           V == {Nonce(u) : u \in T}
<1>1. T \in SUBSET TxId /\ t \in T /\ \A u \in T : Nonce(u) \in Nat
  BY PoolTypes, TxTypes DEF Ready, FromOf
<1>2. V \subseteq Nat /\ V # {}
  BY <1>1
<1>3. PICK i \in V : \A j \in V : i <= j
  <2> HIDE DEF V
  <2> QED
    BY <1>2, LeastExists
<1>4. PICK v \in T : i = Nonce(v)
  BY <1>3
<1>5. \A u \in T : Nonce(v) <= Nonce(u)
  BY <1>3, <1>4
<1>6. head_of(p, From(t)) \in T
  BY <1>5, Zenon DEF head_of
<1> QED
  BY <1>1, <1>6, TxTypes DEF Price

\* The order of the template is a strict total one on what is executable.
LEMMA BeforeOrders ==
    ASSUME NEW p \in Pools, Distinct(p)
    PROVE  /\ \A t \in Ready(p) : ~Before(p, t, t)
           /\ \A t, u \in Ready(p) : t # u => Before(p, t, u) \/ Before(p, u, t)
           /\ \A t, u, v \in Ready(p) : Before(p, t, u) /\ Before(p, u, v) => Before(p, t, v)
<1>1. \A t \in Ready(p) : t \in DOMAIN p.tx /\ Nonce(t) \in Nat /\ From(t) \in Nat /\ Price(p, From(t)) \in Nat
  <2> TAKE t \in Ready(p)
  <2>1. t \in DOMAIN p.tx /\ t \in TxId
    BY PoolTypes DEF Ready
  <2>2. From(t) \in Sender /\ Nonce(t) \in Nat
    BY <2>1, TxTypes
  <2> QED
    BY <2>1, <2>2, PriceIs, PoolConstants
<1>2. \A t \in Ready(p) : ~Before(p, t, t)
  BY <1>1 DEF Before
<1>3. ASSUME NEW t \in Ready(p), NEW u \in Ready(p), t # u PROVE Before(p, t, u) \/ Before(p, u, t)
  <2>1. PICK a, b, f, g, m, n : /\ a = Price(p, From(t)) /\ b = Price(p, From(u)) /\ f = From(t) /\ g = From(u)
                                /\ m = Nonce(t) /\ n = Nonce(u)
    OBVIOUS
  <2>2. a \in Nat /\ b \in Nat /\ f \in Nat /\ g \in Nat /\ m \in Nat /\ n \in Nat
    BY <1>1, <2>1
  <2>3. f = g => m # n
    BY <1>1, <1>3, <2>1 DEF Distinct
  <2>4. \/ IF f = g THEN m < n ELSE a > b \/ (a = b /\ f < g)
        \/ IF g = f THEN n < m ELSE b > a \/ (b = a /\ g < f)
    BY <2>2, <2>3
  <2> QED
    BY <2>1, <2>4 DEF Before
<1>4. ASSUME NEW t \in Ready(p), NEW u \in Ready(p), NEW v \in Ready(p), Before(p, t, u), Before(p, u, v)
      PROVE  Before(p, t, v)
  <2>1. PICK a, b, c, f, g, h, m, n, o :
            /\ a = Price(p, From(t)) /\ b = Price(p, From(u)) /\ c = Price(p, From(v))
            /\ f = From(t) /\ g = From(u) /\ h = From(v)
            /\ m = Nonce(t) /\ n = Nonce(u) /\ o = Nonce(v)
    OBVIOUS
  <2>2. /\ a \in Nat /\ b \in Nat /\ c \in Nat /\ f \in Nat /\ g \in Nat /\ h \in Nat
        /\ m \in Nat /\ n \in Nat /\ o \in Nat
    BY <1>1, <2>1
  <2>3. (f = g => a = b) /\ (g = h => b = c) /\ (f = h => a = c)
    BY <2>1
  <2>4. IF f = g THEN m < n ELSE a > b \/ (a = b /\ f < g)
    BY <1>4, <2>1 DEF Before
  <2>5. IF g = h THEN n < o ELSE b > c \/ (b = c /\ g < h)
    BY <1>4, <2>1 DEF Before
  <2>6. IF f = h THEN m < o ELSE a > c \/ (a = c /\ f < h)
    BY <2>2, <2>3, <2>4, <2>5
  <2> QED
    BY <2>1, <2>6 DEF Before
<1> QED
  BY <1>2, <1>3, <1>4

\* The list holds each executable transaction once, after those that come before it.
LEMMA ListedIs ==
    ASSUME NEW p \in Pools, Distinct(p)
    PROVE  /\ Cardinality(Ready(p)) \in Nat /\ Listed(p) \in Seq(TxId) /\ Len(Listed(p)) = Cardinality(Ready(p))
           /\ \A i \in 1..Cardinality(Ready(p)) :
                 /\ Listed(p)[i] \in Ready(p)
                 /\ {Listed(p)[j] : j \in 1..(i - 1)} = {u \in Ready(p) : Before(p, u, Listed(p)[i])}
<1> DEFINE S == Ready(p)
           n == Cardinality(S)
           R == {e \in S \X S : Before(p, e[1], e[2])}
           all == Listed(p)
<1>1. S \in SUBSET TxId /\ IsFiniteSet(S) /\ n \in Nat
  <2>1. Ready(p) \in SUBSET TxId
    BY PoolTypes DEF Ready
  <2> QED
    BY <2>1, TxSets
<1>2. \A x, y \in S : <<x, y>> \in R <=> Before(p, x, y)
  OBVIOUS
<1>3. \A x \in S : {y \in S : <<y, x>> \in R} = {y \in S : Before(p, y, x)}
  OBVIOUS
<1> HIDE DEF R
<1>4. /\ \A x \in S : <<x, x>> \notin R
      /\ \A x, y \in S : x # y => <<x, y>> \in R \/ <<y, x>> \in R
      /\ \A x, y, z \in S : <<x, y>> \in R /\ <<y, z>> \in R => <<x, z>> \in R
  BY <1>2, BeforeOrders
<1> HIDE DEF S
<1>5. \A i \in 1..n : \E x \in S : Cardinality({y \in S : <<y, x>> \in R}) = i - 1
  BY <1>1, <1>4, RankExists
<1>6. \A i \in 1..n : \E x \in S : Cardinality({y \in S : Before(p, y, x)}) = i - 1
  <2> TAKE i \in 1..n
  <2>1. PICK x \in S : Cardinality({y \in S : <<y, x>> \in R}) = i - 1
    BY <1>5
  <2> QED
    BY <1>3, <2>1
<1>7. all = [i \in 1..n |-> CHOOSE x \in S : Cardinality({y \in S : Before(p, y, x)}) = i - 1]
  BY Zenon DEF Listed, S
<1>8. \A i \in 1..n : all[i] \in S /\ Cardinality({y \in S : Before(p, y, all[i])}) = i - 1
  <2> TAKE i \in 1..n
  <2>1. all[i] = CHOOSE x \in S : Cardinality({y \in S : Before(p, y, x)}) = i - 1
    <3> HIDE DEF all, n
    <3> QED
      BY <1>7, Zenon
  <2>2. \E x \in S : Cardinality({y \in S : Before(p, y, x)}) = i - 1
    BY <1>6
  <2> HIDE DEF all
  <2> QED
    BY <2>1, <2>2, Zenon
<1>9. all \in Seq(TxId) /\ Len(all) = n
  <2>1. all = [i \in 1..n |-> all[i]]
    BY <1>7, Zenon
  <2> HIDE DEF all, n
  <2>2. \A i \in 1..n : all[i] \in TxId
    BY <1>1, <1>8
  <2>3. all \in [1..n -> TxId]
    BY <2>1, <2>2, Zenon
  <2> QED
    BY <1>1, <2>3
<1> HIDE DEF all
<1>13. \A x \in S : Down(S, R, x) = {y \in S : Before(p, y, x)}
  BY <1>3 DEF Down
<1>10. \A i \in 1..n : all[i] \in S /\ Cardinality(Down(S, R, all[i])) = i - 1
  BY <1>8, <1>13
<1>11. \A i \in 1..n : all[i] \in S /\ {all[j] : j \in 1..(i - 1)} = Down(S, R, all[i])
  <2>1. IsFiniteSet(S)
    BY <1>1
  <2>2. \A x \in S : <<x, x>> \notin R
    BY <1>4
  <2>3. \A x, y \in S : x # y => <<x, y>> \in R \/ <<y, x>> \in R
    BY <1>4
  <2>4. \A x, y, z \in S : <<x, y>> \in R /\ <<y, z>> \in R => <<x, z>> \in R
    BY <1>4
  <2> QED
    BY <2>1, <2>2, <2>3, <2>4, <1>10, ListedByRank
<1>12. \A i \in 1..n : all[i] \in S /\ {all[j] : j \in 1..(i - 1)} = {y \in S : Before(p, y, all[i])}
  <2> TAKE i \in 1..n
  <2>1. all[i] \in S /\ {all[j] : j \in 1..(i - 1)} = Down(S, R, all[i])
    BY <1>11
  <2>2. Down(S, R, all[i]) = {y \in S : Before(p, y, all[i])}
    BY <1>13, <2>1
  <2> QED
    BY <2>1, <2>2, Zenon
<1> QED
  BY <1>1, <1>9, <1>12 DEF all, S

\* The run of a sender below one of its nonces counts up to that nonce.
LEMMA RunCounts ==
    ASSUME NEW p \in Pools, Distinct(p), NEW s \in Sender, NEW n \in Nat, NEW t \in Run(p, s, n)
    PROVE  Cardinality({u \in Run(p, s, n) : Nonce(u) < Nonce(t)}) = Nonce(t) - n
<1> DEFINE T == {u \in Run(p, s, n) : Nonce(u) < Nonce(t)}
           m == Nonce(t)
           I == n..(m - 1)
           f == [u \in T |-> Nonce(u)]
<1>1. /\ \A u \in Run(p, s, n) : /\ u \in Of(p, s) /\ Nonce(u) >= n /\ \A k \in n..Nonce(u) : AtNonce(p, s, k) # {}
      /\ \A u \in Of(p, s) : u \in TxId /\ Nonce(u) \in Nat /\ From(u) = s /\ u \in DOMAIN p.tx
  BY PoolTypes, TxTypes DEF Run, Of, FromOf
<1>2. m \in Nat /\ m >= n
  BY <1>1
<1>3. \A u \in T : u \in Run(p, s, n) /\ Nonce(u) \in I
  BY <1>1, <1>2
<1>4. f \in [T -> I]
  BY <1>3
<1>5. \A a, b \in T : f[a] = f[b] => a = b
  <2> TAKE a, b \in T
  <2> HAVE f[a] = f[b]
  <2>1. Nonce(a) = Nonce(b) /\ a \in Of(p, s) /\ b \in Of(p, s)
    BY <1>1
  <2> QED
    BY <1>1, <2>1 DEF Distinct
<1>6. \A k \in I : \E u \in T : f[u] = k
  <2> TAKE k \in I
  <2>1. k \in n..m /\ k < m /\ k \in Int
    BY <1>2
  <2>2. PICK u : u \in AtNonce(p, s, k)
    BY <1>1, <2>1
  <2>3. u \in Of(p, s) /\ Nonce(u) = k
    BY <2>2 DEF AtNonce
  <2>4. \A j \in n..k : AtNonce(p, s, j) # {}
    BY <1>1, <1>2, <2>1
  <2>5. u \in Run(p, s, n)
    BY <1>2, <2>1, <2>3, <2>4 DEF Run
  <2> QED
    BY <2>1, <2>3, <2>5
<1> HIDE DEF f, T, I, m
<1>7. f \in Bijection(T, I)
  <2>1. DOMAIN f = T
    BY <1>4
  <2>2. IsInjective(f)
    BY <1>5, <2>1 DEF IsInjective
  <2>3. f \in Injection(T, I)
    BY <1>4, <2>2, Zenon DEF Injection
  <2>4. f \in Surjection(T, I)
    BY <1>4, <1>6, Zenon DEF Surjection
  <2> QED
    BY <2>3, <2>4, Zenon DEF Bijection
<1>8. IsFiniteSet(T)
  <2>1. T \in SUBSET TxId
    BY <1>1, <1>3
  <2> QED
    BY <2>1, TxSets
<1>9. Cardinality(I) = Cardinality(T)
  BY <1>7, <1>8, FS_Bijection DEF ExistsBijection
<1>10. Cardinality(I) = m - n
  <2>1. Cardinality(n..(m - 1)) = IF n > m - 1 THEN 0 ELSE (m - 1) - n + 1
    BY <1>2, FS_Interval
  <2> QED
    BY <1>2, <2>1 DEF I
<1> QED
  BY <1>9, <1>10 DEF T, m

\* A listed transaction finds its nonce and its money where the body reaches it.
LEMMA ListedApplies ==
    ASSUME PoolInv, \A s \in Sender : pending_outlay(pool, s) <= spendable(blocks, s),
           NEW t \in Ready(pool)
    PROVE  LET done == {u \in Ready(pool) : Before(pool, u, t)} IN
           /\ t \notin done
           /\ Nonce(t) = account(blocks, From(t)).nonce + Cardinality(FromOf(done, From(t)))
           /\ spendable(blocks, From(t)) + Moved(done, From(t)) >= outlay(t)
<1> DEFINE p == pool
           s == From(t)
           done == {u \in Ready(p) : Before(p, u, t)}
           n == account(blocks, s).nonce
<1>1. /\ blocks \in Seq(MinedBlocks) /\ p \in Pools /\ Distinct(p) /\ Fits(p, nonces(blocks))
  BY DEF PoolInv, PoolFits, Chains, Shaped
<1>2. Ready(p) \in SUBSET TxId /\ Ready(p) \subseteq DOMAIN p.tx /\ t \in TxId
  BY <1>1, PoolTypes DEF Ready
<1>3. s \in Sender /\ Nonce(t) \in Nat /\ outlay(t) \in Nat
  BY <1>2, TxTypes
<1>4. n \in Nat /\ nonces(blocks)[s] = n
  BY <1>1, <1>3, NonceTypes
<1>5. Exact(p, s, n)
  BY <1>1, <1>3, <1>4 DEF Fits
<1>6. t \notin done
  BY <1>1, BeforeOrders
<1>7. FromOf(done, s) = {u \in Run(p, s, n) : Nonce(u) < Nonce(t)} /\ t \in Run(p, s, n)
  <2>1. \A u : u \in Run(p, s, n) <=> u \in Ready(p) /\ From(u) = s
    <3> TAKE u
    <3>1. u \in Run(p, s, n) => u \in Of(p, s)
      BY DEF Run
    <3>2. u \in Of(p, s) <=> u \in DOMAIN p.tx /\ From(u) = s
      BY DEF Of, FromOf
    <3>3. u \in Ready(p) <=> u \in DOMAIN p.tx /\ p.tx[u].executable
      BY DEF Ready
    <3>4. u \in Of(p, s) => (p.tx[u].executable <=> u \in Run(p, s, n))
      BY <1>5 DEF Exact
    <3> QED
      BY <3>1, <3>2, <3>3, <3>4
  <2>2. \A u : From(u) = s => (Before(p, u, t) <=> Nonce(u) < Nonce(t))
    BY DEF Before
  <2> HIDE DEF s, n, p
  <2>3. FromOf(done, s) = {u \in Run(p, s, n) : Nonce(u) < Nonce(t)}
    BY <2>1, <2>2 DEF FromOf
  <2> QED
    BY <2>1, <2>3 DEF s, p
<1>8. Cardinality(FromOf(done, s)) = Nonce(t) - n
  <2> HIDE DEF s, n, p
  <2>1. Cardinality({u \in Run(p, s, n) : Nonce(u) < Nonce(t)}) = Nonce(t) - n
    BY <1>1, <1>3, <1>4, <1>7, RunCounts
  <2> QED
    BY <1>7, <2>1, Zenon
<1>9. done \in SUBSET TxId /\ FromOf(done, s) \in SUBSET TxId /\ {u \in done : TxBody[u].to = s} \in SUBSET TxId
  BY <1>2 DEF FromOf
<1>10. FromOf(done, s) \cup {t} \in SUBSET Of(p, s) /\ Of(p, s) \in SUBSET TxId /\ t \in TxId \ FromOf(done, s)
  <2>1. t \in Of(p, s)
    BY <1>2 DEF Of, FromOf
  <2>2. FromOf(done, s) \in SUBSET Of(p, s)
    BY <1>2 DEF Of, FromOf
  <2>3. t \notin FromOf(done, s)
    <3> HIDE DEF done
    <3> QED
      BY <1>6 DEF FromOf
  <2> QED
    BY <1>1, <1>2, <2>1, <2>2, <2>3, PoolTypes
<1>11. pending_outlay(p, s) = Outlays(Of(p, s))
  BY Zenon DEF pending_outlay, Outlays
<1>12. pending_outlay(p, s) <= spendable(blocks, s)
  BY <1>3
<1>13. spendable(blocks, s) \in Int
  BY <1>1, <1>3, SpendableIs
<1> HIDE DEF p, s, done, n
<1>14. Outlays(FromOf(done, s)) + outlay(t) <= Outlays(Of(p, s)) /\ Outlays(FromOf(done, s)) \in Nat /\ Outlays(Of(p, s)) \in Nat
  <2>1. Outlays(FromOf(done, s) \cup {t}) = Outlays(FromOf(done, s)) + outlay(t) /\ Outlays(FromOf(done, s)) \in Nat
    BY <1>9, <1>10, OutlaysOf
  <2>2. Outlays(FromOf(done, s) \cup {t}) <= Outlays(Of(p, s)) /\ Outlays(Of(p, s)) \in Nat
    BY <1>10, OutlaysOf
  <2> QED
    BY <2>1, <2>2
<1>15. Moved(done, s) >= 0 - Outlays(FromOf(done, s)) /\ Moved(done, s) \in Int
  <2>1. Moved(done, s) = Amounts({u \in done : TxBody[u].to = s}) - Outlays(FromOf(done, s))
    BY <1>3, <1>9, MovedIs
  <2>2. PICK a : a = Amounts({u \in done : TxBody[u].to = s})
    OBVIOUS
  <2>3. a \in Nat
    BY <1>9, <2>2, AmountsOf
  <2>4. Moved(done, s) = a - Outlays(FromOf(done, s))
    BY <2>1, <2>2, Zenon
  <2> QED
    BY <1>14, <2>3, <2>4
<1>16. spendable(blocks, s) + Moved(done, s) >= outlay(t)
  BY <1>3, <1>11, <1>12, <1>13, <1>14, <1>15
<1>17. Nonce(t) = n + Cardinality(FromOf(done, s))
  BY <1>3, <1>4, <1>8
<1> QED
  BY <1>6, <1>16, <1>17 DEF p, s, done, n

\* A template is a valid body, as long as every sender can pay for what it pooled.
LEMMA TemplateIsValid == PoolInv => TemplateApplies
<1> SUFFICES ASSUME PoolInv, \A s \in Sender : pending_outlay(pool, s) <= spendable(blocks, s)
             PROVE  validate_block_body(blocks, template(pool))
  BY DEF TemplateApplies
<1> DEFINE all == Listed(pool)
           n == Cardinality(Ready(pool))
<1>1. pool \in Pools /\ Distinct(pool)
  BY DEF PoolInv, PoolFits, Shaped
<1>2. /\ n \in Nat /\ all \in Seq(TxId) /\ Len(all) = n
      /\ \A i \in 1..n : all[i] \in Ready(pool) /\ {all[j] : j \in 1..(i - 1)} = {u \in Ready(pool) : Before(pool, u, all[i])}
  BY <1>1, ListedIs
<1>3. PICK m \in 0..n : template(pool) = SubSeq(all, 1, m)
  BY <1>1, TemplateIs
<1> DEFINE txs == SubSeq(all, 1, m)
<1> HIDE DEF all, n
<1>4. DOMAIN txs = 1..m /\ \A i \in 1..m : txs[i] = all[i] /\ i \in 1..n
  BY <1>2
<1> HIDE DEF txs
<1>5. ASSUME NEW i \in DOMAIN txs
      PROVE  LET done == {txs[j] : j \in 1..(i - 1)}
                 t == txs[i]
             IN  /\ t \notin done
                 /\ Nonce(t) = account(blocks, From(t)).nonce + Cardinality(FromOf(done, From(t)))
                 /\ spendable(blocks, From(t)) + Moved(done, From(t)) >= outlay(t)
  <2> DEFINE done == {txs[j] : j \in 1..(i - 1)}
             t == txs[i]
  <2>1. i \in 1..n /\ i \in 1..m /\ t = all[i] /\ t \in Ready(pool)
    BY <1>2, <1>4
  <2>2. done = {all[j] : j \in 1..(i - 1)}
    <3>1. \A j \in 1..(i - 1) : j \in 1..m /\ txs[j] = all[j]
      BY <1>2, <1>4, <2>1
    <3> QED
      BY <3>1
  <2>3. {all[j] : j \in 1..(i - 1)} = {u \in Ready(pool) : Before(pool, u, all[i])}
    BY <1>2, <2>1
  <2>4. done = {u \in Ready(pool) : Before(pool, u, t)}
    BY <2>1, <2>2, <2>3, Zenon
  <2> HIDE DEF t, done
  <2>5. LET d == {u \in Ready(pool) : Before(pool, u, t)} IN
        /\ t \notin d
        /\ Nonce(t) = account(blocks, From(t)).nonce + Cardinality(FromOf(d, From(t)))
        /\ spendable(blocks, From(t)) + Moved(d, From(t)) >= outlay(t)
    BY <2>1, ListedApplies
  <2>6. /\ t \notin done
        /\ Nonce(t) = account(blocks, From(t)).nonce + Cardinality(FromOf(done, From(t)))
        /\ spendable(blocks, From(t)) + Moved(done, From(t)) >= outlay(t)
    BY <2>4, <2>5, Zenon
  <2> QED
    BY <2>6, Zenon DEF t, done
<1>6. validate_block_body(blocks, txs)
  BY <1>5, Zenon DEF validate_block_body
<1> QED
  BY <1>3, <1>6, Zenon DEF txs

-----------------------------------------------------------------------------
(* Everything together.                                                    *)

\* The mempool and the chain on their own.
PoolSpec == PoolInit /\ [][PoolNext]_poolVars

\* For any transactions, accounts, caps, fees and maturity beyond the reach of a
\* reorg, and whatever blocks and branches are adopted between submissions: the
\* pool (mempool.rs) fits the tip, its executable marks are the run from each
\* account's nonce (resplit_account, on_block_connected, resplit_all,
\* on_reorg_reinject), the template taken from it is a valid body
\* (validate_block_body in body.rs) and no reward a reorg can undo is spent
\* (coinbase_is_mature in state.rs).
THEOREM PoolIsSound == PoolSpec => []PoolSound
<1>1. PoolInit => PoolInv
  BY PoolInvInit
<1>2. PoolInv /\ [PoolNext]_poolVars => PoolInv'
  BY PoolInvNext
<1>3. PoolInv => PoolSound
  BY FitsTip, RewardsUnspent, TemplateIsValid DEF PoolSound
<1> QED
  BY <1>1, <1>2, <1>3, PTL DEF PoolSpec
=============================================================================
