-------------------------- MODULE BlockStoreProofs --------------------------
(***************************************************************************)
(* Safety of BlockStore for every block tree, every bound and any number   *)
(* of crashes: an open store holds the headers and the account rows of its *)
(* tip, recovery refuses only a disk that lost synced headers, and the     *)
(* store implements AtomicStore until then.                                *)
(*                                                                         *)
(* The argument is where each header of the stored chain can be found: in  *)
(* its slot, read or synced, or in the HDR_UNDO blob if a reorg is to      *)
(* overwrite that slot (ChainFound).  The rest of Inv says how far the     *)
(* call under way has got.  BodyInv does the same for the bodies: until a  *)
(* crash interrupts a reorg or the disk loses what was synced, the frames  *)
(* of the stored chain follow each other from the start of the segment.    *)
(***************************************************************************)
EXTENDS BlockStore, BlockTreeProofs

Extending == {"ext_header", "ext_body", "ext_barrier", "ext_commit"}
Reorging == {"undo", "overwrite", "bodies", "commit"}

Types ==
    /\ hdr \in [Slots -> Block \cup {None}]
    /\ hdrSynced \in [Slots -> Block \cup {None}]
    /\ tip \in Block /\ target \in Block
    /\ undo \subseteq Block /\ todo \subseteq Block
    /\ faults \subseteq {"tail", "reorg"}
    /\ pc \in Extending \cup Reorging
              \cup {"idle", "poisoned", "down", "headers", "scan", "refused"}

\* A disk that loses synced headers leaves empty slots until recovery has
\* lowered the tip.
MayMiss == lost /\ pc \in {"down", "headers", "refused"}
Holds(slots, b) == slots[height[b]] = b \/ (MayMiss /\ slots[height[b]] = None)

ChainFound ==
    \A b \in Anc[tip] :
        IF height[b] \in DOMAIN hdrUndo
        THEN hdrUndo[height[b]] = b
        ELSE Holds(hdr, b) /\ Holds(hdrSynced, b)

GenesisKept == hdr[0] = Genesis /\ hdrSynced[0] = Genesis

\* What the blob saves at each step.
BlobMatchesStep ==
    /\ DOMAIN hdrUndo \subseteq 0..height[tip]
    /\ pc \in Extending \cup {"idle", "undo", "headers", "scan", "refused"}
         => DOMAIN hdrUndo = {}
    /\ pc \in {"overwrite", "bodies", "commit"} => DOMAIN hdrUndo = Overwritten

ExtendMatchesStep ==
    /\ pc \in Extending => target # Genesis /\ prev[target] = tip
    /\ pc \in {"ext_body", "ext_barrier", "ext_commit"} => hdr[height[target]] = target
    /\ pc = "ext_commit" => hdrSynced[height[target]] = target

ReorgMatchesStep ==
    /\ pc \in Reorging =>
         /\ Better(target, tip)
         /\ height[tip] - height[Fork(target, tip)] <= StoreReorgCap
         /\ Dropped(target) \subseteq undo
    /\ pc = "undo" => todo = Branch(target)
    /\ pc = "overwrite" => \A b \in Branch(target) \ todo : hdr[height[b]] = b
    /\ pc \in {"overwrite", "bodies"} => todo \subseteq Branch(target)
    /\ pc \in {"bodies", "commit"} =>
         \A b \in Branch(target) : hdr[height[b]] = b /\ hdrSynced[height[b]] = b

SyncedWhenDown == pc \in {"down", "headers"} => hdrSynced = hdr

\* The undo rows are those of the top of the stored chain, at most UndoRing.
RingMatchesTip ==
    \/ lost
    \/ /\ UndoLow \in Nat /\ UndoLow <= height[tip]
       /\ height[tip] + 1 <= UndoLow + UndoRing
       /\ undo = {b \in Anc[tip] : height[b] >= UndoLow}

\* The inductive invariant.
Inv ==
    /\ Types /\ ChainFound /\ GenesisKept
    /\ BlobMatchesStep /\ ExtendMatchesStep /\ ReorgMatchesStep
    /\ SyncedWhenDown /\ RingMatchesTip
    /\ StateMatchesTip /\ OpensAgain

USE DEF lost

-----------------------------------------------------------------------------
(* Slots, branches and undo rows.                                          *)

\* Every block has a slot, and the genesis block has the first.
LEMMA SlotOfBlock ==
    /\ \A b \in Block : height[b] \in Slots /\ height[b] \in Nat
    /\ 0 \in Slots
BY TreeTypes, TreeRoot DEF Slots

\* The minimum of a set of heights.
LEMMA MinIs ==
    ASSUME NEW S \in SUBSET Nat, NEW m \in S, \A y \in S : m <= y
    PROVE  Min(S) = m
<1>1. \A x \in S : (\A y \in S : x <= y) => x = m
  OBVIOUS
<1> QED
  BY <1>1 DEF Min

\* Undo rows that are an ancestry down to a height have it as their lowest.
LEMMA LowIs ==
    ASSUME NEW b \in Block, NEW low \in 0..height[b]
    PROVE  Min({height[r] : r \in {c \in Anc[b] : height[c] >= low}}) = low
<1> DEFINE S == {height[r] : r \in {c \in Anc[b] : height[c] >= low}}
<1>1. S \in SUBSET Nat
  BY TreeTypes
<1>2. low \in S
  BY TreeLevels
<1>3. \A y \in S : low <= y
  BY TreeTypes
<1> QED
  BY <1>1, <1>2, <1>3, MinIs

\* No two blocks of an ancestry share a slot.
LEMMA OneSlotEach ==
    ASSUME NEW b \in Block, NEW a \in Anc[b], NEW c \in Anc[b], height[a] = height[c]
    PROVE  a = c
BY TreeLinear

\* A block above the stored chain does not have the slot of one of its blocks.
LEMMA AboveTip ==
    ASSUME NEW b \in Block, NEW t \in Block, height[b] > height[t], NEW c \in Anc[t]
    PROVE  height[c] # height[b] /\ c \in Block /\ height[c] \in Nat
BY AncHeight, AncNests, TreeTypes

\* Blocks of a branch are none of the stored chain and share no slot with
\* what the branch keeps of it.
LEMMA BranchSlots ==
    ASSUME Types, NEW b \in Branch(target)
    PROVE  /\ b \in Block /\ b \in Anc[target] /\ b \notin Anc[tip] /\ b # Genesis
           /\ height[b] \in Slots /\ height[b] > 0
           /\ \A c \in Anc[target] : height[c] = height[b] => c = b
<1>1. b \in Block /\ b \in Anc[target] /\ b \notin Anc[tip]
  BY AncNests DEF Branch, Types
<1>2. b # Genesis
  BY <1>1, TreeRoot DEF Types
<1>3. height[b] \in Slots /\ height[b] > 0
  BY <1>1, <1>2, SlotOfBlock, HeightZero
<1> QED
  BY <1>1, <1>2, <1>3, OneSlotEach DEF Types

-----------------------------------------------------------------------------
(* The steps.                                                              *)

\* A new store satisfies the invariant.
LEMMA InitInv == Init => Inv
<1> SUFFICES ASSUME Init
             PROVE  Inv
  OBVIOUS
<1> USE DEF Init
<1>1. Types
  BY SlotOfBlock, TreeTypes DEF Types
<1>2. ChainFound
  BY TreeRoot, SlotOfBlock DEF ChainFound, Holds, EmptyBlob
<1>3. GenesisKept
  BY SlotOfBlock DEF GenesisKept
<1>4. BlobMatchesStep /\ ExtendMatchesStep /\ ReorgMatchesStep /\ SyncedWhenDown
  BY DEF BlobMatchesStep, ExtendMatchesStep, ReorgMatchesStep, SyncedWhenDown, EmptyBlob,
         Extending, Reorging
<1>5. RingMatchesTip
  <2>1. {height[b] : b \in {Genesis}} = {0}
    BY TreeRoot
  <2>2. UndoLow = 0
    BY <2>1, MinIs DEF UndoLow
  <2> QED
    BY <2>2, TreeRoot, StoreTypes DEF RingMatchesTip
<1>6. StateMatchesTip /\ OpensAgain
  BY DEF StateMatchesTip, OpensAgain
<1> QED
  BY <1>1, <1>2, <1>3, <1>4, <1>5, <1>6 DEF Inv

\* A step that touches neither headers nor database rows keeps the chain where
\* it is; what it must establish is that its program counter says the truth.
LEMMA QuietStep ==
    ASSUME Inv, UNCHANGED <<hdr, hdrSynced, tip, state, undo, hdrUndo, faults>>,
           Types', MayMiss => MayMiss',
           BlobMatchesStep', ExtendMatchesStep', ReorgMatchesStep', SyncedWhenDown',
           OpensAgain'
    PROVE  Inv'
<1>1. ChainFound'
  BY DEF Inv, ChainFound, Holds
<1>2. GenesisKept' /\ StateMatchesTip'
  BY DEF Inv, GenesisKept, StateMatchesTip
<1>3. RingMatchesTip'
  BY DEF Inv, RingMatchesTip, UndoLow
<1> QED
  BY <1>1, <1>2, <1>3 DEF Inv

\* Starting an extension writes nothing.
LEMMA StartExtendInv ==
    ASSUME Inv, NEW b \in Block, StartExtend(b)
    PROVE  Inv'
<1> USE DEF StartExtend, headers, bodies, database, Inv
<1>1. Types'
  BY DEF Types, Extending
<1>2. BlobMatchesStep' /\ SyncedWhenDown' /\ OpensAgain'
  BY DEF BlobMatchesStep, SyncedWhenDown, OpensAgain, Extending
<1>3. ExtendMatchesStep' /\ ReorgMatchesStep'
  BY DEF ExtendMatchesStep, ReorgMatchesStep, Extending, Reorging
<1>4. MayMiss => MayMiss'
  BY DEF MayMiss
<1> QED
  BY <1>1, <1>2, <1>3, <1>4, QuietStep

\* Starting a reorg records that its plan passed the checks.
LEMMA StartReorgInv ==
    ASSUME Inv, NEW b \in Block, StartReorg(b)
    PROVE  Inv'
<1> USE DEF StartReorg, headers, bodies, database, Inv
<1>1. Types'
  BY TreeTypes DEF Types, Reorging, Branch
<1>2. BlobMatchesStep' /\ SyncedWhenDown' /\ OpensAgain'
  BY DEF BlobMatchesStep, SyncedWhenDown, OpensAgain, Extending
<1>3. ExtendMatchesStep' /\ ReorgMatchesStep'
  BY DEF ExtendMatchesStep, ReorgMatchesStep, Extending, Reorging, Branch, Dropped
<1>4. MayMiss => MayMiss'
  BY DEF MayMiss
<1> QED
  BY <1>1, <1>2, <1>3, <1>4, QuietStep

\* Writing the new block's body leaves headers and rows alone.
LEMMA ExtendBodyInv ==
    ASSUME Inv, ExtendBody
    PROVE  Inv'
<1> USE DEF ExtendBody, headers, database, Inv
<1>1. Types'
  BY DEF Types, Extending
<1>2. BlobMatchesStep' /\ SyncedWhenDown' /\ OpensAgain'
  BY DEF BlobMatchesStep, SyncedWhenDown, OpensAgain, Extending
<1>3. ExtendMatchesStep' /\ ReorgMatchesStep'
  BY DEF ExtendMatchesStep, ReorgMatchesStep, Extending, Reorging
<1>4. MayMiss => MayMiss'
  BY DEF MayMiss
<1> QED
  BY <1>1, <1>2, <1>3, <1>4, QuietStep

\* So does writing a body of the branch.
LEMMA BranchBodyInv ==
    ASSUME Inv, NEW b \in Block, BranchBody(b)
    PROVE  Inv'
<1> USE DEF BranchBody, headers, database, Inv
<1>1. Types'
  BY DEF Types, Reorging
<1>2. BlobMatchesStep' /\ SyncedWhenDown' /\ OpensAgain'
  BY DEF BlobMatchesStep, SyncedWhenDown, OpensAgain, Extending, Overwritten, Branch
<1>3. ExtendMatchesStep' /\ ReorgMatchesStep'
  BY DEF ExtendMatchesStep, ReorgMatchesStep, Extending, Reorging, Branch, Dropped
<1>4. MayMiss => MayMiss'
  BY DEF MayMiss
<1> QED
  BY <1>1, <1>2, <1>3, <1>4, QuietStep

\* A failed step leaves the blob for the next open.
LEMMA FailInv ==
    ASSUME Inv, Fail
    PROVE  Inv'
<1> USE DEF Fail, headers, database, Inv
<1>1. Types'
  BY DEF Types
<1>2. BlobMatchesStep' /\ SyncedWhenDown' /\ OpensAgain'
  BY DEF BlobMatchesStep, SyncedWhenDown, OpensAgain, Extending
<1>3. ExtendMatchesStep' /\ ReorgMatchesStep'
  BY DEF ExtendMatchesStep, ReorgMatchesStep, Extending, Reorging
<1>4. MayMiss => MayMiss'
  BY DEF MayMiss
<1> QED
  BY <1>1, <1>2, <1>3, <1>4, QuietStep

\* Reconciling bodies opens the store without touching headers or rows.
LEMMA ReconcileBodiesInv ==
    ASSUME Inv, ReconcileBodies
    PROVE  Inv'
<1>1. /\ pc = "scan" /\ pc' = "idle"
      /\ UNCHANGED <<hdr, hdrSynced, tip, state, undo, hdrUndo, target, todo, faults>>
  BY DEF ReconcileBodies, headers
<1>2. Types'
  BY <1>1 DEF Inv, Types
<1>3. BlobMatchesStep' /\ SyncedWhenDown' /\ OpensAgain'
  BY <1>1 DEF Inv, BlobMatchesStep, SyncedWhenDown, OpensAgain, Extending
<1>4. ExtendMatchesStep' /\ ReorgMatchesStep'
  BY <1>1 DEF ExtendMatchesStep, ReorgMatchesStep, Extending, Reorging
<1>5. MayMiss => MayMiss'
  BY <1>1 DEF MayMiss
<1> QED
  BY <1>1, <1>2, <1>3, <1>4, <1>5, QuietStep

\* A step that writes headers and leaves the database alone keeps undo rows,
\* state and tip.
LEMMA RowsKept ==
    ASSUME Inv, UNCHANGED <<tip, state, undo>>, lost' = lost
    PROVE  RingMatchesTip' /\ StateMatchesTip'
BY DEF Inv, RingMatchesTip, UndoLow, StateMatchesTip

\* The new header goes above the stored chain.
LEMMA WriteHeaderInv ==
    ASSUME Inv, WriteHeader
    PROVE  Inv'
<1> USE DEF WriteHeader, bodies, database, Inv
<1>1. target \in Block /\ target # Genesis /\ prev[target] = tip /\ tip \in Block
  BY DEF Types, ExtendMatchesStep, Extending
<1>2. height[target] = height[tip] + 1 /\ height[tip] \in Nat /\ height[target] \in Slots
  BY <1>1, TreeStep, TreeTypes, SlotOfBlock
<1>3. Types'
  BY <1>1, <1>2 DEF Types, Extending
<1>4. \A c \in Anc[tip] : hdr'[height[c]] = hdr[height[c]]
  BY <1>1, <1>2, AboveTip, SlotOfBlock DEF Types
<1>5. ChainFound' /\ GenesisKept'
  <2>1. ChainFound'
    BY <1>4 DEF ChainFound, Holds, MayMiss
  <2>2. GenesisKept'
    BY <1>1, <1>2, SlotOfBlock DEF GenesisKept, Types
  <2> QED
    BY <2>1, <2>2
<1>6. BlobMatchesStep' /\ SyncedWhenDown' /\ OpensAgain'
  BY DEF BlobMatchesStep, SyncedWhenDown, OpensAgain, Extending
<1>7. ExtendMatchesStep' /\ ReorgMatchesStep'
  BY <1>1, <1>2 DEF ExtendMatchesStep, ReorgMatchesStep, Extending, Reorging, Types
<1> QED
  BY <1>3, <1>5, <1>6, <1>7, RowsKept

\* The barrier makes the new header durable before the transaction.
LEMMA ExtendBarrierInv ==
    ASSUME Inv, ExtendBarrier
    PROVE  Inv'
<1> USE DEF ExtendBarrier, Barrier, database, Inv
<1>1. Types' /\ GenesisKept'
  BY DEF Types, Extending, GenesisKept
<1>2. ChainFound'
  BY DEF ChainFound, Holds, MayMiss
<1>3. BlobMatchesStep' /\ SyncedWhenDown' /\ OpensAgain'
  BY DEF BlobMatchesStep, SyncedWhenDown, OpensAgain, Extending
<1>4. ExtendMatchesStep' /\ ReorgMatchesStep'
  BY DEF ExtendMatchesStep, ReorgMatchesStep, Extending, Reorging
<1> QED
  BY <1>1, <1>2, <1>3, <1>4, RowsKept

\* Every header a reorg will overwrite is in the blob before it starts.
LEMMA SaveHeadersInv ==
    ASSUME Inv, SaveHeaders
    PROVE  Inv'
<1> USE DEF SaveHeaders, headers, bodies, Inv
<1>1. Types' /\ GenesisKept'
  BY DEF Types, Reorging, GenesisKept
<1>2. DOMAIN hdrUndo = {} /\ ~MayMiss
  BY DEF BlobMatchesStep, MayMiss
<1>3. \A b \in Anc[tip] : hdr[height[b]] = b /\ hdrSynced[height[b]] = b
  BY <1>2 DEF ChainFound, Holds
<1>4. DOMAIN hdrUndo' = Overwritten /\ \A h \in Overwritten : hdrUndo'[h] = hdr[h]
  OBVIOUS
<1>5. ChainFound'
  BY <1>3, <1>4 DEF ChainFound, Holds
<1>6. Overwritten \subseteq 0..height[tip]
  BY BranchSlots, TreeTypes DEF Overwritten, Types
<1>7. BlobMatchesStep'
  BY <1>4, <1>6 DEF BlobMatchesStep, Overwritten, Branch, Extending
<1>8. SyncedWhenDown' /\ OpensAgain'
  BY DEF SyncedWhenDown, OpensAgain
<1>9. ExtendMatchesStep' /\ ReorgMatchesStep'
  BY DEF ExtendMatchesStep, ReorgMatchesStep, Extending, Reorging, Branch, Dropped
<1> QED
  BY <1>1, <1>5, <1>7, <1>8, <1>9, RowsKept

\* A header of the branch goes where the stored chain has none or has its own
\* in the blob.
LEMMA OverwriteHeaderInv ==
    ASSUME Inv, NEW b \in Block, OverwriteHeader(b)
    PROVE  Inv'
<1> USE DEF OverwriteHeader, bodies, database, Inv
<1>1. b \in Branch(target) /\ height[b] \in Slots /\ height[b] > 0
  BY BranchSlots DEF Lowest, ReorgMatchesStep
<1>2. Types' /\ GenesisKept'
  BY <1>1, SlotOfBlock DEF Types, Reorging, GenesisKept
<1>3. \A h \in Slots : hdr'[h] = IF h = height[b] THEN b ELSE hdr[h]
  BY DEF Types
<1>4. \A c \in Anc[tip] : height[c] \notin DOMAIN hdrUndo => height[c] # height[b]
  <2> SUFFICES ASSUME NEW c \in Anc[tip], height[c] = height[b]
               PROVE  height[c] \in DOMAIN hdrUndo
    OBVIOUS
  <2>1. height[c] <= height[tip]
    BY AncHeight DEF Types
  <2> QED
    BY <1>1, <2>1 DEF BlobMatchesStep, Overwritten
<1>5. \A c \in Anc[tip] : height[c] \in Slots
  BY SlotOfBlock, AncNests DEF Types
<1>6. ChainFound'
  BY <1>3, <1>4, <1>5 DEF ChainFound, Holds, MayMiss
<1>7. BlobMatchesStep' /\ SyncedWhenDown' /\ OpensAgain'
  BY DEF BlobMatchesStep, SyncedWhenDown, OpensAgain, Extending, Overwritten, Branch
<1>8. ReorgMatchesStep'
  <2>1. ASSUME NEW c \in Branch(target) \ todo'
        PROVE  hdr'[height[c]] = c
    <3>1. c \in Anc[target] /\ height[c] \in Slots
      BY <2>1, BranchSlots
    <3>2. CASE c = b
      BY <1>1, <1>3, <3>2
    <3>3. CASE c # b
      <4>1. height[c] # height[b]
        BY <1>1, <3>1, <3>3, BranchSlots
      <4> QED
        BY <1>3, <2>1, <3>1, <3>3, <4>1 DEF ReorgMatchesStep
    <3> QED
      BY <3>2, <3>3
  <2>2. (Branch(target) \ todo)' = Branch(target) \ todo'
    BY DEF Branch
  <2> QED
    BY <2>1, <2>2 DEF ReorgMatchesStep, Reorging, Branch, Dropped
<1>9. ExtendMatchesStep'
  BY DEF ExtendMatchesStep, Extending
<1> QED
  BY <1>2, <1>6, <1>7, <1>8, <1>9, RowsKept

\* After the sync the whole branch is durable in its slots.
LEMMA SyncHeadersInv ==
    ASSUME Inv, SyncHeaders
    PROVE  Inv'
<1> USE DEF SyncHeaders, database, Inv
<1>1. Types' /\ GenesisKept'
  BY TreeTypes DEF Types, Reorging, GenesisKept, Branch
<1>2. ChainFound'
  BY DEF ChainFound, Holds, MayMiss
<1>3. BlobMatchesStep' /\ SyncedWhenDown' /\ OpensAgain'
  BY DEF BlobMatchesStep, SyncedWhenDown, OpensAgain, Extending, Overwritten, Branch
<1>4. \A b \in Branch(target) : hdr[height[b]] = b
  BY DEF ReorgMatchesStep
<1>5. ExtendMatchesStep' /\ ReorgMatchesStep'
  BY <1>4 DEF ExtendMatchesStep, ReorgMatchesStep, Extending, Reorging, Branch, Dropped
<1> QED
  BY <1>1, <1>2, <1>3, <1>5, RowsKept

\* The second barrier keeps it so.
LEMMA BranchBarrierInv ==
    ASSUME Inv, BranchBarrier
    PROVE  Inv'
<1> USE DEF BranchBarrier, Barrier, database, Inv
<1>1. Types' /\ GenesisKept'
  BY DEF Types, Reorging, GenesisKept
<1>2. ChainFound'
  BY DEF ChainFound, Holds, MayMiss
<1>3. BlobMatchesStep' /\ SyncedWhenDown' /\ OpensAgain'
  BY DEF BlobMatchesStep, SyncedWhenDown, OpensAgain, Extending, Overwritten, Branch
<1>4. ExtendMatchesStep' /\ ReorgMatchesStep'
  BY DEF ExtendMatchesStep, ReorgMatchesStep, Extending, Reorging, Branch, Dropped
<1> QED
  BY <1>1, <1>2, <1>3, <1>4, RowsKept

-----------------------------------------------------------------------------
(* The two transactions.                                                   *)

\* The lowest row after b is the tip, as AtomicStore counts it.
NewLow(b) == IF height[b] + 1 > UndoLow + UndoRing THEN height[b] + 1 - UndoRing ELSE UndoLow

\* Rows that are the ancestry of the tip down to NewLow are its ring.
LEMMA RingFollows ==
    ASSUME Inv, NEW b \in Block, height[b] + 1 > UndoLow, ~lost,
           undo' = {c \in Anc[b] : height[c] >= NewLow(b)}, tip' = b
    PROVE  RingMatchesTip' /\ UndoLow' = NewLow(b)
<1>1. UndoLow \in Nat /\ height[b] \in Nat /\ UndoRing \in Nat \ {0}
  BY TreeTypes, StoreTypes DEF Inv, RingMatchesTip
<1>2. NewLow(b) \in 0..height[b] /\ height[b] + 1 <= NewLow(b) + UndoRing
  BY <1>1 DEF NewLow
<1>3. UndoLow' = NewLow(b)
  BY <1>2, LowIs DEF UndoLow
<1> QED
  BY <1>1, <1>2, <1>3 DEF RingMatchesTip

\* An extension adds one row and drops the one that leaves the ring.
LEMMA ExtendRing ==
    ASSUME Inv, ExtendCommit, ~lost
    PROVE  RingMatchesTip' /\ UndoLow' = NewLow(target)
<1>1. target \in Block /\ target # Genesis /\ prev[target] = tip /\ tip \in Block
  BY DEF Inv, Types, ExtendMatchesStep, Extending, ExtendCommit
<1>2. height[target] = height[tip] + 1 /\ height[tip] \in Nat
      /\ Anc[target] = {target} \cup Anc[tip]
  BY <1>1, TreeStep, TreeTypes
<1>3. /\ UndoLow \in Nat /\ UndoLow <= height[tip] /\ UndoRing \in Nat \ {0}
      /\ height[tip] + 1 <= UndoLow + UndoRing
      /\ undo = {b \in Anc[tip] : height[b] >= UndoLow}
  BY StoreTypes DEF Inv, RingMatchesTip
<1>4. undo' = {r \in undo \cup {target} : height[r] # height[target] - UndoRing}
  BY DEF ExtendCommit, PushUndo
<1>5. \A r \in Anc[target] : height[r] \in Nat
  BY <1>1, TreeTypes
<1>6. undo' = {c \in Anc[target] : height[c] >= NewLow(target)}
  BY <1>2, <1>3, <1>4, <1>5 DEF NewLow
<1>7. height[target] + 1 > UndoLow
  BY <1>2, <1>3
<1>8. tip' = target
  BY DEF ExtendCommit
<1> QED
  BY <1>1, <1>6, <1>7, <1>8, RingFollows

\* What a reorg drops and adds, by height: the branch has every height above
\* the fork, and the rows of what is dropped reach down to the fork.
LEMMA ReorgHeights ==
    ASSUME Inv, pc \in Reorging, ~lost
    PROVE  LET f == height[Fork(target, tip)] IN
           /\ f \in Nat /\ f <= height[tip]
           /\ f = height[tip] \/ f + 1 >= UndoLow
           /\ \A c \in Anc[tip] : c \in Anc[target] <=> height[c] <= f
           /\ \A c \in Anc[target] : c \in Anc[tip] <=> height[c] <= f
<1> DEFINE fork == Fork(target, tip)
<1>1. tip \in Block /\ target \in Block
  BY DEF Inv, Types
<1>2. fork \in Block /\ Anc[fork] = Anc[target] \cap Anc[tip]
  BY <1>1, ForkShared
<1>3. fork \in Anc[tip] /\ fork \in Anc[target]
  BY <1>2, TreeLinear
<1>4. height[fork] \in Nat /\ height[fork] <= height[tip]
  BY <1>1, <1>2, <1>3, AncHeight, TreeTypes
<1>5. /\ Anc[fork] = {c \in Anc[tip] : height[c] <= height[fork]}
      /\ Anc[fork] = {c \in Anc[target] : height[c] <= height[fork]}
  BY <1>1, <1>3, TreeLinear
<1>6. height[fork] = height[tip] \/ height[fork] + 1 >= UndoLow
  <2> SUFFICES ASSUME height[fork] # height[tip]
               PROVE  height[fork] + 1 >= UndoLow
    OBVIOUS
  <2>1. height[tip] \in Nat /\ height[fork] + 1 \in 0..height[tip]
    BY <1>1, <1>4, TreeTypes
  <2>2. PICK c \in Anc[tip] : height[c] = height[fork] + 1
    BY <1>1, <2>1, TreeLevels
  <2>3. c \notin Anc[target]
    BY <1>2, <1>4, <1>5, <2>2
  <2>4. c \in undo
    BY <2>2, <2>3 DEF Inv, ReorgMatchesStep, Dropped
  <2> QED
    BY <2>2, <2>4 DEF Inv, RingMatchesTip
<1> QED
  BY <1>2, <1>4, <1>5, <1>6

\* The head of a branch is above the fork.
LEMMA BranchGrows ==
    ASSUME Inv, pc \in Reorging, ~lost
    PROVE  height[Fork(target, tip)] < height[target]
<1> DEFINE f == height[Fork(target, tip)]
<1>1. tip \in Block /\ target \in Block /\ height[tip] \in Nat /\ height[target] \in Nat
  BY TreeTypes DEF Inv, Types
<1>2. f \in Nat /\ \A c \in Anc[target] : c \in Anc[tip] <=> height[c] <= f
  BY ReorgHeights
<1>3. target # tip
  BY <1>1, TreeTypes DEF Inv, ReorgMatchesStep, Reorging, Better
<1>4. ASSUME height[target] <= f
      PROVE  FALSE
  <2>1. target \in Anc[tip]
    BY <1>1, <1>2, <1>4, TreeLinear
  <2>2. work[target] < work[tip]
    BY <1>1, <1>3, <2>1, TreeWork
  <2>3. ~Better(target, tip)
    BY <1>1, <2>2, TreeTypes DEF Better
  <2> QED
    BY <2>3 DEF Inv, ReorgMatchesStep, Reorging
<1> QED
  BY <1>1, <1>2, <1>4

\* A reorg's rows are those of what it keeps and what it adds, less those that
\* leave the ring.
LEMMA BranchRing ==
    ASSUME Inv, CommitBranch, ~lost
    PROVE  RingMatchesTip' /\ UndoLow' = NewLow(target)
<1> DEFINE f == height[Fork(target, tip)]
<1>1. tip \in Block /\ target \in Block /\ height[tip] \in Nat /\ height[target] \in Nat
  BY TreeTypes DEF Inv, Types
<1>2. /\ UndoLow \in Nat /\ UndoLow <= height[tip] /\ UndoRing \in Nat \ {0}
      /\ height[tip] + 1 <= UndoLow + UndoRing
      /\ undo = {b \in Anc[tip] : height[b] >= UndoLow}
  BY StoreTypes DEF Inv, RingMatchesTip
<1>3. /\ f \in Nat /\ f <= height[tip] /\ (f = height[tip] \/ f + 1 >= UndoLow)
      /\ \A c \in Anc[tip] : c \in Anc[target] <=> height[c] <= f
      /\ \A c \in Anc[target] : c \in Anc[tip] <=> height[c] <= f
  BY ReorgHeights DEF CommitBranch, Reorging
<1>4. \A r \in Anc[target] : r \in Block /\ height[r] \in Nat /\ height[r] <= height[target]
  BY <1>1, AncHeight, TreeTypes
<1>5. f < height[target]
  BY BranchGrows DEF CommitBranch, Reorging
<1>6. undo' = {r \in (undo \ Dropped(target)) \cup Branch(target) :
                 \A b \in Branch(target) : height[r] # height[b] - UndoRing}
  BY DEF CommitBranch, PushUndo
<1>7. (undo \ Dropped(target)) \cup Branch(target) = {c \in Anc[target] : height[c] >= UndoLow}
  BY <1>2, <1>3, <1>4 DEF Dropped, Branch
<1>8. ASSUME NEW r \in Anc[target], height[r] >= UndoLow
      PROVE  (\E b \in Branch(target) : height[r] = height[b] - UndoRing)
               <=> height[r] + UndoRing <= height[target]
  <2>1. ASSUME NEW b \in Branch(target), height[r] = height[b] - UndoRing
        PROVE  height[r] + UndoRing <= height[target]
    BY <1>2, <1>4, <2>1 DEF Branch
  <2>2. ASSUME height[r] + UndoRing <= height[target]
        PROVE  \E b \in Branch(target) : height[r] = height[b] - UndoRing
    <3>1. height[r] + UndoRing \in 0..height[target]
      BY <1>1, <1>2, <1>4, <2>2
    <3>2. PICK b \in Anc[target] : height[b] = height[r] + UndoRing
      BY <1>1, <3>1, TreeLevels
    <3>3. height[b] > f
      BY <1>1, <1>2, <1>3, <1>4, <1>8, <3>2
    <3>4. b \in Branch(target)
      BY <1>3, <1>4, <3>2, <3>3 DEF Branch
    <3> QED
      BY <1>2, <1>4, <3>2, <3>4
  <2> QED
    BY <2>1, <2>2
<1>9. undo' = {c \in Anc[target] : height[c] >= NewLow(target)}
  <2>1. \A c \in Anc[target] :
          height[c] >= NewLow(target) <=> /\ height[c] >= UndoLow
                                         /\ ~(height[c] + UndoRing <= height[target])
    BY <1>1, <1>2, <1>4 DEF NewLow
  <2> QED
    BY <1>6, <1>7, <1>8, <2>1
<1>10. height[target] + 1 > UndoLow
  BY <1>1, <1>2, <1>3, <1>5
<1>11. tip' = target
  BY DEF CommitBranch
<1> QED
  BY <1>1, <1>9, <1>10, <1>11, RingFollows

\* The transaction of an extension finds its header durable.
LEMMA ExtendCommitInv ==
    ASSUME Inv, ExtendCommit
    PROVE  Inv'
<1> USE DEF ExtendCommit, headers, bodies, Inv
<1>1. target \in Block /\ target # Genesis /\ prev[target] = tip /\ tip \in Block
  BY DEF Types, ExtendMatchesStep, Extending
<1>2. Types' /\ GenesisKept'
  BY <1>1 DEF Types, GenesisKept, PushUndo
<1>3. Anc[target] = {target} \cup Anc[tip] /\ height[target] = height[tip] + 1
  BY <1>1, TreeStep
<1>4. DOMAIN hdrUndo = {}
  BY DEF BlobMatchesStep, Extending
<1>5. hdr[height[target]] = target /\ hdrSynced[height[target]] = target
  BY DEF ExtendMatchesStep
<1>6. ChainFound'
  BY <1>3, <1>4, <1>5 DEF ChainFound, Holds, MayMiss
<1>7. BlobMatchesStep' /\ SyncedWhenDown' /\ OpensAgain'
  BY <1>4 DEF BlobMatchesStep, SyncedWhenDown, OpensAgain
<1>8. ExtendMatchesStep' /\ ReorgMatchesStep'
  BY DEF ExtendMatchesStep, ReorgMatchesStep, Extending, Reorging
<1>9. StateMatchesTip'
  BY <1>1 DEF StateMatchesTip, StateAfter
<1>10. RingMatchesTip'
  BY ExtendRing DEF RingMatchesTip
<1> QED
  BY <1>2, <1>6, <1>7, <1>8, <1>9, <1>10

\* What the branch keeps of the stored chain has not been overwritten.
LEMMA CommitBranchInv ==
    ASSUME Inv, CommitBranch
    PROVE  Inv'
<1> USE DEF CommitBranch, headers, bodies, Inv
<1>1. target \in Block /\ tip \in Block
  BY DEF Types
<1>2. Types' /\ GenesisKept'
  BY <1>1, TreeTypes DEF Types, GenesisKept, PushUndo, Branch
<1>3. DOMAIN hdrUndo' = {}
  BY DEF BlobAfterCommit, EmptyBlob
<1>4. ASSUME NEW c \in Anc[target]
      PROVE  hdr[height[c]] = c /\ hdrSynced[height[c]] = c
  <2>1. CASE c \in Anc[tip]
    <3>1. ASSUME NEW b \in Branch(target)
          PROVE  height[c] # height[b]
      BY <1>4, <2>1, BranchSlots
    <3>2. height[c] \notin DOMAIN hdrUndo
      BY <3>1 DEF BlobMatchesStep, Overwritten
    <3> QED
      BY <2>1, <3>2 DEF ChainFound, Holds, MayMiss
  <2>2. CASE c \notin Anc[tip]
    BY <1>4, <2>2 DEF ReorgMatchesStep, Branch
  <2> QED
    BY <2>1, <2>2
<1>5. ChainFound'
  BY <1>3, <1>4 DEF ChainFound, Holds
<1>6. BlobMatchesStep' /\ SyncedWhenDown' /\ OpensAgain'
  BY <1>3 DEF BlobMatchesStep, SyncedWhenDown, OpensAgain
<1>7. ExtendMatchesStep' /\ ReorgMatchesStep'
  BY DEF ExtendMatchesStep, ReorgMatchesStep, Extending, Reorging
<1>8. StateMatchesTip'
  BY DEF StateMatchesTip, StateAfter
<1>9. RingMatchesTip'
  BY BranchRing DEF RingMatchesTip
<1> QED
  BY <1>2, <1>5, <1>6, <1>7, <1>8, <1>9

-----------------------------------------------------------------------------
(* Crash and recovery.                                                     *)

\* A crash leaves in each slot what was read or what was synced, and the chain
\* is found in both.
LEMMA CrashInv ==
    ASSUME Inv, Crash
    PROVE  Inv'
<1> USE DEF Crash, database, Inv
<1>1. PICK gone \in SUBSET {h \in Slots : hdr[h] # hdrSynced[h]} :
          hdr' = [h \in Slots |-> IF h \in gone THEN hdrSynced[h] ELSE hdr[h]]
  BY DEF Survives
<1>2. \A h \in Slots : hdr'[h] = hdr[h] \/ hdr'[h] = hdrSynced[h]
  BY <1>1
<1>3. Types'
  BY <1>1 DEF Types
<1>4. GenesisKept'
  BY <1>2, SlotOfBlock DEF GenesisKept
<1>5. \A c \in Anc[tip] : height[c] \in Slots
  BY SlotOfBlock, AncNests DEF Types
<1>6. ChainFound'
  BY <1>2, <1>5 DEF ChainFound, Holds, MayMiss
<1>7. BlobMatchesStep' /\ SyncedWhenDown' /\ OpensAgain'
  BY DEF BlobMatchesStep, SyncedWhenDown, OpensAgain, Extending
<1>8. ExtendMatchesStep' /\ ReorgMatchesStep'
  BY DEF ExtendMatchesStep, ReorgMatchesStep, Extending, Reorging
<1> QED
  BY <1>3, <1>4, <1>6, <1>7, <1>8, RowsKept

\* A disk that loses synced headers leaves holes, not other headers.
LEMMA LoseTailInv ==
    ASSUME Inv, NEW w \in Slots, LoseTail(w)
    PROVE  Inv'
<1> USE DEF LoseTail, bodies, database, Inv
<1>1. \A h \in Slots : hdr'[h] = IF h < w THEN hdr[h] ELSE None
  BY DEF Truncate
<1>2. hdrSynced' = hdr'
  OBVIOUS
<1>3. Types'
  BY DEF Types, Truncate
<1>4. GenesisKept'
  BY <1>1, <1>2, SlotOfBlock, TreeTypes DEF GenesisKept, Slots
<1>5. \A c \in Anc[tip] : height[c] \in Slots
  BY SlotOfBlock, AncNests DEF Types
<1>6. ChainFound'
  BY <1>1, <1>2, <1>5 DEF ChainFound, Holds, MayMiss
<1>7. BlobMatchesStep' /\ SyncedWhenDown' /\ OpensAgain'
  BY <1>2 DEF BlobMatchesStep, SyncedWhenDown, OpensAgain, Extending
<1>8. ExtendMatchesStep' /\ ReorgMatchesStep'
  BY DEF ExtendMatchesStep, ReorgMatchesStep, Extending, Reorging
<1>9. RingMatchesTip' /\ StateMatchesTip'
  BY DEF RingMatchesTip, StateMatchesTip
<1> QED
  BY <1>3, <1>4, <1>6, <1>7, <1>8, <1>9

\* The blob holds headers of the stored chain.
LEMMA BlobIsChain ==
    ASSUME Inv, NEW h \in DOMAIN hdrUndo
    PROVE  \E b \in Anc[tip] : b \in Block /\ height[b] = h /\ hdrUndo[h] = b
<1>1. tip \in Block /\ h \in 0..height[tip]
  BY DEF Inv, Types, BlobMatchesStep
<1>2. PICK b \in Anc[tip] : height[b] = h
  BY <1>1, TreeLevels
<1> QED
  BY <1>1, <1>2, AncNests DEF Inv, ChainFound

\* Recovery puts a header of the stored chain back.
LEMMA RestoreHeaderInv ==
    ASSUME Inv, NEW h \in Slots, RestoreHeader(h)
    PROVE  Inv'
<1> USE DEF RestoreHeader, bodies, database, Inv
<1>1. PICK b \in Anc[tip] : b \in Block /\ height[b] = h /\ hdrUndo[h] = b
  BY BlobIsChain
<1>2. hdrSynced' = hdr' /\ \A k \in Slots : hdr'[k] = IF k = h THEN b ELSE hdr[k]
  BY <1>1 DEF Types
<1>3. Types'
  BY <1>1 DEF Types
<1>4. GenesisKept'
  BY <1>1, <1>2, SlotOfBlock, HeightZero DEF GenesisKept
<1>5. \A c \in Anc[tip] : height[c] \in Slots
  BY SlotOfBlock, AncNests DEF Types
<1>6. ChainFound'
  BY <1>1, <1>2, <1>5 DEF ChainFound, Holds, MayMiss
<1>7. BlobMatchesStep' /\ SyncedWhenDown' /\ OpensAgain'
  BY <1>2 DEF BlobMatchesStep, SyncedWhenDown, OpensAgain, Extending
<1>8. ExtendMatchesStep' /\ ReorgMatchesStep'
  BY DEF ExtendMatchesStep, ReorgMatchesStep, Extending, Reorging
<1> QED
  BY <1>3, <1>4, <1>6, <1>7, <1>8, RowsKept

\* The blob goes when all it holds is back in the slots.
LEMMA ClearHdrUndoInv ==
    ASSUME Inv, ClearHdrUndo
    PROVE  Inv'
<1> USE DEF ClearHdrUndo, headers, bodies, Inv
<1>1. Types' /\ GenesisKept'
  BY DEF Types, GenesisKept
<1>2. DOMAIN hdrUndo' = {}
  BY DEF EmptyBlob
<1>3. ChainFound'
  BY <1>2 DEF ChainFound, Holds, MayMiss, Restored, SyncedWhenDown
<1>4. BlobMatchesStep' /\ SyncedWhenDown' /\ OpensAgain'
  BY <1>2 DEF BlobMatchesStep, SyncedWhenDown, OpensAgain, Extending
<1>5. ExtendMatchesStep' /\ ReorgMatchesStep'
  BY DEF ExtendMatchesStep, ReorgMatchesStep, Extending, Reorging
<1> QED
  BY <1>1, <1>3, <1>4, <1>5, RowsKept

\* While recovery looks at the headers, a slot of the stored chain holds its
\* header or, on a disk that lost some, nothing.
LEMMA SlotsAtHeaders ==
    ASSUME Inv, pc = "headers", NEW h \in 0..height[tip]
    PROVE  /\ h \in Slots
           /\ \E b \in Anc[tip] : /\ b \in Block /\ height[b] = h
                                   /\ (hdr[h] = b \/ (lost /\ hdr[h] = None))
<1>1. tip \in Block /\ DOMAIN hdrUndo = {}
  BY DEF Inv, Types, BlobMatchesStep
<1>2. PICK b \in Anc[tip] : height[b] = h
  BY <1>1, TreeLevels
<1> QED
  BY <1>1, <1>2, AncNests, SlotOfBlock DEF Inv, ChainFound, Holds, MayMiss

\* A disk that lost nothing has no break below the tip.
LEMMA NoBreakUnlessLost ==
    ASSUME Inv, pc = "headers", ~lost
    PROVE  TipLinked
<1>1. tip \in Block /\ height[tip] \in Nat
  BY TreeTypes DEF Inv, Types
<1>2. \A b \in Anc[tip] : hdr[height[b]] = b
  BY DEF Inv, BlobMatchesStep, ChainFound, Holds, MayMiss
<1>3. ASSUME NEW h \in 0..height[tip], h \in Breaks
      PROVE  FALSE
  <2>1. PICK b \in Anc[tip] : b \in Block /\ height[b] = h /\ hdr[h] = b
    BY SlotsAtHeaders
  <2>2. hdr[h] # None /\ h > 0 /\ prev[b] # hdr[h - 1]
    BY <1>3, <2>1, StoreTypes DEF Breaks
  <2>3. b # Genesis
    BY <2>1, <2>2, TreeRoot
  <2>4. prev[b] \in Anc[tip] /\ height[b] = height[prev[b]] + 1
    BY <1>1, <2>1, <2>3, ParentInAnc
  <2>5. height[prev[b]] \in Nat
    BY <2>1, TreeTypes
  <2>6. height[prev[b]] = h - 1
    BY <2>1, <2>4, <2>5
  <2>7. hdr[h - 1] = prev[b]
    BY <1>2, <2>4, <2>6
  <2> QED
    BY <2>2, <2>7
<1>4. Breaks = {}
  BY <1>3 DEF Breaks
<1>5. hdr[height[tip]] = tip
  BY <1>1, <1>2, TreeLinear
<1> QED
  BY <1>4, <1>5 DEF TipLinked

\* Cutting off what lies above the tip keeps its chain.
LEMMA KeepHeadersInv ==
    ASSUME Inv, KeepHeaders
    PROVE  Inv'
<1> USE DEF KeepHeaders, bodies, database, Inv
<1>1. tip \in Block /\ height[tip] \in Nat
  BY TreeTypes DEF Types
<1>2. Types'
  BY DEF Types, Truncate
<1>3. \A h \in Slots : h <= height[tip] => hdr'[h] = hdr[h]
  BY <1>1, TreeTypes DEF Truncate, EndOf, Slots
<1>4. GenesisKept'
  BY <1>1, <1>3, SlotOfBlock DEF GenesisKept
<1>5. ASSUME NEW c \in Anc[tip]
      PROVE  hdr[height[c]] = c /\ height[c] \in Slots /\ height[c] <= height[tip]
  <2>1. c \in Block /\ height[c] <= height[tip] /\ height[c] \in Nat
    BY <1>1, AncNests, AncHeight, TreeTypes
  <2>2. hdr[height[c]] # None
    BY <1>1, <2>1 DEF TipLinked, Breaks
  <2> QED
    BY <2>1, <2>2, SlotOfBlock DEF ChainFound, Holds, BlobMatchesStep
<1>6. ChainFound'
  BY <1>3, <1>5 DEF ChainFound, Holds, SyncedWhenDown, BlobMatchesStep
<1>7. BlobMatchesStep' /\ SyncedWhenDown' /\ OpensAgain'
  BY DEF BlobMatchesStep, SyncedWhenDown, OpensAgain, Extending
<1>8. ExtendMatchesStep' /\ ReorgMatchesStep'
  BY DEF ExtendMatchesStep, ReorgMatchesStep, Extending, Reorging
<1> QED
  BY <1>2, <1>4, <1>6, <1>7, <1>8, RowsKept

\* Below the first break the slots hold the stored chain, so the header the
\* tip is lowered to is the block the undo rows lead to.
LEMMA LowerHeadersInv ==
    ASSUME Inv, NEW w \in Slots, LowerHeaders(w)
    PROVE  Inv'
<1> USE DEF LowerHeaders, bodies, Inv
<1>1. tip \in Block /\ height[tip] \in Nat /\ DOMAIN hdrUndo = {} /\ hdrSynced = hdr
  BY TreeTypes DEF Types, BlobMatchesStep, SyncedWhenDown
<1>2. w \in 0..height[tip] /\ w \in Breaks /\ \A h \in Breaks : w <= h
  BY DEF FirstBreak, Breaks
<1>3. lost
  BY <1>2, NoBreakUnlessLost DEF TipLinked
<1>4. w > 0
  <2>1. hdr[0] # None
    BY StoreTypes, TreeTypes DEF GenesisKept
  <2> QED
    BY <1>2, <2>1 DEF Breaks
<1>5. ASSUME NEW c \in Anc[tip], height[c] < w
      PROVE  hdr[height[c]] = c
  <2>1. c \in Block /\ height[c] \in 0..height[tip]
    BY <1>1, AncNests, AncHeight, TreeTypes
  <2>2. height[c] \notin Breaks
    BY <1>2, <1>5, <2>1
  <2>3. hdr[height[c]] # None
    BY <2>1, <2>2 DEF Breaks
  <2> QED
    BY <1>1, <1>5, <2>3 DEF ChainFound, Holds
<1>6. PICK b \in Anc[tip] : height[b] = w - 1
  BY <1>1, <1>2, <1>4, TreeLevels
<1>7. b \in Block /\ tip' = b /\ height[b] < w
  BY <1>1, <1>2, <1>5, <1>6, AncNests
<1>8. LandsOn(w) = b
  <2>1. \A c \in Anc[tip] : EndOf(c) = w => c = b
    BY <1>1, <1>2, <1>6, OneSlotEach, AncNests, TreeTypes DEF EndOf
  <2>2. EndOf(b) = w
    BY <1>2, <1>6 DEF EndOf
  <2> QED
    BY <1>6, <2>1, <2>2 DEF LandsOn
<1>9. Anc[b] = {c \in Anc[tip] : height[c] <= height[b]}
  BY <1>1, <1>6, TreeLinear
<1>10. Types'
  BY <1>7 DEF Types, Truncate
<1>11. \A h \in Slots : h < w => hdr'[h] = hdr[h]
  BY DEF Truncate
<1>12. GenesisKept'
  BY <1>4, <1>11, SlotOfBlock DEF GenesisKept
<1>13. ASSUME NEW c \in Anc[b]
       PROVE  hdr'[height[c]] = c /\ hdrSynced'[height[c]] = c
  <2>1. c \in Anc[tip] /\ c \in Block /\ height[c] < w
    BY <1>1, <1>2, <1>6, <1>7, <1>9, AncNests, TreeTypes
  <2> QED
    BY <1>1, <1>5, <1>11, <2>1, SlotOfBlock
<1>14. ChainFound'
  BY <1>1, <1>7, <1>13 DEF ChainFound, Holds
<1>15. BlobMatchesStep' /\ SyncedWhenDown' /\ OpensAgain'
  BY <1>1 DEF BlobMatchesStep, SyncedWhenDown, OpensAgain, Extending
<1>16. ExtendMatchesStep' /\ ReorgMatchesStep'
  BY DEF ExtendMatchesStep, ReorgMatchesStep, Extending, Reorging
<1>17. StateMatchesTip' /\ RingMatchesTip'
  BY <1>3, <1>7, <1>8 DEF StateMatchesTip, StateAfter, RingMatchesTip
<1> QED
  BY <1>10, <1>12, <1>14, <1>15, <1>16, <1>17

\* Recovery refuses only when a synced header is gone.
LEMMA RefuseOpenInv ==
    ASSUME Inv, RefuseOpen
    PROVE  Inv'
<1> USE DEF RefuseOpen, headers, database, Inv
<1>1. Types'
  BY DEF Types
<1>2. OpensAgain'
  BY NoBreakUnlessLost DEF OpensAgain
<1>3. BlobMatchesStep' /\ SyncedWhenDown'
  BY DEF BlobMatchesStep, SyncedWhenDown, Extending
<1>4. ExtendMatchesStep' /\ ReorgMatchesStep'
  BY DEF ExtendMatchesStep, ReorgMatchesStep, Extending, Reorging
<1>5. MayMiss => MayMiss'
  BY DEF MayMiss
<1> QED
  BY <1>1, <1>2, <1>3, <1>4, <1>5, QuietStep

\* Every step preserves the invariant.
LEMMA NextInv ==
    ASSUME Inv, [Next]_vars
    PROVE  Inv'
<1>1. CASE Call
  BY <1>1, StartExtendInv, StartReorgInv, OverwriteHeaderInv, BranchBodyInv, WriteHeaderInv,
     ExtendBodyInv, ExtendBarrierInv, ExtendCommitInv, SaveHeadersInv, SyncHeadersInv,
     BranchBarrierInv, CommitBranchInv, FailInv DEF Call
<1>2. CASE Recovery
  BY <1>2, RestoreHeaderInv, LowerHeadersInv, ClearHdrUndoInv, KeepHeadersInv, RefuseOpenInv,
     ReconcileBodiesInv DEF Recovery
<1>3. CASE Crash
  BY <1>3, CrashInv
<1>4. CASE \E w \in Slots : LoseTail(w)
  BY <1>4, LoseTailInv
<1>5. CASE UNCHANGED vars
  <2>1. UNCHANGED <<hdr, hdrSynced, tip, state, undo, hdrUndo, pc, target, todo, faults>>
    BY <1>5 DEF vars, headers, database
  <2>2. Types' /\ (MayMiss => MayMiss') /\ SyncedWhenDown' /\ OpensAgain'
    BY <2>1 DEF Inv, Types, MayMiss, SyncedWhenDown, OpensAgain
  <2>3. BlobMatchesStep' /\ ExtendMatchesStep' /\ ReorgMatchesStep'
    BY <2>1 DEF Inv, BlobMatchesStep, ExtendMatchesStep, ReorgMatchesStep, Overwritten,
                Branch, Dropped
  <2> QED
    BY <2>1, <2>2, <2>3, QuietStep
<1> QED
  BY <1>1, <1>2, <1>3, <1>4, <1>5 DEF Next

-----------------------------------------------------------------------------
(* The theorems.                                                           *)

\* Inv holds in every reachable state.
THEOREM Invariance == Spec => []Inv
<1> QED
  BY InitInv, NextInv, PTL DEF Spec

\* An open store has the header chain of its tip, after any sequence of
\* extensions, reorgs, failures and crashes (overwrite_headers,
\* replay_hdr_undo, reconcile_headers).
THEOREM HeadersSafe == Spec => []HeadersMatch
<1>1. Inv => HeadersMatch
  BY DEF Inv, HeadersMatch, ChainFound, Holds, MayMiss, BlobMatchesStep
<1> QED
  BY <1>1, Invariance, PTL

\* The account rows are always those of the stored tip (apply_block,
\* rollback_state_to).
THEOREM StateSafe == Spec => []StateMatchesTip
<1>1. Inv => StateMatchesTip
  BY DEF Inv
<1> QED
  BY <1>1, Invariance, PTL

\* Recovery never refuses a disk that kept what was synced (verify_window).
THEOREM RecoverySafe == Spec => []OpensAgain
<1>1. Inv => OpensAgain
  BY DEF Inv
<1> QED
  BY <1>1, Invariance, PTL

\* A transaction is a commit of the atomic store.
LEMMA TransactionCommits ==
    ASSUME Inv, ~lost, ExtendCommit \/ CommitBranch
    PROVE  Atomic!Commit(target)
<1>1. tip \in Block /\ target \in Block /\ tip' = target
  BY DEF Inv, Types, ExtendCommit, CommitBranch
<1>2. UndoLow' = NewLow(target)
  BY ExtendRing, BranchRing
<1>3. CASE ExtendCommit
  <2>1. target # Genesis /\ prev[target] = tip
    BY <1>3 DEF Inv, ExtendMatchesStep, Extending, ExtendCommit
  <2>2. Anc[target] \cap Anc[tip] = Anc[tip] /\ work[target] > work[tip]
    BY <1>1, <2>1, TreeStep
  <2>3. Fork(target, tip) = tip
    BY <1>1, <2>2, ForkShared, AncInjective
  <2>4. height[tip] - height[tip] <= StoreReorgCap
    BY <1>1, TreeTypes, StoreTypes
  <2> QED
    BY <1>1, <1>2, <2>2, <2>3, <2>4
    DEF Atomic!Commit, Atomic!Better, Atomic!Fork, Atomic!RingLow, Fork, NewLow
<1>4. CASE CommitBranch
  <2>1. /\ Better(target, tip)
        /\ height[tip] - height[Fork(target, tip)] <= StoreReorgCap
    BY <1>4 DEF Inv, ReorgMatchesStep, Reorging, CommitBranch
  <2>2. height[Fork(target, tip)] = height[tip] \/ height[Fork(target, tip)] + 1 >= UndoLow
    BY <1>4, ReorgHeights DEF CommitBranch, Reorging
  <2> QED
    BY <1>1, <1>2, <2>1, <2>2
    DEF Atomic!Commit, Atomic!Better, Atomic!Fork, Atomic!RingLow, Fork, Better, NewLow
<1> QED
  BY <1>3, <1>4

\* The write path with its crashes and its recovery implements the atomic
\* store the chain manager relies on, as long as the disk keeps what was
\* synced.
THEOREM StoreImplementsAtomic == Spec => Implements
<1>1. Init => Atomic!Init
  <2> SUFFICES ASSUME Init
               PROVE  Atomic!Init
    OBVIOUS
  <2>1. {height[b] : b \in {Genesis}} = {0}
    BY TreeRoot
  <2>2. UndoLow = 0
    BY <2>1, MinIs DEF UndoLow, Init
  <2> QED
    BY <2>2 DEF Init, Atomic!Init
<1>2. Inv /\ [Next]_vars => [lost \/ Atomic!Next]_<<tip, UndoLow>>
  <2> SUFFICES ASSUME Inv, [Next]_vars, ~lost
               PROVE  Atomic!Next \/ UNCHANGED <<tip, UndoLow>>
    OBVIOUS
  <2>1. CASE ExtendCommit \/ CommitBranch
    BY <2>1, TransactionCommits DEF Atomic!Next, Inv, Types
  <2>2. CASE UNCHANGED <<tip, undo>>
    BY <2>2 DEF UndoLow
  <2>3. ASSUME NEW w \in Slots, LowerHeaders(w)
        PROVE  FALSE
    BY <2>3, NoBreakUnlessLost DEF LowerHeaders, TipLinked, FirstBreak
  <2>4. CASE Call /\ ~ExtendCommit /\ ~CommitBranch
    BY <2>2, <2>4 DEF Call, StartExtend, StartReorg, OverwriteHeader, BranchBody, WriteHeader,
       ExtendBody, ExtendBarrier, SaveHeaders, SyncHeaders, BranchBarrier, Fail, database
  <2>5. CASE Recovery
    BY <2>2, <2>3, <2>5 DEF Recovery, RestoreHeader, ClearHdrUndo, KeepHeaders, RefuseOpen,
       ReconcileBodies, database
  <2>6. CASE Crash \/ (\E w \in Slots : LoseTail(w)) \/ UNCHANGED vars
    BY <2>2, <2>6 DEF Crash, LoseTail, vars, database
  <2> QED
    BY <2>1, <2>4, <2>5, <2>6 DEF Next
<1> QED
  BY <1>1, <1>2, Invariance, PTL DEF Spec, Implements

-----------------------------------------------------------------------------
(* The bodies.  Beside Inv, BodyInv says that while neither a crash in a   *)
(* reorg nor the disk has harmed them, the bodies of the stored chain      *)
(* follow each other from the start of the segment, as read and as synced, *)
(* and how far the branch under way has got.                               *)

Entries == {NoFrame} \cup [at : Nat, len : Nat]
Segments == [frames : SUBSET [at : Nat, blk : Block], bidx : [Slots -> Entries]]

BodyTypes ==
    /\ body \in Segments /\ bodySynced \in Segments
    /\ append \in Nat
    /\ bodyW \in 0..EndOf(tip)
    /\ crashes \in 0..MaxCrashes

\* No frame of a segment has been written over another.
Apart(frames) == \A f, g \in frames : f = g \/ ~Overlap(f, g)

\* Where the frame of b ends by the sidecar.
EndAt(bd, b) == bd.bidx[height[b]].at + size[b]

\* The bodies of a chain follow each other from the start of the segment.
Laid(bd, c) ==
    /\ bd.bidx[0].at = 0
    /\ \A b \in Anc[c] :
         /\ bd.bidx[height[b]].len = size[b]
         /\ Frame(bd.bidx[height[b]].at, b) \in bd.frames
         /\ b # Genesis => bd.bidx[height[b]].at = EndAt(bd, prev[b])
    /\ \A a, b \in Anc[c] : height[a] < height[b] => EndAt(bd, a) <= bd.bidx[height[b]].at

SameEntries(one, other, c) == \A b \in Anc[c] : one.bidx[height[b]] = other.bidx[height[b]]

\* Neither a crash in a reorg nor the disk has harmed the bodies yet.
Clean == ~interrupted /\ ~lost

\* While no header awaits restoring, the bodies of the stored chain are there,
\* synced and as read.
ChainLaid ==
    DOMAIN hdrUndo = {} =>
        /\ Laid(body, tip) /\ Laid(bodySynced, tip)
        /\ SameEntries(body, bodySynced, tip)

\* How far the bodies of a branch have been written.
BranchLaid ==
    \E c \in Anc[target] : Anc[c] = Anc[target] \ todo /\ Laid(body, c) /\ append = EndAt(body, c)

BodiesMatchStep ==
    /\ pc \in {"down", "headers", "scan"} => DOMAIN hdrUndo = {} /\ bodySynced = body
    /\ pc \in {"undo", "overwrite"} => Laid(body, tip)
    /\ pc \in {"idle", "ext_header", "ext_body", "undo"} => append = EndAt(body, tip)
    /\ pc = "ext_barrier" => Laid(body, target) /\ append = EndAt(body, target)
    /\ pc = "bodies" => BranchLaid
    /\ pc \in {"ext_commit", "commit"} =>
         Laid(body, target) /\ bodySynced = body /\ append = EndAt(body, target)

BodyInv ==
    /\ BodyTypes
    /\ Clean =>
         /\ bodyW = EndOf(tip)
         /\ Apart(body.frames) /\ Apart(bodySynced.frames)
         /\ ChainLaid /\ BodiesMatchStep

\* A segment after a body has been written at an offset.
Written(bd, at, b) ==
    [frames |-> WriteFrame(bd.frames, at, b),
     bidx |-> [bd.bidx EXCEPT ![height[b]] = [at |-> at, len |-> size[b]]]]

\* An entry that is a frame's is one with an offset and a length.
LEMMA EntryFields ==
    ASSUME NEW bd \in Segments, NEW b \in Block, bd.bidx[height[b]].len = size[b]
    PROVE  /\ bd.bidx[height[b]] # NoFrame /\ bd.bidx[height[b]].at \in Nat
           /\ size[b] \in Nat /\ size[b] > 0
           /\ EndAt(bd, b) \in Nat /\ bd.bidx[height[b]].at < EndAt(bd, b)
<1>1. bd.bidx[height[b]] \in Entries
  BY SlotOfBlock DEF Segments
<1>2. size[b] \in Nat /\ size[b] > 0
  BY StoreTypes
<1>3. bd.bidx[height[b]] # NoFrame
  BY <1>2 DEF NoFrame
<1>4. bd.bidx[height[b]].at \in Nat
  BY <1>1, <1>3 DEF Entries
<1> QED
  BY <1>2, <1>3, <1>4 DEF EndAt

\* Bodies laid for a chain are laid for each part of it from the start.
LEMMA LaidRestricts ==
    ASSUME NEW bd, NEW c \in Block, NEW d \in Anc[c], Laid(bd, c)
    PROVE  Laid(bd, d)
<1>1. Anc[d] \subseteq Anc[c]
  BY AncNests
<1> QED
  BY <1>1 DEF Laid

\* The frames of a laid chain end where its head's does.
LEMMA LaidEnds ==
    ASSUME NEW bd \in Segments, NEW c \in Block, Laid(bd, c), NEW b \in Anc[c]
    PROVE  EndAt(bd, b) <= EndAt(bd, c) /\ b \in Block
<1>1. b \in Block /\ c \in Anc[c]
  BY AncNests, TreeLinear
<1>2. /\ EndAt(bd, b) \in Nat /\ EndAt(bd, c) \in Nat
      /\ bd.bidx[height[c]].at < EndAt(bd, c) /\ bd.bidx[height[c]].at \in Nat
  BY <1>1, EntryFields DEF Laid
<1>3. height[b] <= height[c] /\ height[b] \in Nat /\ height[c] \in Nat
  BY <1>1, AncHeight, TreeTypes
<1>4. CASE height[b] = height[c]
  <2>1. b = c
    BY <1>1, <1>4, OneSlotEach
  <2> QED
    BY <2>1, <1>2
<1>5. CASE height[b] < height[c]
  <2>1. EndAt(bd, b) <= bd.bidx[height[c]].at
    BY <1>1, <1>5 DEF Laid
  <2> QED
    BY <1>1, <1>2, <2>1
<1> QED
  BY <1>1, <1>3, <1>4, <1>5

\* A frame at an offset covers what lies there.
LEMMA SamePlace ==
    ASSUME NEW frames \in SUBSET [at : Nat, blk : Block], Apart(frames),
           NEW f \in frames, NEW g \in frames, f.at = g.at
    PROVE  f = g
<1>1. f.at \in Nat /\ size[f.blk] \in Nat /\ size[f.blk] > 0
      /\ size[g.blk] \in Nat /\ size[g.blk] > 0
  BY StoreTypes
<1>2. Overlap(f, g)
  BY <1>1 DEF Overlap
<1> QED
  BY <1>2 DEF Apart

\* Writing a body keeps a segment a segment.
LEMMA WrittenTypes ==
    ASSUME NEW bd \in Segments, NEW at \in Nat, NEW b \in Block
    PROVE  /\ Written(bd, at, b) \in Segments
           /\ Written(bd, at, b).frames = WriteFrame(bd.frames, at, b)
           /\ \A h \in Slots : Written(bd, at, b).bidx[h] =
                 IF h = height[b] THEN [at |-> at, len |-> size[b]] ELSE bd.bidx[h]
<1>1. size[b] \in Nat /\ height[b] \in Slots
  BY StoreTypes, SlotOfBlock
<1>2. Frame(at, b) \in [at : Nat, blk : Block]
  BY DEF Frame
<1>3. [at |-> at, len |-> size[b]] \in Entries
  BY <1>1 DEF Entries
<1>4. bd.frames \in SUBSET [at : Nat, blk : Block] /\ bd.bidx \in [Slots -> Entries]
  BY DEF Segments
<1>5. WriteFrame(bd.frames, at, b) \in SUBSET [at : Nat, blk : Block]
  BY <1>2, <1>4 DEF WriteFrame
<1>6. [bd.bidx EXCEPT ![height[b]] = [at |-> at, len |-> size[b]]] \in [Slots -> Entries]
  BY <1>1, <1>3, <1>4
<1>7. \A h \in Slots : [bd.bidx EXCEPT ![height[b]] = [at |-> at, len |-> size[b]]][h]
                        = IF h = height[b] THEN [at |-> at, len |-> size[b]] ELSE bd.bidx[h]
  <2>1. \A old \in [Slots -> Entries] : \A k \in Slots : \A new :
           \A h \in Slots : [old EXCEPT ![k] = new][h] = IF h = k THEN new ELSE old[h]
    OBVIOUS
  <2> QED
    BY <1>1, <1>4, <2>1
<1>8. /\ Written(bd, at, b).frames = WriteFrame(bd.frames, at, b)
      /\ Written(bd, at, b).bidx = [bd.bidx EXCEPT ![height[b]] = [at |-> at, len |-> size[b]]]
  BY DEF Written
<1>9. Written(bd, at, b) \in Segments
  BY <1>5, <1>6 DEF Written, Segments
<1> QED
  BY <1>7, <1>8, <1>9

\* No written frame lies on another.
LEMMA WrittenApart ==
    ASSUME NEW bd \in Segments, NEW at \in Nat, NEW b \in Block, Apart(bd.frames)
    PROVE  Apart(Written(bd, at, b).frames)
<1>1. Written(bd, at, b).frames = WriteFrame(bd.frames, at, b)
  BY DEF Written
<1>2. ASSUME NEW f \in bd.frames, ~Overlap(f, Frame(at, b))
      PROVE  ~Overlap(Frame(at, b), f)
  BY <1>2 DEF Overlap
<1>3. Apart(WriteFrame(bd.frames, at, b))
  BY <1>2 DEF Apart, WriteFrame
<1> QED
  BY <1>1, <1>3

\* A body written at the end of a laid chain lays the chain of its block, and
\* leaves the entries below where they are.
LEMMA WrittenLaid ==
    ASSUME NEW bd \in Segments, NEW c \in Block, NEW b \in Block, b # Genesis, prev[b] = c,
           Laid(bd, c), NEW at \in Nat, at = EndAt(bd, c)
    PROVE  /\ Laid(Written(bd, at, b), b) /\ EndAt(Written(bd, at, b), b) = at + size[b]
           /\ \A a \in Anc[c] : /\ Written(bd, at, b).bidx[height[a]] = bd.bidx[height[a]]
                                /\ Frame(bd.bidx[height[a]].at, a) \in Written(bd, at, b).frames
<1> DEFINE nb == Written(bd, at, b)
<1>1. /\ Anc[b] = {b} \cup Anc[c] /\ height[b] = height[c] + 1
      /\ height[b] \in Nat /\ height[c] \in Nat /\ height[b] \in Slots
      /\ size[b] \in Nat /\ size[b] > 0
  BY TreeStep, TreeTypes, SlotOfBlock, StoreTypes
<1>2. /\ nb.frames = WriteFrame(bd.frames, at, b)
      /\ \A h \in Slots : nb.bidx[h] =
            IF h = height[b] THEN [at |-> at, len |-> size[b]] ELSE bd.bidx[h]
  BY WrittenTypes
<1> HIDE DEF nb
<1>3. ASSUME NEW a \in Anc[c]
      PROVE  /\ a \in Block /\ height[a] < height[b] /\ height[a] \in Nat
             /\ nb.bidx[height[a]] = bd.bidx[height[a]] /\ EndAt(nb, a) = EndAt(bd, a)
             /\ EndAt(bd, a) <= at /\ EndAt(bd, a) \in Nat
             /\ Frame(bd.bidx[height[a]].at, a) \in nb.frames
  <2>1. a \in Block /\ height[a] <= height[c] /\ height[a] \in Nat /\ height[a] \in Slots
    BY AncNests, AncHeight, TreeTypes, SlotOfBlock
  <2>2. nb.bidx[height[a]] = bd.bidx[height[a]]
    BY <1>1, <1>2, <2>1
  <2>3. EndAt(nb, a) = EndAt(bd, a)
    BY <2>2 DEF EndAt
  <2>4. EndAt(bd, a) <= at
    BY LaidEnds
  <2>5. EndAt(bd, a) \in Nat
    BY <2>1, EntryFields DEF Laid
  <2>6. ~Overlap(Frame(bd.bidx[height[a]].at, a), Frame(at, b))
    BY <2>4, <2>5 DEF Overlap, Frame, EndAt
  <2>7. Frame(bd.bidx[height[a]].at, a) \in bd.frames
    BY DEF Laid
  <2>8. Frame(bd.bidx[height[a]].at, a) \in nb.frames
    BY <1>2, <2>6, <2>7 DEF WriteFrame
  <2> QED
    BY <1>1, <2>1, <2>2, <2>3, <2>4, <2>5, <2>8
<1>4. nb.bidx[height[b]] = [at |-> at, len |-> size[b]] /\ Frame(at, b) \in nb.frames
  BY <1>1, <1>2 DEF WriteFrame
<1>5. EndAt(nb, b) = at + size[b]
  BY <1>4 DEF EndAt
<1>6. c \in Anc[c] /\ Genesis \in Anc[c] /\ height[Genesis] = 0
  BY TreeLinear, TreeRoot
<1>7. nb.bidx[0].at = 0
  BY <1>3, <1>6 DEF Laid
<1>8. ASSUME NEW a \in Anc[b]
      PROVE  /\ nb.bidx[height[a]].len = size[a]
             /\ Frame(nb.bidx[height[a]].at, a) \in nb.frames
             /\ a # Genesis => nb.bidx[height[a]].at = EndAt(nb, prev[a])
  <2>1. CASE a = b
    <3>1. EndAt(nb, prev[b]) = at
      BY <1>3, <1>6
    <3> QED
      BY <1>4, <2>1, <3>1
  <2>2. CASE a \in Anc[c]
    <3>1. nb.bidx[height[a]].len = size[a] /\ Frame(nb.bidx[height[a]].at, a) \in nb.frames
      BY <1>3, <2>2 DEF Laid
    <3>2. ASSUME a # Genesis
          PROVE  nb.bidx[height[a]].at = EndAt(nb, prev[a])
      <4>1. prev[a] \in Anc[c]
        BY <2>2, <3>2, ParentInAnc
      <4>2. bd.bidx[height[a]].at = EndAt(bd, prev[a])
        BY <2>2, <3>2 DEF Laid
      <4> QED
        BY <1>3, <2>2, <4>1, <4>2
    <3> QED
      BY <3>1, <3>2
  <2> QED
    BY <1>1, <2>1, <2>2
<1>9. ASSUME NEW a \in Anc[b], NEW d \in Anc[b], height[a] < height[d]
      PROVE  EndAt(nb, a) <= nb.bidx[height[d]].at
  <2>1. CASE d = b
    <3>1. a \in Anc[c]
      BY <1>1, <1>9, <2>1
    <3> QED
      BY <1>3, <1>4, <2>1, <3>1
  <2>2. CASE d \in Anc[c]
    <3>1. a \in Anc[c]
      BY <1>1, <1>3, <1>9, <2>2
    <3>2. EndAt(bd, a) <= bd.bidx[height[d]].at
      BY <1>9, <2>2, <3>1 DEF Laid
    <3> QED
      BY <1>3, <2>2, <3>1, <3>2
  <2> QED
    BY <1>1, <2>1, <2>2
<1>10. Laid(nb, b)
  BY <1>7, <1>8, <1>9 DEF Laid
<1> QED
  BY <1>3, <1>5, <1>10 DEF nb

\* What survives a crash of two segments that agree on a chain.
LEMMA CrashTypes ==
    ASSUME NEW now \in Segments, NEW synced \in Segments,
           NEW frames \in FramesSurvive(now.frames, synced.frames),
           NEW bidx \in Survives(now.bidx, synced.bidx)
    PROVE  [frames |-> frames, bidx |-> bidx] \in Segments
<1>1. /\ now.frames \in SUBSET [at : Nat, blk : Block] /\ now.bidx \in [Slots -> Entries]
      /\ synced.frames \in SUBSET [at : Nat, blk : Block] /\ synced.bidx \in [Slots -> Entries]
  BY DEF Segments
<1>2. frames \in SUBSET [at : Nat, blk : Block]
  BY <1>1 DEF FramesSurvive
<1>3. PICK gone \in SUBSET {h \in Slots : now.bidx[h] # synced.bidx[h]} :
          bidx = [h \in Slots |-> IF h \in gone THEN synced.bidx[h] ELSE now.bidx[h]]
  BY DEF Survives
<1>4. bidx \in [Slots -> Entries]
  BY <1>1, <1>3
<1> QED
  BY <1>2, <1>4 DEF Segments

\* The frames that survive are apart, as those read and those synced were.
LEMMA CrashApart ==
    ASSUME NEW now \in Segments, NEW synced \in Segments,
           Apart(now.frames), Apart(synced.frames),
           NEW frames \in FramesSurvive(now.frames, synced.frames)
    PROVE  Apart(frames)
<1>1. PICK p \in SUBSET ((now.frames \ synced.frames) \cup (synced.frames \ now.frames)) :
          /\ \A f, g \in p : f = g \/ ~Overlap(f, g)
          /\ frames = (now.frames \cap synced.frames) \cup p
  BY DEF FramesSurvive
<1>2. ASSUME NEW f \in frames, NEW g \in frames
      PROVE  f = g \/ ~Overlap(f, g)
  <2>1. CASE f \in p /\ g \in p
    BY <1>1, <2>1
  <2>2. CASE f \in now.frames \cap synced.frames \/ g \in now.frames \cap synced.frames
    BY <1>1, <2>2 DEF Apart
  <2> QED
    BY <1>1, <2>1, <2>2
<1> QED
  BY <1>2 DEF Apart

\* The chain both had laid in the same places is still laid.
LEMMA CrashLaid ==
    ASSUME NEW now \in Segments, NEW synced \in Segments, NEW c \in Block,
           Laid(now, c), Laid(synced, c), SameEntries(now, synced, c),
           NEW frames \in FramesSurvive(now.frames, synced.frames),
           NEW bidx \in Survives(now.bidx, synced.bidx)
    PROVE  Laid([frames |-> frames, bidx |-> bidx], c)
<1> DEFINE after == [frames |-> frames, bidx |-> bidx]
<1>1. after.frames = frames /\ after.bidx = bidx
  OBVIOUS
<1> HIDE DEF after
<1>6. \A h \in Slots : bidx[h] = now.bidx[h] \/ bidx[h] = synced.bidx[h]
  BY DEF Survives
<1>7. now.frames \cap synced.frames \subseteq frames
  BY DEF FramesSurvive
<1>2. ASSUME NEW a \in Anc[c]
      PROVE  /\ after.bidx[height[a]] = now.bidx[height[a]] /\ EndAt(after, a) = EndAt(now, a)
             /\ Frame(now.bidx[height[a]].at, a) \in after.frames
  <2>1. a \in Block /\ height[a] \in Slots
    BY AncNests, SlotOfBlock
  <2>2. now.bidx[height[a]] = synced.bidx[height[a]]
    BY DEF SameEntries
  <2>3. after.bidx[height[a]] = now.bidx[height[a]]
    BY <1>1, <1>6, <2>1, <2>2
  <2>4. Frame(now.bidx[height[a]].at, a) \in now.frames \cap synced.frames
    BY <2>2 DEF Laid
  <2> QED
    BY <1>1, <1>7, <2>3, <2>4 DEF EndAt
<1>3. Genesis \in Anc[c] /\ height[Genesis] = 0
  BY TreeRoot
<1>4. \A a \in Anc[c] : a # Genesis => prev[a] \in Anc[c]
  BY ParentInAnc
<1>5. Laid(after, c)
  BY <1>2, <1>3, <1>4 DEF Laid
<1> QED
  BY <1>5 DEF after

-----------------------------------------------------------------------------
(* What scan_body_segment reads.                                           *)

\* Where the frame that starts at x ends.
NextEnd(frames, x) ==
    IF x # -1 /\ \E f \in frames : f.at = x
    THEN LET f == CHOOSE f \in frames : f.at = x IN f.at + size[f.blk]
    ELSE -1

\* A frame ends after it starts.
LEMMA NextEndIs ==
    ASSUME NEW frames \in SUBSET [at : Nat, blk : Block], NEW x \in Int
    PROVE  /\ NextEnd(frames, x) \in Int
           /\ NextEnd(frames, x) # -1 => x \in Nat /\ NextEnd(frames, x) > x
<1>1. CASE x # -1 /\ \E f \in frames : f.at = x
  <2> DEFINE f == CHOOSE f \in frames : f.at = x
  <2>1. f \in frames /\ f.at = x
    BY <1>1
  <2>2. f.at \in Nat /\ f.blk \in Block
    BY <2>1
  <2>3. size[f.blk] \in Nat /\ size[f.blk] > 0
    BY <2>2, StoreTypes
  <2>4. NextEnd(frames, x) = f.at + size[f.blk]
    BY <1>1 DEF NextEnd
  <2> QED
    BY <2>1, <2>2, <2>3, <2>4
<1>2. CASE ~(x # -1 /\ \E f \in frames : f.at = x)
  <2>1. NextEnd(frames, x) = -1
    BY <1>2 DEF NextEnd
  <2> QED
    BY <2>1
<1> QED
  BY <1>1, <1>2

\* scan_body_segment reads frame after frame.
LEMMA ScanIs ==
    ASSUME NEW frames \in SUBSET [at : Nat, blk : Block], NEW limit \in Nat
    PROVE  /\ ScanEnd(frames, limit) \in [0..limit -> Int]
           /\ ScanEnd(frames, limit)[0] = 0
           /\ \A i \in 1..limit :
                ScanEnd(frames, limit)[i] = NextEnd(frames, ScanEnd(frames, limit)[i - 1])
<1> DEFINE G == [a \in (1..limit) \X Int |-> NextEnd(frames, a[2])]
           end[n \in 0..limit] ==
              IF n = 0 THEN 0
              ELSE IF end[n - 1] # -1 /\ \E f \in frames : f.at = end[n - 1]
                   THEN LET f == CHOOSE f \in frames : f.at = end[n - 1] IN f.at + size[f.blk]
                   ELSE -1
<1>1. G \in [(1..limit) \X Int -> Int]
  BY NextEndIs
<1>2. PICK g : Iterates(g, limit, Int, 0, G)
  <2>1. PICK X, x : X = Int /\ x = 0
    OBVIOUS
  <2>2. x \in X /\ G \in [(1..limit) \X X -> X]
    BY <2>1, <1>1
  <2> HIDE DEF G
  <2>3. \E g : Iterates(g, limit, X, x, G)
    BY <2>2, IterationExists
  <2> QED
    BY <2>1, <2>3
<1>3. g \in [0..limit -> Int] /\ g[0] = 0 /\ \A i \in 1..limit : g[i] = G[<<i, g[i - 1]>>]
  <2> HIDE DEF G
  <2> QED
    BY <1>2, Zenon DEF Iterates
<1>4. \A i \in 1..limit : g[i] = NextEnd(frames, g[i - 1])
  <2> TAKE i \in 1..limit
  <2>1. i - 1 \in 0..limit /\ g[i - 1] \in Int
    BY <1>3
  <2> QED
    BY <2>1, <1>3
<1>5. \A i \in 0..limit : g[i] =
         IF i = 0 THEN 0
         ELSE IF g[i - 1] # -1 /\ \E f \in frames : f.at = g[i - 1]
              THEN LET f == CHOOSE f \in frames : f.at = g[i - 1] IN f.at + size[f.blk]
              ELSE -1
  <2> HIDE DEF G
  <2> TAKE i \in 0..limit
  <2>1. CASE i = 0
    BY <1>3, <2>1
  <2>2. CASE i # 0
    <3>1. i \in 1..limit
      BY <2>2
    <3> QED
      BY <3>1, <2>2, <1>4 DEF NextEnd
  <2> QED
    BY <2>1, <2>2
<1>6. g = [i \in 0..limit |->
         IF i = 0 THEN 0
         ELSE IF g[i - 1] # -1 /\ \E f \in frames : f.at = g[i - 1]
              THEN LET f == CHOOSE f \in frames : f.at = g[i - 1] IN f.at + size[f.blk]
              ELSE -1]
  <2> HIDE DEF G
  <2> QED
    BY <1>3, <1>5
<1>7. end = [i \in 0..limit |->
         IF i = 0 THEN 0
         ELSE IF end[i - 1] # -1 /\ \E f \in frames : f.at = end[i - 1]
              THEN LET f == CHOOSE f \in frames : f.at = end[i - 1] IN f.at + size[f.blk]
              ELSE -1]
  BY <1>6
<1> HIDE DEF end
<1>8. end \in [0..limit -> Int] /\ end[0] = 0 /\ \A i \in 1..limit : end[i] = NextEnd(frames, end[i - 1])
  <2>1. end[0] = 0
    <3>1. 0 \in 0..limit
      OBVIOUS
    <3> QED
      BY <1>7, <3>1
  <2>2. \A i \in 1..limit : end[i] = NextEnd(frames, end[i - 1])
    <3> TAKE i \in 1..limit
    <3>1. i \in 0..limit /\ i # 0
      OBVIOUS
    <3>2. end[i] = IF i = 0 THEN 0
         ELSE IF end[i - 1] # -1 /\ \E f \in frames : f.at = end[i - 1]
              THEN LET f == CHOOSE f \in frames : f.at = end[i - 1] IN f.at + size[f.blk]
              ELSE -1
      BY <1>7, <3>1
    <3> QED
      BY <3>1, <3>2 DEF NextEnd
  <2>3. \A i \in 0..limit : end[i] \in Int
    <3>1. \A i \in 1..limit : end[i - 1] \in Int => end[i] \in Int
      BY <2>2, NextEndIs
    <3>2. end[0] \in Int
      BY <2>1
    <3> QED
      BY <3>1, <3>2, IterationKeeps
  <2>4. end = [i \in 0..limit |-> end[i]]
    BY <1>7
  <2> QED
    BY <2>1, <2>2, <2>3, <2>4
<1>9. ScanEnd(frames, limit) = end
  BY DEF ScanEnd, end
<1> QED
  BY <1>8, <1>9

\* A segment with the same entries and frames for a chain has it laid too.
LEMMA LaidMoves ==
    ASSUME NEW bd, NEW other, NEW c \in Block, Laid(bd, c),
           \A a \in Anc[c] : /\ other.bidx[height[a]] = bd.bidx[height[a]]
                             /\ Frame(bd.bidx[height[a]].at, a) \in other.frames
    PROVE  /\ Laid(other, c) /\ SameEntries(bd, other, c)
           /\ \A a \in Anc[c] : EndAt(other, a) = EndAt(bd, a)
<1>1. \A a \in Anc[c] : EndAt(other, a) = EndAt(bd, a)
  BY DEF EndAt
<1>2. Genesis \in Anc[c] /\ height[Genesis] = 0
  BY TreeRoot
<1>3. \A a \in Anc[c] : a # Genesis => prev[a] \in Anc[c]
  BY ParentInAnc
<1>4. Laid(other, c)
  BY <1>1, <1>2, <1>3 DEF Laid
<1> QED
  BY <1>1, <1>4 DEF SameEntries

\* How many frames can be read, and where they end.
LEMMA ReadableIs ==
    ASSUME NEW frames \in SUBSET [at : Nat, blk : Block], NEW limit \in Nat
    PROVE  LET n == Readable(frames, limit)
               end == ScanEnd(frames, limit)
           IN /\ n \in 0..limit /\ end[n] # -1 /\ (n = limit \/ end[n + 1] = -1)
              /\ \A i \in 0..n : end[i] \in Nat
              /\ \A i \in 1..n : end[i - 1] < end[i]
<1> DEFINE n == Readable(frames, limit)
           end == ScanEnd(frames, limit)
           stops == {i \in 0..limit : i = limit \/ end[i + 1] = -1}
<1>1. /\ \A i \in 0..limit : end[i] \in Int
      /\ end[0] = 0
      /\ \A i \in 1..limit : end[i] = NextEnd(frames, end[i - 1])
  BY ScanIs
<1> HIDE DEF end
<1>2. \A i \in 1..limit : end[i] # -1 => end[i - 1] \in Nat /\ end[i] > end[i - 1]
  <2> TAKE i \in 1..limit
  <2>1. i - 1 \in 0..limit
    OBVIOUS
  <2> QED
    BY <1>1, <2>1, NextEndIs
<1>3. PICK m \in stops : \A j \in stops : m <= j
  <2>1. stops \subseteq Nat /\ limit \in stops
    OBVIOUS
  <2> HIDE DEF stops
  <2> QED
    BY <2>1, LeastExists
<1>4. end[m] # -1
  <2>1. CASE m = 0
    BY <1>1, <2>1
  <2>2. CASE m # 0
    <3>1. m \in 1..limit /\ m - 1 \in 0..limit /\ ~(m <= m - 1)
      BY <2>2
    <3>2. m - 1 \notin stops
      <4> HIDE DEF stops
      <4> QED
        BY <1>3, <3>1
    <3> QED
      BY <3>1, <3>2
  <2> QED
    BY <2>1, <2>2
<1>5. n \in 0..limit /\ end[n] # -1 /\ (n = limit \/ end[n + 1] = -1)
  <2>1. m \in 0..limit /\ end[m] # -1 /\ (m = limit \/ end[m + 1] = -1)
    BY <1>3, <1>4
  <2>2. n = CHOOSE k \in 0..limit : end[k] # -1 /\ (k = limit \/ end[k + 1] = -1)
    BY DEF Readable, end
  <2> HIDE DEF n
  <2> QED
    BY <2>1, <2>2
<1> HIDE DEF n
<1>6. \A i \in 0..n : end[i] # -1
  <2> DEFINE back == [i \in 0..n |-> end[n - i]]
  <2>1. \A i \in 1..n : back[i - 1] # -1 => back[i] # -1
    <3> TAKE i \in 1..n
    <3>1. /\ i - 1 \in 0..n /\ i \in 0..n /\ n - i + 1 \in 1..limit
          /\ n - (i - 1) = n - i + 1 /\ (n - i + 1) - 1 = n - i
      BY <1>5
    <3>2. back[i - 1] = end[n - i + 1] /\ back[i] = end[n - i]
      BY <3>1
    <3>3. end[n - i + 1] # -1 => end[n - i] \in Nat
      BY <1>2, <3>1
    <3> QED
      BY <3>2, <3>3
  <2>2. \A i \in 0..n : back[i] \in {end[j] : j \in 0..n}
    BY <1>5
  <2>3. \A i \in 0..n : back[i] \in {end[j] : j \in 0..n} \ {-1}
    <3>1. back[0] # -1 /\ 0 \in 0..n
      BY <1>5
    <3>2. \A i \in 1..n : i - 1 \in 0..n /\ i \in 0..n
      BY <1>5
    <3> HIDE DEF back
    <3>3. PICK X : X = {end[j] : j \in 0..n} \ {-1}
      OBVIOUS
    <3>4. back[0] \in X /\ \A i \in 1..n : back[i - 1] \in X => back[i] \in X
      BY <2>1, <2>2, <3>1, <3>2, <3>3
    <3>5. n \in Nat
      BY <1>5
    <3>6. \A i \in 0..n : back[i] \in X
      BY <3>4, <3>5, IterationKeeps
    <3> QED
      BY <3>3, <3>6
  <2> TAKE i \in 0..n
  <2>4. n - i \in 0..n /\ back[n - i] = end[i]
    BY <1>5
  <2> HIDE DEF back
  <2> QED
    BY <2>3, <2>4
<1>7. \A i \in 1..n : end[i - 1] \in Nat /\ end[i - 1] < end[i]
  BY <1>1, <1>2, <1>5, <1>6
<1>8. \A i \in 0..n : end[i] \in Nat
  <2> TAKE i \in 0..n
  <2>1. CASE i = 0
    BY <1>1, <2>1
  <2>2. CASE i # 0
    <3>1. i \in 1..n /\ end[i] \in Int
      BY <1>1, <1>5, <2>2
    <3> QED
      BY <1>7, <3>1
  <2> QED
    BY <2>1, <2>2
<1> QED
  BY <1>5, <1>7, <1>8 DEF n, end

\* The sidecar reconcile_bodies writes.
NewEntries(bd, limit) ==
    LET n == Readable(bd.frames, limit)
        end == ScanEnd(bd.frames, limit)
    IN [h \in Slots |-> IF h < n THEN [at |-> end[h], len |-> end[h + 1] - end[h]]
                        ELSE bd.bidx[h]]

\* The frames it keeps.
KeptFrames(bd, limit) ==
    {f \in bd.frames : f.at < ScanEnd(bd.frames, limit)[Readable(bd.frames, limit)]}

\* What recovery writes is a segment, also when frames are missing.
LEMMA ReconciledTypes ==
    ASSUME NEW bd \in Segments, NEW t \in Block, NEW limit \in 0..EndOf(t)
    PROVE  /\ NewEntries(bd, limit) \in [Slots -> Entries]
           /\ KeptFrames(bd, limit) \in SUBSET [at : Nat, blk : Block]
           /\ Readable(bd.frames, limit) \in 0..limit
           /\ AppendAt(NewEntries(bd, limit), Readable(bd.frames, limit)) \in Nat
<1> DEFINE n == Readable(bd.frames, limit)
           end == ScanEnd(bd.frames, limit)
<1>1. /\ bd.frames \in SUBSET [at : Nat, blk : Block] /\ bd.bidx \in [Slots -> Entries]
      /\ limit \in Nat /\ Slots \subseteq Nat
  BY TreeTypes DEF Segments, EndOf, Slots
<1>2. /\ n \in 0..limit
      /\ \A i \in 0..n : end[i] \in Nat
      /\ \A i \in 1..n : end[i - 1] < end[i]
  BY <1>1, ReadableIs
<1>3. NewEntries(bd, limit) = [h \in Slots |-> IF h < n THEN [at |-> end[h], len |-> end[h + 1] - end[h]]
                        ELSE bd.bidx[h]]
  BY DEF NewEntries
<1>4. KeptFrames(bd, limit) = {f \in bd.frames : f.at < end[n]}
  BY DEF KeptFrames
<1> HIDE DEF n, end
<1>5. ASSUME NEW h \in Slots, h < n
      PROVE  [at |-> end[h], len |-> end[h + 1] - end[h]] \in Entries
  <2>1. h \in 0..n /\ h + 1 \in 1..n /\ h + 1 \in 0..n /\ (h + 1) - 1 = h
    BY <1>1, <1>2, <1>5
  <2>2. end[h] \in Nat /\ end[h + 1] \in Nat /\ end[h] < end[h + 1]
    BY <1>2, <2>1
  <2>3. end[h + 1] - end[h] \in Nat
    BY <2>2
  <2> QED
    BY <2>2, <2>3 DEF Entries
<1>6. NewEntries(bd, limit) \in [Slots -> Entries]
  BY <1>1, <1>3, <1>5
<1>7. AppendAt(NewEntries(bd, limit), n) \in Nat
  <2>1. CASE n = 0
    BY <2>1 DEF AppendAt
  <2>2. CASE n # 0
    <3>1. n - 1 \in 0..height[t] /\ n - 1 < n
      BY <1>2, <2>2, TreeTypes DEF EndOf
    <3>2. n - 1 \in Slots
      BY <3>1, TreeLevels, AncNests, SlotOfBlock
    <3>3. NewEntries(bd, limit)[n - 1] = [at |-> end[n - 1], len |-> end[(n - 1) + 1] - end[n - 1]]
      BY <1>3, <3>1, <3>2
    <3>4. end[n - 1] \in Nat /\ end[n] \in Nat /\ (n - 1) + 1 = n
      BY <1>2, <2>2
    <3> QED
      BY <3>3, <3>4 DEF AppendAt
  <2> QED
    BY <2>1, <2>2
<1> QED
  BY <1>1, <1>2, <1>4, <1>6, <1>7 DEF n

\* Recovery reads all the bodies of a laid chain and finds each where it was.
LEMMA ScanOfLaid ==
    ASSUME NEW bd \in Segments, NEW c \in Block, Laid(bd, c), Apart(bd.frames)
    PROVE  /\ Readable(bd.frames, EndOf(c)) = EndOf(c)
           /\ ScanEnd(bd.frames, EndOf(c))[EndOf(c)] = EndAt(bd, c)
           /\ \A a \in Anc[c] : /\ ScanEnd(bd.frames, EndOf(c))[height[a]] = bd.bidx[height[a]].at
                                /\ ScanEnd(bd.frames, EndOf(c))[height[a] + 1] = EndAt(bd, a)
<1> DEFINE limit == EndOf(c)
           end == ScanEnd(bd.frames, limit)
<1>1. /\ bd.frames \in SUBSET [at : Nat, blk : Block] /\ height[c] \in Nat
      /\ limit = height[c] + 1 /\ limit \in Nat
  BY TreeTypes DEF Segments, EndOf
<1>2. /\ \A i \in 0..limit : end[i] \in Int
      /\ end[0] = 0
      /\ \A i \in 1..limit : end[i] = NextEnd(bd.frames, end[i - 1])
  BY <1>1, ScanIs
<1>3. ASSUME NEW a \in Anc[c], end[height[a]] = bd.bidx[height[a]].at
      PROVE  end[height[a] + 1] = EndAt(bd, a)
  <2>1. a \in Block /\ height[a] \in Nat /\ height[a] <= height[c]
    BY AncNests, AncHeight, TreeTypes
  <2>2. height[a] + 1 \in 1..limit /\ (height[a] + 1) - 1 = height[a]
    BY <1>1, <2>1
  <2>3. end[height[a] + 1] = NextEnd(bd.frames, bd.bidx[height[a]].at)
    BY <1>2, <1>3, <2>2
  <2> DEFINE f == Frame(bd.bidx[height[a]].at, a)
  <2>4. f \in bd.frames /\ f.at = bd.bidx[height[a]].at /\ f.blk = a /\ f.at \in Nat
    BY <2>1, EntryFields DEF Laid, Frame
  <2> HIDE DEF f
  <2>5. \A g \in bd.frames : g.at = f.at => g = f
    BY <1>1, <2>4, SamePlace
  <2>6. (CHOOSE g \in bd.frames : g.at = f.at) = f
    BY <2>4, <2>5
  <2>7. NextEnd(bd.frames, f.at) = f.at + size[f.blk]
    <3>1. f.at # -1 /\ \E g \in bd.frames : g.at = f.at
      BY <2>4
    <3>2. NextEnd(bd.frames, f.at) = (CHOOSE g \in bd.frames : g.at = f.at).at
                                     + size[(CHOOSE g \in bd.frames : g.at = f.at).blk]
      BY <3>1, Zenon DEF NextEnd
    <3> QED
      BY <2>6, <3>2
  <2> QED
    BY <2>3, <2>4, <2>7 DEF EndAt
<1> HIDE DEF end
<1>4. \A a \in Anc[c] : end[height[a]] = bd.bidx[height[a]].at
  <2> DEFINE found == {i \in 0..height[c] : \A a \in Anc[c] : height[a] = i => end[i] = bd.bidx[i].at}
  <2>1. 0 \in found
    <3>1. 0 \in 0..height[c] /\ bd.bidx[0].at = 0
      BY <1>1 DEF Laid
    <3> QED
      BY <1>2, <3>1
  <2>2. ASSUME NEW i \in 1..height[c], i - 1 \in found
        PROVE  i \in found
    <3>1. i \in 0..height[c] /\ i - 1 \in 0..height[c]
      BY <1>1
    <3>2. ASSUME NEW a \in Anc[c], height[a] = i
          PROVE  end[i] = bd.bidx[i].at
      <4>1. a # Genesis
        BY <3>2, TreeRoot
      <4>2. prev[a] \in Anc[c] /\ height[a] = height[prev[a]] + 1 /\ height[prev[a]] \in Nat
        BY <4>1, ParentInAnc, TreeTypes, AncNests
      <4>3. height[prev[a]] = i - 1
        BY <3>2, <4>2
      <4>4. end[height[prev[a]]] = bd.bidx[height[prev[a]]].at
        BY <2>2, <4>2, <4>3
      <4>5. end[height[prev[a]] + 1] = EndAt(bd, prev[a])
        BY <1>3, <4>2, <4>4
      <4> QED
        BY <3>2, <4>1, <4>2, <4>5 DEF Laid
    <3> QED
      BY <3>1, <3>2
  <2>3. \A i \in 0..height[c] : i \in found
    <3> DEFINE id == [i \in 0..height[c] |-> i]
    <3> HIDE DEF found
    <3>1. \A i \in 1..height[c] : id[i - 1] = i - 1 /\ id[i] = i
      BY <1>1
    <3>2. id[0] = 0
      BY <1>1
    <3>3. id[0] \in found /\ \A i \in 1..height[c] : id[i - 1] \in found => id[i] \in found
      BY <2>1, <2>2, <3>1, <3>2
    <3>4. \A i \in 0..height[c] : id[i] \in found
      <4> HIDE DEF id
      <4> QED
        BY <1>1, <3>3, IterationKeeps
    <3> QED
      BY <3>4
  <2> TAKE a \in Anc[c]
  <2>4. height[a] \in 0..height[c]
    BY AncNests, AncHeight, TreeTypes, <1>1
  <2> QED
    BY <2>3, <2>4
<1>5. c \in Anc[c]
  BY TreeLinear
<1>6. end[limit] = EndAt(bd, c)
  BY <1>1, <1>3, <1>4, <1>5
<1>7. \A i \in 0..limit : end[i] # -1
  <2> TAKE i \in 0..limit
  <2>1. CASE i = limit
    BY <1>5, <1>6, <2>1, EntryFields DEF Laid
  <2>2. CASE i # limit
    <3>1. i \in 0..height[c]
      BY <1>1, <2>2
    <3>2. PICK a \in Anc[c] : height[a] = i
      BY <3>1, TreeLevels
    <3>3. a \in Block
      BY AncNests
    <3> QED
      BY <1>4, <3>2, <3>3, EntryFields DEF Laid
  <2> QED
    BY <2>1, <2>2
<1>8. Readable(bd.frames, limit) = limit
  <2> DEFINE n == Readable(bd.frames, limit)
  <2>1. n \in 0..limit /\ (n = limit \/ end[n + 1] = -1)
    BY <1>1, ReadableIs DEF end
  <2> HIDE DEF n
  <2>2. CASE n # limit
    <3>1. n + 1 \in 0..limit
      BY <1>1, <2>1, <2>2
    <3> QED
      BY <1>7, <2>1, <2>2, <3>1
  <2> QED
    BY <2>1, <2>2 DEF n
<1> QED
  BY <1>3, <1>4, <1>6, <1>8 DEF end

\* So the sidecar recovery writes says what the old one said, and no frame of
\* the chain is cut off.
LEMMA ReconciledLaid ==
    ASSUME NEW bd \in Segments, NEW c \in Block, Laid(bd, c), Apart(bd.frames)
    PROVE  /\ Readable(bd.frames, EndOf(c)) = EndOf(c)
           /\ AppendAt(NewEntries(bd, EndOf(c)), EndOf(c)) = EndAt(bd, c)
           /\ \A a \in Anc[c] :
                /\ NewEntries(bd, EndOf(c))[height[a]] = bd.bidx[height[a]]
                /\ Frame(bd.bidx[height[a]].at, a) \in KeptFrames(bd, EndOf(c))
<1> DEFINE limit == EndOf(c)
           end == ScanEnd(bd.frames, limit)
           new == NewEntries(bd, limit)
<1>1. height[c] \in Nat /\ limit = height[c] + 1 /\ c \in Anc[c]
  BY TreeTypes, TreeLinear DEF EndOf
<1>2. /\ Readable(bd.frames, limit) = limit
      /\ end[limit] = EndAt(bd, c)
      /\ \A a \in Anc[c] : /\ end[height[a]] = bd.bidx[height[a]].at
                           /\ end[height[a] + 1] = EndAt(bd, a)
  BY ScanOfLaid
<1>3. new = [h \in Slots |-> IF h < limit THEN [at |-> end[h], len |-> end[h + 1] - end[h]]
                        ELSE bd.bidx[h]]
  BY <1>2 DEF NewEntries
<1>4. KeptFrames(bd, limit) = {f \in bd.frames : f.at < EndAt(bd, c)}
  BY <1>2 DEF KeptFrames
<1> HIDE DEF end, new
<1>5. ASSUME NEW a \in Anc[c]
      PROVE  /\ new[height[a]] = bd.bidx[height[a]]
             /\ Frame(bd.bidx[height[a]].at, a) \in KeptFrames(bd, limit)
  <2>1. a \in Block /\ height[a] \in Nat /\ height[a] <= height[c] /\ height[a] \in Slots
    BY AncNests, AncHeight, TreeTypes, SlotOfBlock
  <2>2. /\ bd.bidx[height[a]] # NoFrame /\ bd.bidx[height[a]].at \in Nat
        /\ size[a] \in Nat /\ bd.bidx[height[a]].at < EndAt(bd, a) /\ EndAt(bd, a) \in Nat
        /\ bd.bidx[height[a]].len = size[a] /\ Frame(bd.bidx[height[a]].at, a) \in bd.frames
    BY <2>1, EntryFields DEF Laid
  <2>3. bd.bidx[height[a]] \in [at : Nat, len : Nat]
    BY <2>1, <2>2 DEF Segments, Entries
  <2>4. end[height[a] + 1] - end[height[a]] = size[a]
    BY <1>2, <2>2 DEF EndAt
  <2>5. new[height[a]] = [at |-> bd.bidx[height[a]].at, len |-> bd.bidx[height[a]].len]
    BY <1>1, <1>2, <1>3, <2>1, <2>2, <2>4
  <2>6. new[height[a]] = bd.bidx[height[a]]
    BY <2>3, <2>5
  <2>7. EndAt(bd, a) <= EndAt(bd, c) /\ EndAt(bd, c) \in Nat
    BY <1>1, LaidEnds, EntryFields DEF Laid
  <2>8. Frame(bd.bidx[height[a]].at, a).at < EndAt(bd, c)
    BY <2>2, <2>7 DEF Frame
  <2> QED
    BY <1>4, <2>2, <2>6, <2>8
<1>6. AppendAt(new, limit) = EndAt(bd, c)
  <2>1. limit # 0 /\ limit - 1 = height[c]
    BY <1>1
  <2>2. new[limit - 1] = bd.bidx[height[c]] /\ bd.bidx[height[c]] # NoFrame
        /\ bd.bidx[height[c]].len = size[c]
    BY <1>1, <1>5, <2>1, EntryFields DEF Laid
  <2> QED
    BY <2>1, <2>2 DEF AppendAt, EndAt
<1> QED
  BY <1>2, <1>5, <1>6 DEF new

-----------------------------------------------------------------------------
(* The steps and the bodies.                                               *)

\* A new store has the genesis body.
LEMMA InitBodies == Init => BodyInv
<1> SUFFICES ASSUME Init
             PROVE  BodyInv
  OBVIOUS
<1> USE DEF Init
<1>1. Genesis \in Block /\ height[Genesis] = 0 /\ Anc[Genesis] = {Genesis} /\ 0 \in Slots
      /\ size[Genesis] \in Nat /\ size[Genesis] > 0
  BY TreeTypes, TreeRoot, SlotOfBlock, StoreTypes
<1>2. body.frames = {Frame(0, Genesis)} /\ body.bidx[0] = [at |-> 0, len |-> size[Genesis]]
  BY <1>1
<1>3. body \in Segments
  BY <1>1 DEF Segments, Entries, Frame
<1>4. EndAt(body, Genesis) = size[Genesis]
  BY <1>1, <1>2 DEF EndAt
<1>5. Laid(body, Genesis)
  BY <1>1, <1>2 DEF Laid
<1>6. BodyTypes
  BY <1>1, <1>3, StoreTypes DEF BodyTypes, EndOf
<1>7. Apart(body.frames)
  BY <1>2 DEF Apart
<1>8. ChainLaid
  BY <1>5 DEF ChainLaid, SameEntries
<1>9. BodiesMatchStep
  BY <1>4 DEF BodiesMatchStep
<1>10. bodyW = EndOf(tip)
  BY <1>1 DEF EndOf
<1> QED
  BY <1>6, <1>7, <1>8, <1>9, <1>10 DEF BodyInv

\* A step that leaves bodies, rows and blob alone.
LEMMA BodiesQuiet ==
    ASSUME BodyInv, UNCHANGED <<body, bodySynced, append, tip, bodyW, hdrUndo, crashes>>,
           Clean' => Clean, Clean' => BodiesMatchStep'
    PROVE  BodyInv'
<1>1. BodyTypes'
  BY DEF BodyInv, BodyTypes
<1>2. ASSUME Clean'
      PROVE  ChainLaid' /\ Apart(body.frames)' /\ Apart(bodySynced.frames)' /\ (bodyW = EndOf(tip))'
  BY <1>2 DEF BodyInv, ChainLaid
<1> QED
  BY <1>1, <1>2 DEF BodyInv

\* What holds of bodies between calls.
LEMMA IdleBodies ==
    ASSUME Inv, BodyInv, Clean, pc \in Extending \cup {"idle", "undo"}
    PROVE  /\ tip \in Block /\ DOMAIN hdrUndo = {}
           /\ Laid(body, tip) /\ Laid(bodySynced, tip) /\ SameEntries(body, bodySynced, tip)
BY DEF Inv, Types, BlobMatchesStep, BodyInv, ChainLaid

\* Steps of a call that write no body.
LEMMA HeaderStepBodies ==
    ASSUME Inv, BodyInv,
           \/ \E b \in Block : StartExtend(b) \/ StartReorg(b) \/ OverwriteHeader(b)
           \/ WriteHeader \/ Fail
    PROVE  BodyInv'
<1>1. UNCHANGED <<body, bodySynced, append, tip, bodyW, hdrUndo, crashes, faults>>
  BY DEF StartExtend, StartReorg, OverwriteHeader, WriteHeader, Fail, bodies, database
<1>2. Clean' <=> Clean
  BY <1>1 DEF Clean, interrupted
<1>3. ASSUME Clean
      PROVE  BodiesMatchStep'
  <2>1. BodiesMatchStep
    BY <1>3 DEF BodyInv
  <2>2. CASE \E b \in Block : StartExtend(b)
    <3>1. pc = "idle" /\ pc' = "ext_header"
      BY <2>2 DEF StartExtend
    <3> QED
      BY <1>1, <2>1, <3>1 DEF BodiesMatchStep
  <2>3. CASE \E b \in Block : StartReorg(b)
    <3>1. pc = "idle" /\ pc' = "undo"
      BY <2>3 DEF StartReorg
    <3>2. Laid(body, tip)
      BY <1>3, <3>1, IdleBodies
    <3> QED
      BY <1>1, <2>1, <3>1, <3>2 DEF BodiesMatchStep
  <2>4. CASE \E b \in Block : OverwriteHeader(b)
    <3>1. pc = "overwrite" /\ pc' = "overwrite"
      BY <2>4 DEF OverwriteHeader
    <3> QED
      BY <1>1, <2>1, <3>1 DEF BodiesMatchStep
  <2>5. CASE WriteHeader
    <3>1. pc = "ext_header" /\ pc' = "ext_body"
      BY <2>5 DEF WriteHeader
    <3> QED
      BY <1>1, <2>1, <3>1 DEF BodiesMatchStep
  <2>6. CASE Fail
    <3>1. pc' = "poisoned"
      BY <2>6 DEF Fail
    <3> QED
      BY <3>1 DEF BodiesMatchStep
  <2> QED
    BY <2>2, <2>3, <2>4, <2>5, <2>6
<1> QED
  BY <1>1, <1>2, <1>3, BodiesQuiet

\* Saving headers leaves bodies as they were.
LEMMA SaveHeadersBodies ==
    ASSUME Inv, BodyInv, SaveHeaders
    PROVE  BodyInv'
<1>1. /\ UNCHANGED <<body, bodySynced, append, tip, bodyW, crashes, faults>>
      /\ pc = "undo" /\ pc' = "overwrite"
  BY DEF SaveHeaders, bodies
<1>2. BodyTypes'
  BY <1>1 DEF BodyInv, BodyTypes
<1>3. Clean' => Clean
  BY <1>1 DEF Clean, interrupted
<1>4. ASSUME Clean
      PROVE  ChainLaid' /\ BodiesMatchStep' /\ Apart(body.frames)' /\ Apart(bodySynced.frames)'
             /\ (bodyW = EndOf(tip))'
  <2>1. Laid(body, tip) /\ Laid(bodySynced, tip) /\ SameEntries(body, bodySynced, tip)
    BY <1>1, <1>4, IdleBodies
  <2>2. ChainLaid'
    BY <1>1, <2>1 DEF ChainLaid
  <2>3. BodiesMatchStep'
    BY <1>1, <2>1 DEF BodiesMatchStep
  <2> QED
    BY <1>1, <1>4, <2>2, <2>3 DEF BodyInv
<1> QED
  BY <1>2, <1>3, <1>4 DEF BodyInv

\* WriteBody is Written at the append offset.
LEMMA BodyWritten ==
    ASSUME BodyInv, NEW b \in Block, WriteBody(b)
    PROVE  /\ body' = Written(body, append, b) /\ append' = append + size[b]
           /\ bodySynced' = bodySynced
           /\ body' \in Segments /\ append' \in Nat
           /\ Clean => Apart(body'.frames)
<1>1. body' = Written(body, append, b) /\ append' = append + size[b] /\ bodySynced' = bodySynced
  BY DEF WriteBody, Written
<1>2. body \in Segments /\ append \in Nat /\ size[b] \in Nat
  BY StoreTypes DEF BodyInv, BodyTypes
<1>3. Written(body, append, b) \in Segments
  BY <1>2, WrittenTypes
<1>4. ASSUME Clean
      PROVE  Apart(Written(body, append, b).frames)
  <2>1. Apart(body.frames)
    BY <1>4 DEF BodyInv
  <2> QED
    BY <1>2, <2>1, WrittenApart
<1> QED
  BY <1>1, <1>2, <1>3, <1>4

\* The body of an extension goes behind the stored chain's.
LEMMA ExtendBodyBodies ==
    ASSUME Inv, BodyInv, ExtendBody
    PROVE  BodyInv'
<1>1. /\ UNCHANGED <<tip, bodyW, hdrUndo, crashes, faults, target>> /\ WriteBody(target)
      /\ pc = "ext_body" /\ pc' = "ext_barrier"
  BY DEF ExtendBody, database
<1>2. target \in Block /\ target # Genesis /\ prev[target] = tip /\ tip \in Block
  BY <1>1 DEF Inv, Types, ExtendMatchesStep, Extending
<1>3. /\ body' = Written(body, append, target) /\ append' = append + size[target]
      /\ bodySynced' = bodySynced
      /\ body' \in Segments /\ append' \in Nat
      /\ Clean => Apart(body'.frames)
  BY <1>1, <1>2, BodyWritten
<1>4. BodyTypes'
  BY <1>1, <1>3 DEF BodyInv, BodyTypes
<1>5. Clean' => Clean
  BY <1>1 DEF Clean, interrupted
<1>6. ASSUME Clean
      PROVE  ChainLaid' /\ BodiesMatchStep' /\ Apart(bodySynced'.frames) /\ bodyW' = EndOf(tip')
  <2>1. Laid(body, tip) /\ Laid(bodySynced, tip) /\ SameEntries(body, bodySynced, tip)
    BY <1>1, <1>6, IdleBodies DEF Extending
  <2>2. append = EndAt(body, tip) /\ body \in Segments /\ append \in Nat
    BY <1>1, <1>6 DEF BodyInv, BodyTypes, BodiesMatchStep
  <2>3. /\ Laid(body', target) /\ EndAt(body', target) = append + size[target]
        /\ \A a \in Anc[tip] : /\ body'.bidx[height[a]] = body.bidx[height[a]]
                                /\ Frame(body.bidx[height[a]].at, a) \in body'.frames
    BY <1>2, <1>3, <2>1, <2>2, WrittenLaid
  <2>4. Laid(body', tip) /\ SameEntries(body, body', tip)
    BY <1>2, <2>1, <2>3, LaidMoves
  <2>5. ChainLaid'
    BY <1>1, <1>3, <2>1, <2>4 DEF ChainLaid, SameEntries
  <2>6. BodiesMatchStep'
    BY <1>1, <1>3, <2>3 DEF BodiesMatchStep
  <2> QED
    BY <1>1, <1>3, <1>6, <2>5, <2>6 DEF BodyInv
<1> QED
  BY <1>3, <1>4, <1>5, <1>6 DEF BodyInv

\* The barrier of an extension, and its transaction.
LEMMA ExtendBarrierBodies ==
    ASSUME Inv, BodyInv, ExtendBarrier
    PROVE  BodyInv'
<1>1. /\ UNCHANGED <<body, append, tip, bodyW, hdrUndo, crashes, faults, target>>
      /\ bodySynced' = body /\ pc = "ext_barrier" /\ pc' = "ext_commit"
  BY DEF ExtendBarrier, Barrier, database
<1>2. BodyTypes'
  BY <1>1 DEF BodyInv, BodyTypes
<1>3. Clean' => Clean
  BY <1>1 DEF Clean, interrupted
<1>4. ASSUME Clean
      PROVE  ChainLaid' /\ BodiesMatchStep' /\ Apart(bodySynced'.frames)
  <2>1. ChainLaid'
    BY <1>1, <1>4 DEF BodyInv, ChainLaid, SameEntries
  <2>2. BodiesMatchStep'
    BY <1>1, <1>4 DEF BodyInv, BodiesMatchStep
  <2> QED
    BY <1>1, <1>4, <2>1, <2>2 DEF BodyInv
<1> QED
  BY <1>1, <1>2, <1>3, <1>4 DEF BodyInv

\* A transaction makes the branch whose bodies are synced the stored chain.
LEMMA CommitBodies ==
    ASSUME Inv, BodyInv, ExtendCommit \/ CommitBranch
    PROVE  BodyInv'
<1>1. /\ UNCHANGED <<body, bodySynced, append, crashes, faults, target>>
      /\ tip' = target /\ bodyW' = EndOf(target)
      /\ pc \in {"ext_commit", "commit"} /\ pc' = "idle"
  BY DEF ExtendCommit, CommitBranch, bodies
<1>2. target \in Block /\ EndOf(target) \in Nat
  BY TreeTypes DEF Inv, Types, EndOf
<1>3. BodyTypes'
  BY <1>1, <1>2 DEF BodyInv, BodyTypes
<1>4. Clean' => Clean
  BY <1>1 DEF Clean, interrupted
<1>5. ASSUME Clean
      PROVE  ChainLaid' /\ BodiesMatchStep'
  <2>1. Laid(body, target) /\ bodySynced = body /\ append = EndAt(body, target)
    BY <1>1, <1>5 DEF BodyInv, BodiesMatchStep
  <2>2. ChainLaid'
    BY <1>1, <2>1 DEF ChainLaid, SameEntries
  <2>3. BodiesMatchStep'
    BY <1>1, <2>1 DEF BodiesMatchStep
  <2> QED
    BY <2>2, <2>3
<1> QED
  BY <1>1, <1>3, <1>4, <1>5 DEF BodyInv

\* A branch that overwrites no header grows from the tip, and no block of it
\* has the slot of a stored one.
LEMMA NothingOverwritten ==
    ASSUME Inv, pc \in Reorging, ~lost, Overwritten = {}
    PROVE  /\ tip \in Anc[target]
           /\ \A b \in Branch(target) : \A a \in Anc[tip] : height[a] # height[b]
<1> DEFINE f == height[Fork(target, tip)]
<1>1. tip \in Block /\ target \in Block /\ height[tip] \in Nat /\ height[target] \in Nat
  BY TreeTypes DEF Inv, Types
<1>2. /\ f \in Nat /\ f <= height[tip]
      /\ \A c \in Anc[tip] : c \in Anc[target] <=> height[c] <= f
      /\ \A c \in Anc[target] : c \in Anc[tip] <=> height[c] <= f
  BY ReorgHeights
<1>3. ASSUME f # height[tip]
      PROVE  FALSE
  <2>1. f + 1 \in 0..height[target]
    BY <1>1, <1>2, BranchGrows
  <2>2. PICK c \in Anc[target] : height[c] = f + 1
    BY <1>1, <2>1, TreeLevels
  <2>3. c \in Branch(target) /\ height[c] <= height[tip]
    BY <1>1, <1>2, <1>3, <2>2 DEF Branch
  <2> QED
    BY <2>3 DEF Overwritten
<1>4. tip \in Anc[target]
  BY <1>1, <1>2, <1>3, TreeLinear
<1>5. ASSUME NEW b \in Branch(target), NEW a \in Anc[tip]
      PROVE  height[a] # height[b]
  <2>1. a \in Block /\ height[a] <= height[tip] /\ height[a] \in Nat
    BY <1>1, AncNests, AncHeight, TreeTypes
  <2>2. ~(height[b] <= height[tip])
    BY DEF Overwritten
  <2> QED
    BY <2>1, <2>2
<1> QED
  BY <1>4, <1>5

\* The bodies of a branch start at the end of the fork's frame.
LEMMA SyncHeadersBodies ==
    ASSUME Inv, BodyInv, SyncHeaders
    PROVE  BodyInv'
<1> DEFINE fork == Fork(target, tip)
<1>1. /\ UNCHANGED <<body, bodySynced, tip, bodyW, hdrUndo, crashes, faults, target>>
      /\ append' = AppendAt(body.bidx, EndOf(fork)) /\ todo' = Branch(target)
      /\ pc = "overwrite" /\ pc' = "bodies"
  BY DEF SyncHeaders, database
<1>2. tip \in Block /\ target \in Block /\ fork \in Block
      /\ Anc[fork] = Anc[target] \cap Anc[tip]
  BY ForkShared DEF Inv, Types
<1>3. fork \in Anc[target] /\ fork \in Anc[tip]
  BY <1>2, TreeLinear
<1> HIDE DEF fork
<1>4. EndOf(fork) # 0 /\ EndOf(fork) - 1 = height[fork] /\ height[fork] \in Slots
  BY <1>2, TreeTypes, SlotOfBlock DEF EndOf
<1>5. append' = IF body.bidx[height[fork]] = NoFrame THEN 0
                ELSE body.bidx[height[fork]].at + body.bidx[height[fork]].len
  BY <1>1, <1>4 DEF AppendAt
<1>6. body.bidx[height[fork]] \in Entries
  BY <1>4 DEF BodyInv, BodyTypes, Segments
<1>7. append' \in Nat
  BY <1>5, <1>6 DEF Entries
<1>8. BodyTypes'
  BY <1>1, <1>7 DEF BodyInv, BodyTypes
<1>9. Clean' => Clean
  BY <1>1 DEF Clean, interrupted
<1>10. ASSUME Clean
       PROVE  ChainLaid' /\ BodiesMatchStep'
  <2>1. Laid(body, tip) /\ body \in Segments
    BY <1>1, <1>10 DEF BodyInv, BodyTypes, BodiesMatchStep
  <2>2. Laid(body, fork)
    BY <1>2, <1>3, <2>1, LaidRestricts
  <2>3. body.bidx[height[fork]].len = size[fork] /\ body.bidx[height[fork]] # NoFrame
    BY <1>2, <1>3, <2>1, EntryFields DEF Laid
  <2>4. append' = EndAt(body, fork)
    BY <1>5, <2>3 DEF EndAt
  <2>5. Anc[fork] = Anc[target] \ Branch(target)
    BY <1>2 DEF Branch
  <2>6. BranchLaid'
    BY <1>1, <1>3, <2>2, <2>4, <2>5 DEF BranchLaid
  <2>7. BodiesMatchStep'
    BY <1>1, <2>6 DEF BodiesMatchStep
  <2>8. ChainLaid'
    BY <1>1, <1>10 DEF BodyInv, ChainLaid
  <2> QED
    BY <2>7, <2>8
<1> QED
  BY <1>1, <1>8, <1>9, <1>10 DEF BodyInv

\* The lowest block still to be written is the child of what has been laid.
LEMMA NextOfBranch ==
    ASSUME NEW t \in Block, NEW c \in Anc[t], NEW S, S \subseteq Anc[t], Genesis \notin S,
           Anc[c] = Anc[t] \ S, NEW b \in Lowest(S)
    PROVE  b # Genesis /\ prev[b] = c /\ Anc[b] = Anc[t] \ (S \ {b})
<1>1. b \in S /\ b \in Anc[t] /\ b # Genesis /\ b \in Block /\ c \in Block
      /\ \A d \in S : height[b] <= height[d]
  BY AncNests DEF Lowest
<1>2. prev[b] \in Anc[t] /\ height[b] = height[prev[b]] + 1 /\ prev[b] \in Block
      /\ height[prev[b]] \in Nat /\ height[b] \in Nat
  BY <1>1, ParentInAnc, TreeTypes
<1>3. prev[b] \in Anc[c]
  BY <1>1, <1>2
<1>4. ASSUME NEW x \in Anc[c]
      PROVE  x \in Anc[prev[b]]
  <2>1. x \in Anc[t] /\ x \in Block /\ height[x] \in Nat
    BY <1>1, AncNests, TreeTypes
  <2>2. ASSUME height[b] <= height[x]
        PROVE  FALSE
    <3>1. b \in Anc[x]
      BY <1>1, <2>1, <2>2, TreeLinear
    <3>2. b \in Anc[c]
      BY <1>1, <3>1, AncNests
    <3> QED
      BY <1>1, <3>2
  <2>3. height[x] <= height[prev[b]]
    BY <1>2, <2>1, <2>2
  <2> QED
    BY <1>2, <2>1, <2>3, TreeLinear
<1>5. Anc[prev[b]] = Anc[c]
  BY <1>1, <1>3, <1>4, AncNests
<1>6. prev[b] = c
  BY <1>1, <1>2, <1>5, AncInjective
<1>7. Anc[b] = {b} \cup Anc[c]
  BY <1>1, <1>6, TreeStep
<1> QED
  BY <1>1, <1>6, <1>7

\* A body of the branch goes behind those laid before it.
LEMMA BranchBodyBodies ==
    ASSUME Inv, BodyInv, NEW b \in Block, BranchBody(b)
    PROVE  BodyInv'
<1>1. /\ UNCHANGED <<tip, bodyW, hdrUndo, crashes, faults, target>> /\ WriteBody(b)
      /\ pc = "bodies" /\ pc' = "bodies" /\ b \in Lowest(todo) /\ todo' = todo \ {b}
  BY DEF BranchBody, database
<1>2. target \in Block /\ tip \in Block /\ todo \subseteq Branch(target) /\ b \in Branch(target)
  BY <1>1 DEF Inv, Types, ReorgMatchesStep, Reorging, Lowest
<1>3. todo \subseteq Anc[target] /\ Genesis \notin todo
  BY <1>2, TreeRoot DEF Branch
<1>4. /\ body' = Written(body, append, b) /\ append' = append + size[b]
      /\ bodySynced' = bodySynced
      /\ body' \in Segments /\ append' \in Nat
      /\ Clean => Apart(body'.frames)
  BY <1>1, BodyWritten
<1>5. BodyTypes'
  BY <1>1, <1>4 DEF BodyInv, BodyTypes
<1>6. Clean' => Clean
  BY <1>1 DEF Clean, interrupted
<1>7. ASSUME Clean
      PROVE  ChainLaid' /\ BodiesMatchStep' /\ Apart(bodySynced'.frames) /\ bodyW' = EndOf(tip')
  <2>1. PICK c \in Anc[target] : /\ Anc[c] = Anc[target] \ todo
                                 /\ Laid(body, c) /\ append = EndAt(body, c)
    BY <1>1, <1>7 DEF BodyInv, BodiesMatchStep, BranchLaid
  <2>2. b # Genesis /\ prev[b] = c /\ Anc[b] = Anc[target] \ todo' /\ c \in Block
    BY <1>1, <1>2, <1>3, <2>1, NextOfBranch, AncNests
  <2>3. body \in Segments /\ append \in Nat
    BY DEF BodyInv, BodyTypes
  <2>4. /\ Laid(body', b) /\ EndAt(body', b) = append + size[b]
        /\ \A a \in Anc[c] : /\ body'.bidx[height[a]] = body.bidx[height[a]]
                             /\ Frame(body.bidx[height[a]].at, a) \in body'.frames
    BY <1>4, <2>1, <2>2, <2>3, WrittenLaid
  <2>5. b \in Anc[target]
    BY <1>2 DEF Branch
  <2>6. BranchLaid'
    BY <1>1, <1>4, <2>2, <2>4, <2>5 DEF BranchLaid
  <2>7. BodiesMatchStep'
    BY <1>1, <2>6 DEF BodiesMatchStep
  <2>8. ASSUME DOMAIN hdrUndo = {}
        PROVE  Laid(body', tip) /\ Laid(bodySynced, tip) /\ SameEntries(body', bodySynced, tip)
    <3>1. Overwritten = {} /\ ~lost
      BY <1>1, <1>7, <2>8 DEF Inv, BlobMatchesStep, Clean
    <3>2. tip \in Anc[target]
      BY <1>1, <3>1, NothingOverwritten DEF Reorging
    <3>3. tip \in Anc[c]
      BY <1>2, <2>1, <3>2, TreeLinear DEF Branch
    <3>4. Anc[tip] \subseteq Anc[c]
      BY <2>2, <3>3, AncNests
    <3>5. Laid(body, tip) /\ Laid(bodySynced, tip) /\ SameEntries(body, bodySynced, tip)
      BY <1>7, <2>8 DEF BodyInv, ChainLaid
    <3>6. Laid(body', tip) /\ SameEntries(body, body', tip)
      BY <1>2, <2>4, <3>4, <3>5, LaidMoves
    <3> QED
      BY <3>5, <3>6 DEF SameEntries
  <2>9. ChainLaid'
    BY <1>1, <1>4, <2>8 DEF ChainLaid
  <2> QED
    BY <1>1, <1>4, <1>7, <2>7, <2>9 DEF BodyInv
<1> QED
  BY <1>4, <1>5, <1>6, <1>7 DEF BodyInv

\* The barrier finds the whole branch laid.
LEMMA BranchBarrierBodies ==
    ASSUME Inv, BodyInv, BranchBarrier
    PROVE  BodyInv'
<1>1. /\ UNCHANGED <<body, append, tip, bodyW, hdrUndo, crashes, faults, target>>
      /\ bodySynced' = body /\ todo = {} /\ pc = "bodies" /\ pc' = "commit"
  BY DEF BranchBarrier, Barrier, database
<1>2. BodyTypes'
  BY <1>1 DEF BodyInv, BodyTypes
<1>3. Clean' => Clean
  BY <1>1 DEF Clean, interrupted
<1>4. ASSUME Clean
      PROVE  ChainLaid' /\ BodiesMatchStep' /\ Apart(bodySynced'.frames)
  <2>1. ChainLaid'
    BY <1>1, <1>4 DEF BodyInv, ChainLaid, SameEntries
  <2>2. PICK c \in Anc[target] : /\ Anc[c] = Anc[target] \ todo
                                 /\ Laid(body, c) /\ append = EndAt(body, c)
    BY <1>1, <1>4 DEF BodyInv, BodiesMatchStep, BranchLaid
  <2>3. target \in Block /\ c \in Block /\ Anc[c] = Anc[target]
    BY <1>1, <2>2, AncNests DEF Inv, Types
  <2>4. c = target
    BY <2>3, AncInjective
  <2>5. BodiesMatchStep'
    BY <1>1, <2>2, <2>4 DEF BodiesMatchStep
  <2> QED
    BY <1>1, <1>4, <2>1, <2>5 DEF BodyInv
<1> QED
  BY <1>1, <1>2, <1>3, <1>4 DEF BodyInv

\* A crash outside a reorg leaves the bodies of the stored chain.
LEMMA CrashBodies ==
    ASSUME Inv, BodyInv, Crash
    PROVE  BodyInv'
<1>1. PICK frames \in FramesSurvive(body.frames, bodySynced.frames),
           bidx \in Survives(body.bidx, bodySynced.bidx) :
         body' = [frames |-> frames, bidx |-> bidx]
  BY DEF Crash
<1>2. /\ UNCHANGED <<tip, bodyW, hdrUndo>> /\ bodySynced' = body' /\ append' = 0
      /\ crashes < MaxCrashes /\ crashes' = crashes + 1 /\ pc' = "down"
      /\ faults' = IF DOMAIN hdrUndo = {} THEN faults ELSE faults \cup {"reorg"}
  BY DEF Crash, database
<1>3. body \in Segments /\ bodySynced \in Segments /\ tip \in Block
      /\ crashes \in 0..MaxCrashes /\ MaxCrashes \in Nat
  BY StoreTypes DEF BodyInv, BodyTypes, Inv, Types
<1>4. body' \in Segments
  BY <1>1, <1>3, CrashTypes
<1>5. BodyTypes'
  BY <1>2, <1>3, <1>4 DEF BodyInv, BodyTypes
<1>6. Clean' => Clean /\ DOMAIN hdrUndo = {}
  BY <1>2 DEF Clean, interrupted
<1>7. ASSUME Clean, DOMAIN hdrUndo = {}
      PROVE  ChainLaid' /\ BodiesMatchStep' /\ Apart(body'.frames) /\ bodyW' = EndOf(tip')
  <2>1. /\ Laid(body, tip) /\ Laid(bodySynced, tip) /\ SameEntries(body, bodySynced, tip)
        /\ Apart(body.frames) /\ Apart(bodySynced.frames) /\ bodyW = EndOf(tip)
    BY <1>7 DEF BodyInv, ChainLaid
  <2>2. Apart(frames)
    BY <1>3, <2>1, CrashApart
  <2>3. Laid([frames |-> frames, bidx |-> bidx], tip)
    BY <1>3, <2>1, CrashLaid
  <2>4. body'.frames = frames /\ Laid(body', tip)
    BY <1>1, <2>3
  <2>5. ChainLaid'
    BY <1>2, <2>4 DEF ChainLaid, SameEntries
  <2>6. BodiesMatchStep'
    BY <1>2, <1>7 DEF BodiesMatchStep
  <2> QED
    BY <1>2, <2>1, <2>2, <2>4, <2>5, <2>6
<1> QED
  BY <1>2, <1>5, <1>6, <1>7 DEF BodyInv

\* Recovery of the headers moves no body; a lowered tip takes the body
\* watermark down with it.
LEMMA RecoveryBodies ==
    ASSUME Inv, BodyInv,
           \/ \E h \in Slots : RestoreHeader(h) \/ LoseTail(h)
           \/ ClearHdrUndo \/ KeepHeaders \/ RefuseOpen
    PROVE  BodyInv'
<1>1. UNCHANGED <<body, bodySynced, append, tip, bodyW, crashes>>
  BY DEF RestoreHeader, LoseTail, ClearHdrUndo, KeepHeaders, RefuseOpen, bodies, database
<1>2. BodyTypes'
  BY <1>1 DEF BodyInv, BodyTypes
<1>3. Clean' => Clean
  BY DEF RestoreHeader, LoseTail, ClearHdrUndo, KeepHeaders, RefuseOpen, Clean, interrupted
<1>4. ASSUME Clean, Clean'
      PROVE  ChainLaid' /\ BodiesMatchStep'
  <2>1. ChainLaid /\ BodiesMatchStep
    BY <1>4 DEF BodyInv
  <2>2. CASE \E h \in Slots : LoseTail(h)
    BY <1>4, <2>2 DEF LoseTail, Clean
  <2>3. CASE \E h \in Slots : RestoreHeader(h)
    <3>1. UNCHANGED hdrUndo /\ pc = "down" /\ pc' = "down"
      BY <2>3 DEF RestoreHeader, database
    <3> QED
      BY <1>1, <2>1, <3>1 DEF ChainLaid, BodiesMatchStep
  <2>4. CASE ClearHdrUndo
    <3>1. hdrUndo' = EmptyBlob /\ pc = "down" /\ pc' = "headers"
      BY <2>4 DEF ClearHdrUndo
    <3>2. DOMAIN hdrUndo' = {} /\ DOMAIN hdrUndo = {} /\ bodySynced = body
      BY <2>1, <3>1 DEF BodiesMatchStep, EmptyBlob
    <3> QED
      BY <1>1, <2>1, <3>1, <3>2 DEF ChainLaid, BodiesMatchStep
  <2>5. CASE KeepHeaders
    <3>1. UNCHANGED hdrUndo /\ pc = "headers" /\ pc' = "scan"
      BY <2>5 DEF KeepHeaders, database
    <3> QED
      BY <1>1, <2>1, <3>1 DEF ChainLaid, BodiesMatchStep
  <2>6. CASE RefuseOpen
    <3>1. UNCHANGED hdrUndo /\ pc' = "refused"
      BY <2>6 DEF RefuseOpen, database
    <3> QED
      BY <1>1, <2>1, <3>1 DEF ChainLaid, BodiesMatchStep
  <2> QED
    BY <2>2, <2>3, <2>4, <2>5, <2>6
<1> QED
  BY <1>1, <1>2, <1>3, <1>4 DEF BodyInv

\* The tip is lowered only on a disk that lost headers; the watermark then
\* stays at or below the new tip.
LEMMA LowerHeadersBodies ==
    ASSUME Inv, BodyInv, NEW w \in Slots, LowerHeaders(w)
    PROVE  BodyInv'
<1>1. /\ UNCHANGED <<body, bodySynced, append, crashes, faults>>
      /\ bodyW' = LoweredBodyW(w) /\ pc = "headers" /\ w \in FirstBreak
      /\ state' = StateAfter(tip, LandsOn(w))
  BY DEF LowerHeaders, bodies
<1>2. lost
  BY <1>1, NoBreakUnlessLost DEF TipLinked, FirstBreak
<1>3. tip \in Block /\ height[tip] \in Nat /\ w \in 0..height[tip] /\ hdr[0] = Genesis
  BY <1>1, TreeTypes DEF Inv, Types, GenesisKept, FirstBreak, Breaks
<1>4. w > 0
  <2>1. 0 \notin Breaks
    BY <1>3, StoreTypes, TreeTypes DEF Breaks
  <2> QED
    BY <1>1, <1>3, <2>1 DEF FirstBreak
<1>5. PICK b \in Anc[tip] : height[b] = w - 1
  BY <1>3, <1>4, TreeLevels
<1>6. LandsOn(w) \in Anc[tip] /\ EndOf(LandsOn(w)) = w
  <2>1. EndOf(b) = w
    BY <1>3, <1>5 DEF EndOf
  <2> QED
    BY <1>5, <2>1 DEF LandsOn
<1>7. state = tip /\ state' = tip'
  BY LowerHeadersInv DEF Inv, StateMatchesTip
<1>8. tip' = LandsOn(w)
  BY <1>1, <1>7 DEF StateAfter
<1>9. EndOf(tip') = w
  BY <1>6, <1>8
<1>10. bodyW' \in 0..w
  <2>1. bodyW \in Nat
    BY <1>3 DEF BodyInv, BodyTypes, EndOf
  <2> QED
    BY <1>1, <1>3, <2>1 DEF LoweredBodyW
<1>11. BodyTypes'
  BY <1>1, <1>9, <1>10 DEF BodyInv, BodyTypes
<1>12. ~Clean'
  BY <1>1, <1>2 DEF Clean
<1> QED
  BY <1>11, <1>12 DEF BodyInv

\* Reconciling bodies keeps all of the stored chain's.
LEMMA ReconcileBodiesBodies ==
    ASSUME Inv, BodyInv, ReconcileBodies
    PROVE  BodyInv'
<1>1. /\ UNCHANGED <<tip, hdrUndo, faults, crashes>> /\ pc = "scan" /\ pc' = "idle"
      /\ body' = [frames |-> KeptFrames(body, bodyW), bidx |-> NewEntries(body, bodyW)]
      /\ bodySynced' = [bodySynced EXCEPT !.bidx = NewEntries(body, bodyW)]
      /\ bodyW' = Readable(body.frames, bodyW)
      /\ append' = AppendAt(NewEntries(body, bodyW), Readable(body.frames, bodyW))
  BY DEF ReconcileBodies, KeptFrames, NewEntries
<1>2. body \in Segments /\ bodySynced \in Segments /\ tip \in Block /\ bodyW \in 0..EndOf(tip)
      /\ EndOf(tip) \in Nat
  BY TreeTypes DEF BodyInv, BodyTypes, Inv, Types, EndOf
<1>3. /\ NewEntries(body, bodyW) \in [Slots -> Entries]
      /\ KeptFrames(body, bodyW) \in SUBSET [at : Nat, blk : Block]
      /\ bodyW' \in 0..bodyW /\ append' \in Nat
  BY <1>1, <1>2, ReconciledTypes
<1>4. bodySynced' = [frames |-> bodySynced.frames, bidx |-> NewEntries(body, bodyW)]
  BY <1>1, <1>2 DEF Segments
<1>5. BodyTypes'
  <2>1. body' \in Segments
    BY <1>1, <1>3 DEF Segments
  <2>2. bodySynced' \in Segments
    BY <1>2, <1>3, <1>4 DEF Segments
  <2>3. bodyW' \in 0..EndOf(tip)
    BY <1>2, <1>3
  <2> QED
    BY <1>1, <1>3, <2>1, <2>2, <2>3 DEF BodyInv, BodyTypes, EndOf
<1>6. Clean' => Clean
  BY <1>1 DEF Clean, interrupted
<1>7. ASSUME Clean
      PROVE  /\ ChainLaid' /\ BodiesMatchStep' /\ bodyW' = EndOf(tip)
             /\ Apart(body'.frames) /\ Apart(bodySynced'.frames)
  <2>1. /\ bodySynced = body /\ DOMAIN hdrUndo = {} /\ bodyW = EndOf(tip)
        /\ Laid(body, tip) /\ Apart(body.frames)
    BY <1>1, <1>7 DEF BodyInv, ChainLaid, BodiesMatchStep
  <2>2. /\ Readable(body.frames, EndOf(tip)) = EndOf(tip)
        /\ AppendAt(NewEntries(body, EndOf(tip)), EndOf(tip)) = EndAt(body, tip)
        /\ \A a \in Anc[tip] :
             /\ NewEntries(body, EndOf(tip))[height[a]] = body.bidx[height[a]]
             /\ Frame(body.bidx[height[a]].at, a) \in KeptFrames(body, EndOf(tip))
    BY <1>2, <2>1, ReconciledLaid
  <2>3. body'.frames \subseteq body.frames /\ bodySynced'.frames = body.frames
        /\ body'.frames = KeptFrames(body, bodyW)
        /\ body'.bidx = NewEntries(body, bodyW) /\ bodySynced'.bidx = NewEntries(body, bodyW)
    BY <1>1, <1>4, <2>1 DEF KeptFrames
  <2>4. Laid(body', tip) /\ SameEntries(body, body', tip) /\ EndAt(body', tip) = EndAt(body, tip)
    <3>1. \A a \in Anc[tip] : /\ body'.bidx[height[a]] = body.bidx[height[a]]
                              /\ Frame(body.bidx[height[a]].at, a) \in body'.frames
      BY <2>1, <2>2, <2>3
    <3>2. tip \in Anc[tip]
      BY <1>2, TreeLinear
    <3> QED
      BY <1>2, <2>1, <3>1, <3>2, LaidMoves
  <2>5. Laid(bodySynced', tip)
    <3>1. \A a \in Anc[tip] : /\ bodySynced'.bidx[height[a]] = body.bidx[height[a]]
                              /\ Frame(body.bidx[height[a]].at, a) \in bodySynced'.frames
      BY <2>1, <2>2, <2>3 DEF Laid
    <3> QED
      BY <1>2, <2>1, <3>1, LaidMoves
  <2>6. ChainLaid'
    BY <1>1, <2>3, <2>4, <2>5 DEF ChainLaid, SameEntries
  <2>7. append' = EndAt(body', tip)
    BY <1>1, <2>1, <2>2, <2>4
  <2>8. BodiesMatchStep'
    BY <1>1, <2>7 DEF BodiesMatchStep
  <2>9. Apart(body'.frames) /\ Apart(bodySynced'.frames)
    BY <2>1, <2>3 DEF Apart
  <2> QED
    BY <1>1, <2>1, <2>2, <2>6, <2>8, <2>9
<1> QED
  BY <1>1, <1>5, <1>6, <1>7 DEF BodyInv

\* Every step keeps the bodies.
LEMMA NextBodies ==
    ASSUME Inv, BodyInv, [Next]_vars
    PROVE  BodyInv'
<1>1. CASE Call
  BY <1>1, HeaderStepBodies, ExtendBodyBodies, ExtendBarrierBodies, CommitBodies,
     SaveHeadersBodies, SyncHeadersBodies, BranchBodyBodies, BranchBarrierBodies DEF Call
<1>2. CASE Recovery \/ (\E w \in Slots : LoseTail(w))
  BY <1>2, RecoveryBodies, LowerHeadersBodies, ReconcileBodiesBodies DEF Recovery
<1>3. CASE Crash
  BY <1>3, CrashBodies
<1>4. CASE UNCHANGED vars
  <2>1. UNCHANGED <<body, bodySynced, append, tip, bodyW, hdrUndo, crashes, pc, target, todo, faults>>
    BY <1>4 DEF vars, bodies, database
  <2>2. Clean' <=> Clean
    BY <2>1 DEF Clean, interrupted
  <2>3. Clean => BodiesMatchStep'
    BY <2>1 DEF BodyInv, BodiesMatchStep, BranchLaid
  <2> QED
    BY <2>1, <2>2, <2>3, BodiesQuiet
<1> QED
  BY <1>1, <1>2, <1>3, <1>4 DEF Next

\* An entry of a laid chain leads to the body of its block.
LEMMA BodyIsFound ==
    ASSUME body \in Segments, Apart(body.frames), NEW b \in Block,
           body.bidx[height[b]].len = size[b], Frame(body.bidx[height[b]].at, b) \in body.frames
    PROVE  BodyAt(height[b]) = b
<1> DEFINE fr == Frame(body.bidx[height[b]].at, b)
           found == {f \in body.frames : /\ f.at = body.bidx[height[b]].at
                                         /\ size[f.blk] = body.bidx[height[b]].len}
<1>1. body.frames \in SUBSET [at : Nat, blk : Block]
  BY DEF Segments
<1>2. fr \in body.frames /\ fr.at = body.bidx[height[b]].at /\ fr.blk = b
  BY DEF Frame
<1> HIDE DEF fr
<1>3. \A f \in found : f = fr
  BY <1>1, <1>2, SamePlace
<1>4. fr \in found
  BY <1>2
<1>5. (CHOOSE f \in found : TRUE) = fr /\ found # {}
  <2> HIDE DEF found
  <2> QED
    BY <1>3, <1>4
<1> QED
  BY <1>2, <1>5 DEF BodyAt

\* An open, unharmed store has each body of its chain.
LEMMA BodyInvSound ==
    ASSUME Inv, BodyInv
    PROVE  BodiesSound
<1>1. TypeOK
  BY DEF Inv, Types, StateMatchesTip, BodyInv, BodyTypes, TypeOK
<1>2. ASSUME Clean, pc = "idle"
      PROVE  bodyW = EndOf(tip) /\ \A h \in 0..height[tip] : BodyAt(h) = hdr[h]
  <2>1. /\ tip \in Block /\ Laid(body, tip) /\ Apart(body.frames) /\ bodyW = EndOf(tip)
        /\ body \in Segments
    BY <1>2, IdleBodies DEF BodyInv, BodyTypes
  <2>2. HeadersMatch
    BY DEF Inv, HeadersMatch, ChainFound, Holds, MayMiss, BlobMatchesStep
  <2>3. ASSUME NEW h \in 0..height[tip]
        PROVE  BodyAt(h) = hdr[h]
    <3>1. PICK b \in Anc[tip] : height[b] = h
      BY <2>1, TreeLevels
    <3>2. b \in Block /\ hdr[h] = b
      BY <1>2, <2>1, <2>2, <3>1, AncNests DEF HeadersMatch
    <3>3. BodyAt(height[b]) = b
      BY <2>1, <3>1, <3>2, BodyIsFound DEF Laid
    <3> QED
      BY <3>1, <3>2, <3>3
  <2> QED
    BY <2>1, <2>3
<1>3. BodiesKept
  BY <1>2 DEF BodiesKept, BodiesMatch, Clean
<1> QED
  BY <1>1, <1>3 DEF BodiesSound

\* Every block of the stored chain has its own body under its height, after
\* any sequence of extensions, reorgs, failures and crashes, until a crash
\* interrupts a reorg or the disk loses what was synced (commit_branch,
\* barrier, reconcile_bodies); the watermark never passes the tip even then.
THEOREM BodiesSafe == Spec => []BodiesSound
<1>1. Inv /\ BodyInv /\ [Next]_vars => Inv' /\ BodyInv'
  BY NextInv, NextBodies
<1>2. Init => Inv /\ BodyInv
  BY InitInv, InitBodies
<1>3. Inv /\ BodyInv => BodiesSound
  BY BodyInvSound
<1> QED
  BY <1>1, <1>2, <1>3, PTL DEF Spec
=============================================================================
