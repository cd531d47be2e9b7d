----------------------------- MODULE BlockStore -----------------------------
(***************************************************************************)
(* The storage engine's write path and its recovery (lib/storage:          *)
(* committer.rs, recover.rs, segment.rs): a header segment with one slot   *)
(* per height, a body segment of CRC-checked frames with a sidecar of      *)
(* offsets, and a database whose transactions are atomic and durable.      *)
(*                                                                         *)
(* Every write to a file, every sync and every transaction is a step; a    *)
(* crash may fall between any two, during recovery too, and loses any part *)
(* of what was written since the last sync.  The node runs the committer   *)
(* in tip mode, so a block is sealed before extend returns, and one        *)
(* segment stands for the live one.                                        *)
(***************************************************************************)
EXTENDS BlockTree, FiniteSetsExt

CONSTANTS
    size,           \* size[b]: length of the frame of b's body
    StoreReorgCap,  \* MAX_REORG_DEPTH
    UndoRing,       \* UNDO_RING
    TailLoss,       \* whether the disk may lose synced headers
    MaxCrashes,     \* bound on crashes
    None            \* an empty header slot, a state that is no block's

ASSUME StoreTypes ==
    /\ size \in [Block -> Nat \ {0}]
    /\ StoreReorgCap \in Nat
    /\ UndoRing \in Nat \ {0} /\ UndoRing >= StoreReorgCap
    /\ TailLoss \in BOOLEAN
    /\ MaxCrashes \in Nat
    /\ None \notin Block

VARIABLES
    hdr,        \* header slots as the running process reads them
    hdrSynced,  \* what of them survives a power cut
    body,       \* frames and sidecar of the body segment
    bodySynced,
    \* --- the database ---
    tip,        \* meta.tip; the header watermark is one above it
    state,      \* the block whose account rows are stored
    undo,       \* blocks with an undo row
    bodyW,      \* meta.body_watermark
    hdrUndo,    \* HDR_UNDO: saved headers by height
    \* --- the committer ---
    append,     \* meta.body_append_offset
    pc,         \* next step of the call, or of recovery
    target,     \* head of the branch being committed
    todo,       \* its blocks still to be written in this phase
    faults,     \* what has gone wrong so far, for the properties to refer to
    crashes

headers == <<hdr, hdrSynced>>
bodies == <<body, bodySynced, append>>
database == <<tip, state, undo, bodyW, hdrUndo>>
vars == <<headers, bodies, database, pc, target, todo, faults, crashes>>

Slots == {height[b] : b \in Block}
NoFrame == [at |-> -1, len |-> 0]
EmptyBlob == [h \in {} |-> None]
EndOf(b) == height[b] + 1

\* The disk has lost synced headers; a crash has interrupted a reorg.
lost == "tail" \in faults
interrupted == "reorg" \in faults

Lowest(S) == {b \in S : \A c \in S : height[b] <= height[c]}

-----------------------------------------------------------------------------
(* Frames of the body segment.                                             *)

Frame(at, b) == [at |-> at, blk |-> b]
Overlap(f, g) == f.at < g.at + size[g.blk] /\ g.at < f.at + size[f.blk]

\* write_body: a frame written over others leaves them unreadable.
WriteFrame(frames, at, b) ==
    {f \in frames : ~Overlap(f, Frame(at, b))} \cup {Frame(at, b)}

\* scan_body_segment: where the n-th frame from the start ends, -1 when a
\* frame on the way fails its length or CRC.
ScanEnd(frames, limit) ==
    LET end[n \in 0..limit] ==
            IF n = 0 THEN 0
            ELSE IF end[n - 1] # -1 /\ \E f \in frames : f.at = end[n - 1]
                 THEN LET f == CHOOSE f \in frames : f.at = end[n - 1] IN f.at + size[f.blk]
                 ELSE -1
    IN end

Readable(frames, limit) ==
    CHOOSE n \in 0..limit :
        /\ ScanEnd(frames, limit)[n] # -1
        /\ n = limit \/ ScanEnd(frames, limit)[n + 1] = -1

\* StoreReader::body_at: the sidecar's entry and the frame must agree.
BodyAt(h) ==
    LET found == {f \in body.frames : f.at = body.bidx[h].at /\ size[f.blk] = body.bidx[h].len}
    IN IF found = {} THEN None ELSE (CHOOSE f \in found : TRUE).blk

\* body_append_for, body_append_at: the end of the frame below a height.
AppendAt(bidx, h) == IF h = 0 \/ bidx[h - 1] = NoFrame THEN 0 ELSE bidx[h - 1].at + bidx[h - 1].len

-----------------------------------------------------------------------------
(* The database.                                                           *)

\* Undo rows after the blocks of a branch are applied: each drops the one
\* UndoRing below it.
PushUndoLate(rows, branch) ==                                           \* mutant
    {r \in rows \cup branch : \A b \in branch : height[r] # height[b] - UndoRing - 1}
PushUndo(rows, branch) ==
    {r \in rows \cup branch : \A b \in branch : height[r] # height[b] - UndoRing}

\* apply_block and rollback_height replace account rows by what the block, or
\* its undo row, says they become: right only on the state they were made for.
StateAfter(from, to) == IF state = from THEN to ELSE None

Init ==
    LET entry == [at |-> 0, len |-> size[Genesis]] IN
    /\ hdr = [h \in Slots |-> IF h = 0 THEN Genesis ELSE None] /\ hdrSynced = hdr
    /\ body = [frames |-> {Frame(0, Genesis)},
               bidx |-> [h \in Slots |-> IF h = 0 THEN entry ELSE NoFrame]]
    /\ bodySynced = body
    /\ tip = Genesis /\ state = Genesis /\ undo = {Genesis} /\ bodyW = 1 /\ hdrUndo = EmptyBlob
    /\ append = size[Genesis]
    /\ pc = "idle" /\ target = Genesis /\ todo = {}
    /\ faults = {} /\ crashes = 0

BranchShort(b) == {c \in Anc[b] \ Anc[tip] : prev[c] \notin Anc[tip]}       \* mutant
Branch(b) == Anc[b] \ Anc[tip]
Dropped(b) == Anc[tip] \ Anc[b]

-----------------------------------------------------------------------------
(* Committer::extend, one block on the tip.                                *)

StartExtend(b) ==
    /\ pc = "idle" /\ b # Genesis /\ prev[b] = tip
    /\ target' = b /\ todo' = {b} /\ pc' = "ext_header"
    /\ UNCHANGED <<headers, bodies, database, faults, crashes>>

WriteHeader ==
    /\ pc = "ext_header"
    /\ hdr' = [hdr EXCEPT ![height[target]] = target]
    /\ pc' = "ext_body"
    /\ UNCHANGED <<hdrSynced, bodies, database, target, todo, faults, crashes>>

WriteBody(b) ==
    /\ body' = [frames |-> WriteFrame(body.frames, append, b),
                bidx |-> [body.bidx EXCEPT ![height[b]] = [at |-> append, len |-> size[b]]]]
    /\ append' = append + size[b]
    /\ UNCHANGED bodySynced

ExtendBody ==
    /\ pc = "ext_body"
    /\ WriteBody(target)
    /\ todo' = {} /\ pc' = "ext_barrier"
    /\ UNCHANGED <<headers, database, target, faults, crashes>>

\* barrier: headers, bodies and sidecar are synced before the transaction.
BarrierHeadersOnly ==                                                   \* mutant
    hdrSynced' = hdr /\ UNCHANGED <<hdr, bodies>>
Barrier ==
    /\ hdrSynced' = hdr /\ bodySynced' = body
    /\ UNCHANGED <<hdr, body, append>>

ExtendBarrier ==
    /\ pc = "ext_barrier"
    /\ Barrier
    /\ pc' = "ext_commit"
    /\ UNCHANGED <<database, target, todo, faults, crashes>>

\* seal: the transaction with state, undo row and meta.
ExtendCommit ==
    /\ pc = "ext_commit"
    /\ tip' = target /\ state' = StateAfter(prev[target], target)
    /\ undo' = PushUndo(undo, {target})
    /\ bodyW' = EndOf(target)
    /\ pc' = "idle"
    /\ UNCHANGED <<headers, bodies, hdrUndo, target, todo, faults, crashes>>

-----------------------------------------------------------------------------
(* Committer::reorg.                                                       *)

\* The checks of the plan; a longer branch on the tip comes this way too.  The
\* manager has read an undo row for each dropped block (rewind_to_fork), and
\* rows are never below meta.undo_floor, so that check passes with them.
StartReorg(b) ==
    /\ pc = "idle" /\ Better(b, tip) /\ prev[b] # tip
    /\ height[tip] - height[Fork(b, tip)] <= StoreReorgCap
    /\ Dropped(b) \subseteq undo
    /\ target' = b /\ todo' = Branch(b) /\ pc' = "undo"
    /\ UNCHANGED <<headers, bodies, database, faults, crashes>>

\* write_hdr_undo: the headers about to be overwritten, in a transaction.
Overwritten == {h \in {height[b] : b \in Branch(target)} : h <= height[tip]}

SaveHeaders ==
    /\ pc = "undo"
    /\ hdrUndo' = [h \in Overwritten |-> hdr[h]]
    /\ pc' = "overwrite"
    /\ UNCHANGED <<headers, bodies, tip, state, undo, bodyW, target, todo, faults, crashes>>

OverwriteHeader(b) ==
    /\ pc = "overwrite" /\ b \in Lowest(todo)
    /\ hdr' = [hdr EXCEPT ![height[b]] = b]
    /\ todo' = todo \ {b}
    /\ UNCHANGED <<hdrSynced, bodies, database, pc, target, faults, crashes>>

\* The headers are synced, and bodies start at the end of the fork's frame.
SyncHeaders ==
    /\ pc = "overwrite" /\ todo = {}
    /\ hdrSynced' = hdr
    /\ append' = AppendAt(body.bidx, EndOf(Fork(target, tip)))
    /\ todo' = Branch(target) /\ pc' = "bodies"
    /\ UNCHANGED <<hdr, body, bodySynced, database, target, faults, crashes>>

\* commit_branch: bodies, barrier, transaction.
BranchBody(b) ==
    /\ pc = "bodies" /\ b \in Lowest(todo)
    /\ WriteBody(b)
    /\ todo' = todo \ {b}
    /\ UNCHANGED <<headers, database, pc, target, faults, crashes>>

BranchBarrier ==
    /\ pc = "bodies" /\ todo = {}
    /\ Barrier
    /\ pc' = "commit"
    /\ UNCHANGED <<database, target, todo, faults, crashes>>

\* The transaction of the branch deletes the saved headers.
BlobKept == hdrUndo                                                     \* mutant
BlobAfterCommit == EmptyBlob

CommitBranch ==
    /\ pc = "commit"
    /\ tip' = target /\ state' = StateAfter(tip, target)
    /\ undo' = PushUndo(undo \ Dropped(target), Branch(target))
    /\ bodyW' = EndOf(target)
    /\ hdrUndo' = BlobAfterCommit
    /\ pc' = "idle"
    /\ UNCHANGED <<headers, bodies, target, todo, faults, crashes>>

\* An I/O error at any step poisons the committer: it refuses every call
\* until the store is opened again.
Fail ==
    /\ pc \in {"ext_header", "ext_body", "ext_barrier", "ext_commit",
               "undo", "overwrite", "bodies", "commit"}
    /\ pc' = "poisoned"
    /\ UNCHANGED <<headers, bodies, database, target, todo, faults, crashes>>

-----------------------------------------------------------------------------
(* Crash and recovery.                                                     *)

\* Each slot keeps its unsynced content or loses it.
Survives(now, synced) ==
    {[h \in Slots |-> IF h \in gone THEN synced[h] ELSE now[h]] :
        gone \in SUBSET {h \in Slots : now[h] # synced[h]}}

\* Unsynced frames survive, are lost, or are torn.
FramesSurvive(now, synced) ==
    {(now \cap synced) \cup part : part \in
        {p \in SUBSET ((now \ synced) \cup (synced \ now)) :
            \A f, g \in p : f = g \/ ~Overlap(f, g)}}

Crash ==
    /\ crashes < MaxCrashes
    /\ crashes' = crashes + 1
    /\ hdr' \in Survives(hdr, hdrSynced) /\ hdrSynced' = hdr'
    /\ \E frames \in FramesSurvive(body.frames, bodySynced.frames),
          bidx \in Survives(body.bidx, bodySynced.bidx) :
          body' = [frames |-> frames, bidx |-> bidx]
    /\ bodySynced' = body' /\ append' = 0
    /\ pc' = "down" /\ todo' = {} /\ target' = tip
    /\ faults' = IF DOMAIN hdrUndo = {} THEN faults ELSE faults \cup {"reorg"}
    /\ UNCHANGED database

\* Not the code's doing: the header segment comes back shorter than synced,
\* the genesis header at least still there.
Truncate(w) == [h \in Slots |-> IF h < w THEN hdr[h] ELSE None]

LoseTail(w) ==
    /\ TailLoss /\ pc = "down" /\ w > 0
    /\ hdr[w] # None
    /\ hdr' = Truncate(w) /\ hdrSynced' = Truncate(w)
    /\ faults' = faults \cup {"tail"}
    /\ UNCHANGED <<bodies, database, pc, target, todo, crashes>>

\* replay_hdr_undo: header after header, each synced; then the blob goes.
RestoreHeader(h) ==
    /\ pc = "down" /\ h \in DOMAIN hdrUndo /\ hdr[h] # hdrUndo[h]
    /\ hdr' = [hdr EXCEPT ![h] = hdrUndo[h]]
    /\ hdrSynced' = hdr'
    /\ UNCHANGED <<bodies, database, pc, target, todo, faults, crashes>>

Restored == \A h \in DOMAIN hdrUndo : hdr[h] = hdrUndo[h]

ClearHdrUndo ==
    /\ pc = "down" /\ Restored
    /\ hdrUndo' = EmptyBlob
    /\ pc' = "headers"
    /\ UNCHANGED <<headers, bodies, tip, state, undo, bodyW, target, todo, faults, crashes>>

\* verify_window: the heights whose header is missing or does not name the
\* one below it; the watermark falls to the first of them.
Breaks == {h \in 0..height[tip] :
    hdr[h] = None \/ (h > 0 /\ prev[hdr[h]] # hdr[h - 1])}
FirstBreak == {w \in Breaks : \A h \in Breaks : w <= h}
TipLinked == Breaks = {} /\ hdr[height[tip]] = tip

\* reconcile_headers finds the chain of the stored tip.
KeepHeaders ==
    /\ pc = "headers" /\ TipLinked
    /\ hdr' = Truncate(EndOf(tip))
    /\ pc' = "scan"
    /\ UNCHANGED <<hdrSynced, bodies, database, target, todo, faults, crashes>>

\* rollback_state_to: the state follows by undo rows, the tip is whatever
\* header is there, and the body watermark comes down with it.
Undone(w) == {b \in Anc[tip] : height[b] >= w}
LandsOnShort(w) == CHOOSE b \in Anc[tip] : height[b] = w                  \* mutant
LandsOn(w) == CHOOSE b \in Anc[tip] : EndOf(b) = w
LoweredBodyW(w) == IF bodyW < w THEN bodyW ELSE w

LowerHeaders(w) ==
    /\ pc = "headers" /\ w \in FirstBreak
    /\ Undone(w) \subseteq undo
    /\ hdr' = Truncate(w)
    /\ tip' = hdr[w - 1] /\ state' = StateAfter(tip, LandsOn(w))
    /\ undo' = undo \ Undone(w)
    /\ bodyW' = LoweredBodyW(w)
    /\ pc' = "scan"
    /\ UNCHANGED <<hdrSynced, bodies, hdrUndo, target, todo, faults, crashes>>

\* TipNotInSegments or StateBehindHeaders.
RefuseOpen ==
    /\ pc = "headers" /\ ~TipLinked
    /\ \A w \in FirstBreak : ~(Undone(w) \subseteq undo)
    /\ pc' = "refused"
    /\ UNCHANGED <<headers, bodies, database, target, todo, faults, crashes>>

\* reconcile_bodies: frames are read from the start, the rest is cut off, the
\* sidecar is written anew, and the body watermark falls to what was read.
ReconcileBodies ==
    LET n == Readable(body.frames, bodyW)
        end == ScanEnd(body.frames, bodyW)
        bidx == [h \in Slots |-> IF h < n THEN [at |-> end[h], len |-> end[h + 1] - end[h]]
                                 ELSE body.bidx[h]]
    IN
    /\ pc = "scan"
    /\ body' = [frames |-> {f \in body.frames : f.at < end[n]}, bidx |-> bidx]
    /\ bodySynced' = [bodySynced EXCEPT !.bidx = bidx]
    /\ bodyW' = n
    /\ append' = AppendAt(bidx, n)
    /\ pc' = "idle"
    /\ UNCHANGED <<headers, tip, state, undo, hdrUndo, target, todo, faults, crashes>>

Call ==
    \/ \E b \in Block : StartExtend(b) \/ StartReorg(b) \/ OverwriteHeader(b) \/ BranchBody(b)
    \/ WriteHeader \/ ExtendBody \/ ExtendBarrier \/ ExtendCommit
    \/ SaveHeaders \/ SyncHeaders \/ BranchBarrier \/ CommitBranch
    \/ Fail

Recovery ==
    \/ \E h \in Slots : RestoreHeader(h) \/ LowerHeaders(h)
    \/ ClearHdrUndo \/ KeepHeaders \/ RefuseOpen \/ ReconcileBodies

Next == Call \/ Crash \/ (\E w \in Slots : LoseTail(w)) \/ Recovery

Spec == Init /\ [][Next]_vars
-----------------------------------------------------------------------------
(* Properties.                                                             *)

\* The types of the store's state; the body watermark never passes the tip,
\* also when recovery lowers the tip to the headers it finds.
TypeOK ==
    /\ hdr \in [Slots -> Block \cup {None}] /\ hdrSynced \in [Slots -> Block \cup {None}]
    /\ tip \in Block /\ state \in Block \cup {None}
    /\ undo \subseteq Block /\ bodyW \in 0..EndOf(tip)
    /\ append \in Nat /\ target \in Block /\ todo \subseteq Block
    /\ faults \subseteq {"tail", "reorg"} /\ crashes \in 0..MaxCrashes

\* An open store has the whole header chain of its tip in its slots: a crash
\* anywhere in a reorg leaves the old branch or the new one, never a mixture
\* (write_hdr_undo, overwrite_headers, replay_hdr_undo).
HeadersMatch == pc = "idle" => \A b \in Anc[tip] : hdr[height[b]] = b

\* The account rows are those of the tip, also when recovery had to lower the
\* tip to the headers it found (rollback_state_to).
StateMatchesTip == state = tip

\* Recovery gets the store open again after every crash of the process or the
\* power; only a disk that loses synced data can make it refuse.
OpensAgain == lost \/ pc # "refused"

\* Every block of the chain has its own body under its height: "the reorg was
\* not durable, so the OLD branch must be intact" (tests/crash.rs).
BodiesMatch ==
    pc = "idle" =>
        /\ bodyW = EndOf(tip)
        /\ \A h \in 0..height[tip] : BodyAt(h) = hdr[h]

\* That holds at least until a crash interrupts a reorg or the disk loses what
\* was synced, whatever else fails or crashes before (barrier, reconcile_bodies).
BodiesKept == interrupted \/ lost \/ BodiesMatch

\* With the types, so that the watermark never passes the tip either.
BodiesSound == TypeOK /\ BodiesKept

\* The store is an atomic one: whatever is written, fails or crashes, the
\* stored tip and its undo rows move as AtomicStore says, as long as the disk
\* keeps what was synced.
UndoLow == Min({height[b] : b \in undo})
Atomic == INSTANCE AtomicStore WITH stored <- tip, undoLow <- UndoLow
Implements == Atomic!Init /\ [][lost \/ Atomic!Next]_<<tip, UndoLow>>
=============================================================================
