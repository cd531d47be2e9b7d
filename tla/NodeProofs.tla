----------------------------- MODULE NodeProofs -----------------------------
(****************************************************************************)
(* Proofs about a node: what the readers of the sink get                    *)
(* between two commits, what the store says of its own segments after       *)
(* whatever struck them while it was down, and what the arena takes of the  *)
(* headers its sources send.                                                *)
(****************************************************************************)
EXTENDS CommitSink, StoreCare, HeaderIngest, BlockTreeProofs, FiniteSetTheorems

\* The invariant, by phases of a commit.
SinkTypes ==
    /\ stored \in Block /\ sinkTarget \in Block /\ forkHeight \in Nat
    /\ notes \in [Block -> Nat] /\ unlisted \in SUBSET Block /\ halted \in BOOLEAN
    /\ sinkPc \in {"idle", "extend", "note", "prune", "reorg", "notes"}

\* A halted manager rests; the ring holds the block being committed, or nothing.
RingPhases ==
    /\ sinkPc # "idle" => ~halted
    /\ sinkPc \in {"extend", "note", "prune"} => ring = <<sinkTarget>>
    /\ sinkPc \in {"reorg", "notes"} \/ (sinkPc = "idle" /\ ~halted) => ring = <<>>
    /\ sinkPc = "extend" => sinkTarget # Genesis /\ prev[sinkTarget] = stored
    /\ sinkPc \in {"note", "prune", "notes"} => stored = sinkTarget
    /\ sinkPc = "reorg" => /\ forkHeight = height[Fork(sinkTarget, stored)]
                           /\ unlisted = Anc[sinkTarget] \ Anc[stored]

\* Notes are those of the chain, each once; while a branch is listed, those at or below the fork are.
NotePhases ==
    /\ \A b \in Block : notes[b] <= 1 /\ (notes[b] # 0 => b \in Announces)
    /\ ~halted /\ sinkPc # "notes" => \A b \in Block : notes[b] # 0 => b \in Anc[stored]
    /\ sinkPc = "note" => notes[stored] = 0
    /\ sinkPc = "notes" =>
          /\ unlisted \subseteq Anc[stored] /\ \A b \in unlisted : notes[b] = 0
          /\ \A b \in Block : notes[b] # 0 /\ height[b] <= forkHeight => b \in Anc[stored]

SinkInv == SinkTypes /\ RingPhases /\ NotePhases

\* What a listing of one block leaves.
LEMMA NotesOfBlock ==
    ASSUME notes \in [Block -> Nat], NEW b \in Block, notes[b] = 0, OnBlock(b)
    PROVE  /\ notes' \in [Block -> Nat]
           /\ \A c \in Block : c # b => notes'[c] = notes[c]
           /\ notes'[b] <= 1 /\ (notes'[b] # 0 => b \in Announces)
BY DEF OnBlock

LEMMA SinkStarts == SinkInit => SinkInv
<1> SUFFICES ASSUME SinkInit PROVE SinkInv
  OBVIOUS
<1>1. Genesis \in Block /\ notes = [b \in Block |-> 0]
  BY TreeTypes DEF SinkInit
<1>2. notes \in [Block -> Nat] /\ \A b \in Block : notes[b] = 0
  BY <1>1
<1>3. SinkTypes
  BY <1>1, <1>2 DEF SinkInit, SinkTypes
<1>4. RingPhases
  BY DEF SinkInit, RingPhases
<1>5. NotePhases
  BY <1>2 DEF SinkInit, NotePhases
<1> QED
  BY <1>3, <1>4, <1>5 DEF SinkInv

LEMMA PushRingKeeps == ASSUME SinkInv, NEW b \in Block, PushRing(b) PROVE SinkInv'
<1>1. ring' = <<b>>
  BY DEF PushRing, SinkInv, RingPhases
<1> QED
  BY <1>1 DEF PushRing, SinkInv, SinkTypes, RingPhases, NotePhases

LEMMA ExtendKeeps == ASSUME SinkInv, Extend PROVE SinkInv'
<1>1. Anc[sinkTarget] = {sinkTarget} \cup Anc[stored] /\ sinkTarget \notin Anc[stored]
      /\ sinkTarget \in Block
  BY TreeStep DEF Extend, SinkInv, SinkTypes, RingPhases
<1>2. notes[sinkTarget] = 0
  BY <1>1 DEF Extend, SinkInv, RingPhases, NotePhases
<1>3. \A c \in Block : notes[c] # 0 => c \in Anc[sinkTarget]
  BY <1>1 DEF Extend, SinkInv, RingPhases, NotePhases
<1> QED
  BY <1>1, <1>2, <1>3 DEF Extend, SinkInv, SinkTypes, RingPhases, NotePhases

LEMMA NoteBlockKeeps == ASSUME SinkInv, NoteBlock PROVE SinkInv'
<1>1. stored \in Block /\ notes[stored] = 0 /\ OnBlock(stored) /\ stored = sinkTarget
  BY DEF NoteBlock, SinkInv, SinkTypes, RingPhases, NotePhases
<1>2. /\ notes' \in [Block -> Nat]
      /\ \A c \in Block : c # stored => notes'[c] = notes[c]
      /\ notes'[stored] <= 1 /\ (notes'[stored] # 0 => stored \in Announces)
  BY <1>1, NotesOfBlock DEF SinkInv, SinkTypes
<1>3. stored \in Anc[stored]
  BY <1>1, TreeLinear
<1> QED
  BY <1>1, <1>2, <1>3 DEF NoteBlock, SinkInv, SinkTypes, RingPhases, NotePhases

LEMMA PruneKeeps == ASSUME SinkInv, Prune PROVE SinkInv'
<1>1. ring = <<stored>> /\ stored \in Block
  BY DEF Prune, SinkInv, SinkTypes, RingPhases
<1>2. {i \in 1..Len(ring) : height[ring[i]] < height[stored] + 1} = {1}
  BY <1>1, TreeTypes
<1>3. Cardinality({1}) = 1
  BY FS_Singleton
<1>6. Len(ring) = 1 /\ 1 + 1 = 2
  BY <1>1
<1>4. ring' = SubSeq(<<stored>>, 2, 1)
  BY <1>1, <1>2, <1>3, <1>6 DEF Prune, Kept, RingFrom
<1>5. ring' = <<>>
  BY <1>4
<1> QED
  BY <1>5 DEF Prune, SinkInv, SinkTypes, RingPhases, NotePhases

LEMMA ClearRingKeeps == ASSUME SinkInv, NEW b \in Block, ClearRing(b) PROVE SinkInv'
<1>1. stored \in Block
  BY DEF SinkInv, SinkTypes
<1>2. Fork(b, stored) \in Block
  BY <1>1, ForkShared
<1>3. height[Fork(b, stored)] \in Nat /\ Anc[b] \subseteq Block
  BY <1>2, TreeTypes
<1>4. SinkTypes'
  BY <1>3 DEF ClearRing, SinkInv, SinkTypes
<1>5. RingPhases'
  BY DEF ClearRing, SinkInv, RingPhases
<1>6. NotePhases'
  BY DEF ClearRing, SinkInv, NotePhases
<1> QED
  BY <1>4, <1>5, <1>6 DEF SinkInv

LEMMA ReorgKeeps == ASSUME SinkInv, Reorg PROVE SinkInv'
<1>1. stored \in Block /\ sinkTarget \in Block /\ stored' = sinkTarget
  BY DEF SinkInv, SinkTypes, Reorg
<1>2. \A c \in Anc[stored] : height[c] <= forkHeight => c \in Anc[sinkTarget]
  BY <1>1, ForkShared DEF Reorg, SinkInv, RingPhases
<1>3. \A c \in Block : notes[c] # 0 => c \in Anc[stored]
  BY DEF Reorg, SinkInv, RingPhases, NotePhases
<1>4. unlisted = Anc[sinkTarget] \ Anc[stored]
  BY DEF Reorg, SinkInv, RingPhases
<1>5. unlisted \subseteq Anc[sinkTarget] /\ \A c \in unlisted : notes[c] = 0
  BY <1>1, <1>3, <1>4, TreeTypes
<1>6. NotePhases'
  BY <1>1, <1>2, <1>3, <1>5 DEF Reorg, SinkInv, NotePhases
<1>7. SinkTypes' /\ RingPhases'
  BY <1>1 DEF Reorg, SinkInv, SinkTypes, RingPhases
<1> QED
  BY <1>6, <1>7 DEF SinkInv

LEMMA RefuseReorgKeeps == ASSUME SinkInv, RefuseReorg PROVE SinkInv'
BY DEF RefuseReorg, SinkInv, SinkTypes, RingPhases, NotePhases

LEMMA NoteBranchKeeps == ASSUME SinkInv, NoteBranch PROVE SinkInv'
<1> PICK b \in unlisted : OnBlock(b) /\ unlisted' = unlisted \ {b}
  BY DEF NoteBranch
<1>1. b \in Block /\ b \in Anc[stored] /\ notes[b] = 0 /\ notes \in [Block -> Nat]
  BY DEF NoteBranch, SinkInv, SinkTypes, NotePhases
<1>2. /\ notes' \in [Block -> Nat]
      /\ \A c \in Block : c # b => notes'[c] = notes[c]
      /\ notes'[b] <= 1 /\ (notes'[b] # 0 => b \in Announces)
  BY <1>1, NotesOfBlock
<1>3. SinkTypes' /\ RingPhases'
  BY <1>2 DEF NoteBranch, SinkInv, SinkTypes, RingPhases
<1>4. NotePhases'
  <2>1. sinkPc = "notes" /\ sinkPc' = "notes" /\ stored' = stored /\ forkHeight' = forkHeight
    BY DEF NoteBranch
  <2>2. \A c \in unlisted' : c \in Block /\ c # b /\ c \in unlisted
    BY DEF SinkInv, SinkTypes
  <2> QED
    BY <1>1, <1>2, <2>1, <2>2 DEF SinkInv, NotePhases
<1> QED
  BY <1>3, <1>4 DEF SinkInv

LEMMA RollbackNotesKeeps == ASSUME SinkInv, RollbackNotes PROVE SinkInv'
<1>1. notes \in [Block -> Nat] /\ notes' = [b \in Block |-> IF height[b] <= forkHeight THEN notes[b] ELSE 0]
  BY DEF RollbackNotes, StaysListed, SinkInv, SinkTypes
<1>2. \A b \in Block : notes'[b] # 0 => notes'[b] = notes[b] /\ height[b] <= forkHeight
  BY <1>1
<1>3. notes' \in [Block -> Nat]
  BY <1>1
<1> QED
  BY <1>2, <1>3 DEF RollbackNotes, SinkInv, SinkTypes, RingPhases, NotePhases

LEMMA FatalKeeps == ASSUME SinkInv, Fatal PROVE SinkInv'
<1>1. stored' \in Block
  BY DEF Fatal, SinkInv, SinkTypes
<1>2. SinkTypes'
  BY <1>1 DEF Fatal, SinkInv, SinkTypes
<1>3. RingPhases'
  BY DEF Fatal, SinkInv, RingPhases
<1>4. NotePhases'
  BY DEF Fatal, SinkInv, NotePhases
<1> QED
  BY <1>2, <1>3, <1>4 DEF SinkInv

LEMMA RestartKeeps == ASSUME SinkInv, Restart PROVE SinkInv'
<1>1. notes' \in [Block -> Nat] /\ \A b \in Block : notes'[b] = 0
  BY DEF Restart
<1>2. SinkTypes'
  BY <1>1 DEF Restart, SinkInv, SinkTypes
<1>3. RingPhases'
  BY DEF Restart, SinkInv, RingPhases
<1>4. NotePhases'
  BY <1>1 DEF Restart, NotePhases
<1> QED
  BY <1>2, <1>3, <1>4 DEF SinkInv

\* Between two commits of a running node the readers get one chain: the tip is the stored one, each
\* subsidy counts once, and the listed notes are those of blocks of that chain, each listed once
\* (NodeStore, CommitSink, NoteIndex), whatever was refused, failed or restarted before.
THEOREM ReadersSeeOneChain == SinkSpec => []ReadsSound
<1>1. SinkInit => SinkInv
  BY SinkStarts
<1>2. SinkInv /\ [SinkNext]_sinkVars => SinkInv'
  <2> SUFFICES ASSUME SinkInv, [SinkNext]_sinkVars PROVE SinkInv'
    OBVIOUS
  <2>1. CASE UNCHANGED sinkVars
    BY <2>1 DEF sinkVars, SinkInv, SinkTypes, RingPhases, NotePhases
  <2>2. CASE \E b \in Block : PushRing(b) \/ ClearRing(b)
    BY <2>2, PushRingKeeps, ClearRingKeeps
  <2>3. CASE Extend \/ NoteBlock \/ Prune
    BY <2>3, ExtendKeeps, NoteBlockKeeps, PruneKeeps
  <2>4. CASE Reorg \/ RefuseReorg \/ NoteBranch \/ RollbackNotes
    BY <2>4, ReorgKeeps, RefuseReorgKeeps, NoteBranchKeeps, RollbackNotesKeeps
  <2>5. CASE Fatal \/ Restart
    BY <2>5, FatalKeeps, RestartKeeps
  <2> QED
    BY <2>1, <2>2, <2>3, <2>4, <2>5 DEF SinkNext
<1>3. SinkInv => ReadsSound
  <2> SUFFICES ASSUME SinkInv PROVE ReadsSound
    OBVIOUS
  <2>1. SettledReads
    <3>1. height[stored] \in Nat
      BY TreeTypes DEF SinkInv, SinkTypes
    <3> QED
      BY <3>1 DEF SinkInv, RingPhases, SettledReads, Tip, Issued
  <2>2. NotesOnlyOfChain
    <3>1. notes \in [Block -> Nat]
      BY DEF SinkInv, SinkTypes
    <3> QED
      BY <3>1 DEF SinkInv, NotePhases, NotesOnlyOfChain, Listed
  <2> QED
    BY <2>1, <2>2 DEF ReadsSound
<1> QED
  BY <1>1, <1>2, <1>3, PTL DEF SinkSpec

-----------------------------------------------------------------------------
(* Segments, heights and prefixes of the chain.                            *)

\* The sizes, as the provers want them.
LEMMA CareNumbers ==
    /\ SegLen \in Nat /\ SegLen >= 2 /\ UndoKept \in Nat /\ UndoKept >= 2 /\ UndoKept <= SegLen
    /\ Retain \in Nat /\ UndoKept <= Retain + 1 /\ BlocksMax \in Nat /\ BlocksMax >= 1 /\ RollbackMax \in Nat
BY CareConstants

\* Where the segments begin and end.
LEMMA SegBounds ==
    ASSUME NEW s \in Int
    PROVE  FirstOf(s) \in Int /\ LastOf(s) \in Int /\ LastOf(s) = FirstOf(s) + SegLen - 1
BY CareNumbers DEF FirstOf, LastOf

\* Segments follow each other without overlap.
LEMMA SegOrder ==
    ASSUME NEW s \in Int, NEW t \in Int
    PROVE  (s < t <=> LastOf(s) < FirstOf(t)) /\ (s <= t <=> FirstOf(s) <= FirstOf(t))
<1>1. SegLen \in Nat /\ SegLen >= 2
  BY CareNumbers
<1>2. s * SegLen \in Int /\ t * SegLen \in Int
  BY <1>1
<1>3. ASSUME NEW a \in Int, NEW b \in Int, a < b
      PROVE  a * SegLen + SegLen <= b * SegLen
  <2>1. PICK d : d = b - a - 1
    OBVIOUS
  <2>2. d \in Nat /\ b = a + 1 + d
    BY <1>3, <2>1
  <2>3. d * SegLen \in Nat
    BY <1>1, <2>2
  <2>4. b * SegLen = a * SegLen + SegLen + d * SegLen
    BY <1>1, <2>2
  <2>5. a * SegLen \in Int
    BY <1>1
  <2> QED
    BY <1>1, <2>3, <2>4, <2>5
<1>4. s < t => s * SegLen + SegLen <= t * SegLen
  BY <1>3
<1>5. t < s => t * SegLen + SegLen <= s * SegLen
  BY <1>3
<1>6. s < t \/ s = t \/ t < s
  OBVIOUS
<1> QED
  BY <1>1, <1>2, <1>4, <1>5, <1>6 DEF FirstOf, LastOf

\* The segment of a height.
LEMMA SegOf ==
    ASSUME NEW h \in Nat
    PROVE  /\ seg_of(h) \in Nat
           /\ \A s \in Int : (s <= seg_of(h) <=> FirstOf(s) <= h) /\ (s >= seg_of(h) <=> h <= LastOf(s))
<1>1. PICK p, q : p = SegLen /\ q = h \div p
  OBVIOUS
<1>2. p \in Nat \ {0}
  BY <1>1, CareNumbers
<1>3. q \in Nat /\ q * p <= h /\ h < q * p + p
  BY <1>1, <1>2
<1>4. q = seg_of(h) /\ FirstOf(q) <= h /\ h <= LastOf(q)
  BY <1>1, <1>2, <1>3 DEF FirstOf, LastOf, seg_of
<1>5. ASSUME NEW s \in Int
      PROVE  (s <= q <=> FirstOf(s) <= h) /\ (s >= q <=> h <= LastOf(s))
  <2>1. FirstOf(s) \in Int /\ LastOf(s) \in Int /\ FirstOf(q) \in Int /\ LastOf(q) \in Int
    BY <1>3, SegBounds
  <2>2. s < q => LastOf(s) < FirstOf(q)
    BY <1>3, SegOrder
  <2>3. q < s => LastOf(q) < FirstOf(s)
    BY <1>3, SegOrder
  <2>4. LastOf(s) >= FirstOf(s)
    BY SegBounds, CareNumbers
  <2>5. s < q \/ s = q \/ q < s
    BY <1>3
  <2> QED
    BY <1>3, <1>4, <2>1, <2>2, <2>3, <2>4, <2>5
<1> QED
  BY <1>3, <1>4, <1>5

\* The sealed segments of a chain are those that end below its length.
LEMMA SealedIs ==
    ASSUME NEW w \in Nat
    PROVE  sealed_through(w) \in Int /\ \A s \in Int : s <= sealed_through(w) <=> LastOf(s) < w
<1>1. seg_of(w) \in Nat /\ \A s \in Int : s >= seg_of(w) <=> w <= LastOf(s)
  BY SegOf
<1>2. sealed_through(w) = seg_of(w) - 1
  BY DEF sealed_through, seg_of
<1>3. ASSUME NEW s \in Int
      PROVE  s <= sealed_through(w) <=> LastOf(s) < w
  <2>1. LastOf(s) \in Int
    BY SegBounds
  <2>2. s >= seg_of(w) <=> w <= LastOf(s)
    BY <1>1
  <2> QED
    BY <1>1, <1>2, <2>1, <2>2
<1> QED
  BY <1>1, <1>2, <1>3

\* The segments the model knows are those that begin at or below the bound.
LEMMA SegIs ==
    /\ Seg \subseteq Nat
    /\ \A s \in Nat : s \in Seg <=> FirstOf(s) <= BlocksMax
<1>1. Seg = 0..seg_of(BlocksMax)
  BY DEF Seg, seg_of
<1>2. seg_of(BlocksMax) \in Nat /\ \A s \in Int : s <= seg_of(BlocksMax) <=> FirstOf(s) <= BlocksMax
  BY CareNumbers, SegOf
<1> QED
  BY <1>1, <1>2

\* What a chain shares with a longer one, or with a branch from one of its blocks.
LEMMA PrefixAppend ==
    ASSUME NEW c \in Seq(Nat), NEW v \in Nat, NEW s \in Nat, LastOf(s) < Len(c)
    PROVE  Prefix(Append(c, v), s) = Prefix(c, s)
<1>1. LastOf(s) \in Int
  BY SegBounds
<1>2. PICK k : k = LastOf(s) + 1
  OBVIOUS
<1>3. k \in Int /\ k <= Len(c)
  BY <1>1, <1>2
<1>4. SubSeq(Append(c, v), 1, k) = SubSeq(c, 1, k)
  BY <1>3
<1> QED
  BY <1>2, <1>4 DEF Prefix

Branch(c, k, n, v) == SubSeq(c, 1, k) \o [i \in 1..n |-> v]

\* A branch keeps the kept blocks, and every segment that ends among them.
LEMMA BranchIs ==
    ASSUME NEW c \in Seq(Nat), NEW k \in 1..Len(c), NEW n \in Nat, NEW v \in Nat
    PROVE  /\ Branch(c, k, n, v) \in Seq(Nat) /\ Len(Branch(c, k, n, v)) = k + n
           /\ \A s \in Nat : LastOf(s) < k => Prefix(Branch(c, k, n, v), s) = Prefix(c, s)
<1>1. PICK a, b, d : a = SubSeq(c, 1, k) /\ b = [i \in 1..n |-> v] /\ d = Branch(c, k, n, v)
  OBVIOUS
<1>2. a \in Seq(Nat) /\ Len(a) = k /\ \A i \in 1..k : a[i] = c[i]
  BY <1>1
<1>3. b \in Seq(Nat) /\ Len(b) = n
  BY <1>1
<1>4. d = a \o b /\ d \in Seq(Nat) /\ Len(d) = k + n /\ \A i \in 1..k : d[i] = c[i]
  BY <1>1, <1>2, <1>3 DEF Branch
<1>5. ASSUME NEW s \in Nat, LastOf(s) < k
      PROVE  Prefix(d, s) = Prefix(c, s)
  <2>1. PICK j : j = LastOf(s) + 1
    OBVIOUS
  <2>2. j \in Int /\ j <= k
    <3>1. LastOf(s) \in Int
      BY SegBounds
    <3> QED
      BY <1>5, <2>1, <3>1
  <2>3. \A i \in 1..j : d[i] = c[i]
    <3> SUFFICES ASSUME NEW i \in 1..j PROVE d[i] = c[i]
      OBVIOUS
    <3>1. i \in 1..k
      BY <2>2
    <3> QED
      BY <1>4, <3>1
  <2>4. SubSeq(d, 1, j) = [i \in 1..j |-> d[i]] /\ SubSeq(c, 1, j) = [i \in 1..j |-> c[i]]
    BY <1>4, <2>2
  <2> QED
    BY <2>1, <2>3, <2>4 DEF Prefix
<1> QED
  BY <1>1, <1>4, <1>5

-----------------------------------------------------------------------------
(* The invariant of the store, and what it says of the vouching.           *)

CareSpec == CareInit /\ [][CareNext]_careVars

HeaderState == {"ok", "gone", "short", "alien", "torn", "edge"}
BodyState == {"ok", "gone", "short", "long", "alien", "mixed", "holed", "flip", "noside", "unlinked"}

\* A damaged range is in one segment, and that of a body reaches its end.
InOne(d) == /\ d.seg \in Seg /\ d.first \in Int /\ d.last \in Int
            /\ FirstOf(d.seg) <= d.first /\ d.first <= LastOf(d.seg)
            /\ FirstOf(d.seg) <= d.last /\ d.last <= LastOf(d.seg)
ToEnd(d) == InOne(d) /\ d.last = LastOf(d.seg)

CareTypes ==
    /\ chain \in Seq(Nat) /\ Len(chain) >= 1 /\ Len(chain) <= BlocksMax
    /\ hseg \in [Seg -> HeaderState] /\ bseg \in [Seg -> BodyState]
    /\ meta = [anchor |-> meta.anchor, floor |-> meta.floor, prune |-> meta.prune, undo |-> meta.undo]
    /\ mem = [header |-> mem.header, body |-> mem.body, vouch |-> mem.vouch, mint |-> mem.mint,
              through |-> mem.through, unlink |-> mem.unlink]
    /\ past = [covered |-> past.covered, unminted |-> past.unminted, exposed |-> past.exposed,
               reorgs |-> past.reorgs, opens |-> past.opens, faults |-> past.faults]
    /\ (\A d \in mem.header : InOne(d)) /\ (\A d \in mem.body : ToEnd(d)) /\ mem.mint \in BOOLEAN
    /\ mem.unlink \subseteq Seg /\ past.exposed \subseteq Seg /\ past.reorgs \in Nat

\* The floors and marks: pruning stays behind the undo rows, and those reach back UndoKept blocks.
Marks ==
    /\ meta.floor \in Nat /\ (mem.mint => meta.floor # NoFloor)
    /\ meta.prune \in Nat /\ meta.prune = FirstOf(seg_of(meta.prune))
    /\ meta.undo \in Nat /\ meta.prune <= meta.undo /\ meta.undo <= Len(chain)
    /\ Len(chain) - UndoKept <= meta.undo
    /\ mem.through = sealed_through(Len(chain))
    /\ mem.unlink \subseteq {s \in Seg : s < seg_of(meta.prune)}

\* Whatever is wrong with a segment or was said of it, no reorg can drop the segment whole any more.
OldOnly ==
    \A s \in Seg : \/ hseg[s] # "ok" \/ bseg[s] # "ok" \/ s \in past.covered \/ s \in past.exposed
                   \/ \E d \in mem.body : d.seg = s
                   => FirstOf(s) < meta.undo

\* A segment that was struck, and not rewritten since, has the chain go on above it.
BelowTop ==
    \A s \in Seg : /\ s >= seg_of(meta.prune) /\ s \notin past.covered
                   /\ bseg[s] # "ok" \/ hseg[s] \notin {"ok", "torn"}
                   => LastOf(s) + 1 < Len(chain)

\* The row of a segment that was good when it was sealed says so.
RowsFit ==
    \A s \in DOMAIN meta.anchor : s \notin past.covered => meta.anchor[s].geom = <<Prefix(chain, s), "ok", "ok">>

\* Every sealed segment that is kept has a row, or a reason to have none.
Rowed ==
    \A s \in Seg : s >= seg_of(meta.prune) /\ s <= sealed_through(Len(chain))
                   => s \in past.covered \cup past.unminted \cup DOMAIN meta.anchor

\* The one good segment that may be called damaged: it has no row though a later one does.
Told ==
    \A d \in mem.body : /\ d.seg \notin past.covered /\ hseg[d.seg] = "ok" /\ bseg[d.seg] = "ok"
                        => d.seg \in past.unminted /\ LastOf(d.seg) < meta.undo

\* A segment with damaged headers is judged by its headers first.
HeaderFirst ==
    \A d \in mem.header : \A e \in mem.body : e.seg = d.seg => bseg[d.seg] # "ok" \/ d.seg \in past.covered

\* What is neither covered, nor told as unverifiable or damaged, is good.
Vouched ==
    \A s \in Seg : s >= seg_of(meta.prune) /\ s <= sealed_through(Len(chain))
         => \/ s \in past.covered \/ s \in mem.vouch \/ bseg[s] \in {"ok", "flip", "long"}
            \/ \E d \in mem.body : d.seg = s

Judged == OldOnly /\ BelowTop /\ RowsFit /\ Rowed /\ Told /\ HeaderFirst /\ Vouched
CareInv == CareTypes /\ Marks /\ AnchorsSound /\ Judged

\* Which segments a span hurts and covers.
LEMMA HurtsIs ==
    ASSUME NEW D, \A d \in D : InOne(d), NEW s \in Int
    PROVE  Hurts(D, s) <=> \E d \in D : d.seg = s
<1>1. ASSUME NEW d \in D
      PROVE  d.first <= LastOf(s) /\ d.last >= FirstOf(s) <=> d.seg = s
  <2>1. /\ d.seg \in Int /\ d.first \in Int /\ d.last \in Int
        /\ FirstOf(d.seg) <= d.first /\ d.first <= LastOf(d.seg) /\ FirstOf(d.seg) <= d.last /\ d.last <= LastOf(d.seg)
    <3>1. InOne(d)
      BY <1>1
    <3>2. d.seg \in Seg /\ Seg \subseteq Int
      BY <3>1, SegIs DEF InOne
    <3> QED
      BY <3>1, <3>2 DEF InOne
  <2>2. FirstOf(s) \in Int /\ LastOf(s) \in Int /\ FirstOf(d.seg) \in Int /\ LastOf(d.seg) \in Int
    BY <2>1, SegBounds
  <2>3. (s < d.seg => LastOf(s) < FirstOf(d.seg)) /\ (d.seg < s => LastOf(d.seg) < FirstOf(s))
    BY <2>1, SegOrder
  <2>4. s < d.seg \/ s = d.seg \/ d.seg < s
    BY <2>1
  <2>5. CASE s = d.seg
    BY <2>1, <2>2, <2>5
  <2>6. CASE s < d.seg
    BY <2>1, <2>2, <2>3, <2>6
  <2>7. CASE d.seg < s
    BY <2>1, <2>2, <2>3, <2>7
  <2> QED
    BY <2>4, <2>5, <2>6, <2>7
<1> QED
  BY <1>1 DEF Hurts

\* What is verified is sealed and kept, not covered by a span, and vouched for.
LEMMA VerifiedIs ==
    ASSUME CareTypes, Marks, NEW s \in Seg, Verified(s)
    PROVE  /\ s >= seg_of(meta.prune) /\ s <= sealed_through(Len(chain)) /\ s \notin mem.vouch
           /\ ~ \E d \in mem.body : d.seg = s
<1>1. s \in Int
  BY SegIs
<1>2. FirstOf(s) \in Int /\ LastOf(s) \in Int
  BY <1>1, SegBounds
<1>3. FirstOf(s) >= 0
  BY <1>1, SegIs, CareNumbers DEF FirstOf
<1>4. PICK h, l : h = FirstOf(s) /\ l = LastOf(s)
  OBVIOUS
<1>5. body_availability(h) = "verified" /\ body_availability(l) = "verified"
  BY <1>4 DEF Verified
<1>6. /\ ~(h >= Len(chain)) /\ ~Covers(mem.body, h) /\ ~(h < meta.prune)
      /\ ~(seg_of(h) > sealed_through(Len(chain))) /\ ~(seg_of(h) \in mem.vouch)
  BY <1>5 DEF body_availability
<1>7. ~Covers(mem.body, l)
  BY <1>5 DEF body_availability
<1>8. seg_of(h) = s
  <2>1. h \in Nat /\ s <= seg_of(h) /\ s >= seg_of(h) /\ seg_of(h) \in Nat
    <3>1. h \in Nat
      BY <1>2, <1>3, <1>4
    <3>2. FirstOf(s) <= h /\ h <= LastOf(s)
      BY <1>2, <1>4, <1>1, SegBounds, CareNumbers
    <3> QED
      BY <1>1, <3>1, <3>2, SegOf
  <2> QED
    BY <1>1, <2>1
<1>9. s >= seg_of(meta.prune)
  <2>1. PICK p : p = meta.prune
    OBVIOUS
  <2>2. p \in Nat /\ p <= h
    BY <1>2, <1>4, <1>6, <2>1 DEF Marks
  <2>3. p <= LastOf(s)
    BY <1>1, <1>2, <1>4, <2>2, SegBounds, CareNumbers
  <2> QED
    BY <1>1, <2>1, <2>2, <2>3, SegOf
<1>10. ~ \E d \in mem.body : d.seg = s
  <2> SUFFICES ASSUME NEW d \in mem.body, d.seg = s
               PROVE  FALSE
    OBVIOUS
  <2>1. d.first \in Int /\ d.last \in Int /\ d.first <= l /\ d.last = l
    BY <1>4 DEF CareTypes, ToEnd, InOne
  <2>2. l \in d.first..d.last
    BY <1>2, <1>4, <2>1
  <2> QED
    BY <1>7, <2>2 DEF Covers
<1>11. sealed_through(Len(chain)) \in Int
  <2>1. PICK w : w = Len(chain)
    OBVIOUS
  <2>2. w \in Nat
    BY <2>1 DEF CareTypes
  <2> QED
    BY <2>1, <2>2, SealedIs
<1> QED
  BY <1>1, <1>6, <1>8, <1>9, <1>10, <1>11

\* The invariant implies the property.
LEMMA CareHolds == CareInv => CareSound
<1> SUFFICES ASSUME CareInv PROVE CareSound
  OBVIOUS
<1>1. CareTypes /\ Marks /\ AnchorsSound /\ OldOnly /\ BelowTop /\ Told /\ Vouched
  BY DEF CareInv, Judged
<1>2. VouchSound
  BY <1>1, VerifiedIs DEF VouchSound, Vouched
<1>3. IntactServed
  <2> SUFFICES ASSUME NEW s \in Seg, s \notin past.covered, s \notin past.unminted,
                      bseg[s] = "ok", hseg[s] = "ok", Hurts(mem.body, s)
               PROVE  FALSE
    BY DEF IntactServed
  <2>1. PICK D : D = mem.body
    OBVIOUS
  <2>2. (\A d \in D : InOne(d)) /\ s \in Int
    BY <1>1, <2>1, SegIs DEF CareTypes, ToEnd
  <2>3. \E d \in D : d.seg = s
    BY <2>1, <2>2, HurtsIs
  <2> QED
    BY <1>1, <2>1, <2>3 DEF Told
<1> QED
  BY <1>1, <1>2, <1>3 DEF CareSound

-----------------------------------------------------------------------------
(* What a commit does to the anchor rows.                                  *)

\* The larger and the smaller of two numbers.
LEMMA MaxTwo ==
    ASSUME NEW a \in Int, NEW b \in Int
    PROVE  Max({a, b}) \in {a, b} /\ Max({a, b}) >= a /\ Max({a, b}) >= b
<1>1. \E x \in {a, b} : \A y \in {a, b} : x >= y
  <2>1. CASE a >= b
    BY <2>1
  <2>2. CASE b >= a
    BY <2>2
  <2> QED
    BY <2>1, <2>2
<1> QED
  BY <1>1 DEF Max

LEMMA MinTwo ==
    ASSUME NEW a \in Int, NEW b \in Int
    PROVE  Min({a, b}) \in {a, b} /\ Min({a, b}) <= a /\ Min({a, b}) <= b
<1>1. \E x \in {a, b} : \A y \in {a, b} : x =< y
  <2>1. CASE a >= b
    BY <2>1
  <2>2. CASE b >= a
    BY <2>2
  <2> QED
    BY <2>1, <2>2
<1> QED
  BY <1>1 DEF Min

\* What a row says of a segment.
LEMMA GeomIs ==
    ASSUME NEW c, NEW H, NEW B, NEW s
    PROVE  /\ geom(c, H, B, s)[1] = Prefix(c, s)
           /\ geom(c, H, B, s) = <<Prefix(c, s), "ok", "ok">>
                 <=> H[s] \in {"ok", "torn"} /\ B[s] \in {"ok", "long", "flip"}
<1>1. geom(c, H, B, s) = <<Prefix(c, s), IF H[s] = "torn" THEN "ok" ELSE H[s],
                           IF B[s] \in {"long", "flip"} THEN "ok" ELSE B[s]>>
  BY DEF geom
<1>2. (IF H[s] = "torn" THEN "ok" ELSE H[s]) = "ok" <=> H[s] \in {"ok", "torn"}
  OBVIOUS
<1>3. (IF B[s] \in {"long", "flip"} THEN "ok" ELSE B[s]) = "ok" <=> B[s] \in {"ok", "long", "flip"}
  OBVIOUS
<1>4. PICK p, x, y : /\ p = Prefix(c, s) /\ x = (IF H[s] = "torn" THEN "ok" ELSE H[s])
                     /\ y = (IF B[s] \in {"long", "flip"} THEN "ok" ELSE B[s])
  OBVIOUS
<1>5. geom(c, H, B, s) = <<p, x, y>>
  BY <1>1, <1>4, Zenon
<1>6. <<p, x, y>>[1] = p /\ (<<p, x, y>> = <<p, "ok", "ok">> <=> x = "ok" /\ y = "ok")
  OBVIOUS
<1> QED
  BY <1>2, <1>3, <1>4, <1>5, <1>6, Zenon

\* A floor at the start of a segment divides the segments as it divides their heights.
LEMMA FloorSeg ==
    ASSUME NEW p \in Nat, p = FirstOf(seg_of(p)), NEW s \in Int
    PROVE  /\ seg_of(p) \in Nat
           /\ FirstOf(s) >= p <=> s >= seg_of(p)
           /\ s < seg_of(p) <=> LastOf(s) < p
<1>1. seg_of(p) \in Nat
  BY SegOf
<1>2. seg_of(p) <= s <=> FirstOf(seg_of(p)) <= FirstOf(s)
  BY <1>1, SegOrder
<1>3. s < seg_of(p) <=> LastOf(s) < FirstOf(seg_of(p))
  BY <1>1, SegOrder
<1>4. FirstOf(s) \in Int /\ LastOf(s) \in Int
  BY SegBounds
<1> QED
  BY <1>1, <1>2, <1>3, <1>4

Fields(m) == m = [anchor |-> m.anchor, floor |-> m.floor, prune |-> m.prune, undo |-> m.undo]

\* A row the commit mints.
Minted(r, m, t, mint, c, H, B, s) ==
    /\ s \in Seg /\ t < s /\ s <= sealed_through(Len(c)) /\ s >= seg_of(m.prune) /\ mint
    /\ r.anchor[s].geom = geom(c, H, B, s)

\* What the commit that passes a segment does to the rows.
LEMMA SyncIs ==
    ASSUME NEW m, NEW t \in Int, NEW mint \in BOOLEAN, NEW c \in Seq(Nat), NEW H, NEW B,
           t <= sealed_through(Len(c)), m.prune \in Nat, m.prune = FirstOf(seg_of(m.prune)),
           Fields(m), NEW r, r = anchor_sync(m, t, mint, c, H, B)
    PROVE  /\ Fields(r) /\ r.floor = m.floor /\ r.prune = m.prune /\ r.undo = m.undo
           /\ \A s \in DOMAIN r.anchor : \/ s \in DOMAIN m.anchor /\ r.anchor[s] = m.anchor[s]
                                         \/ Minted(r, m, t, mint, c, H, B, s)
           /\ \A s \in DOMAIN m.anchor : s \in DOMAIN r.anchor
           /\ \A s \in Seg : /\ t < s /\ s <= sealed_through(Len(c)) /\ s >= seg_of(m.prune)
                             /\ mint /\ m.floor # NoFloor /\ computable(H, B, s)
                             => s \in DOMAIN r.anchor
<1> DEFINE new == {s \in Seg : /\ s \in (t + 1)..sealed_through(Len(c))
                               /\ mint /\ m.floor # NoFloor
                               /\ FirstOf(s) >= m.prune /\ computable(H, B, s)}
           row(s) == [grade |-> IF FirstOf(s) >= m.floor THEN "sealed_here" ELSE "unchanged_since",
                      geom |-> geom(c, H, B, s), intact |-> B[s] # "flip"]
           A == [s \in DOMAIN m.anchor \cup new |-> IF s \in DOMAIN m.anchor THEN m.anchor[s] ELSE row(s)]
<1>1. sealed_through(Len(c)) \in Int
  BY SealedIs
<1>2. ~(sealed_through(Len(c)) < t)
  BY <1>1
<1>3. r = [m EXCEPT !.anchor = A]
  BY <1>2, Zenon DEF anchor_sync
<1>4. \A s \in Seg : s \in new <=> /\ t < s /\ s <= sealed_through(Len(c)) /\ s >= seg_of(m.prune)
                                   /\ mint /\ m.floor # NoFloor /\ computable(H, B, s)
  <2> SUFFICES ASSUME NEW s \in Seg
               PROVE  s \in new <=> /\ t < s /\ s <= sealed_through(Len(c)) /\ s >= seg_of(m.prune)
                                    /\ mint /\ m.floor # NoFloor /\ computable(H, B, s)
    OBVIOUS
  <2>1. s \in Int
    BY SegIs
  <2>2. FirstOf(s) >= m.prune <=> s >= seg_of(m.prune)
    BY <2>1, FloorSeg
  <2>3. s \in (t + 1)..sealed_through(Len(c)) <=> t < s /\ s <= sealed_through(Len(c))
    BY <1>1, <2>1
  <2> QED
    BY <2>2, <2>3, Zenon
<1>5. new \subseteq Seg
  OBVIOUS
<1>6. \A s \in new : row(s).geom = geom(c, H, B, s)
  OBVIOUS
<1> HIDE DEF new, row
<1>7. DOMAIN A = DOMAIN m.anchor \cup new
  OBVIOUS
<1>8. \A s \in DOMAIN A : A[s] = IF s \in DOMAIN m.anchor THEN m.anchor[s] ELSE row(s)
  OBVIOUS
<1> HIDE DEF A
<1>9. r.anchor = A /\ Fields(r) /\ r.floor = m.floor /\ r.prune = m.prune /\ r.undo = m.undo
  <2>1. PICK a, b, p, u : a = m.anchor /\ b = m.floor /\ p = m.prune /\ u = m.undo
    OBVIOUS
  <2>2. m = [anchor |-> a, floor |-> b, prune |-> p, undo |-> u]
    BY <2>1, Zenon DEF Fields
  <2>3. r = [anchor |-> A, floor |-> b, prune |-> p, undo |-> u]
    BY <1>3, <2>2
  <2> QED
    BY <2>1, <2>3 DEF Fields
<1>10. ASSUME NEW s \in DOMAIN r.anchor
       PROVE  \/ s \in DOMAIN m.anchor /\ r.anchor[s] = m.anchor[s]
              \/ Minted(r, m, t, mint, c, H, B, s)
  <2>1. CASE s \in DOMAIN m.anchor
    BY <1>7, <1>8, <1>9, <2>1, Zenon
  <2>2. CASE s \notin DOMAIN m.anchor
    <3>1. s \in new /\ A[s] = row(s)
      BY <1>7, <1>8, <1>9, <2>2, Zenon
    <3>2. A[s].geom = geom(c, H, B, s)
      BY <1>6, <3>1, Zenon
    <3> QED
      BY <1>4, <1>5, <1>9, <3>1, <3>2, Zenon DEF Minted
  <2> QED
    BY <2>1, <2>2
<1>11. \A s \in DOMAIN m.anchor : s \in DOMAIN r.anchor
  BY <1>7, <1>9, Zenon
<1>12. \A s \in new : s \in DOMAIN r.anchor
  BY <1>7, <1>9, Zenon
<1> QED
  BY <1>4, <1>9, <1>10, <1>11, <1>12, Zenon

-----------------------------------------------------------------------------
(* The small steps.                                                        *)

\* A segment below the prune floor is below the undo rows.
LEMMA OutOfIt ==
    ASSUME CareInv, NEW s \in Int, s < seg_of(meta.prune)
    PROVE  FirstOf(s) < meta.undo /\ LastOf(s) < meta.undo
<1>1. PICK p, u : p = meta.prune /\ u = meta.undo
  OBVIOUS
<1>2. p \in Nat /\ u \in Nat /\ p <= u /\ p = FirstOf(seg_of(p)) /\ s < seg_of(p)
  BY <1>1 DEF CareInv, Marks
<1>3. LastOf(s) < p
  BY <1>2, FloorSeg
<1>4. FirstOf(s) \in Int /\ LastOf(s) \in Int /\ LastOf(s) >= FirstOf(s)
  BY SegBounds, CareNumbers
<1> QED
  BY <1>1, <1>2, <1>3, <1>4

\* Nothing but the sweep, or nothing at all, changes.
LEMMA RestKeeps ==
    ASSUME CareInv, UNCHANGED <<chain, hseg, bseg, meta, mem, past>>
    PROVE  CareInv'
<1>1. CareTypes' /\ Marks'
  BY Zenon DEF CareInv, CareTypes, Marks
<1>2. AnchorsSound'
  BY Zenon DEF CareInv, AnchorsSound
<1>3. Judged'
  BY Zenon DEF CareInv, Judged, OldOnly, BelowTop, RowsFit, Rowed, Told, HeaderFirst, Vouched
<1> QED
  BY <1>1, <1>2, <1>3, Zenon DEF CareInv

\* A step of the sweep changes nothing the invariant speaks of.
LEMMA SweepKeeps ==
    ASSUME CareInv, SweepStep
    PROVE  CareInv'
BY RestKeeps DEF SweepStep

\* A fault on disk strikes one old segment.
LEMMA RotKeeps ==
    ASSUME CareInv, NEW s \in Seg, Rot(s)
    PROVE  CareInv'
<1>1. /\ s \in past.exposed /\ hseg[s] = "ok" /\ hseg' = [hseg EXCEPT ![s] = "torn"]
      /\ past' = [past EXCEPT !.faults = @ + 1] /\ UNCHANGED <<chain, bseg, meta, mem>>
  BY DEF Rot
<1>2. CareTypes
  BY DEF CareInv
<1>3. hseg \in [Seg -> HeaderState]
  BY <1>2 DEF CareTypes
<1>4. /\ hseg' \in [Seg -> HeaderState]
      /\ \A x \in Seg : hseg'[x] = IF x = s THEN "torn" ELSE hseg[x]
  BY <1>1, <1>3 DEF HeaderState
<1>5. /\ past'.covered = past.covered /\ past'.unminted = past.unminted /\ past'.exposed = past.exposed
      /\ past'.reorgs = past.reorgs
      /\ past' = [covered |-> past'.covered, unminted |-> past'.unminted, exposed |-> past'.exposed,
                  reorgs |-> past'.reorgs, opens |-> past'.opens, faults |-> past'.faults]
  <2>1. PICK a, b, e, r, o, f : past = [covered |-> a, unminted |-> b, exposed |-> e,
                                        reorgs |-> r, opens |-> o, faults |-> f]
    BY <1>2 DEF CareTypes
  <2>2. past' = [covered |-> a, unminted |-> b, exposed |-> e, reorgs |-> r, opens |-> o, faults |-> f + 1]
    BY <1>1, <2>1
  <2> QED
    BY <2>1, <2>2
<1>6. CareTypes'
  BY <1>1, <1>2, <1>4, <1>5 DEF CareTypes
<1>7. Marks' /\ AnchorsSound'
  BY <1>1, Zenon DEF CareInv, Marks, AnchorsSound
<1>8. OldOnly' /\ BelowTop'
  BY <1>1, <1>4, <1>5 DEF CareInv, Judged, OldOnly, BelowTop
<1>9. Told'
  BY <1>1, <1>4, <1>5, <1>2 DEF CareInv, Judged, Told, CareTypes, ToEnd, InOne
<1>10. RowsFit' /\ Rowed' /\ HeaderFirst' /\ Vouched'
  BY <1>1, <1>5, Zenon DEF CareInv, Judged, RowsFit, Rowed, HeaderFirst, Vouched
<1> QED
  BY <1>6, <1>7, <1>8, <1>9, <1>10 DEF CareInv, Judged

\* The unlinking of one pruned segment.
LEMMA UnlinkKeeps ==
    ASSUME CareInv, NEW s \in Seg, Unlink(s)
    PROVE  CareInv'
<1>1. /\ s \in mem.unlink /\ bseg' = [bseg EXCEPT ![s] = "unlinked"]
      /\ mem' = [mem EXCEPT !.unlink = @ \ {s}] /\ UNCHANGED <<chain, hseg, meta, past>>
  BY DEF Unlink
<1>2. CareTypes /\ Marks /\ AnchorsSound /\ Judged
  BY DEF CareInv
<1>3. /\ bseg' \in [Seg -> BodyState]
      /\ \A x \in Seg : bseg'[x] = IF x = s THEN "unlinked" ELSE bseg[x]
  BY <1>1, <1>2 DEF CareTypes, BodyState
<1>4. /\ mem'.header = mem.header /\ mem'.body = mem.body /\ mem'.vouch = mem.vouch /\ mem'.mint = mem.mint
      /\ mem'.through = mem.through /\ mem'.unlink = mem.unlink \ {s}
      /\ mem' = [header |-> mem'.header, body |-> mem'.body, vouch |-> mem'.vouch, mint |-> mem'.mint,
                 through |-> mem'.through, unlink |-> mem'.unlink]
  <2>1. PICK a, b, e, r, o, f : mem = [header |-> a, body |-> b, vouch |-> e, mint |-> r, through |-> o, unlink |-> f]
    BY <1>2 DEF CareTypes
  <2>2. mem' = [header |-> a, body |-> b, vouch |-> e, mint |-> r, through |-> o, unlink |-> f \ {s}]
    BY <1>1, <2>1
  <2> QED
    BY <2>1, <2>2
<1>5. s \in Int /\ s < seg_of(meta.prune) /\ FirstOf(s) < meta.undo
  <2>1. s \in Int /\ s < seg_of(meta.prune)
    BY <1>1, <1>2, SegIs DEF Marks
  <2> QED
    BY <2>1, OutOfIt
<1>5a. seg_of(meta.prune) \in Nat
  <2>1. PICK p : p = meta.prune
    OBVIOUS
  <2>2. p \in Nat
    BY <1>2, <2>1 DEF Marks
  <2> QED
    BY <2>1, <2>2, SegOf
<1>5b. ~(s >= seg_of(meta.prune))
  BY <1>5, <1>5a
<1>6. CareTypes'
  BY <1>1, <1>2, <1>3, <1>4 DEF CareTypes
<1>7. Marks'
  BY <1>1, <1>2, <1>4 DEF Marks
<1>8. AnchorsSound'
  <2>1. \A x \in 0..(seg_of(meta.prune) - 1) : bseg'[x] = "unlinked" \/ x \in mem'.unlink
    <3> SUFFICES ASSUME NEW x \in 0..(seg_of(meta.prune) - 1)
                 PROVE  bseg'[x] = "unlinked" \/ x \in mem'.unlink
      OBVIOUS
    <3>1. bseg[x] = "unlinked" \/ x \in mem.unlink
      BY <1>2 DEF AnchorsSound
    <3>2. x = s => bseg'[x] = "unlinked"
      BY <1>3
    <3>3. x # s => bseg'[x] = bseg[x]
      BY <1>1, <1>2 DEF CareTypes
    <3> QED
      BY <1>4, <3>1, <3>2, <3>3
  <2>2. \A x \in seg_of(meta.prune)..seg_of(BlocksMax) : bseg'[x] # "unlinked"
    <3> SUFFICES ASSUME NEW x \in seg_of(meta.prune)..seg_of(BlocksMax)
                 PROVE  bseg'[x] # "unlinked"
      OBVIOUS
    <3>1. x # s
      BY <1>5, <1>5a
    <3>2. bseg'[x] = bseg[x]
      BY <1>1, <1>2, <3>1 DEF CareTypes
    <3> QED
      BY <1>2, <3>2 DEF AnchorsSound
  <2> QED
    BY <1>1, <1>2, <2>1, <2>2 DEF AnchorsSound
<1>9. OldOnly'
  BY <1>1, <1>2, <1>3, <1>4, <1>5, Zenon DEF Judged, OldOnly
<1>10. BelowTop'
  BY <1>1, <1>2, <1>3, <1>4, <1>5b, Zenon DEF Judged, BelowTop
<1>11. RowsFit' /\ Rowed'
  BY <1>1, <1>2, Zenon DEF Judged, RowsFit, Rowed
<1>12. Told'
  <2>1. \A d \in mem.body : d.seg \in Seg
    BY <1>2 DEF CareTypes, ToEnd, InOne
  <2> QED
    BY <1>1, <1>2, <1>3, <1>4, <2>1 DEF Judged, Told
<1>13. HeaderFirst'
  <2>1. \A d \in mem.header : d.seg \in Seg
    BY <1>2 DEF CareTypes, InOne
  <2> QED
    BY <1>1, <1>2, <1>3, <1>4, <2>1 DEF Judged, HeaderFirst
<1>14. Vouched'
  BY <1>1, <1>2, <1>3, <1>4, <1>5b, Zenon DEF Judged, Vouched
<1> QED
  BY <1>6, <1>7, <1>8, <1>9, <1>10, <1>11, <1>12, <1>13, <1>14 DEF CareInv, Judged

\* The repair of damaged headers keeps what is known of the segment.
LEMMA RepairKeeps ==
    ASSUME CareInv, NEW d \in mem.header, Repair(d)
    PROVE  CareInv'
<1>1. /\ hseg' = [hseg EXCEPT ![d.seg] = IF (d.first = FirstOf(d.seg) /\ d.last = LastOf(d.seg)) \/ @ = "short"
                                         THEN "ok" ELSE @]
      /\ mem' = [mem EXCEPT !.header = @ \ {d}] /\ UNCHANGED <<chain, bseg, meta, past>>
  BY DEF Repair
<1>2. CareTypes /\ Marks /\ AnchorsSound /\ Judged
  BY DEF CareInv
<1>3. /\ hseg' \in [Seg -> HeaderState]
      /\ \A x \in Seg : hseg'[x] = hseg[x] \/ (x = d.seg /\ hseg'[x] = "ok")
  <2>1. hseg \in [Seg -> HeaderState] /\ d.seg \in Seg /\ "ok" \in HeaderState
    BY <1>2 DEF CareTypes, InOne, HeaderState
  <2>2. PICK y \in HeaderState : hseg' = [hseg EXCEPT ![d.seg] = y] /\ (y = hseg[d.seg] \/ y = "ok")
    BY <1>1, <2>1
  <2> QED
    BY <2>1, <2>2
<1>4. /\ mem'.header = mem.header \ {d} /\ mem'.body = mem.body /\ mem'.vouch = mem.vouch /\ mem'.mint = mem.mint
      /\ mem'.through = mem.through /\ mem'.unlink = mem.unlink
      /\ mem' = [header |-> mem'.header, body |-> mem'.body, vouch |-> mem'.vouch, mint |-> mem'.mint,
                 through |-> mem'.through, unlink |-> mem'.unlink]
  <2>1. PICK a, b, e, r, o, f : mem = [header |-> a, body |-> b, vouch |-> e, mint |-> r, through |-> o, unlink |-> f]
    BY <1>2 DEF CareTypes
  <2>2. mem' = [header |-> a \ {d}, body |-> b, vouch |-> e, mint |-> r, through |-> o, unlink |-> f]
    BY <1>1, <2>1
  <2> QED
    BY <2>1, <2>2
<1>5. CareTypes'
  BY <1>1, <1>2, <1>3, <1>4 DEF CareTypes
<1>6. Marks' /\ AnchorsSound'
  BY <1>1, <1>2, <1>4, Zenon DEF Marks, AnchorsSound
<1>7. OldOnly' /\ BelowTop'
  BY <1>1, <1>2, <1>3, <1>4 DEF Judged, OldOnly, BelowTop
<1>8. RowsFit' /\ Rowed' /\ HeaderFirst' /\ Vouched'
  <2>1. RowsFit' /\ Rowed' /\ Vouched'
    BY <1>1, <1>2, <1>4, Zenon DEF Judged, RowsFit, Rowed, Vouched
  <2>2. HeaderFirst'
    BY <1>1, <1>2, <1>4 DEF Judged, HeaderFirst
  <2> QED
    BY <2>1, <2>2
<1>9. Told'
  <2> SUFFICES ASSUME NEW e \in mem.body, e.seg \notin past.covered, hseg'[e.seg] = "ok", bseg[e.seg] = "ok"
               PROVE  e.seg \in past.unminted /\ LastOf(e.seg) < meta.undo
    BY <1>1, <1>4 DEF Told
  <2>1. e.seg # d.seg
    BY <1>2 DEF Judged, HeaderFirst
  <2>2. e.seg \in Seg
    BY <1>2 DEF CareTypes, ToEnd, InOne
  <2>3. hseg[e.seg] = "ok"
    BY <1>3, <2>1, <2>2
  <2> QED
    BY <1>2, <2>3 DEF Judged, Told
<1> QED
  BY <1>5, <1>6, <1>7, <1>8, <1>9 DEF CareInv, Judged

-----------------------------------------------------------------------------
(* The commit of a block.                                                  *)

MemFields(m) == m = [header |-> m.header, body |-> m.body, vouch |-> m.vouch, mint |-> m.mint,
                     through |-> m.through, unlink |-> m.unlink]
PastFields(p) == p = [covered |-> p.covered, unminted |-> p.unminted, exposed |-> p.exposed,
                      reorgs |-> p.reorgs, opens |-> p.opens, faults |-> p.faults]

\* Pushing the undo rows moves their floor, and only forward.
LEMMA PushIs ==
    ASSUME NEW m, Fields(m), NEW c \in Seq(Nat), m.undo \in Nat, m.undo <= Len(c), NEW r, r = PushUndoRows(m, c)
    PROVE  /\ Fields(r) /\ r.anchor = m.anchor /\ r.floor = m.floor /\ r.prune = m.prune
           /\ r.undo \in Nat /\ m.undo <= r.undo /\ r.undo <= Len(c) /\ Len(c) - UndoKept <= r.undo
<1>1. PICK a, b, p, u, n, k : a = m.anchor /\ b = m.floor /\ p = m.prune /\ u = m.undo /\ n = Len(c) /\ k = UndoKept
  OBVIOUS
<1>2. u \in Nat /\ n \in Nat /\ u <= n /\ k \in Nat
  BY <1>1, CareNumbers
<1>3. PICK v : v = Max({u, n - k})
  OBVIOUS
<1>4. v \in {u, n - k} /\ v >= u /\ v >= n - k
  <2>1. PICK x : x = n - k
    OBVIOUS
  <2>2. x \in Int /\ v = Max({u, x}) /\ u \in Int
    BY <1>2, <1>3, <2>1
  <2> QED
    BY <2>1, <2>2, MaxTwo
<1>5. v \in Nat /\ u <= v /\ v <= n /\ n - k <= v
  BY <1>2, <1>4
<1>6. m = [anchor |-> a, floor |-> b, prune |-> p, undo |-> u]
  BY <1>1, Zenon DEF Fields
<1>7. r = [m EXCEPT !.undo = v]
  BY <1>1, <1>3 DEF PushUndoRows
<1>8. r = [anchor |-> a, floor |-> b, prune |-> p, undo |-> v]
  BY <1>6, <1>7
<1> QED
  BY <1>1, <1>5, <1>8 DEF Fields

\* What a block more does to the marks, the rows and the damage that is told.
Extended(q) ==
    /\ chain' \in Seq(Nat) /\ Len(chain') = Len(chain) + 1 /\ Len(chain') <= BlocksMax
    /\ chain' = Append(chain, past.reorgs) /\ mem.unlink = {}
    /\ UNCHANGED <<hseg, bseg>>
    /\ Fields(meta') /\ MemFields(mem') /\ PastFields(past')
    /\ meta'.floor = meta.floor /\ meta'.prune = q /\ q \in Nat /\ q = FirstOf(seg_of(q)) /\ meta.prune <= q
    /\ meta'.undo \in Nat /\ meta.undo <= meta'.undo /\ meta'.undo <= Len(chain') /\ q <= meta'.undo
    /\ Len(chain') - UndoKept <= meta'.undo
    /\ \A s \in DOMAIN meta'.anchor :
          /\ s \in DOMAIN meta.anchor \/ s \in Seg
          /\ s \in Int /\ s >= seg_of(q)
          /\ \/ s \in DOMAIN meta.anchor /\ meta'.anchor[s] = meta.anchor[s]
             \/ /\ s \in Seg /\ mem.through < s /\ s <= sealed_through(Len(chain'))
                /\ meta'.anchor[s].geom = geom(chain', hseg, bseg, s)
    /\ \A s \in Seg : /\ s >= seg_of(q)
                      /\ \/ s \in DOMAIN meta.anchor
                         \/ /\ mem.through < s /\ s <= sealed_through(Len(chain'))
                            /\ mem.mint /\ computable(hseg, bseg, s)
                      => s \in DOMAIN meta'.anchor
    /\ mem'.header = mem.header /\ mem'.vouch = mem.vouch /\ mem'.mint = mem.mint
    /\ mem'.through = sealed_through(Len(chain'))
    /\ mem'.unlink = seg_of(meta.prune)..(seg_of(q) - 1)
    /\ mem'.body \subseteq mem.body /\ \A d \in mem.body : d.last >= q => d \in mem'.body
    /\ past'.covered = past.covered /\ past'.exposed = past.exposed /\ past'.reorgs = past.reorgs
    /\ past'.unminted = IF mem.mint THEN past.unminted
                        ELSE past.unminted \cup ((mem.through + 1)..sealed_through(Len(chain')))

\* Which segments of the chain are sealed, and which are pruned.
LEMMA SegsFit ==
    ASSUME CareInv
    PROVE  /\ seg_of(meta.prune) \in Nat /\ sealed_through(Len(chain)) \in Int /\ Len(chain) \in Nat
           /\ \A s \in Int : /\ s <= sealed_through(Len(chain)) <=> LastOf(s) < Len(chain)
                             /\ FirstOf(s) >= meta.prune <=> s >= seg_of(meta.prune)
                             /\ s < seg_of(meta.prune) <=> LastOf(s) < meta.prune
                             /\ FirstOf(s) \in Int /\ LastOf(s) \in Int /\ LastOf(s) = FirstOf(s) + SegLen - 1
<1>1. PICK p, n : p = meta.prune /\ n = Len(chain)
  OBVIOUS
<1>2. p \in Nat /\ p = FirstOf(seg_of(p)) /\ n \in Nat
  BY <1>1 DEF CareInv, Marks, CareTypes
<1>3. seg_of(p) \in Nat /\ \A s \in Int : (FirstOf(s) >= p <=> s >= seg_of(p)) /\ (s < seg_of(p) <=> LastOf(s) < p)
  BY <1>2, FloorSeg, SegOf
<1>4. sealed_through(n) \in Int /\ \A s \in Int : s <= sealed_through(n) <=> LastOf(s) < n
  BY <1>2, SealedIs
<1> QED
  BY <1>1, <1>2, <1>3, <1>4, SegBounds

\* The commit of one block, from the code.
LEMMA ExtendIs ==
    ASSUME CareInv, ExtendStore
    PROVE  \E q \in Nat : Extended(q)
<1>1. /\ CareTypes /\ Marks /\ AnchorsSound
  BY DEF CareInv
<1>2. PICK n, p, u, c : n = Len(chain) /\ p = meta.prune /\ u = meta.undo /\ c = chain'
  OBVIOUS
<1>3. /\ n \in Nat /\ p \in Nat /\ u \in Nat /\ p <= u /\ u <= n /\ p = FirstOf(seg_of(p))
      /\ mem.unlink = {} /\ n < BlocksMax /\ c = Append(chain, past.reorgs) /\ UNCHANGED <<hseg, bseg>>
  BY <1>1, <1>2 DEF CareTypes, Marks, ExtendStore, Idle
<1>4. c \in Seq(Nat) /\ Len(c) = n + 1 /\ n + 1 <= BlocksMax
  BY <1>1, <1>2, <1>3, CareNumbers DEF CareTypes
<1>5. PICK m0 : m0 = PushUndoRows(meta, c)
  OBVIOUS
<1>6. Fields(meta)
  BY <1>1 DEF CareTypes, Fields
<1>7. /\ Fields(m0) /\ m0.anchor = meta.anchor /\ m0.floor = meta.floor /\ m0.prune = p
      /\ m0.undo \in Nat /\ u <= m0.undo /\ m0.undo <= Len(c) /\ Len(c) - UndoKept <= m0.undo
  <2>1. PICK mm : mm = meta
    OBVIOUS
  <2>2. Fields(mm) /\ mm.undo \in Nat /\ mm.undo <= Len(c) /\ m0 = PushUndoRows(mm, c)
    BY <1>2, <1>3, <1>4, <1>5, <1>6, <2>1
  <2> HIDE DEF Fields
  <2> QED
    BY <1>2, <1>4, <2>1, <2>2, PushIs
<1>8. PICK t, mint, H, B : t = mem.through /\ mint = mem.mint /\ H = hseg /\ B = bseg
  OBVIOUS
<1>9. t \in Int /\ mint \in BOOLEAN /\ t = sealed_through(n) /\ t <= sealed_through(n + 1) /\ sealed_through(n + 1) \in Int
  <2>1. t = sealed_through(n) /\ t \in Int /\ sealed_through(n + 1) \in Int
    BY <1>1, <1>2, <1>3, <1>8, SealedIs DEF Marks
  <2>2. LastOf(t) < n
    BY <1>3, <2>1, SealedIs
  <2>3. t <= sealed_through(n + 1)
    <3>1. LastOf(t) \in Int /\ LastOf(t) < n + 1 /\ n + 1 \in Nat
      <4>1. t \in Int
        BY <2>1
      <4>2. LastOf(t) \in Int
        BY <4>1, SegBounds
      <4> QED
        BY <1>3, <2>2, <4>2
    <3> QED
      BY <2>1, <3>1, SealedIs
  <2> QED
    BY <1>1, <1>8, <2>1, <2>3 DEF CareTypes
<1>10. PICK m : m = anchor_sync(m0, t, mint, c, H, B)
  OBVIOUS
<1>11. m0.prune \in Nat /\ m0.prune = FirstOf(seg_of(m0.prune)) /\ t <= sealed_through(Len(c))
  BY <1>3, <1>4, <1>7, <1>9
<1>12. /\ Fields(m) /\ m.floor = m0.floor /\ m.prune = m0.prune /\ m.undo = m0.undo
       /\ \A s \in DOMAIN m.anchor : \/ s \in DOMAIN m0.anchor /\ m.anchor[s] = m0.anchor[s]
                                     \/ Minted(m, m0, t, mint, c, H, B, s)
       /\ \A s \in DOMAIN m0.anchor : s \in DOMAIN m.anchor
       /\ \A s \in Seg : /\ t < s /\ s <= sealed_through(Len(c)) /\ s >= seg_of(m0.prune)
                         /\ mint /\ m0.floor # NoFloor /\ computable(H, B, s)
                         => s \in DOMAIN m.anchor
  BY <1>4, <1>7, <1>9, <1>10, <1>11, SyncIs
<1>13. PICK g, cuts : g = seg_of(n - Retain) /\ cuts = (n >= Retain + SegLen /\ n - Retain > p + SegLen)
  OBVIOUS
<1>14. /\ meta' = IF cuts THEN [m EXCEPT !.prune = FirstOf(g), !.anchor = delete_below_segment(@, g)] ELSE m
       /\ mem' = [mem EXCEPT !.through = sealed_through(Len(c)),
                             !.unlink = IF cuts THEN seg_of(p)..(g - 1) ELSE {},
                             !.body = IF cuts THEN {d \in @ : d.last >= FirstOf(g)} ELSE @]
       /\ past' = [past EXCEPT !.unminted = IF mint THEN @ ELSE @ \cup ((t + 1)..sealed_through(Len(c)))]
  BY <1>2, <1>5, <1>8, <1>10, <1>13, Zenon DEF ExtendStore
<1>15. CASE cuts
  <2>1. n >= Retain + SegLen /\ n - Retain > p + SegLen
    BY <1>13, <1>15
  <2>2. n - Retain \in Nat
    BY <1>3, <2>1, CareNumbers
  <2>3. g \in Nat /\ FirstOf(g) <= n - Retain
    BY <1>13, <2>2, SegOf
  <2>4. PICK q : q = FirstOf(g)
    OBVIOUS
  <2>5. q \in Nat
    <3>1. g * SegLen \in Nat
      BY <2>3, CareNumbers
    <3> QED
      BY <2>4, <3>1 DEF FirstOf
  <2>6. seg_of(q) = g
    <3>1. FirstOf(g) <= q /\ q <= LastOf(g)
      BY <2>3, <2>4, <2>5, SegBounds, CareNumbers
    <3>2. g <= seg_of(q) /\ g >= seg_of(q) /\ seg_of(q) \in Nat
      BY <2>3, <2>5, <3>1, SegOf
    <3> QED
      BY <2>3, <3>2
  <2>7. p <= q
    <3>1. seg_of(p) \in Nat /\ FirstOf(seg_of(p)) <= n - Retain
      BY <1>3, <2>1, <2>2, SegOf, CareNumbers
    <3>2. seg_of(p) <= g
      BY <1>13, <2>2, <3>1, SegOf
    <3>3. FirstOf(seg_of(p)) <= FirstOf(g)
      BY <2>3, <3>1, <3>2, SegOrder
    <3> QED
      BY <1>3, <2>4, <3>3
  <2>8. q <= m.undo
    BY <1>3, <1>4, <1>7, <1>12, <2>2, <2>3, <2>4, <2>5, CareNumbers
  <2>9. /\ meta' = [anchor |-> delete_below_segment(m.anchor, g), floor |-> m.floor, prune |-> q, undo |-> m.undo]
        /\ Fields(meta')
    <3>1. PICK a, b, v : a = m.anchor /\ b = m.floor /\ v = m.undo
      OBVIOUS
    <3>2. m = [anchor |-> a, floor |-> b, prune |-> p, undo |-> v]
      BY <1>7, <1>12, <3>1, Zenon DEF Fields
    <3>3. meta' = [m EXCEPT !.prune = q, !.anchor = delete_below_segment(@, g)]
      BY <1>14, <1>15, <2>4
    <3>4. meta' = [anchor |-> delete_below_segment(a, g), floor |-> b, prune |-> q, undo |-> v]
      BY <3>2, <3>3
    <3> QED
      BY <3>1, <3>4 DEF Fields
  <2>10. /\ DOMAIN meta'.anchor = {s \in DOMAIN m.anchor : s >= g}
         /\ \A s \in DOMAIN meta'.anchor : meta'.anchor[s] = m.anchor[s]
    BY <2>9 DEF delete_below_segment, Restrict
  <2>11. /\ mem'.header = mem.header /\ mem'.vouch = mem.vouch /\ mem'.mint = mem.mint
         /\ mem'.through = sealed_through(Len(c)) /\ mem'.unlink = seg_of(p)..(g - 1)
         /\ mem'.body = {d \in mem.body : d.last >= q} /\ MemFields(mem')
    <3>1. PICK a, b, e, r, o, f : mem = [header |-> a, body |-> b, vouch |-> e, mint |-> r, through |-> o, unlink |-> f]
      BY <1>1 DEF CareTypes
    <3>2. mem' = [mem EXCEPT !.through = sealed_through(Len(c)), !.unlink = seg_of(p)..(g - 1),
                             !.body = {d \in @ : d.last >= q}]
      BY <1>14, <1>15, <2>4
    <3>3. mem' = [header |-> a, body |-> {d \in b : d.last >= q}, vouch |-> e, mint |-> r,
                  through |-> sealed_through(Len(c)), unlink |-> seg_of(p)..(g - 1)]
      BY <3>1, <3>2
    <3> QED
      BY <3>1, <3>3 DEF MemFields
  <2>12. /\ past'.covered = past.covered /\ past'.exposed = past.exposed /\ past'.reorgs = past.reorgs
         /\ past'.unminted = IF mint THEN past.unminted ELSE past.unminted \cup ((t + 1)..sealed_through(Len(c)))
         /\ PastFields(past')
    <3>1. PICK a, b, e, r, o, f : past = [covered |-> a, unminted |-> b, exposed |-> e, reorgs |-> r, opens |-> o, faults |-> f]
      BY <1>1 DEF CareTypes
    <3>2. PICK x : x = IF mint THEN b ELSE b \cup ((t + 1)..sealed_through(Len(c)))
      OBVIOUS
    <3>3. past' = [covered |-> a, unminted |-> x, exposed |-> e, reorgs |-> r, opens |-> o, faults |-> f]
      BY <1>14, <3>1, <3>2
    <3> QED
      BY <3>1, <3>2, <3>3 DEF PastFields
  <2>13. \A s \in DOMAIN meta'.anchor :
            /\ s \in DOMAIN meta.anchor \/ s \in Seg
            /\ s \in Int /\ s >= seg_of(q)
            /\ \/ s \in DOMAIN meta.anchor /\ meta'.anchor[s] = meta.anchor[s]
               \/ /\ s \in Seg /\ mem.through < s /\ s <= sealed_through(Len(c))
                  /\ meta'.anchor[s].geom = geom(c, hseg, bseg, s)
    <3> SUFFICES ASSUME NEW s \in DOMAIN meta'.anchor
                 PROVE  /\ s \in DOMAIN meta.anchor \/ s \in Seg
                        /\ s \in Int /\ s >= seg_of(q)
                        /\ \/ s \in DOMAIN meta.anchor /\ meta'.anchor[s] = meta.anchor[s]
                           \/ /\ s \in Seg /\ mem.through < s /\ s <= sealed_through(Len(c))
                              /\ meta'.anchor[s].geom = geom(c, hseg, bseg, s)
      OBVIOUS
    <3>1. s \in DOMAIN m.anchor /\ s >= g /\ meta'.anchor[s] = m.anchor[s]
      BY <2>10
    <3>2. CASE s \in DOMAIN m0.anchor /\ m.anchor[s] = m0.anchor[s]
      <4>1. s \in DOMAIN meta.anchor /\ meta'.anchor[s] = meta.anchor[s]
        BY <1>7, <3>1, <3>2
      <4>2. s \in Int
        <5>1. s \in seg_of(meta.prune)..sealed_through(Len(chain))
          BY <1>1, <4>1 DEF AnchorsSound
        <5> QED
          BY <5>1
      <4> QED
        BY <2>6, <3>1, <4>1, <4>2
    <3>3. CASE Minted(m, m0, t, mint, c, H, B, s)
      BY <1>8, <2>6, <3>1, <3>3, SegIs DEF Minted
    <3> QED
      BY <1>12, <3>1, <3>2, <3>3
  <2>14. \A s \in Seg : /\ s >= seg_of(q)
                        /\ \/ s \in DOMAIN meta.anchor
                           \/ /\ mem.through < s /\ s <= sealed_through(Len(c))
                              /\ mem.mint /\ computable(hseg, bseg, s)
                        => s \in DOMAIN meta'.anchor
    <3> SUFFICES ASSUME NEW s \in Seg, s >= seg_of(q),
                        \/ s \in DOMAIN meta.anchor
                        \/ /\ mem.through < s /\ s <= sealed_through(Len(c))
                           /\ mem.mint /\ computable(hseg, bseg, s)
                 PROVE  s \in DOMAIN m.anchor
      BY <2>6, <2>10
    <3>1. CASE s \in DOMAIN meta.anchor
      BY <1>7, <1>12, <3>1
    <3>2. CASE /\ mem.through < s /\ s <= sealed_through(Len(c))
               /\ mem.mint /\ computable(hseg, bseg, s)
      <4>1. mint /\ m0.floor # NoFloor
        BY <1>1, <1>7, <1>8, <3>2 DEF Marks
      <4>2. s >= seg_of(m0.prune)
        <5>1. s \in Int /\ FirstOf(s) \in Int
          BY SegIs, SegBounds
        <5>2. FirstOf(s) >= q
          BY <2>3, <2>4, <2>5, <2>6, <5>1, SegOrder
        <5>3. FirstOf(s) >= p
          BY <1>3, <2>5, <2>7, <5>1, <5>2
        <5> QED
          BY <1>3, <1>7, <5>1, <5>3, FloorSeg
      <4>3. t < s /\ s <= sealed_through(Len(c)) /\ computable(H, B, s)
        BY <1>8, <3>2
      <4> QED
        BY <1>12, <4>1, <4>2, <4>3
    <3> QED
      BY <3>1, <3>2
  <2>15. Extended(q)
    <3>1. q = FirstOf(seg_of(q)) /\ Len(c) <= BlocksMax
      BY <1>4, <2>4, <2>6
    <3>2. mem'.body \subseteq mem.body /\ \A d \in mem.body : d.last >= q => d \in mem'.body
      BY <2>11
    <3>3. /\ meta'.floor = meta.floor /\ meta'.prune = q /\ meta'.undo = m.undo
      BY <1>7, <1>12, <2>9
    <3>4. Len(c) = Len(chain) + 1
      BY <1>2, <1>4
    <3> HIDE DEF Fields, MemFields, PastFields
    <3> QED
      BY <1>2, <1>3, <1>4, <1>7, <1>8, <1>12, <2>5, <2>6, <2>7, <2>8, <2>9, <2>11, <2>12, <2>13, <2>14,
         <3>1, <3>2, <3>3, <3>4 DEF Extended
  <2> QED
    BY <2>5, <2>15
<1>16. CASE ~cuts
  <2>1. meta' = m
    BY <1>14, <1>16
  <2>2. /\ mem'.header = mem.header /\ mem'.vouch = mem.vouch /\ mem'.mint = mem.mint
        /\ mem'.through = sealed_through(Len(c)) /\ mem'.unlink = {}
        /\ mem'.body = mem.body /\ MemFields(mem')
    <3>1. PICK a, b, e, r, o, f : mem = [header |-> a, body |-> b, vouch |-> e, mint |-> r, through |-> o, unlink |-> f]
      BY <1>1 DEF CareTypes
    <3>2. mem' = [mem EXCEPT !.through = sealed_through(Len(c)), !.unlink = {}, !.body = @]
      BY <1>14, <1>16
    <3>3. mem' = [header |-> a, body |-> b, vouch |-> e, mint |-> r, through |-> sealed_through(Len(c)), unlink |-> {}]
      BY <3>1, <3>2
    <3> QED
      BY <3>1, <3>3 DEF MemFields
  <2>3. /\ past'.covered = past.covered /\ past'.exposed = past.exposed /\ past'.reorgs = past.reorgs
        /\ past'.unminted = IF mint THEN past.unminted ELSE past.unminted \cup ((t + 1)..sealed_through(Len(c)))
        /\ PastFields(past')
    <3>1. PICK a, b, e, r, o, f : past = [covered |-> a, unminted |-> b, exposed |-> e, reorgs |-> r, opens |-> o, faults |-> f]
      BY <1>1 DEF CareTypes
    <3>2. PICK x : x = IF mint THEN b ELSE b \cup ((t + 1)..sealed_through(Len(c)))
      OBVIOUS
    <3>3. past' = [covered |-> a, unminted |-> x, exposed |-> e, reorgs |-> r, opens |-> o, faults |-> f]
      BY <1>14, <3>1, <3>2
    <3> QED
      BY <3>1, <3>2, <3>3 DEF PastFields
  <2>4. seg_of(p) \in Nat /\ mem'.unlink = seg_of(p)..(seg_of(p) - 1)
    BY <1>3, <2>2, SegOf
  <2>5. \A s \in DOMAIN meta'.anchor :
            /\ s \in DOMAIN meta.anchor \/ s \in Seg
            /\ s \in Int /\ s >= seg_of(p)
            /\ \/ s \in DOMAIN meta.anchor /\ meta'.anchor[s] = meta.anchor[s]
               \/ /\ s \in Seg /\ mem.through < s /\ s <= sealed_through(Len(c))
                  /\ meta'.anchor[s].geom = geom(c, hseg, bseg, s)
    <3> SUFFICES ASSUME NEW s \in DOMAIN m.anchor
                 PROVE  /\ s \in DOMAIN meta.anchor \/ s \in Seg
                        /\ s \in Int /\ s >= seg_of(p)
                        /\ \/ s \in DOMAIN meta.anchor /\ m.anchor[s] = meta.anchor[s]
                           \/ /\ s \in Seg /\ mem.through < s /\ s <= sealed_through(Len(c))
                              /\ m.anchor[s].geom = geom(c, hseg, bseg, s)
      BY <2>1
    <3>2. CASE s \in DOMAIN m0.anchor /\ m.anchor[s] = m0.anchor[s]
      <4>1. s \in DOMAIN meta.anchor /\ m.anchor[s] = meta.anchor[s]
        BY <1>7, <3>2
      <4>2. s \in seg_of(meta.prune)..sealed_through(Len(chain))
        BY <1>1, <4>1 DEF AnchorsSound
      <4>3. s \in Int /\ s >= seg_of(p)
        BY <1>2, <4>2, <2>4
      <4> QED
        BY <4>1, <4>3
    <3>3. CASE Minted(m, m0, t, mint, c, H, B, s)
      BY <1>7, <1>8, <3>3, SegIs DEF Minted
    <3> QED
      BY <1>12, <3>2, <3>3
  <2>6. \A s \in Seg : /\ s >= seg_of(p)
                        /\ \/ s \in DOMAIN meta.anchor
                           \/ /\ mem.through < s /\ s <= sealed_through(Len(c))
                              /\ mem.mint /\ computable(hseg, bseg, s)
                        => s \in DOMAIN meta'.anchor
    <3> SUFFICES ASSUME NEW s \in Seg, s >= seg_of(p),
                        \/ s \in DOMAIN meta.anchor
                        \/ /\ mem.through < s /\ s <= sealed_through(Len(c))
                           /\ mem.mint /\ computable(hseg, bseg, s)
                 PROVE  s \in DOMAIN m.anchor
      BY <2>1
    <3>1. CASE s \in DOMAIN meta.anchor
      BY <1>7, <1>12, <3>1
    <3>2. CASE /\ mem.through < s /\ s <= sealed_through(Len(c))
               /\ mem.mint /\ computable(hseg, bseg, s)
      <4>1. mint /\ m0.floor # NoFloor
        BY <1>1, <1>7, <1>8, <3>2 DEF Marks
      <4>2. s >= seg_of(m0.prune) /\ t < s /\ s <= sealed_through(Len(c)) /\ computable(H, B, s)
        BY <1>7, <1>8, <3>2
      <4> QED
        BY <1>12, <4>1, <4>2
    <3> QED
      BY <3>1, <3>2
  <2>7. Extended(p)
    <3>1. /\ meta'.floor = meta.floor /\ meta'.prune = p /\ meta'.undo = m0.undo /\ Fields(meta')
      BY <1>7, <1>12, <2>1, Zenon
    <3>2. Len(c) = Len(chain) + 1 /\ p <= m0.undo /\ p <= p
      BY <1>2, <1>3, <1>4, <1>7
    <3>3. mem'.body \subseteq mem.body /\ \A d \in mem.body : d.last >= p => d \in mem'.body
      BY <2>2
    <3> HIDE DEF Fields, MemFields, PastFields
    <3> QED
      BY <1>2, <1>3, <1>4, <1>7, <1>8, <2>2, <2>3, <2>4, <2>5, <2>6, <3>1, <3>2, <3>3 DEF Extended
  <2> QED
    BY <1>3, <2>7
<1> QED
  <2>1. cuts \in BOOLEAN
    BY <1>13
  <2> QED
    BY <1>15, <1>16

\* The commit of one block keeps the invariant.
LEMMA CareExtendKeeps ==
    ASSUME CareInv, ExtendStore
    PROVE  CareInv'
<1>1. PICK q \in Nat : Extended(q)
  BY ExtendIs
<1>2. CareTypes /\ Marks /\ AnchorsSound /\ Judged
  BY DEF CareInv
<1>3. PICK n, p, u, v : n = Len(chain) /\ p = meta.prune /\ u = meta.undo /\ v = meta'.undo
  OBVIOUS
<1>4. /\ n \in Nat /\ p \in Nat /\ u \in Nat /\ v \in Nat /\ u <= v /\ p <= q /\ q <= v /\ v <= n + 1
      /\ Len(chain') = n + 1 /\ meta'.prune = q /\ n + 1 <= BlocksMax /\ q = FirstOf(seg_of(q))
      /\ n + 1 - UndoKept <= v /\ p = FirstOf(seg_of(p))
  <2>1. n \in Nat /\ p \in Nat /\ u \in Nat /\ p = FirstOf(seg_of(p))
    BY <1>2, <1>3 DEF Marks, CareTypes
  <2>2. /\ v \in Nat /\ u <= v /\ p <= q /\ q <= v /\ meta'.prune = q /\ q = FirstOf(seg_of(q))
        /\ Len(chain') = n + 1 /\ v <= Len(chain') /\ Len(chain') <= BlocksMax /\ Len(chain') - UndoKept <= v
    BY <1>1, <1>3, Zenon DEF Extended
  <2>3. n + 1 - UndoKept <= v /\ v <= n + 1 /\ n + 1 <= BlocksMax
    <3>1. PICK x : x = Len(chain')
      OBVIOUS
    <3>2. x = n + 1 /\ v <= x /\ x <= BlocksMax /\ x - UndoKept <= v
      BY <2>2, <3>1
    <3> QED
      BY <2>1, <3>2, CareNumbers
  <2> QED
    BY <2>1, <2>2, <2>3
<1>5. PICK a, b, e, e1 : a = seg_of(p) /\ b = seg_of(q) /\ e = sealed_through(n) /\ e1 = sealed_through(n + 1)
  OBVIOUS
<1>6. /\ a \in Nat /\ b \in Nat /\ e \in Int /\ e1 \in Int
      /\ \A s \in Int : /\ s <= e <=> LastOf(s) < n
                        /\ s <= e1 <=> LastOf(s) < n + 1
                        /\ FirstOf(s) >= p <=> s >= a
                        /\ FirstOf(s) >= q <=> s >= b
                        /\ FirstOf(s) \in Int /\ LastOf(s) \in Int /\ LastOf(s) = FirstOf(s) + SegLen - 1
  <2>1. n + 1 \in Nat
    BY <1>4
  <2>2. e \in Int /\ \A s \in Int : s <= e <=> LastOf(s) < n
    BY <1>4, <1>5, SealedIs
  <2>3. e1 \in Int /\ \A s \in Int : s <= e1 <=> LastOf(s) < n + 1
    BY <1>5, <2>1, SealedIs
  <2>4. a \in Nat /\ \A s \in Int : FirstOf(s) >= p <=> s >= a
    BY <1>4, <1>5, SegOf, FloorSeg
  <2>5. b \in Nat /\ \A s \in Int : FirstOf(s) >= q <=> s >= b
    BY <1>4, <1>5, SegOf, FloorSeg
  <2> QED
    BY <2>2, <2>3, <2>4, <2>5, SegBounds
<1>7. a <= b /\ e <= e1
  <2>1. FirstOf(b) = q /\ FirstOf(b) >= p
    BY <1>4, <1>5
  <2>2. LastOf(e) < n /\ LastOf(e) \in Int
    BY <1>6
  <2>3. LastOf(e) < n + 1
    BY <1>4, <2>2
  <2> QED
    BY <1>6, <2>1, <2>3
<1>8. mem.through = e /\ mem'.through = e1 /\ meta.prune = p /\ meta'.prune = q
  BY <1>1, <1>2, <1>3, <1>4, <1>5 DEF Extended, Marks
\* what the block seals was never struck
<1>9. ASSUME NEW s \in Seg, s >= a, s \notin past.covered, e < s, s <= e1
      PROVE  bseg[s] = "ok" /\ hseg[s] \in {"ok", "torn"}
  <2>1. s \in Int
    BY SegIs
  <2>2. LastOf(s) >= n /\ LastOf(s) < n + 1
    BY <1>6, <1>9, <2>1, <1>4
  <2>3. ~(LastOf(s) + 1 < Len(chain))
    BY <1>3, <1>4, <1>6, <2>1, <2>2
  <2> QED
    BY <1>2, <1>3, <1>5, <1>9, <2>3 DEF Judged, BelowTop
<1>10. CareTypes'
  <2>1. \A d \in mem'.body : ToEnd(d)
    BY <1>1, <1>2 DEF Extended, CareTypes
  <2>2. mem'.unlink \subseteq Seg
    <3> SUFFICES ASSUME NEW s \in a..(b - 1)
                 PROVE  s \in Seg
      BY <1>1, <1>3, <1>5 DEF Extended
    <3>1. s \in Nat /\ s < b
      BY <1>6
    <3>2. FirstOf(s) <= FirstOf(b) /\ FirstOf(s) \in Int
      BY <1>6, <3>1, SegOrder
    <3>3. FirstOf(s) <= BlocksMax
      BY <1>4, <1>5, <3>2, CareNumbers
    <3> QED
      BY <3>1, <3>3, SegIs
  <2>3. Len(chain') >= 1 /\ Len(chain') <= BlocksMax
    BY <1>4
  <2> QED
    BY <1>1, <1>2, <2>1, <2>2, <2>3 DEF Extended, CareTypes, Fields, MemFields, PastFields
<1>11. Marks'
  <2>1. mem'.unlink \subseteq {s \in Seg : s < b}
    <3>1. mem'.unlink = a..(b - 1)
      BY <1>1, <1>3, <1>5 DEF Extended
    <3> QED
      BY <1>6, <1>10, <3>1 DEF CareTypes
  <2> QED
    BY <1>1, <1>2, <1>3, <1>4, <1>5, <1>8, <2>1 DEF Extended, Marks
<1>12. AnchorsSound'
  <2>1. ASSUME NEW s \in DOMAIN meta'.anchor
        PROVE  /\ s \in b..e1 /\ meta'.anchor[s].geom[1] = Prefix(chain', s)
    <3>1. s \in Int /\ s >= b
      BY <1>1, <1>5, <2>1 DEF Extended
    <3>2. CASE s \in DOMAIN meta.anchor /\ meta'.anchor[s] = meta.anchor[s]
      <4>1. s \in a..e /\ meta.anchor[s].geom[1] = Prefix(chain, s)
        BY <1>2, <1>3, <1>5, <3>2 DEF AnchorsSound
      <4>2. s \in Nat /\ LastOf(s) < Len(chain) /\ s <= e1
        <5>1. s \in Int /\ s >= 0 /\ s <= e
          BY <1>6, <4>1
        <5>2. LastOf(s) < n /\ s <= e1
          BY <1>6, <1>7, <5>1
        <5> QED
          BY <1>3, <5>1, <5>2
      <4>3. Prefix(chain', s) = Prefix(chain, s)
        <5>1. PICK c, r : c = chain /\ r = past.reorgs
          OBVIOUS
        <5>2. c \in Seq(Nat) /\ r \in Nat /\ LastOf(s) < Len(c) /\ chain' = Append(c, r)
          BY <1>1, <1>2, <4>2, <5>1 DEF CareTypes, Extended
        <5> QED
          BY <4>2, <5>1, <5>2, PrefixAppend
      <4> QED
        BY <1>6, <3>1, <3>2, <4>1, <4>2, <4>3
    <3>3. CASE /\ s \in Seg /\ mem.through < s /\ s <= sealed_through(Len(chain'))
               /\ meta'.anchor[s].geom = geom(chain', hseg, bseg, s)
      <4>1. s <= e1 /\ meta'.anchor[s].geom[1] = Prefix(chain', s)
        BY <1>4, <1>5, <3>3, GeomIs
      <4> QED
        BY <1>6, <3>1, <4>1
    <3> QED
      BY <1>1, <2>1, <3>2, <3>3 DEF Extended
  <2>2. ASSUME NEW s \in 0..(b - 1)
        PROVE  bseg'[s] = "unlinked" \/ s \in mem'.unlink
    <3>1. mem'.unlink = a..(b - 1) /\ mem.unlink = {} /\ bseg' = bseg
      BY <1>1, <1>3, <1>5 DEF Extended
    <3>2. CASE s < a
      <4>1. s \in 0..(seg_of(meta.prune) - 1)
        BY <1>3, <1>5, <1>6, <3>2
      <4> QED
        BY <1>2, <3>1, <4>1 DEF AnchorsSound
    <3>3. CASE s >= a
      BY <1>6, <3>1, <3>3
    <3> QED
      BY <1>6, <3>2, <3>3
  <2>3. \A s \in b..seg_of(BlocksMax) : bseg'[s] # "unlinked"
    <3>1. seg_of(BlocksMax) \in Nat
      BY CareNumbers, SegOf
    <3>2. b..seg_of(BlocksMax) \subseteq a..seg_of(BlocksMax)
      BY <1>6, <1>7, <3>1
    <3>3. bseg' = bseg
      BY <1>1 DEF Extended
    <3> QED
      BY <1>2, <1>3, <1>5, <3>2, <3>3 DEF AnchorsSound
  <2>4. meta'.prune = q /\ Len(chain') = n + 1
    BY <1>4
  <2> QED
    BY <1>5, <2>1, <2>2, <2>3, <2>4 DEF AnchorsSound
<1>13. OldOnly'
  <2> SUFFICES ASSUME NEW s \in Seg,
                      \/ hseg'[s] # "ok" \/ bseg'[s] # "ok" \/ s \in past'.covered \/ s \in past'.exposed
                      \/ \E d \in mem'.body : d.seg = s
               PROVE  FirstOf(s) < v
    BY <1>3 DEF OldOnly
  <2>1. \/ hseg[s] # "ok" \/ bseg[s] # "ok" \/ s \in past.covered \/ s \in past.exposed
        \/ \E d \in mem.body : d.seg = s
    BY <1>1 DEF Extended
  <2>2. FirstOf(s) < u
    BY <1>2, <1>3, <2>1 DEF Judged, OldOnly
  <2>3. FirstOf(s) \in Int
    BY SegIs, SegBounds
  <2> QED
    BY <1>4, <2>2, <2>3
<1>14. BelowTop'
  <2> SUFFICES ASSUME NEW s \in Seg, s >= b, s \notin past'.covered, bseg'[s] # "ok" \/ hseg'[s] \notin {"ok", "torn"}
               PROVE  LastOf(s) + 1 < n + 1
    BY <1>4, <1>5 DEF BelowTop
  <2>1. s \in Int /\ LastOf(s) \in Int
    BY SegIs, SegBounds
  <2>2. s >= a
    BY <1>6, <1>7, <2>1
  <2>3. s >= seg_of(meta.prune) /\ s \notin past.covered /\ (bseg[s] # "ok" \/ hseg[s] \notin {"ok", "torn"})
    BY <1>1, <1>3, <1>5, <2>2 DEF Extended
  <2>4. LastOf(s) + 1 < n
    BY <1>2, <1>3, <2>3 DEF Judged, BelowTop
  <2> QED
    BY <1>4, <2>1, <2>4
<1>15. RowsFit'
  <2> SUFFICES ASSUME NEW s \in DOMAIN meta'.anchor, s \notin past.covered
               PROVE  meta'.anchor[s].geom = <<Prefix(chain', s), "ok", "ok">>
    BY <1>1 DEF Extended, RowsFit
  <2>1. s \in b..e1
    BY <1>4, <1>5, <1>12 DEF AnchorsSound
  <2>2. CASE s \in DOMAIN meta.anchor /\ meta'.anchor[s] = meta.anchor[s]
    <3>1. meta.anchor[s].geom = <<Prefix(chain, s), "ok", "ok">>
      BY <1>2, <2>2 DEF Judged, RowsFit
    <3>2. s \in Nat /\ LastOf(s) < Len(chain)
      <4>1. s \in a..e
        BY <1>2, <1>3, <1>5, <2>2 DEF AnchorsSound
      <4> QED
        BY <1>3, <1>6, <4>1
    <3>3. Prefix(chain', s) = Prefix(chain, s)
      <4>1. PICK c, r : c = chain /\ r = past.reorgs
        OBVIOUS
      <4>2. c \in Seq(Nat) /\ r \in Nat /\ LastOf(s) < Len(c) /\ chain' = Append(c, r)
        BY <1>1, <1>2, <3>2, <4>1 DEF CareTypes, Extended
      <4> QED
        BY <3>2, <4>1, <4>2, PrefixAppend
    <3> QED
      BY <2>2, <3>1, <3>3
  <2>3. CASE /\ s \in Seg /\ mem.through < s /\ s <= sealed_through(Len(chain'))
             /\ meta'.anchor[s].geom = geom(chain', hseg, bseg, s)
    <3>1. s >= a /\ e < s /\ s <= e1
      BY <1>6, <1>7, <1>8, <2>1, <2>3
    <3>2. bseg[s] = "ok" /\ hseg[s] \in {"ok", "torn"}
      BY <1>9, <2>3, <3>1
    <3> QED
      BY <2>3, <3>2, GeomIs
  <2> QED
    BY <1>1, <2>2, <2>3 DEF Extended
<1>16. Rowed'
  <2> SUFFICES ASSUME NEW s \in Seg, s >= b, s <= e1
               PROVE  s \in past'.covered \cup past'.unminted \cup DOMAIN meta'.anchor
    BY <1>4, <1>5 DEF Rowed
  <2>1. s \in Int /\ s >= a
    BY <1>6, <1>7, SegIs
  <2>2. past.covered = past'.covered /\ past.unminted \subseteq past'.unminted
    BY <1>1 DEF Extended
  <2>3. CASE s <= e
    <3>1. s \in past.covered \cup past.unminted \cup DOMAIN meta.anchor
      BY <1>2, <1>3, <1>5, <2>1, <2>3 DEF Judged, Rowed
    <3>2. s \in DOMAIN meta.anchor => s \in DOMAIN meta'.anchor
      BY <1>1, <1>5 DEF Extended
    <3> QED
      BY <2>2, <3>1, <3>2
  <2>4. CASE e < s
    <3>1. CASE mem.mint
      <4>1. s \notin past.covered => computable(hseg, bseg, s)
        BY <1>9, <2>1, <2>4 DEF computable, identity, material
      <4>2. computable(hseg, bseg, s) => s \in DOMAIN meta'.anchor
        BY <1>1, <1>4, <1>5, <1>8, <2>4, <3>1 DEF Extended
      <4> QED
        BY <2>2, <4>1, <4>2
    <3>2. CASE ~mem.mint
      <4>1. s \in (e + 1)..e1
        BY <1>6, <2>1, <2>4
      <4>2. past'.unminted = past.unminted \cup ((e + 1)..e1)
        BY <1>1, <1>4, <1>5, <1>8, <3>2 DEF Extended
      <4> QED
        BY <4>1, <4>2
    <3> QED
      BY <3>1, <3>2
  <2> QED
    BY <1>6, <2>1, <2>3, <2>4
<1>17. Told'
  <2> SUFFICES ASSUME NEW d \in mem'.body, d.seg \notin past'.covered, hseg'[d.seg] = "ok", bseg'[d.seg] = "ok"
               PROVE  d.seg \in past'.unminted /\ LastOf(d.seg) < v
    BY <1>3 DEF Told
  <2>1. d \in mem.body /\ d.seg \notin past.covered /\ hseg[d.seg] = "ok" /\ bseg[d.seg] = "ok"
    BY <1>1 DEF Extended
  <2>2. d.seg \in past.unminted /\ LastOf(d.seg) < u
    BY <1>2, <1>3, <2>1 DEF Judged, Told
  <2>3. d.seg \in Seg
    BY <1>2, <2>1 DEF CareTypes, ToEnd, InOne
  <2>4. LastOf(d.seg) \in Int
    BY <2>3, SegIs, SegBounds
  <2>5. past.unminted \subseteq past'.unminted
    BY <1>1 DEF Extended
  <2> QED
    BY <1>4, <2>2, <2>4, <2>5
<1>18. HeaderFirst'
  <2>1. mem'.header = mem.header /\ mem'.body \subseteq mem.body /\ bseg' = bseg /\ past'.covered = past.covered
    BY <1>1 DEF Extended
  <2> QED
    BY <1>2, <2>1 DEF Judged, HeaderFirst
<1>19. Vouched'
  <2> SUFFICES ASSUME NEW s \in Seg, s >= b, s <= e1, s \notin past'.covered, s \notin mem'.vouch,
                      bseg'[s] \notin {"ok", "flip", "long"}
               PROVE  \E d \in mem'.body : d.seg = s
    BY <1>4, <1>5 DEF Vouched
  <2>1. s \in Int /\ s >= a
    BY <1>6, <1>7, SegIs
  <2>2. s \notin past.covered /\ s \notin mem.vouch /\ bseg[s] \notin {"ok", "flip", "long"}
    BY <1>1 DEF Extended
  <2>3. s <= e
    BY <1>6, <1>9, <2>1, <2>2
  <2>4. PICK d \in mem.body : d.seg = s
    BY <1>2, <1>3, <1>5, <2>1, <2>2, <2>3 DEF Judged, Vouched
  <2>5. d.last = LastOf(s)
    BY <1>2, <2>4 DEF CareTypes, ToEnd
  <2>6. d.last >= q
    <3>1. FirstOf(s) >= q
      BY <1>6, <2>1
    <3>2. q \in Int /\ s \in Int
      BY <1>4, <1>6, <2>1
    <3>3. FirstOf(s) \in Int /\ LastOf(s) \in Int /\ LastOf(s) >= FirstOf(s)
      BY <3>2, SegBounds, CareNumbers
    <3>4. LastOf(s) >= q
      BY <3>1, <3>2, <3>3
    <3> QED
      BY <2>5, <3>4
  <2> QED
    BY <1>1, <2>4, <2>6 DEF Extended
<1> QED
  BY <1>10, <1>11, <1>12, <1>13, <1>14, <1>15, <1>16, <1>17, <1>18, <1>19 DEF CareInv, Judged

-----------------------------------------------------------------------------
(* The commit of a reorg.                                                  *)

\* Rewriting a segment from its slot k on leaves a good one good, and makes it good from slot 0.
LEMMA OverIs ==
    ASSUME NEW k \in Nat, NEW h \in HeaderState, NEW b \in BodyState
    PROVE  /\ HeaderOver(h, k) \in HeaderState /\ BodyOver(b, k) \in BodyState
           /\ h = "ok" \/ k = 0 => HeaderOver(h, k) = "ok"
           /\ b = "ok" \/ k = 0 => BodyOver(b, k) = "ok"
           /\ BodyOver(b, k) = "unlinked" => b = "unlinked"
<1>1. HeaderOver(h, k) \in HeaderState /\ (h = "ok" \/ k = 0 => HeaderOver(h, k) = "ok")
  BY DEF HeaderOver, HeaderState
<1>2. BodyOver(b, k) \in BodyState /\ (b = "ok" \/ k = 0 => BodyOver(b, k) = "ok")
  BY DEF BodyOver, BodyState
<1>3. BodyOver(b, k) = "unlinked" => b = "unlinked"
  BY DEF BodyOver
<1> QED
  BY <1>1, <1>2, <1>3

Touched(s, k, w) == LastOf(s) >= k /\ FirstOf(s) < w

\* What a reorg that keeps k blocks and ends with w of them does.
Reorged(k, w) ==
    /\ k \in Nat /\ k >= 1 /\ w \in Nat /\ k < Len(chain) /\ k < w /\ w <= BlocksMax /\ meta.undo <= k
    /\ chain' \in Seq(Nat) /\ Len(chain') = w /\ mem.unlink = {}
    /\ \A s \in Nat : LastOf(s) < k => Prefix(chain', s) = Prefix(chain, s)
    /\ hseg' \in [Seg -> HeaderState] /\ bseg' \in [Seg -> BodyState]
    /\ \A s \in Seg :
          /\ ~Touched(s, k, w) => hseg'[s] = hseg[s] /\ bseg'[s] = bseg[s]
          /\ hseg[s] = "ok" \/ (Touched(s, k, w) /\ FirstOf(s) >= k) => hseg'[s] = "ok"
          /\ bseg[s] = "ok" \/ (Touched(s, k, w) /\ FirstOf(s) >= k) => bseg'[s] = "ok"
          /\ bseg'[s] = "unlinked" => bseg[s] = "unlinked"
    /\ Fields(meta') /\ MemFields(mem') /\ PastFields(past')
    /\ meta'.floor = meta.floor /\ meta'.prune = meta.prune
    /\ meta'.undo \in Nat /\ meta.undo <= meta'.undo /\ meta'.undo <= w /\ w - UndoKept <= meta'.undo
    /\ \A s \in DOMAIN meta'.anchor :
          \/ /\ s \in DOMAIN meta.anchor /\ s <= sealed_through(k) /\ meta'.anchor[s] = meta.anchor[s]
          \/ /\ s \in Seg /\ sealed_through(k) < s /\ s <= sealed_through(w) /\ s >= seg_of(meta.prune)
             /\ meta'.anchor[s].geom = geom(chain', hseg', bseg', s)
    /\ \A s \in Seg : /\ s >= seg_of(meta.prune)
                      /\ \/ s \in DOMAIN meta.anchor /\ s <= sealed_through(k)
                         \/ /\ sealed_through(k) < s /\ s <= sealed_through(w)
                            /\ mem.mint /\ computable(hseg', bseg', s)
                      => s \in DOMAIN meta'.anchor
    /\ mem'.header \subseteq mem.header /\ mem'.vouch = mem.vouch /\ mem'.mint = mem.mint
    /\ mem'.through = sealed_through(w) /\ mem'.unlink = {}
    /\ mem'.body = {d \in mem.body : d.first < w /\ d.last >= meta.prune}
    /\ past'.exposed = past.exposed /\ past'.reorgs \in Nat
    /\ \A s \in Seg :
          s \in past'.covered <=> IF Touched(s, k, w)
                                  THEN FirstOf(s) < k /\ (s \in past.covered \/ bseg[s] # "ok" \/ hseg[s] # "ok")
                                  ELSE s \in past.covered
    /\ past'.unminted = {s \in past.unminted : s <= sealed_through(k)}
                           \cup (IF mem.mint THEN {} ELSE (sealed_through(k) + 1)..sealed_through(w))

\* The commit of a reorg, from the code.
LEMMA ReorgIs ==
    ASSUME CareInv, NEW fork \in 0..(BlocksMax - 1), NEW w \in 1..BlocksMax, ReorgStore(fork, w)
    PROVE  Reorged(fork + 1, w)
<1>1. CareTypes /\ Marks /\ AnchorsSound
  BY DEF CareInv
<1>2. PICK k, n, u, p, c : k = fork + 1 /\ n = Len(chain) /\ u = meta.undo /\ p = meta.prune /\ c = chain'
  OBVIOUS
<1> DEFINE KeptIn(s) == IF FirstOf(s) > fork THEN 0 ELSE fork + 1 - FirstOf(s)
           touched == {s \in Seg : LastOf(s) > fork /\ FirstOf(s) < w}
           back == sealed_through(fork + 1)
<1>3. /\ mem.unlink = {} /\ k < n /\ k >= u /\ w > k
      /\ c = SubSeq(chain, 1, k) \o [i \in 1..(w - fork - 1) |-> past.reorgs + 1]
      /\ hseg' = [s \in Seg |-> IF s \in touched THEN HeaderOver(hseg[s], KeptIn(s)) ELSE hseg[s]]
      /\ bseg' = [s \in Seg |-> IF s \in touched THEN BodyOver(bseg[s], KeptIn(s)) ELSE bseg[s]]
  BY <1>2, Zenon DEF ReorgStore, Idle
<1>4. /\ meta' = anchor_sync([PushUndoRows(meta, c) EXCEPT !.anchor = delete_above_watermark(@, fork + 1)],
                             Min({mem.through, back}), mem.mint, c, hseg', bseg')
      /\ mem' = [mem EXCEPT !.through = sealed_through(w),
                            !.header = {d \in @ : d.first < w},
                            !.body = {d \in @ : d.first < w /\ d.last >= meta.prune}]
      /\ past' = [past EXCEPT
            !.reorgs = @ + 1,
            !.covered = {s \in Seg : IF s \in touched
                                      THEN KeptIn(s) > 0 /\ (s \in @ \/ bseg[s] # "ok" \/ hseg[s] # "ok")
                                      ELSE s \in @},
            !.unminted = {s \in @ : s <= back} \cup (IF mem.mint THEN {} ELSE (back + 1)..sealed_through(w))]
  BY <1>2, Zenon DEF ReorgStore
<1>5. /\ k \in Nat /\ k >= 1 /\ n \in Nat /\ u \in Nat /\ p \in Nat /\ w \in Nat /\ w <= BlocksMax
      /\ k <= n /\ p = FirstOf(seg_of(p)) /\ p <= u
  <2>1. n \in Nat /\ u \in Nat /\ p \in Nat /\ p = FirstOf(seg_of(p)) /\ p <= u
    BY <1>1, <1>2 DEF CareTypes, Marks
  <2>2. k \in Nat /\ k >= 1 /\ w \in Nat /\ w <= BlocksMax /\ fork \in Nat
    BY <1>2, CareNumbers
  <2> QED
    BY <1>3, <2>1, <2>2
<1>6. ASSUME NEW s \in Seg
      PROVE  /\ s \in Int /\ FirstOf(s) \in Int /\ LastOf(s) \in Int
             /\ s \in touched <=> Touched(s, k, w)
             /\ KeptIn(s) \in Nat /\ (KeptIn(s) > 0 <=> FirstOf(s) < k) /\ (KeptIn(s) = 0 <=> FirstOf(s) >= k)
  <2>1. s \in Int /\ FirstOf(s) \in Int /\ LastOf(s) \in Int
    BY SegIs, SegBounds
  <2>2. s \in touched <=> Touched(s, k, w)
    <3>1. LastOf(s) > fork <=> LastOf(s) >= k
      BY <1>2, <2>1
    <3> QED
      BY <3>1 DEF Touched
  <2>3. KeptIn(s) \in Nat /\ (KeptIn(s) > 0 <=> FirstOf(s) < k) /\ (KeptIn(s) = 0 <=> FirstOf(s) >= k)
    <3>1. PICK f : f = FirstOf(s)
      OBVIOUS
    <3>2. KeptIn(s) = IF f > fork THEN 0 ELSE fork + 1 - f
      BY <3>1
    <3> QED
      BY <1>2, <2>1, <3>1, <3>2
  <2> QED
    BY <2>1, <2>2, <2>3
<1> HIDE DEF KeptIn, touched
<1>7. /\ c \in Seq(Nat) /\ Len(c) = w
      /\ \A s \in Nat : LastOf(s) < k => Prefix(c, s) = Prefix(chain, s)
  <2>1. PICK o, x, v : o = chain /\ x = w - fork - 1 /\ v = past.reorgs + 1
    OBVIOUS
  <2>2. o \in Seq(Nat) /\ k \in 1..Len(o) /\ x \in Nat /\ v \in Nat /\ k + x = w
    <3>1. o \in Seq(Nat) /\ n = Len(o) /\ v \in Nat
      BY <1>1, <1>2, <2>1 DEF CareTypes
    <3>2. x \in Nat /\ k + x = w
      BY <1>2, <1>3, <1>5, <2>1
    <3> QED
      BY <1>5, <3>1, <3>2
  <2>3. c = SubSeq(o, 1, k) \o [i \in 1..x |-> v]
    BY <1>3, <2>1
  <2>4. c \in Seq(Nat) /\ Len(c) = k + x /\ \A s \in Nat : LastOf(s) < k => Prefix(c, s) = Prefix(o, s)
    <3>1. PICK kk \in 1..Len(o) : kk = k
      BY <2>2
    <3>2. c = Branch(o, kk, x, v)
      BY <2>3, <3>1, Zenon DEF Branch
    <3>3. c \in Seq(Nat) /\ Len(c) = kk + x /\ \A s \in Nat : LastOf(s) < kk => Prefix(c, s) = Prefix(o, s)
      <4>1. o \in Seq(Nat) /\ kk \in 1..Len(o) /\ x \in Nat /\ v \in Nat
        BY <2>2, <3>1
      <4> QED
        BY <3>2, <4>1, BranchIs
    <3> QED
      BY <3>1, <3>3
  <2> QED
    BY <2>1, <2>2, <2>4
<1>8. hseg \in [Seg -> HeaderState] /\ bseg \in [Seg -> BodyState]
  BY <1>1 DEF CareTypes
<1>9. ASSUME NEW s \in Seg
      PROVE  /\ hseg'[s] \in HeaderState /\ bseg'[s] \in BodyState
             /\ ~Touched(s, k, w) => hseg'[s] = hseg[s] /\ bseg'[s] = bseg[s]
             /\ hseg[s] = "ok" \/ (Touched(s, k, w) /\ FirstOf(s) >= k) => hseg'[s] = "ok"
             /\ bseg[s] = "ok" \/ (Touched(s, k, w) /\ FirstOf(s) >= k) => bseg'[s] = "ok"
             /\ bseg'[s] = "unlinked" => bseg[s] = "unlinked"
  <2>1. /\ hseg'[s] = IF s \in touched THEN HeaderOver(hseg[s], KeptIn(s)) ELSE hseg[s]
        /\ bseg'[s] = IF s \in touched THEN BodyOver(bseg[s], KeptIn(s)) ELSE bseg[s]
    BY <1>3
  <2>2. hseg[s] \in HeaderState /\ bseg[s] \in BodyState
    BY <1>8
  <2>3. PICK j, h, b : j = KeptIn(s) /\ h = hseg[s] /\ b = bseg[s]
    OBVIOUS
  <2>4. j \in Nat /\ h \in HeaderState /\ b \in BodyState /\ (j = 0 <=> FirstOf(s) >= k)
    BY <1>6, <2>2, <2>3
  <2>5. /\ HeaderOver(h, j) \in HeaderState /\ BodyOver(b, j) \in BodyState
        /\ h = "ok" \/ j = 0 => HeaderOver(h, j) = "ok"
        /\ b = "ok" \/ j = 0 => BodyOver(b, j) = "ok"
        /\ BodyOver(b, j) = "unlinked" => b = "unlinked"
    BY <2>4, OverIs
  <2>6. CASE s \in touched
    BY <1>6, <2>1, <2>3, <2>4, <2>5, <2>6
  <2>7. CASE s \notin touched
    BY <1>6, <2>1, <2>2, <2>7
  <2> QED
    BY <2>6, <2>7
<1>10. hseg' \in [Seg -> HeaderState] /\ bseg' \in [Seg -> BodyState]
  <2>1. hseg' = [s \in Seg |-> hseg'[s]]
    BY <1>3
  <2>2. bseg' = [s \in Seg |-> bseg'[s]]
    BY <1>3
  <2> QED
    BY <1>9, <2>1, <2>2
<1>11. PICK m0 : m0 = PushUndoRows(meta, c)
  OBVIOUS
<1>12. /\ Fields(m0) /\ m0.anchor = meta.anchor /\ m0.floor = meta.floor /\ m0.prune = p
       /\ m0.undo \in Nat /\ u <= m0.undo /\ m0.undo <= w /\ w - UndoKept <= m0.undo
  <2>1. PICK mm : mm = meta
    OBVIOUS
  <2>2. Fields(mm) /\ mm.undo \in Nat /\ mm.undo <= Len(c) /\ m0 = PushUndoRows(mm, c)
    <3>1. Fields(mm)
      BY <1>1, <2>1 DEF CareTypes, Fields
    <3>2. mm.undo = u /\ m0 = PushUndoRows(mm, c)
      BY <1>2, <1>11, <2>1
    <3>3. u <= Len(c)
      <4>1. k >= u /\ w > k
        BY <1>3, Zenon
      <4> QED
        BY <1>5, <1>7, <4>1
    <3> QED
      BY <1>5, <3>1, <3>2, <3>3
  <2> HIDE DEF Fields
  <2> QED
    BY <1>2, <1>7, <2>1, <2>2, PushIs
<1>13. PICK m1 : m1 = [m0 EXCEPT !.anchor = delete_above_watermark(@, fork + 1)]
  OBVIOUS
<1>14. /\ Fields(m1) /\ m1.floor = meta.floor /\ m1.prune = p /\ m1.undo = m0.undo
       /\ DOMAIN m1.anchor = {s \in DOMAIN meta.anchor : s <= back}
       /\ \A s \in DOMAIN m1.anchor : m1.anchor[s] = meta.anchor[s]
  <2>1. PICK a, b, v : a = m0.anchor /\ b = m0.floor /\ v = m0.undo
    OBVIOUS
  <2>2. m0 = [anchor |-> a, floor |-> b, prune |-> p, undo |-> v]
    BY <1>12, <2>1, Zenon DEF Fields
  <2>3. m1 = [anchor |-> delete_above_watermark(a, fork + 1), floor |-> b, prune |-> p, undo |-> v]
    BY <1>13, <2>2
  <2>4. /\ DOMAIN delete_above_watermark(a, fork + 1) = {s \in DOMAIN a : s <= back}
        /\ \A s \in DOMAIN delete_above_watermark(a, fork + 1) : delete_above_watermark(a, fork + 1)[s] = a[s]
    BY DEF delete_above_watermark, Restrict
  <2> QED
    BY <1>12, <2>1, <2>3, <2>4 DEF Fields
<1>15. PICK t, mint, H, B : t = Min({mem.through, back}) /\ mint = mem.mint /\ H = hseg' /\ B = bseg'
  OBVIOUS
<1>16. t = sealed_through(k) /\ t \in Int /\ t <= sealed_through(w) /\ sealed_through(w) \in Int /\ mint \in BOOLEAN
  <2>1. PICK x, y : x = mem.through /\ y = sealed_through(k)
    OBVIOUS
  <2>2. /\ x = sealed_through(n) /\ x \in Int /\ y \in Int /\ sealed_through(w) \in Int
        /\ LastOf(y) < k /\ LastOf(y) \in Int
    <3>1. x = sealed_through(n)
      BY <1>1, <1>2, <2>1 DEF Marks
    <3>2. x \in Int /\ sealed_through(w) \in Int
      BY <1>5, <3>1, SealedIs
    <3>3. y \in Int /\ LastOf(y) < k
      BY <1>5, <2>1, SealedIs
    <3> QED
      BY <3>1, <3>2, <3>3, SegBounds
  <2>3. y <= x /\ y <= sealed_through(w)
    <3>1. LastOf(y) < n /\ LastOf(y) < w
      BY <1>3, <1>5, <2>2
    <3> QED
      BY <1>5, <2>2, <3>1, SealedIs
  <2>4. t = Min({x, y})
    BY <1>2, <1>15, <2>1
  <2>5. t \in {x, y} /\ t <= x /\ t <= y
    BY <2>2, <2>4, MinTwo
  <2>6. t = y
    BY <2>2, <2>3, <2>5
  <2> QED
    BY <1>1, <1>15, <2>1, <2>2, <2>3, <2>6 DEF CareTypes
<1>17. PICK m : m = meta'
  OBVIOUS
<1>18. m = anchor_sync(m1, t, mint, c, H, B)
  BY <1>4, <1>11, <1>13, <1>15, <1>17
<1>19. m1.prune \in Nat /\ m1.prune = FirstOf(seg_of(m1.prune)) /\ t <= sealed_through(Len(c))
  BY <1>5, <1>7, <1>14, <1>16
<1>20. /\ Fields(m) /\ m.floor = m1.floor /\ m.prune = m1.prune /\ m.undo = m1.undo
       /\ \A s \in DOMAIN m.anchor : \/ s \in DOMAIN m1.anchor /\ m.anchor[s] = m1.anchor[s]
                                     \/ Minted(m, m1, t, mint, c, H, B, s)
       /\ \A s \in DOMAIN m1.anchor : s \in DOMAIN m.anchor
       /\ \A s \in Seg : /\ t < s /\ s <= sealed_through(Len(c)) /\ s >= seg_of(m1.prune)
                         /\ mint /\ m1.floor # NoFloor /\ computable(H, B, s)
                         => s \in DOMAIN m.anchor
  BY <1>7, <1>14, <1>16, <1>18, <1>19, SyncIs
<1>21. /\ mem'.header \subseteq mem.header /\ mem'.vouch = mem.vouch /\ mem'.mint = mem.mint
       /\ mem'.through = sealed_through(w) /\ mem'.unlink = {} /\ MemFields(mem')
       /\ mem'.body = {d \in mem.body : d.first < w /\ d.last >= meta.prune}
  <2>1. PICK a, b, e, r, o, f : mem = [header |-> a, body |-> b, vouch |-> e, mint |-> r, through |-> o, unlink |-> f]
    BY <1>1 DEF CareTypes
  <2>2. f = {}
    BY <1>3, <2>1
  <2>3. PICK x, y : x = {d \in a : d.first < w} /\ y = {d \in b : d.first < w /\ d.last >= meta.prune}
    OBVIOUS
  <2>4. mem' = [header |-> x, body |-> y, vouch |-> e, mint |-> r, through |-> sealed_through(w), unlink |-> f]
    BY <1>4, <2>1, <2>3
  <2> QED
    BY <2>1, <2>2, <2>3, <2>4 DEF MemFields
<1>22. /\ past'.exposed = past.exposed /\ past'.reorgs \in Nat /\ PastFields(past')
       /\ past'.covered = {s \in Seg : IF s \in touched
                                       THEN KeptIn(s) > 0 /\ (s \in past.covered \/ bseg[s] # "ok" \/ hseg[s] # "ok")
                                       ELSE s \in past.covered}
       /\ past'.unminted = {s \in past.unminted : s <= back} \cup (IF mem.mint THEN {} ELSE (back + 1)..sealed_through(w))
  <2>1. PICK a, b, e, r, o, f : past = [covered |-> a, unminted |-> b, exposed |-> e, reorgs |-> r, opens |-> o, faults |-> f]
    BY <1>1 DEF CareTypes
  <2>2. PICK x, y : /\ x = {s \in Seg : IF s \in touched
                                       THEN KeptIn(s) > 0 /\ (s \in a \/ bseg[s] # "ok" \/ hseg[s] # "ok")
                                       ELSE s \in a}
                    /\ y = {s \in b : s <= back} \cup (IF mem.mint THEN {} ELSE (back + 1)..sealed_through(w))
    OBVIOUS
  <2>3. past' = [covered |-> x, unminted |-> y, exposed |-> e, reorgs |-> r + 1, opens |-> o, faults |-> f]
    BY <1>4, <2>1, <2>2
  <2>4. r \in Nat
    BY <1>1, <2>1 DEF CareTypes
  <2> QED
    BY <2>1, <2>2, <2>3, <2>4 DEF PastFields
<1>23. \A s \in Seg :
          s \in past'.covered <=> IF Touched(s, k, w)
                                  THEN FirstOf(s) < k /\ (s \in past.covered \/ bseg[s] # "ok" \/ hseg[s] # "ok")
                                  ELSE s \in past.covered
  BY <1>6, <1>22
<1>24. \A s \in DOMAIN meta'.anchor :
          \/ /\ s \in DOMAIN meta.anchor /\ s <= sealed_through(k) /\ meta'.anchor[s] = meta.anchor[s]
          \/ /\ s \in Seg /\ sealed_through(k) < s /\ s <= sealed_through(w) /\ s >= seg_of(meta.prune)
             /\ meta'.anchor[s].geom = geom(chain', hseg', bseg', s)
  <2> SUFFICES ASSUME NEW s \in DOMAIN m.anchor
               PROVE  \/ /\ s \in DOMAIN meta.anchor /\ s <= sealed_through(k) /\ m.anchor[s] = meta.anchor[s]
                      \/ /\ s \in Seg /\ sealed_through(k) < s /\ s <= sealed_through(w) /\ s >= seg_of(meta.prune)
                         /\ m.anchor[s].geom = geom(c, H, B, s)
    BY <1>2, <1>15, <1>17
  <2>1. CASE s \in DOMAIN m1.anchor /\ m.anchor[s] = m1.anchor[s]
    BY <1>2, <1>14, <2>1
  <2>2. CASE Minted(m, m1, t, mint, c, H, B, s)
    BY <1>2, <1>7, <1>14, <1>16, <2>2 DEF Minted
  <2> QED
    BY <1>20, <2>1, <2>2
<1>25. \A s \in Seg : /\ s >= seg_of(meta.prune)
                      /\ \/ s \in DOMAIN meta.anchor /\ s <= sealed_through(k)
                         \/ /\ sealed_through(k) < s /\ s <= sealed_through(w)
                            /\ mem.mint /\ computable(hseg', bseg', s)
                      => s \in DOMAIN meta'.anchor
  <2> SUFFICES ASSUME NEW s \in Seg, s >= seg_of(meta.prune),
                      \/ s \in DOMAIN meta.anchor /\ s <= sealed_through(k)
                      \/ /\ sealed_through(k) < s /\ s <= sealed_through(w)
                         /\ mem.mint /\ computable(hseg', bseg', s)
               PROVE  s \in DOMAIN m.anchor
    BY <1>17
  <2>1. CASE s \in DOMAIN meta.anchor /\ s <= sealed_through(k)
    BY <1>2, <1>14, <1>20, <2>1
  <2>2. CASE /\ sealed_through(k) < s /\ s <= sealed_through(w)
             /\ mem.mint /\ computable(hseg', bseg', s)
    <3>1. mint /\ m1.floor # NoFloor
      BY <1>1, <1>14, <1>15, <2>2 DEF Marks
    <3>2. t < s /\ s <= sealed_through(Len(c)) /\ s >= seg_of(m1.prune) /\ computable(H, B, s)
      BY <1>2, <1>7, <1>14, <1>15, <1>16, <2>2
    <3> QED
      BY <1>20, <3>1, <3>2
  <2> QED
    BY <2>1, <2>2
<1>26. /\ Fields(meta') /\ meta'.floor = meta.floor /\ meta'.prune = meta.prune
       /\ meta'.undo \in Nat /\ meta.undo <= meta'.undo /\ meta'.undo <= w /\ w - UndoKept <= meta'.undo
  BY <1>2, <1>12, <1>14, <1>17, <1>20, Zenon
<1>27. Reorged(k, w)
  <2>1. /\ k \in Nat /\ k >= 1 /\ w \in Nat /\ k < Len(chain) /\ k < w /\ w <= BlocksMax /\ meta.undo <= k
        /\ chain' \in Seq(Nat) /\ Len(chain') = w /\ mem.unlink = {}
        /\ \A s \in Nat : LastOf(s) < k => Prefix(chain', s) = Prefix(chain, s)
    BY <1>2, <1>3, <1>5, <1>7
  <2>2. \A s \in Seg :
          /\ ~Touched(s, k, w) => hseg'[s] = hseg[s] /\ bseg'[s] = bseg[s]
          /\ hseg[s] = "ok" \/ (Touched(s, k, w) /\ FirstOf(s) >= k) => hseg'[s] = "ok"
          /\ bseg[s] = "ok" \/ (Touched(s, k, w) /\ FirstOf(s) >= k) => bseg'[s] = "ok"
          /\ bseg'[s] = "unlinked" => bseg[s] = "unlinked"
    BY <1>9
  <2>3. past'.unminted = {s \in past.unminted : s <= sealed_through(k)}
                           \cup (IF mem.mint THEN {} ELSE (sealed_through(k) + 1)..sealed_through(w))
    BY <1>2, <1>22, Zenon
  <2> HIDE DEF Fields, MemFields, PastFields
  <2> QED
    BY <1>10, <1>21, <1>22, <1>23, <1>24, <1>25, <1>26, <2>1, <2>2, <2>3, Zenon DEF Reorged
<1> QED
  BY <1>2, <1>27

\* The commit of a reorg keeps the invariant.
LEMMA CareReorgKeeps ==
    ASSUME CareInv, NEW k, NEW w, Reorged(k, w)
    PROVE  CareInv'
<1>1. CareTypes /\ Marks /\ AnchorsSound /\ Judged
  BY DEF CareInv
<1>2. PICK n, p, u, v : n = Len(chain) /\ p = meta.prune /\ u = meta.undo /\ v = meta'.undo
  OBVIOUS
<1>3. /\ n \in Nat /\ p \in Nat /\ u \in Nat /\ v \in Nat /\ k \in Nat /\ w \in Nat
      /\ p <= u /\ u <= k /\ k < n /\ k < w /\ w <= BlocksMax /\ u <= v /\ v <= w
      /\ p = FirstOf(seg_of(p)) /\ Len(chain') = w /\ meta'.prune = p
  <2>1. n \in Nat /\ p \in Nat /\ u \in Nat /\ p <= u /\ p = FirstOf(seg_of(p))
    BY <1>1, <1>2 DEF CareTypes, Marks
  <2>2. /\ v \in Nat /\ k \in Nat /\ w \in Nat /\ u <= k /\ k < n /\ k < w /\ w <= BlocksMax /\ u <= v /\ v <= w
        /\ Len(chain') = w /\ meta'.prune = p
    BY <1>2, Zenon DEF Reorged
  <2> QED
    BY <2>1, <2>2
<1>4. PICK a, e, b, e1 : a = seg_of(p) /\ e = sealed_through(n) /\ b = sealed_through(k) /\ e1 = sealed_through(w)
  OBVIOUS
<1>5. /\ a \in Nat /\ e \in Int /\ b \in Int /\ e1 \in Int
      /\ \A s \in Int : /\ s <= e <=> LastOf(s) < n
                        /\ s <= b <=> LastOf(s) < k
                        /\ s <= e1 <=> LastOf(s) < w
                        /\ FirstOf(s) >= p <=> s >= a
                        /\ s < a <=> LastOf(s) < p
                        /\ FirstOf(s) \in Int /\ LastOf(s) \in Int /\ LastOf(s) = FirstOf(s) + SegLen - 1
                        /\ LastOf(s) >= FirstOf(s)
  <2>1. e \in Int /\ \A s \in Int : s <= e <=> LastOf(s) < n
    BY <1>3, <1>4, SealedIs
  <2>2. b \in Int /\ \A s \in Int : s <= b <=> LastOf(s) < k
    BY <1>3, <1>4, SealedIs
  <2>3. e1 \in Int /\ \A s \in Int : s <= e1 <=> LastOf(s) < w
    BY <1>3, <1>4, SealedIs
  <2>4. a \in Nat /\ \A s \in Int : (FirstOf(s) >= p <=> s >= a) /\ (s < a <=> LastOf(s) < p)
    BY <1>3, <1>4, SegOf, FloorSeg
  <2>5. \A s \in Int : /\ FirstOf(s) \in Int /\ LastOf(s) \in Int /\ LastOf(s) = FirstOf(s) + SegLen - 1
                       /\ LastOf(s) >= FirstOf(s)
    BY SegBounds, CareNumbers
  <2> QED
    BY <2>1, <2>2, <2>3, <2>4, <2>5
\* the segments the branch leaves alone, rewrites in part and rewrites whole
<1>6. ASSUME NEW s \in Seg
      PROVE  /\ s \in Int
             /\ s <= b => ~Touched(s, k, w) /\ s <= e /\ s <= e1
             /\ b < s /\ s <= e1 => Touched(s, k, w)
             /\ FirstOf(s) < k /\ ~Touched(s, k, w) => s <= b
             /\ ~Touched(s, k, w) /\ ~(s <= b) => FirstOf(s) >= w
             /\ s < a => s <= b
  <2>1. s \in Int
    BY SegIs
  <2>2. PICK f, l : f = FirstOf(s) /\ l = LastOf(s)
    OBVIOUS
  <2>3. /\ f \in Int /\ l \in Int /\ f <= l
        /\ (s <= e <=> l < n) /\ (s <= b <=> l < k) /\ (s <= e1 <=> l < w) /\ (s < a <=> l < p)
    BY <1>5, <2>1, <2>2
  <2>4. Touched(s, k, w) <=> l >= k /\ f < w
    BY <2>2 DEF Touched
  <2>5. (b < s <=> l >= k)
    BY <1>3, <1>5, <2>1, <2>3
  <2> QED
    BY <1>3, <2>1, <2>2, <2>3, <2>4, <2>5
\* what is wrong anywhere, or was said to be, is below the branch in its first block
<1>7. ASSUME NEW s \in Seg,
             \/ hseg[s] # "ok" \/ bseg[s] # "ok" \/ s \in past.covered \/ s \in past.exposed
             \/ \E d \in mem.body : d.seg = s
      PROVE  FirstOf(s) < k /\ FirstOf(s) < v /\ FirstOf(s) < w
  <2>1. FirstOf(s) < u
    BY <1>1, <1>2, <1>7 DEF Judged, OldOnly
  <2>2. FirstOf(s) \in Int
    BY SegIs, SegBounds
  <2> QED
    BY <1>3, <2>1, <2>2
<1>8. ASSUME NEW s \in Seg, s \notin past'.covered
      PROVE  /\ Touched(s, k, w) => hseg'[s] = "ok" /\ bseg'[s] = "ok"
             /\ ~Touched(s, k, w) => s \notin past.covered /\ hseg'[s] = hseg[s] /\ bseg'[s] = bseg[s]
  <2>1. CASE Touched(s, k, w)
    <3>1. ~(FirstOf(s) < k /\ (s \in past.covered \/ bseg[s] # "ok" \/ hseg[s] # "ok"))
      BY <1>8, <2>1 DEF Reorged
    <3>2. CASE FirstOf(s) < k
      BY <3>1, <3>2 DEF Reorged
    <3>3. CASE ~(FirstOf(s) < k)
      <4>1. FirstOf(s) >= k
        <5>1. FirstOf(s) \in Int
          BY SegIs, SegBounds
        <5> QED
          BY <1>3, <3>3, <5>1
      <4> QED
        BY <2>1, <4>1 DEF Reorged
    <3> QED
      BY <2>1, <3>2, <3>3
  <2>2. CASE ~Touched(s, k, w)
    BY <1>8, <2>2 DEF Reorged
  <2> QED
    BY <2>1, <2>2
<1>9. ASSUME NEW s \in Seg
      PROVE  /\ s \in past'.covered => FirstOf(s) < k /\ FirstOf(s) < v
             /\ s \in past'.covered /\ ~Touched(s, k, w) => s \in past.covered
             /\ s \in past.covered => s \in past'.covered
             /\ hseg'[s] # "ok" => hseg[s] # "ok"
             /\ bseg'[s] # "ok" => bseg[s] # "ok"
  <2>1. s \in past'.covered <=> IF Touched(s, k, w)
                                THEN FirstOf(s) < k /\ (s \in past.covered \/ bseg[s] # "ok" \/ hseg[s] # "ok")
                                ELSE s \in past.covered
    BY DEF Reorged
  <2>2. (hseg[s] = "ok" => hseg'[s] = "ok") /\ (bseg[s] = "ok" => bseg'[s] = "ok")
    BY DEF Reorged
  <2> QED
    BY <1>7, <2>1, <2>2
<1>10. CareTypes'
  <2>1. (\A d \in mem'.body : ToEnd(d)) /\ (\A d \in mem'.header : InOne(d))
    BY <1>1 DEF Reorged, CareTypes
  <2>2. Len(chain') >= 1 /\ Len(chain') <= BlocksMax
    BY <1>3
  <2>3. chain' \in Seq(Nat) /\ hseg' \in [Seg -> HeaderState] /\ bseg' \in [Seg -> BodyState]
    BY DEF Reorged
  <2>4. mem'.mint \in BOOLEAN /\ mem'.unlink \subseteq Seg /\ past'.exposed \subseteq Seg /\ past'.reorgs \in Nat
    BY <1>1 DEF Reorged, CareTypes
  <2>5. Fields(meta') /\ MemFields(mem') /\ PastFields(past')
    BY DEF Reorged
  <2> QED
    BY <2>1, <2>2, <2>3, <2>4, <2>5 DEF CareTypes, Fields, MemFields, PastFields
<1>11. Marks'
  <2>1. /\ meta'.floor \in Nat /\ (mem'.mint => meta'.floor # NoFloor)
    BY <1>1 DEF Marks, Reorged
  <2>2. w - UndoKept <= v /\ mem'.through = e1 /\ mem'.unlink = {}
    BY <1>2, <1>4, Zenon DEF Reorged
  <2>3. p <= v
    BY <1>3
  <2> QED
    BY <1>2, <1>3, <1>4, <2>1, <2>2, <2>3 DEF Marks
<1>12. ASSUME NEW s \in DOMAIN meta.anchor
       PROVE  s \in Nat /\ s >= a /\ s <= e /\ (s <= b => Prefix(chain', s) = Prefix(chain, s))
  <2>1. s \in a..e
    BY <1>1, <1>2, <1>4, <1>12 DEF AnchorsSound
  <2>2. s \in Nat /\ s >= a /\ s <= e
    BY <1>5, <2>1
  <2>3. s <= b => LastOf(s) < k
    BY <1>5, <2>2
  <2> QED
    BY <2>2, <2>3 DEF Reorged
<1>13. AnchorsSound'
  <2>1. ASSUME NEW s \in DOMAIN meta'.anchor
        PROVE  s \in a..e1 /\ meta'.anchor[s].geom[1] = Prefix(chain', s)
    <3>1. CASE s \in DOMAIN meta.anchor /\ s <= sealed_through(k) /\ meta'.anchor[s] = meta.anchor[s]
      <4>1. s \in Nat /\ s >= a /\ s <= b /\ Prefix(chain', s) = Prefix(chain, s)
        BY <1>4, <1>12, <3>1
      <4>2. s <= e1
        <5>1. LastOf(s) < k /\ LastOf(s) \in Int
          BY <1>5, <4>1
        <5>2. LastOf(s) < w
          BY <1>3, <5>1
        <5> QED
          BY <1>5, <4>1, <5>2
      <4>3. meta.anchor[s].geom[1] = Prefix(chain, s)
        BY <1>1, <3>1 DEF AnchorsSound
      <4> QED
        BY <1>5, <3>1, <4>1, <4>2, <4>3
    <3>2. CASE /\ s \in Seg /\ sealed_through(k) < s /\ s <= sealed_through(w) /\ s >= seg_of(meta.prune)
               /\ meta'.anchor[s].geom = geom(chain', hseg', bseg', s)
      <4>1. s \in a..e1
        BY <1>2, <1>4, <1>5, <1>6, <3>2
      <4> QED
        BY <3>2, <4>1, GeomIs
    <3> QED
      BY <2>1, <3>1, <3>2 DEF Reorged
  <2>2. ASSUME NEW s \in 0..(a - 1)
        PROVE  bseg'[s] = "unlinked" \/ s \in mem'.unlink
    <3>1. bseg[s] = "unlinked"
      BY <1>1, <1>2, <1>4 DEF AnchorsSound, Reorged
    <3>2. s \in Seg
      <4>1. s \in Nat /\ s < a
        BY <1>5
      <4>2. LastOf(s) < p /\ FirstOf(s) <= LastOf(s) /\ FirstOf(s) \in Int /\ LastOf(s) \in Int
        BY <1>5, <4>1
      <4>3. FirstOf(s) <= BlocksMax
        BY <1>3, <4>2, CareNumbers
      <4> QED
        BY <4>1, <4>3, SegIs
    <3>3. ~Touched(s, k, w)
      BY <1>5, <1>6, <3>2
    <3> QED
      BY <3>1, <3>2, <3>3 DEF Reorged
  <2>3. ASSUME NEW s \in a..seg_of(BlocksMax)
        PROVE  bseg'[s] # "unlinked"
    <3>1. bseg[s] # "unlinked"
      BY <1>1, <1>2, <1>4 DEF AnchorsSound
    <3>2. s \in Seg
      <4>1. seg_of(BlocksMax) \in Nat /\ Seg = 0..seg_of(BlocksMax)
        BY CareNumbers, SegOf DEF Seg, seg_of
      <4> QED
        BY <1>5, <4>1
    <3> QED
      BY <3>1, <3>2 DEF Reorged
  <2> QED
    BY <1>3, <1>4, <2>1, <2>2, <2>3 DEF AnchorsSound
<1>14. OldOnly'
  <2> SUFFICES ASSUME NEW s \in Seg,
                      \/ hseg'[s] # "ok" \/ bseg'[s] # "ok" \/ s \in past'.covered \/ s \in past'.exposed
                      \/ \E d \in mem'.body : d.seg = s
               PROVE  FirstOf(s) < v
    BY <1>2 DEF OldOnly
  <2>1. CASE s \in past'.covered
    BY <1>9, <2>1
  <2>2. CASE s \notin past'.covered
    <3>1. \/ hseg[s] # "ok" \/ bseg[s] # "ok" \/ s \in past.exposed \/ \E d \in mem.body : d.seg = s
      BY <1>9, <2>2 DEF Reorged
    <3> QED
      BY <1>7, <3>1
  <2> QED
    BY <2>1, <2>2
<1>15. BelowTop'
  <2> SUFFICES ASSUME NEW s \in Seg, s >= a, s \notin past'.covered, bseg'[s] # "ok" \/ hseg'[s] \notin {"ok", "torn"}
               PROVE  LastOf(s) + 1 < w
    BY <1>3, <1>4 DEF BelowTop
  <2>1. ~Touched(s, k, w)
    BY <1>8
  <2>2. hseg[s] # "ok" \/ bseg[s] # "ok"
    BY <1>9
  <2>3. FirstOf(s) < k
    BY <1>7, <2>2
  <2>4. s <= b
    BY <1>6, <2>1, <2>3
  <2>5. LastOf(s) < k /\ LastOf(s) \in Int
    BY <1>5, <1>6, <2>4
  <2> QED
    BY <1>3, <2>5
<1>16. RowsFit'
  <2> SUFFICES ASSUME NEW s \in DOMAIN meta'.anchor, s \notin past'.covered
               PROVE  meta'.anchor[s].geom = <<Prefix(chain', s), "ok", "ok">>
    BY DEF RowsFit
  <2>1. CASE s \in DOMAIN meta.anchor /\ s <= sealed_through(k) /\ meta'.anchor[s] = meta.anchor[s]
    <3>1. s \in Nat /\ s <= e /\ s <= b /\ Prefix(chain', s) = Prefix(chain, s)
      BY <1>4, <1>12, <2>1
    <3>2. s \in Seg
      <4>1. LastOf(s) < k /\ FirstOf(s) <= LastOf(s) /\ FirstOf(s) \in Int /\ LastOf(s) \in Int
        BY <1>5, <3>1
      <4>2. FirstOf(s) <= BlocksMax
        BY <1>3, <4>1, CareNumbers
      <4> QED
        BY <3>1, <4>2, SegIs
    <3>3. s \notin past.covered
      BY <1>9, <3>2
    <3>4. meta.anchor[s].geom = <<Prefix(chain, s), "ok", "ok">>
      BY <1>1, <2>1, <3>3 DEF Judged, RowsFit
    <3> QED
      BY <2>1, <3>1, <3>4
  <2>2. CASE /\ s \in Seg /\ sealed_through(k) < s /\ s <= sealed_through(w) /\ s >= seg_of(meta.prune)
             /\ meta'.anchor[s].geom = geom(chain', hseg', bseg', s)
    <3>1. Touched(s, k, w)
      BY <1>4, <1>6, <2>2
    <3>2. hseg'[s] = "ok" /\ bseg'[s] = "ok"
      BY <1>8, <2>2, <3>1
    <3> QED
      BY <2>2, <3>2, GeomIs
  <2> QED
    BY <2>1, <2>2 DEF Reorged
<1>17. Rowed'
  <2> SUFFICES ASSUME NEW s \in Seg, s >= a, s <= e1, s \notin past'.covered
               PROVE  s \in past'.unminted \cup DOMAIN meta'.anchor
    BY <1>3, <1>4 DEF Rowed
  <2>1. CASE s <= b
    <3>1. s <= e /\ ~Touched(s, k, w)
      BY <1>6, <2>1
    <3>2. s \in past.unminted \cup DOMAIN meta.anchor
      BY <1>1, <1>2, <1>4, <1>8, <3>1 DEF Judged, Rowed
    <3>3. s \in past.unminted => s \in past'.unminted
      BY <1>4, <2>1 DEF Reorged
    <3>4. s \in DOMAIN meta.anchor => s \in DOMAIN meta'.anchor
      BY <1>2, <1>4, <2>1 DEF Reorged
    <3> QED
      BY <3>2, <3>3, <3>4
  <2>2. CASE b < s
    <3>1. hseg'[s] = "ok" /\ bseg'[s] = "ok"
      BY <1>6, <1>8, <2>2
    <3>2. computable(hseg', bseg', s)
      BY <3>1 DEF computable, identity, material
    <3>3. CASE mem.mint
      BY <1>2, <1>4, <2>2, <3>2, <3>3 DEF Reorged
    <3>4. CASE ~mem.mint
      <4>1. s \in (b + 1)..e1
        BY <1>5, <1>6, <2>2
      <4>2. (b + 1)..e1 \subseteq past'.unminted
        BY <1>4, <3>4 DEF Reorged
      <4> QED
        BY <4>1, <4>2
    <3> QED
      BY <3>3, <3>4
  <2> QED
    BY <1>5, <1>6, <2>1, <2>2
<1>18. Told'
  <2> SUFFICES ASSUME NEW d \in mem'.body, d.seg \notin past'.covered, hseg'[d.seg] = "ok", bseg'[d.seg] = "ok"
               PROVE  d.seg \in past'.unminted /\ LastOf(d.seg) < v
    BY <1>2 DEF Told
  <2>1. PICK s : s = d.seg
    OBVIOUS
  <2>2. d \in mem.body /\ s \in Seg
    BY <1>1, <2>1 DEF Reorged, CareTypes, ToEnd, InOne
  <2>3. FirstOf(s) < k
    BY <1>7, <2>1, <2>2
  <2>4. s \notin past.covered
    BY <1>9, <2>1, <2>2
  <2>5. hseg[s] = "ok" /\ bseg[s] = "ok"
    <3>1. CASE Touched(s, k, w)
      BY <2>1, <2>2, <2>3, <3>1 DEF Reorged
    <3>2. CASE ~Touched(s, k, w)
      BY <1>8, <2>1, <2>2, <3>2
    <3> QED
      BY <3>1, <3>2
  <2>6. s \in past.unminted /\ LastOf(s) < u
    BY <1>1, <1>2, <2>1, <2>2, <2>4, <2>5 DEF Judged, Told
  <2>7. LastOf(s) < v /\ s <= b
    <3>1. s \in Int /\ LastOf(s) \in Int
      BY <1>5, <1>6, <2>2
    <3>2. LastOf(s) < v /\ LastOf(s) < k
      BY <1>3, <2>6, <3>1
    <3> QED
      BY <1>5, <3>1, <3>2
  <2>8. s \in past'.unminted
    BY <1>4, <2>6, <2>7 DEF Reorged
  <2> QED
    BY <2>1, <2>7, <2>8
<1>19. HeaderFirst'
  <2> SUFFICES ASSUME NEW d \in mem'.header, NEW f \in mem'.body, f.seg = d.seg, d.seg \notin past'.covered
               PROVE  bseg'[d.seg] # "ok"
    BY DEF HeaderFirst
  <2>1. PICK s : s = d.seg
    OBVIOUS
  <2>2. d \in mem.header /\ f \in mem.body /\ s \in Seg
    BY <1>1, <2>1 DEF Reorged, CareTypes, InOne
  <2>3. FirstOf(s) < k
    BY <1>7, <2>1, <2>2
  <2>4. bseg[s] # "ok" /\ s \notin past.covered
    BY <1>1, <1>9, <2>1, <2>2 DEF Judged, HeaderFirst
  <2>5. ~Touched(s, k, w)
    BY <2>1, <2>2, <2>3, <2>4 DEF Reorged
  <2> QED
    BY <1>8, <2>1, <2>2, <2>4, <2>5
<1>20. Vouched'
  <2> SUFFICES ASSUME NEW s \in Seg, s >= a, s <= e1, s \notin past'.covered, s \notin mem'.vouch,
                      bseg'[s] \notin {"ok", "flip", "long"}
               PROVE  \E d \in mem'.body : d.seg = s
    BY <1>3, <1>4 DEF Vouched
  <2>1. ~Touched(s, k, w) /\ s \notin past.covered /\ bseg[s] \notin {"ok", "flip", "long"}
    BY <1>8
  <2>2. s <= b
    BY <1>5, <1>6, <2>1
  <2>3. s <= e /\ s \notin mem.vouch
    BY <1>6, <2>2 DEF Reorged
  <2>4. PICK d \in mem.body : d.seg = s
    BY <1>1, <1>2, <1>4, <2>1, <2>3 DEF Judged, Vouched
  <2>5. d.last = LastOf(s) /\ d.first <= LastOf(s) /\ d.first \in Int
    BY <1>1, <2>4 DEF CareTypes, ToEnd, InOne
  <2>6. LastOf(s) < k /\ LastOf(s) >= p /\ LastOf(s) \in Int
    <3>1. s \in Int /\ ~(s < a)
      BY <1>5, <1>6
    <3>2. LastOf(s) < k /\ ~(LastOf(s) < p) /\ LastOf(s) \in Int
      BY <1>5, <2>2, <3>1
    <3> QED
      BY <1>3, <3>2
  <2>7. d.first < w /\ d.last >= p
    BY <1>3, <2>5, <2>6
  <2> QED
    BY <1>2, <2>4, <2>7 DEF Reorged
<1> QED
  BY <1>10, <1>11, <1>13, <1>14, <1>15, <1>16, <1>17, <1>18, <1>19, <1>20 DEF CareInv, Judged

-----------------------------------------------------------------------------
(* The judgement at every open.                                            *)

\* The segment of the last block, and those before it.
LEMMA TopIs ==
    ASSUME NEW n \in Nat, n >= 1, n <= BlocksMax
    PROVE  /\ seg_of(n - 1) \in Nat
           /\ \A s \in Nat : s <= seg_of(n - 1) => s \in Seg /\ FirstOf(s) <= n - 1
           /\ \A s \in Nat : s <= seg_of(n - 1) - 1 => LastOf(s) + 1 < n
<1>1. PICK h, t : h = n - 1 /\ t = seg_of(h)
  OBVIOUS
<1>2. h \in Nat
  BY <1>1
<1>3. t \in Nat /\ \A s \in Int : (s <= t <=> FirstOf(s) <= h) /\ (s >= t <=> h <= LastOf(s))
  BY <1>1, <1>2, SegOf
<1>4. ASSUME NEW s \in Nat, s <= t
      PROVE  s \in Seg /\ FirstOf(s) <= n - 1
  <2>1. FirstOf(s) <= h /\ FirstOf(s) \in Int
    BY <1>3, <1>4, SegBounds
  <2>2. FirstOf(s) <= BlocksMax
    BY <1>1, <2>1, CareNumbers
  <2> QED
    BY <1>1, <2>1, <2>2, SegIs
<1>5. ASSUME NEW s \in Nat, s <= t - 1
      PROVE  LastOf(s) + 1 < n
  <2>1. ~(s >= t)
    BY <1>3, <1>5
  <2>2. ~(h <= LastOf(s)) /\ LastOf(s) \in Int
    BY <1>3, <2>1, SegBounds
  <2> QED
    BY <1>1, <2>2
<1> QED
  BY <1>1, <1>3, <1>4, <1>5

\* What the scan of the header segments tells lies in one segment.
LEMMA ScanHeadersIs ==
    ASSUME NEW c \in Seq(Nat), Len(c) >= 1, Len(c) <= BlocksMax, NEW H, NEW d \in scan_headers(c, H)
    PROVE  InOne(d)
<1> DEFINE top == seg_of(Len(c) - 1)
           Whole(s) == Span(s, FirstOf(s), Min({LastOf(s), Len(c) - 1}))
<1>1. PICK n : n = Len(c)
  OBVIOUS
<1>2. n \in Nat /\ n >= 1 /\ n <= BlocksMax
  BY <1>1
<1>3. top \in Nat /\ \A s \in Nat : s <= top => s \in Seg /\ FirstOf(s) <= n - 1
  BY <1>1, <1>2, TopIs
<1>4. ASSUME NEW s \in 0..top
      PROVE  /\ InOne(Whole(s)) /\ Whole(s).first = FirstOf(s) /\ InOne([Whole(s) EXCEPT !.first = @ + 1])
             /\ [Whole(s) EXCEPT !.first = @] = Whole(s)
  <2>1. s \in Seg /\ FirstOf(s) <= n - 1 /\ s \in Nat
    BY <1>3
  <2>2. PICK f, l, x : f = FirstOf(s) /\ l = LastOf(s) /\ x = Min({LastOf(s), Len(c) - 1})
    OBVIOUS
  <2>3. f \in Int /\ l \in Int /\ l = f + SegLen - 1
    BY <2>1, <2>2, SegBounds
  <2>4. x \in {l, n - 1} /\ x <= l
    <3>1. PICK y : y = n - 1
      OBVIOUS
    <3>2. y \in Int /\ x = Min({l, y}) /\ l \in Int
      BY <1>1, <1>2, <2>2, <2>3, <3>1
    <3> QED
      BY <3>1, <3>2, MinTwo
  <2>5. x \in Int /\ f <= x /\ f <= l /\ f + 1 <= l
    BY <1>2, <2>1, <2>2, <2>3, <2>4, CareNumbers
  <2>6. Whole(s) = [seg |-> s, first |-> f, last |-> x]
    BY <2>2 DEF Span
  <2>7. InOne([seg |-> s, first |-> f, last |-> x]) /\ InOne([seg |-> s, first |-> f + 1, last |-> x])
    <3>1. \A y \in {f, f + 1} : InOne([seg |-> s, first |-> y, last |-> x])
      <4> SUFFICES ASSUME NEW y \in {f, f + 1}
                   PROVE  InOne([seg |-> s, first |-> y, last |-> x])
        OBVIOUS
      <4>1. y \in Int /\ f <= y /\ y <= l
        BY <2>3, <2>5
      <4>2. PICK z : z = [seg |-> s, first |-> y, last |-> x]
        OBVIOUS
      <4>3. z.seg = s /\ z.first = y /\ z.last = x
        BY <4>2
      <4>4. InOne(z)
        BY <2>1, <2>2, <2>4, <2>5, <4>1, <4>3, Zenon DEF InOne
      <4> QED
        BY <4>2, <4>4
    <3> QED
      BY <3>1
  <2> HIDE DEF Whole
  <2>8. [Whole(s) EXCEPT !.first = @ + 1] = [seg |-> s, first |-> f + 1, last |-> x]
    BY <2>6
  <2>9. [Whole(s) EXCEPT !.first = @] = Whole(s) /\ Whole(s).first = f
    BY <2>6
  <2> QED
    BY <2>2, <2>6, <2>7, <2>8, <2>9, Zenon
<1> DEFINE cut == {[Whole(s) EXCEPT !.first = IF H[s] = "short" THEN @ + 1 ELSE @] :
                      s \in {x \in 0..top : H[x] \in {"gone", "short"}}}
           blamed[s \in 0..top] ==
              /\ s > 0 /\ ~blamed[s - 1] /\ ~Hurts(cut, s - 1) /\ ~Hurts(cut, s)
              /\ ~(LastIsOurs(H[s - 1]) /\ FirstIsOurs(H[s]))
<1>5. c # <<>>
  OBVIOUS
<1>6. d \in cut \cup {Whole(s) : s \in {x \in 0..top : blamed[x]}}
  BY <1>5, Zenon DEF scan_headers
<1> HIDE DEF blamed
<1>7. (\E s \in 0..top : d = [Whole(s) EXCEPT !.first = IF H[s] = "short" THEN @ + 1 ELSE @])
      \/ \E s \in 0..top : d = Whole(s)
  <2>1. d \in cut => \E s \in 0..top : d = [Whole(s) EXCEPT !.first = IF H[s] = "short" THEN @ + 1 ELSE @]
    OBVIOUS
  <2>2. d \in {Whole(s) : s \in {x \in 0..top : blamed[x]}} => \E s \in 0..top : d = Whole(s)
    OBVIOUS
  <2> QED
    BY <1>6, <2>1, <2>2
<1>8. CASE \E s \in 0..top : d = [Whole(s) EXCEPT !.first = IF H[s] = "short" THEN @ + 1 ELSE @]
  <2>1. PICK s \in 0..top : d = [Whole(s) EXCEPT !.first = IF H[s] = "short" THEN @ + 1 ELSE @]
    BY <1>8
  <2>2. CASE H[s] = "short"
    <3>1. d = [Whole(s) EXCEPT !.first = @ + 1]
      BY <2>1, <2>2
    <3> QED
      BY <1>4, <3>1
  <2>3. CASE H[s] # "short"
    <3>1. d = [Whole(s) EXCEPT !.first = @]
      BY <2>1, <2>3
    <3> QED
      BY <1>4, <3>1
  <2> QED
    BY <2>2, <2>3
<1>9. CASE \E s \in 0..top : d = Whole(s)
  BY <1>4, <1>9
<1> QED
  BY <1>7, <1>8, <1>9

\* The damage the scan of the body segments tells.
LEMMA ScanBodiesIs ==
    ASSUME NEW c \in Seq(Nat), Len(c) >= 1, Len(c) <= BlocksMax, NEW B, NEW p \in Nat, NEW d \in scan_bodies(c, B, p)
    PROVE  /\ ToEnd(d) /\ d.seg \in Nat /\ d.seg >= seg_of(p) /\ d.seg <= seg_of(Len(c) - 1) - 1
           /\ B[d.seg] \in {"gone", "short", "holed", "noside"}
<1>1. PICK n, t, a : n = Len(c) /\ t = seg_of(Len(c) - 1) /\ a = seg_of(p)
  OBVIOUS
<1>2. n \in Nat /\ n >= 1 /\ n <= BlocksMax /\ t \in Nat /\ a \in Nat /\ t = seg_of(n - 1)
  <2>1. n \in Nat /\ n >= 1 /\ n <= BlocksMax
    BY <1>1
  <2> QED
    BY <1>1, <2>1, TopIs, SegOf
<1>3. PICK s \in a..(t - 1) : /\ d = Span(s, FirstOf(s) + (IF B[s] = "short" THEN 1 ELSE 0), LastOf(s))
                              /\ B[s] \in {"gone", "short", "holed", "noside"}
  BY <1>1 DEF scan_bodies
<1>4. PICK f, l : f = FirstOf(s) + (IF B[s] = "short" THEN 1 ELSE 0) /\ l = LastOf(s)
  OBVIOUS
<1>5. d = [seg |-> s, first |-> f, last |-> l]
  BY <1>3, <1>4 DEF Span
<1>6. s \in Nat /\ s >= a /\ s <= t - 1 /\ s \in Seg
  <2>1. s \in Nat /\ s >= a /\ s <= t - 1 /\ s <= t
    BY <1>2
  <2> QED
    BY <1>2, <2>1, TopIs
<1>7. f \in Int /\ l \in Int /\ FirstOf(s) <= f /\ f <= l /\ FirstOf(s) <= l /\ l <= LastOf(s)
  <2>1. FirstOf(s) \in Int /\ LastOf(s) \in Int /\ LastOf(s) = FirstOf(s) + SegLen - 1
    BY <1>6, SegBounds
  <2>2. f = FirstOf(s) \/ f = FirstOf(s) + 1
    BY <1>4, <2>1
  <2> QED
    BY <1>4, <2>1, <2>2, CareNumbers
<1>8. d.seg = s /\ d.first = f /\ d.last = l
  BY <1>5
<1>9. ToEnd(d)
  BY <1>4, <1>6, <1>7, <1>8 DEF ToEnd, InOne
<1> QED
  BY <1>1, <1>3, <1>6, <1>8, <1>9

\* What opening leaves of the body segments: the pruned ones are gone, the others stay or are good.
LEMMA HealedIs ==
    ASSUME NEW m, m.prune \in Nat, NEW c, NEW H, NEW B \in [Seg -> BodyState], NEW r, r = Healed(m, c, H, B)
    PROVE  /\ r \in [Seg -> BodyState]
           /\ \A s \in Seg : /\ s < seg_of(m.prune) => r[s] = "unlinked"
                             /\ ~(s < seg_of(m.prune)) => r[s] = "ok" \/ r[s] = B[s]
<1>1. ASSUME NEW s \in Seg
      PROVE  /\ r[s] \in BodyState /\ (s < seg_of(m.prune) => r[s] = "unlinked")
             /\ ~(s < seg_of(m.prune)) => r[s] = "ok" \/ r[s] = B[s]
  <2>1. PICK y, z : /\ y = (B[s] = "noside" /\ (s \in DOMAIN m.anchor =>
                                  identity(H, s) /\ m.anchor[s].geom = geom(c, H, [B EXCEPT ![s] = "ok"], s)))
                    /\ z = (B[s] = "long" /\ s \in DOMAIN m.anchor
                                  /\ identity(H, s) /\ m.anchor[s].geom = geom(c, H, B, s))
    OBVIOUS
  <2>2. r[s] = IF s < seg_of(m.prune) THEN "unlinked" ELSE CASE y -> "ok" [] z -> "ok" [] OTHER -> B[s]
    BY <2>1 DEF Healed
  <2>3. y \in BOOLEAN /\ z \in BOOLEAN
    BY <2>1
  <2>4. (CASE y -> "ok" [] z -> "ok" [] OTHER -> B[s]) \in {"ok", B[s]}
    BY <2>3
  <2> QED
    BY <2>2, <2>4 DEF BodyState
<1>2. r = [s \in Seg |-> r[s]]
  BY DEF Healed
<1> QED
  BY <1>1, <1>2

\* A segment the judgement calls damaged.
Blamed(m, c, H, B, hd, s) ==
    /\ s \in Seg /\ s >= seg_of(m.prune) /\ s <= sealed_through(Len(c)) /\ identity(H, s) /\ ~Hurts(hd, s)
    /\ \/ s \in DOMAIN m.anchor /\ geom(c, H, B, s) # m.anchor[s].geom
       \/ s \notin DOMAIN m.anchor /\ \E a \in DOMAIN m.anchor : a > s

\* What the judgement of the sealed segments changes: it mints rows, and blames.
LEMMA VerifyIs ==
    ASSUME NEW m, m.prune \in Nat, m.floor \in Nat, NEW c \in Seq(Nat), Len(c) <= BlocksMax,
           NEW H, NEW B, NEW hd, NEW bd, NEW r, r = verify_sealed(m, c, H, B, hd, bd)
    PROVE  /\ \A d \in r.damage : ToEnd(d) /\ Blamed(m, c, H, B, hd, d.seg)
           /\ \A s \in Seg : /\ s >= seg_of(m.prune) /\ s <= sealed_through(Len(c))
                             /\ ~Hurts(bd, s) /\ s \notin r.vouch
                             => \/ \E d \in r.damage : d.seg = s
                                \/ s \in DOMAIN m.anchor /\ geom(c, H, B, s) = m.anchor[s].geom
           /\ r.floor \in Nat /\ (r.floor = m.floor \/ r.floor <= BlocksMax)
<1> DEFINE seen == {s \in seg_of(m.prune)..sealed_through(Len(c)) : ~Hurts(bd, s)}
           rowed == seen \cap DOMAIN m.anchor
           blind(s) == ~identity(H, s) \/ Hurts(hd, s)
           mismatch == {s \in rowed : ~blind(s) /\ geom(c, H, B, s) # m.anchor[s].geom}
           missing == {s \in seen \ rowed : FirstOf(s) >= m.floor /\ ~blind(s) /\ \E a \in DOMAIN m.anchor : a > s}
           regressed == {s \in (seen \ rowed) \ missing : FirstOf(s) >= m.floor /\ ~blind(s)}
           weak == {s \in rowed : blind(s) \/ m.anchor[s].grade # "sealed_here"}
           damage == {Span(s, FirstOf(s), LastOf(s)) : s \in mismatch \cup missing}
           vouch == ((seen \ rowed) \ missing) \cup (weak \ mismatch)
           floor == IF regressed # {} THEN Max({m.floor, FirstOf(Min(regressed))}) ELSE m.floor
<1>1. r.damage = damage /\ r.vouch = vouch /\ r.floor = floor
  BY DEF verify_sealed
<1>2. PICK a, e : a = seg_of(m.prune) /\ e = sealed_through(Len(c))
  OBVIOUS
<1>3. a \in Nat /\ e \in Int /\ Len(c) \in Nat /\ \A s \in Int : s <= e <=> LastOf(s) < Len(c)
  <2>1. PICK n, p : n = Len(c) /\ p = m.prune
    OBVIOUS
  <2>2. n \in Nat /\ p \in Nat
    BY <2>1
  <2>3. a \in Nat
    BY <1>2, <2>1, <2>2, SegOf
  <2>4. e \in Int /\ \A s \in Int : s <= e <=> LastOf(s) < n
    BY <1>2, <2>1, <2>2, SealedIs
  <2> QED
    BY <2>1, <2>2, <2>3, <2>4
<1>4. \A s \in a..e : s \in Seg /\ FirstOf(s) \in Nat /\ FirstOf(s) <= BlocksMax
  <2> SUFFICES ASSUME NEW s \in a..e
               PROVE  s \in Seg /\ FirstOf(s) \in Nat /\ FirstOf(s) <= BlocksMax
    OBVIOUS
  <2>1. s \in Nat /\ s <= e
    BY <1>3
  <2>2. LastOf(s) < Len(c) /\ FirstOf(s) \in Int /\ LastOf(s) \in Int /\ LastOf(s) = FirstOf(s) + SegLen - 1
    <3>1. s \in Int
      BY <2>1
    <3>2. LastOf(s) < Len(c)
      BY <1>3, <2>1, <3>1
    <3> QED
      BY <3>1, <3>2, SegBounds
  <2>3. FirstOf(s) <= BlocksMax
    BY <1>3, <2>2, CareNumbers
  <2>4. FirstOf(s) \in Nat
    BY <2>1, CareNumbers DEF FirstOf
  <2> QED
    BY <2>1, <2>3, <2>4, SegIs
<1>5. ASSUME NEW d \in r.damage
      PROVE  ToEnd(d) /\ Blamed(m, c, H, B, hd, d.seg)
  <2>1. PICK s \in mismatch \cup missing : d = Span(s, FirstOf(s), LastOf(s))
    BY <1>1
  <2>2. /\ s \in a..e /\ ~blind(s)
        /\ \/ s \in DOMAIN m.anchor /\ geom(c, H, B, s) # m.anchor[s].geom
           \/ s \notin DOMAIN m.anchor /\ \E x \in DOMAIN m.anchor : x > s
    BY <1>2, <2>1
  <2>3. d.seg = s /\ d.first = FirstOf(s) /\ d.last = LastOf(s)
    BY <2>1 DEF Span
  <2>4. s \in Seg /\ s \in Int /\ s >= a /\ s <= e
    BY <1>3, <1>4, <2>2
  <2>5. FirstOf(s) \in Int /\ LastOf(s) \in Int /\ FirstOf(s) <= LastOf(s)
    BY <2>4, SegBounds, CareNumbers
  <2>6. ToEnd(d)
    BY <2>3, <2>4, <2>5 DEF ToEnd, InOne
  <2> QED
    BY <1>2, <2>2, <2>3, <2>4, <2>6 DEF Blamed
<1>6. ASSUME NEW s \in Seg, s >= seg_of(m.prune), s <= sealed_through(Len(c)), ~Hurts(bd, s), s \notin r.vouch
      PROVE  \/ \E d \in r.damage : d.seg = s
             \/ s \in DOMAIN m.anchor /\ geom(c, H, B, s) = m.anchor[s].geom
  <2>1. s \in seen
    <3>1. s \in Int
      BY SegIs
    <3> QED
      BY <1>2, <1>3, <1>6, <3>1
  <2>2. s \in mismatch \cup missing => \E d \in r.damage : d.seg = s
    <3> SUFFICES ASSUME s \in mismatch \cup missing
                 PROVE  \E d \in damage : d.seg = s
      BY <1>1
    <3> HIDE DEF mismatch, missing
    <3>1. Span(s, FirstOf(s), LastOf(s)) \in damage
      OBVIOUS
    <3>2. Span(s, FirstOf(s), LastOf(s)).seg = s
      BY DEF Span
    <3> QED
      BY <3>1, <3>2
  <2>3. s \notin vouch
    BY <1>1, <1>6
  <2>4. CASE s \in DOMAIN m.anchor
    <3>1. s \in rowed
      BY <2>1, <2>4
    <3>2. s \in mismatch \/ s \notin weak
      BY <2>3
    <3>3. s \notin weak => ~blind(s)
      BY <3>1
    <3>4. s \notin weak => s \in mismatch \/ geom(c, H, B, s) = m.anchor[s].geom
      BY <3>1, <3>3
    <3> HIDE DEF mismatch, weak, missing
    <3> QED
      BY <2>2, <2>4, <3>2, <3>4
  <2>5. CASE s \notin DOMAIN m.anchor
    <3>1. s \in missing
      BY <2>1, <2>3, <2>5
    <3> HIDE DEF mismatch, missing
    <3> QED
      BY <2>2, <3>1
  <2> QED
    BY <2>4, <2>5
<1>7. r.floor \in Nat /\ (r.floor = m.floor \/ r.floor <= BlocksMax)
  <2>1. regressed \subseteq a..e
    BY <1>2
  <2> HIDE DEF regressed
  <2>2. CASE regressed = {}
    BY <1>1, <2>2
  <2>3. CASE regressed # {}
    <3>1. regressed \subseteq Nat
      BY <1>3, <2>1
    <3>2. \E i \in regressed : \A j \in regressed : i <= j
      BY <2>3, <3>1, LeastExists
    <3>3. Min(regressed) \in regressed
      BY <3>2 DEF Min
    <3>4. PICK x, y : x = FirstOf(Min(regressed)) /\ y = m.floor
      OBVIOUS
    <3>5. x \in Nat /\ x <= BlocksMax /\ y \in Nat
      BY <1>4, <2>1, <3>3, <3>4
    <3>6. Max({y, x}) \in {y, x}
      <4>1. y \in Int /\ x \in Int
        BY <3>5
      <4> QED
        BY <4>1, MaxTwo
    <3>7. r.floor = Max({y, x})
      BY <1>1, <2>3, <3>4
    <3> QED
      BY <3>4, <3>5, <3>6, <3>7
  <2> QED
    BY <2>2, <2>3
<1> QED
  BY <1>5, <1>6, <1>7

\* What may have struck the files while the node was down.
LEMMA StruckIs ==
    ASSUME CareInv, NEW f \in Struck, NEW H, NEW B, H = f[1], B = f[2]
    PROVE  /\ H \in [Seg -> HeaderState] /\ B \in [Seg -> BodyState]
           /\ \A s \in Seg : /\ H[s] = hseg[s] \/ s \in Below
                             /\ B[s] = bseg[s] \/ (s \in Below /\ B[s] # "unlinked")
<1>1. /\ hseg \in [Seg -> HeaderState] /\ bseg \in [Seg -> BodyState] /\ Below \subseteq Seg
      /\ HeaderFault \subseteq HeaderState /\ BodyFault \subseteq BodyState /\ "unlinked" \notin BodyFault
  <2>1. hseg \in [Seg -> HeaderState] /\ bseg \in [Seg -> BodyState] /\ past.exposed \subseteq Seg
    BY DEF CareInv, CareTypes
  <2>2. HeaderFault \subseteq HeaderState /\ BodyFault \subseteq BodyState /\ "unlinked" \notin BodyFault
    BY DEF HeaderFault, HeaderState, BodyFault, BodyState
  <2> QED
    BY <2>1, <2>2 DEF Below
<1>2. \/ H = hseg /\ B = bseg
      \/ \E s \in Below, x \in HeaderFault : H = [hseg EXCEPT ![s] = x] /\ B = bseg
      \/ \E s \in Below, x \in BodyFault : H = hseg /\ B = [bseg EXCEPT ![s] = x]
  BY DEF Struck
<1>3. CASE H = hseg /\ B = bseg
  BY <1>1, <1>3
<1>4. CASE \E s \in Below, x \in HeaderFault : H = [hseg EXCEPT ![s] = x] /\ B = bseg
  <2>1. PICK s \in Below, x \in HeaderFault : H = [hseg EXCEPT ![s] = x] /\ B = bseg
    BY <1>4
  <2> QED
    BY <1>1, <2>1
<1>5. CASE \E s \in Below, x \in BodyFault : H = hseg /\ B = [bseg EXCEPT ![s] = x]
  <2>1. PICK s \in Below, x \in BodyFault : H = hseg /\ B = [bseg EXCEPT ![s] = x]
    BY <1>5
  <2>2. x # "unlinked" /\ x \in BodyState
    BY <1>1
  <2> QED
    BY <1>1, <2>1, <2>2
<1> QED
  BY <1>2, <1>3, <1>4, <1>5

\* A store that mints rows has a floor for them.
LEMMA FloorAtOpen ==
    ASSUME NEW f \in Nat, NEW c \in Seq(Nat), Len(c) <= BlocksMax, NEW mint \in BOOLEAN,
           NEW r, r = anchor_floor_at_open(f, c, mint)
    PROVE  r \in Nat /\ (mint => r # NoFloor)
<1>1. PICK n, g : n = Len(c) /\ g = seg_of(n)
  OBVIOUS
<1>2. n \in Nat /\ n <= BlocksMax /\ NoFloor = BlocksMax + SegLen + 1
  BY <1>1 DEF NoFloor
<1>3. g \in Nat /\ FirstOf(g) <= n
  BY <1>1, <1>2, SegOf
<1>4. FirstOf(g + 1) = FirstOf(g) + SegLen /\ FirstOf(g) \in Nat
  <2>1. g * SegLen \in Nat /\ (g + 1) * SegLen = g * SegLen + SegLen
    BY <1>3, CareNumbers
  <2> QED
    BY <2>1 DEF FirstOf
<1>5. FirstOf(g + 1) \in Nat /\ FirstOf(g + 1) < NoFloor /\ n < NoFloor
  BY <1>2, <1>3, <1>4, CareNumbers
<1>6. r = IF f # NoFloor \/ ~mint THEN f ELSE IF n % SegLen = 0 THEN n ELSE FirstOf(g + 1)
  BY <1>1 DEF anchor_floor_at_open
<1>7. CASE f # NoFloor \/ ~mint
  BY <1>6, <1>7
<1>8. CASE ~(f # NoFloor \/ ~mint)
  <2>1. r = n \/ r = FirstOf(g + 1)
    BY <1>6, <1>8
  <2>2. NoFloor \in Nat
    BY <1>2, CareNumbers
  <2> QED
    BY <1>2, <1>5, <2>1, <2>2
<1> QED
  BY <1>7, <1>8

\* Restart with its judgement keeps the invariant.
LEMMA OpenKeeps ==
    ASSUME CareInv, Reopen
    PROVE  CareInv'
<1>1. PICK st \in Struck, mint \in BOOLEAN : Open(st[1], st[2], mint)
  BY DEF Reopen
<1>2. PICK H, B : H = st[1] /\ B = st[2]
  OBVIOUS
<1>3. /\ H \in [Seg -> HeaderState] /\ B \in [Seg -> BodyState]
      /\ \A s \in Seg : /\ H[s] = hseg[s] \/ s \in Below
                        /\ B[s] = bseg[s] \/ (s \in Below /\ B[s] # "unlinked")
  BY <1>2, StruckIs
<1>4. CareTypes /\ Marks /\ AnchorsSound /\ Judged
  BY DEF CareInv
<1>5. PICK c, n, p, u, A : c = chain /\ n = Len(chain) /\ p = meta.prune /\ u = meta.undo /\ A = meta.anchor
  OBVIOUS
<1>6. /\ c \in Seq(Nat) /\ n = Len(c) /\ n \in Nat /\ n >= 1 /\ n <= BlocksMax /\ p \in Nat /\ u \in Nat /\ p <= u
      /\ p = FirstOf(seg_of(p)) /\ n - UndoKept <= u
  BY <1>4, <1>5 DEF CareTypes, Marks
<1>7. PICK m, hd, B2, bd, pass :
         /\ m = [meta EXCEPT !.floor = anchor_floor_at_open(@, c, mint)]
         /\ hd = scan_headers(c, H)
         /\ B2 = Healed(m, c, H, B)
         /\ bd = scan_bodies(c, B2, m.prune)
         /\ pass = verify_sealed(m, c, H, B2, hd, bd)
  OBVIOUS
<1>8. /\ hseg' = H /\ bseg' = B2
      /\ meta' = [m EXCEPT !.floor = pass.floor]
      /\ mem' = [header |-> hd, body |-> bd \cup pass.damage, vouch |-> pass.vouch, mint |-> mint,
                 through |-> sealed_through(n), unlink |-> {}]
      /\ past' = [past EXCEPT
            !.opens = @ + 1, !.exposed = IF chain = <<>> THEN {} ELSE 0..(seg_of(n - 1) - 1),
            !.faults = IF H # hseg \/ B # bseg THEN @ + 1 ELSE @]
      /\ chain' = chain
  BY <1>1, <1>2, <1>5, <1>7 DEF Open
<1>9. /\ m.anchor = A /\ m.prune = p /\ m.undo = u /\ m.floor \in Nat /\ (mint => m.floor # NoFloor) /\ Fields(m)
  <2>1. PICK fl, f : fl = meta.floor /\ f = anchor_floor_at_open(fl, c, mint)
    OBVIOUS
  <2>2. fl \in Nat /\ f \in Nat /\ (mint => f # NoFloor)
    <3>1. fl \in Nat
      BY <1>4, <2>1 DEF Marks
    <3> QED
      BY <1>6, <2>1, <3>1, FloorAtOpen
  <2>3. meta = [anchor |-> A, floor |-> fl, prune |-> p, undo |-> u]
    BY <1>4, <1>5, <2>1 DEF CareTypes
  <2>4. m = [anchor |-> A, floor |-> f, prune |-> p, undo |-> u]
    BY <1>7, <2>1, <2>3
  <2> QED
    BY <2>2, <2>4 DEF Fields
<1>10. /\ B2 \in [Seg -> BodyState]
       /\ \A s \in Seg : /\ s < seg_of(p) => B2[s] = "unlinked"
                         /\ ~(s < seg_of(p)) => B2[s] = "ok" \/ B2[s] = B[s]
  <2>1. B2 = Healed(m, c, H, B) /\ m.prune \in Nat /\ m.prune = p /\ B \in [Seg -> BodyState]
    BY <1>3, <1>6, <1>7, <1>9
  <2> QED
    BY <2>1, HealedIs
<1>11. \A d \in hd : InOne(d)
  BY <1>6, <1>7, ScanHeadersIs
<1>12. \A d \in bd : /\ ToEnd(d) /\ d.seg \in Nat /\ d.seg >= seg_of(p) /\ d.seg <= seg_of(n - 1) - 1
                     /\ B2[d.seg] \in {"gone", "short", "holed", "noside"}
  BY <1>6, <1>7, <1>9, ScanBodiesIs
<1>13. /\ \A d \in pass.damage : ToEnd(d) /\ Blamed(m, c, H, B2, hd, d.seg)
       /\ \A s \in Seg : /\ s >= seg_of(p) /\ s <= sealed_through(n)
                         /\ ~Hurts(bd, s) /\ s \notin pass.vouch
                         => \/ \E d \in pass.damage : d.seg = s
                            \/ s \in DOMAIN A /\ geom(c, H, B2, s) = A[s].geom
       /\ pass.floor \in Nat /\ (pass.floor = m.floor \/ pass.floor <= BlocksMax)
  <2>1. m.prune \in Nat /\ m.floor \in Nat /\ c \in Seq(Nat) /\ Len(c) <= BlocksMax
    BY <1>6, <1>9
  <2>2. /\ \A d \in pass.damage : ToEnd(d) /\ Blamed(m, c, H, B2, hd, d.seg)
        /\ \A s \in Seg : /\ s >= seg_of(m.prune) /\ s <= sealed_through(Len(c))
                          /\ ~Hurts(bd, s) /\ s \notin pass.vouch
                          => \/ \E d \in pass.damage : d.seg = s
                             \/ s \in DOMAIN m.anchor /\ geom(c, H, B2, s) = m.anchor[s].geom
        /\ pass.floor \in Nat /\ (pass.floor = m.floor \/ pass.floor <= BlocksMax)
    <3>1. pass = verify_sealed(m, c, H, B2, hd, bd)
      BY <1>7
    <3> QED
      BY <2>1, <3>1, VerifyIs
  <2> QED
    BY <1>6, <1>9, <2>2
<1>14. PICK a, e, t : a = seg_of(p) /\ e = sealed_through(n) /\ t = seg_of(n - 1)
  OBVIOUS
<1>15. /\ a \in Nat /\ e \in Int /\ t \in Nat
       /\ \A s \in Int : /\ s <= e <=> LastOf(s) < n
                         /\ s < a <=> LastOf(s) < p
                         /\ FirstOf(s) \in Int /\ LastOf(s) \in Int /\ LastOf(s) = FirstOf(s) + SegLen - 1
                         /\ FirstOf(s) <= LastOf(s)
       /\ \A s \in Nat : /\ s <= t => s \in Seg
                         /\ s <= t - 1 => LastOf(s) + 1 < n
  <2>1. e \in Int /\ \A s \in Int : s <= e <=> LastOf(s) < n
    BY <1>6, <1>14, SealedIs
  <2>2. a \in Nat /\ \A s \in Int : s < a <=> LastOf(s) < p
    BY <1>6, <1>14, SegOf, FloorSeg
  <2>3. \A s \in Int : /\ FirstOf(s) \in Int /\ LastOf(s) \in Int /\ LastOf(s) = FirstOf(s) + SegLen - 1
                       /\ FirstOf(s) <= LastOf(s)
    BY SegBounds, CareNumbers
  <2>4. t \in Nat /\ \A s \in Nat : (s <= t => s \in Seg) /\ (s <= t - 1 => LastOf(s) + 1 < n)
    BY <1>6, <1>14, TopIs
  <2> QED
    BY <2>1, <2>2, <2>3, <2>4
<1>16. /\ past'.covered = past.covered /\ past'.unminted = past.unminted /\ past'.reorgs = past.reorgs
       /\ past'.exposed = 0..(t - 1) /\ PastFields(past')
  <2>1. PICK x, y, z, r, o, f : past = [covered |-> x, unminted |-> y, exposed |-> z, reorgs |-> r, opens |-> o, faults |-> f]
    BY <1>4 DEF CareTypes
  <2>2. chain # <<>>
    BY <1>5, <1>6
  <2>3. PICK g : g = IF H # hseg \/ B # bseg THEN f + 1 ELSE f
    OBVIOUS
  <2>4. past' = [covered |-> x, unminted |-> y, exposed |-> 0..(t - 1), reorgs |-> r, opens |-> o + 1, faults |-> g]
    BY <1>8, <1>14, <2>1, <2>2, <2>3
  <2> QED
    BY <2>1, <2>4 DEF PastFields
<1>17. meta'.anchor = A /\ meta'.prune = p /\ meta'.undo = u /\ meta'.floor = pass.floor /\ Fields(meta')
  <2>1. PICK f : f = m.floor
    OBVIOUS
  <2>2. m = [anchor |-> A, floor |-> f, prune |-> p, undo |-> u]
    BY <1>9, <2>1, Zenon DEF Fields
  <2>3. meta' = [anchor |-> A, floor |-> pass.floor, prune |-> p, undo |-> u]
    BY <1>8, <2>2
  <2> QED
    BY <2>3 DEF Fields
<1>18. /\ mem'.header = hd /\ mem'.body = bd \cup pass.damage /\ mem'.vouch = pass.vouch /\ mem'.mint = mint
       /\ mem'.through = e /\ mem'.unlink = {} /\ MemFields(mem')
  BY <1>8, <1>14 DEF MemFields
\* whatever lies below the top segment is too old for a reorg
<1>19. ASSUME NEW s \in Nat, s <= t - 1
       PROVE  FirstOf(s) < u /\ LastOf(s) + 1 < n /\ s \in Seg
  <2>1. LastOf(s) + 1 < n /\ s <= t /\ s \in Int
    BY <1>15, <1>19
  <2>2. FirstOf(s) \in Int /\ LastOf(s) = FirstOf(s) + SegLen - 1
    BY <2>1, SegBounds
  <2>3. s \in Seg
    BY <1>15, <2>1
  <2>4. FirstOf(s) < u
    BY <1>6, <2>1, <2>2, CareNumbers
  <2> QED
    BY <2>1, <2>3, <2>4
<1>20. ASSUME NEW s \in Below
       PROVE  s \in Nat /\ s <= t - 1
  <2>1. s \in Seg /\ s < t
    BY <1>4, <1>5, <1>14 DEF Below, CareTypes
  <2> QED
    BY <1>15, <2>1, SegIs
<1>21. ASSUME NEW s \in Seg
       PROVE  /\ H[s] # hseg[s] => FirstOf(s) < u /\ LastOf(s) + 1 < n
              /\ ~(s < a) /\ B2[s] # "ok" => bseg[s] # "ok" \/ (FirstOf(s) < u /\ LastOf(s) + 1 < n)
              /\ s < a => FirstOf(s) < u
  <2>1. s \in Int
    BY SegIs
  <2>2. H[s] # hseg[s] => FirstOf(s) < u /\ LastOf(s) + 1 < n
    BY <1>3, <1>19, <1>20
  <2>3. ~(s < a) /\ B2[s] # "ok" => B2[s] = B[s]
    BY <1>10, <1>14
  <2>4. B[s] = bseg[s] \/ (FirstOf(s) < u /\ LastOf(s) + 1 < n)
    BY <1>3, <1>19, <1>20
  <2>5. s < a => FirstOf(s) < u
    <3>1. s < a => LastOf(s) < p
      BY <1>15, <2>1
    <3>2. FirstOf(s) \in Int /\ LastOf(s) \in Int /\ FirstOf(s) <= LastOf(s)
      BY <1>15, <2>1
    <3> QED
      BY <1>6, <3>1, <3>2
  <2> QED
    BY <2>2, <2>3, <2>4, <2>5
<1>22. ASSUME NEW s \in Seg,
              H[s] # "ok" \/ B2[s] # "ok" \/ s \in past.covered
       PROVE  FirstOf(s) < u
  <2>1. CASE hseg[s] # "ok" \/ bseg[s] # "ok" \/ s \in past.covered
    BY <1>4, <1>5, <2>1 DEF Judged, OldOnly
  <2>2. CASE hseg[s] = "ok" /\ bseg[s] = "ok" /\ s \notin past.covered
    <3>1. CASE s < a
      BY <1>21, <3>1
    <3>2. CASE ~(s < a)
      BY <1>21, <1>22, <2>2, <3>2
    <3> QED
      BY <3>1, <3>2
  <2> QED
    BY <2>1, <2>2
\* a row fits a good segment
<1>23. ASSUME NEW s \in Seg, s \in DOMAIN A, s \notin past.covered
       PROVE  geom(c, H, B2, s) = A[s].geom <=> H[s] \in {"ok", "torn"} /\ B2[s] \in {"ok", "long", "flip"}
  <2>1. A[s].geom = <<Prefix(c, s), "ok", "ok">>
    BY <1>4, <1>5, <1>23 DEF Judged, RowsFit
  <2> QED
    BY <2>1, GeomIs
\* what the judgement blames
<1>24. ASSUME NEW d \in pass.damage
       PROVE  /\ ToEnd(d) /\ d.seg \in Seg /\ d.seg >= a /\ d.seg <= e /\ ~Hurts(hd, d.seg)
              /\ FirstOf(d.seg) < u
              /\ \/ d.seg \in past.covered \/ H[d.seg] # "ok" \/ B2[d.seg] # "ok"
                 \/ d.seg \in past.unminted /\ LastOf(d.seg) < u
  <2>1. PICK s : s = d.seg
    OBVIOUS
  <2>2. /\ ToEnd(d) /\ s \in Seg /\ s >= a /\ s <= e /\ ~Hurts(hd, s)
        /\ \/ s \in DOMAIN A /\ geom(c, H, B2, s) # A[s].geom
           \/ s \notin DOMAIN A /\ \E x \in DOMAIN A : x > s
    BY <1>6, <1>9, <1>13, <1>14, <2>1 DEF Blamed
  <2>3. s \in Int
    BY <2>2, SegIs
  <2>4. CASE s \in DOMAIN A /\ geom(c, H, B2, s) # A[s].geom
    <3>1. s \in past.covered \/ H[s] # "ok" \/ B2[s] # "ok"
      BY <1>23, <2>2, <2>4
    <3>2. FirstOf(s) < u
      BY <1>22, <2>2, <3>1
    <3> QED
      BY <2>1, <2>2, <3>1, <3>2
  <2>5. CASE s \notin DOMAIN A /\ \E x \in DOMAIN A : x > s
    <3>1. PICK x \in DOMAIN A : x > s
      BY <2>5
    <3>2. x \in Int /\ x <= e
      <4>1. x \in a..e
        BY <1>4, <1>5, <1>14 DEF AnchorsSound
      <4> QED
        BY <1>15, <4>1
    <3>3. LastOf(s) < FirstOf(x)
      BY <2>3, <3>1, <3>2, SegOrder
    <3>4. LastOf(x) < n /\ LastOf(x) = FirstOf(x) + SegLen - 1 /\ FirstOf(x) \in Int /\ LastOf(s) \in Int
          /\ FirstOf(s) \in Int /\ FirstOf(s) <= LastOf(s)
      BY <1>15, <2>3, <3>2
    <3>5. LastOf(s) < u /\ FirstOf(s) < u
      BY <1>6, <3>3, <3>4, CareNumbers
    <3>6. s \in past.covered \/ s \in past.unminted
      BY <1>4, <1>5, <1>14, <2>2, <2>5 DEF Judged, Rowed
    <3> QED
      BY <2>1, <2>2, <3>5, <3>6
  <2> QED
    BY <2>2, <2>4, <2>5
<1>25. CareTypes'
  <2>1. (\A d \in mem'.body : ToEnd(d)) /\ (\A d \in mem'.header : InOne(d)) /\ mem'.mint \in BOOLEAN /\ mem'.unlink \subseteq Seg
    BY <1>11, <1>12, <1>18, <1>24
  <2>2. past'.exposed \subseteq Seg
    <3> SUFFICES ASSUME NEW s \in 0..(t - 1)
                 PROVE  s \in Seg
      BY <1>16
    <3>1. s \in Nat /\ s <= t
      BY <1>15
    <3> QED
      BY <1>15, <3>1
  <2>3. hseg' \in [Seg -> HeaderState] /\ bseg' \in [Seg -> BodyState]
    BY <1>3, <1>8, <1>10
  <2>4. chain' \in Seq(Nat) /\ Len(chain') >= 1 /\ Len(chain') <= BlocksMax /\ past'.reorgs \in Nat
    BY <1>4, <1>8, <1>16 DEF CareTypes
  <2>5. Fields(meta') /\ MemFields(mem') /\ PastFields(past')
    BY <1>16, <1>17, <1>18
  <2> QED
    BY <2>1, <2>2, <2>3, <2>4, <2>5 DEF CareTypes, Fields, MemFields, PastFields
<1>26. Marks'
  <2>1. meta'.floor \in Nat /\ (mem'.mint => meta'.floor # NoFloor)
    <3>1. pass.floor \in Nat /\ (pass.floor = m.floor \/ pass.floor <= BlocksMax)
      BY <1>13
    <3>2. pass.floor <= BlocksMax => pass.floor # NoFloor
      BY <3>1, CareNumbers DEF NoFloor
    <3> QED
      BY <1>9, <1>17, <1>18, <3>1, <3>2
  <2>2. mem'.through = sealed_through(Len(chain'))
    BY <1>5, <1>8, <1>14, <1>18
  <2>3. u <= n
    BY <1>4, <1>5 DEF Marks
  <2> QED
    BY <1>5, <1>6, <1>8, <1>17, <1>18, <2>1, <2>2, <2>3 DEF Marks
<1>27. AnchorsSound'
  <2>1. \A s \in DOMAIN A : s \in a..e /\ A[s].geom[1] = Prefix(c, s)
    BY <1>4, <1>5, <1>14 DEF AnchorsSound
  <2>2. ASSUME NEW s \in 0..(a - 1)
        PROVE  B2[s] = "unlinked"
    <3>1. s \in Nat /\ s < a
      BY <1>15
    <3>2. s \in Seg
      <4>1. LastOf(s) < p /\ FirstOf(s) <= LastOf(s) /\ FirstOf(s) \in Int /\ LastOf(s) \in Int
        BY <1>15, <3>1
      <4>2. p <= n
        BY <1>4, <1>5, <1>6 DEF Marks
      <4>3. FirstOf(s) <= BlocksMax
        BY <1>6, <4>1, <4>2, CareNumbers
      <4> QED
        BY <3>1, <4>3, SegIs
    <3> QED
      BY <1>10, <1>14, <3>1, <3>2
  <2>3. ASSUME NEW s \in a..seg_of(BlocksMax)
        PROVE  B2[s] # "unlinked"
    <3>1. bseg[s] # "unlinked"
      BY <1>4, <1>5, <1>14 DEF AnchorsSound
    <3>2. s \in Seg /\ ~(s < a)
      <4>1. seg_of(BlocksMax) \in Nat /\ Seg = 0..seg_of(BlocksMax)
        BY CareNumbers, SegOf DEF Seg, seg_of
      <4> QED
        BY <1>15, <4>1
    <3>3. B[s] # "unlinked"
      BY <1>3, <3>1, <3>2
    <3> QED
      BY <1>10, <1>14, <3>2, <3>3
  <2> QED
    BY <1>5, <1>8, <1>14, <1>17, <1>18, <2>1, <2>2, <2>3 DEF AnchorsSound
<1>28. OldOnly'
  <2> SUFFICES ASSUME NEW s \in Seg,
                      \/ H[s] # "ok" \/ B2[s] # "ok" \/ s \in past.covered \/ s \in 0..(t - 1)
                      \/ \E d \in bd \cup pass.damage : d.seg = s
               PROVE  FirstOf(s) < u
    BY <1>8, <1>16, <1>17, <1>18 DEF OldOnly
  <2>1. CASE H[s] # "ok" \/ B2[s] # "ok" \/ s \in past.covered
    BY <1>22, <2>1
  <2>2. CASE s \in 0..(t - 1)
    BY <1>15, <1>19, <2>2
  <2>3. CASE \E d \in bd : d.seg = s
    BY <1>12, <1>22, <2>3
  <2>4. CASE \E d \in pass.damage : d.seg = s
    BY <1>24, <2>4
  <2> QED
    BY <2>1, <2>2, <2>3, <2>4
<1>29. BelowTop'
  <2> SUFFICES ASSUME NEW s \in Seg, s >= a, s \notin past.covered, B2[s] # "ok" \/ H[s] \notin {"ok", "torn"}
               PROVE  LastOf(s) + 1 < n
    BY <1>5, <1>8, <1>14, <1>16, <1>17 DEF BelowTop
  <2>1. ~(s < a)
    BY <1>15, SegIs
  <2>2. \/ bseg[s] # "ok" \/ hseg[s] \notin {"ok", "torn"} \/ LastOf(s) + 1 < n
    BY <1>21, <2>1
  <2> QED
    BY <1>4, <1>5, <1>14, <2>2 DEF Judged, BelowTop
<1>30. RowsFit' /\ Rowed'
  <2>1. RowsFit'
    BY <1>4, <1>5, <1>8, <1>16, <1>17 DEF Judged, RowsFit
  <2>2. Rowed'
    BY <1>4, <1>5, <1>8, <1>16, <1>17 DEF Judged, Rowed
  <2> QED
    BY <2>1, <2>2
<1>31. Told'
  <2> SUFFICES ASSUME NEW d \in bd \cup pass.damage, d.seg \notin past.covered, H[d.seg] = "ok", B2[d.seg] = "ok"
               PROVE  d.seg \in past.unminted /\ LastOf(d.seg) < u
    BY <1>8, <1>16, <1>17, <1>18 DEF Told
  <2>1. d \in pass.damage
    BY <1>12
  <2> QED
    BY <1>24, <2>1
<1>32. HeaderFirst'
  <2> SUFFICES ASSUME NEW d \in hd, NEW f \in bd \cup pass.damage, f.seg = d.seg
               PROVE  B2[d.seg] # "ok"
    BY <1>8, <1>18 DEF HeaderFirst
  <2>1. CASE f \in bd
    BY <1>12, <2>1
  <2>2. CASE f \in pass.damage
    <3>1. f.seg \in Int /\ ~Hurts(hd, f.seg)
      <4>1. f.seg \in Seg /\ ~Hurts(hd, f.seg)
        BY <1>24, <2>2
      <4>2. Seg \subseteq Int
        BY SegIs
      <4> QED
        BY <4>1, <4>2
    <3> QED
      BY <1>11, <3>1, HurtsIs
  <2> QED
    BY <2>1, <2>2
<1>33. Vouched'
  <2> SUFFICES ASSUME NEW s \in Seg, s >= a, s <= e, s \notin past.covered, s \notin pass.vouch,
                      B2[s] \notin {"ok", "flip", "long"}
               PROVE  \E d \in bd \cup pass.damage : d.seg = s
    BY <1>5, <1>8, <1>14, <1>16, <1>17, <1>18 DEF Vouched
  <2>1. CASE Hurts(bd, s)
    <3>1. s \in Int /\ \A d \in bd : InOne(d)
      BY <1>12, SegIs DEF ToEnd
    <3> QED
      BY <2>1, <3>1, HurtsIs
  <2>2. CASE ~Hurts(bd, s)
    <3>1. \/ \E d \in pass.damage : d.seg = s
          \/ s \in DOMAIN A /\ geom(c, H, B2, s) = A[s].geom
      BY <1>13, <1>14, <2>2
    <3> QED
      BY <1>23, <3>1
  <2> QED
    BY <2>1, <2>2
<1> QED
  BY <1>25, <1>26, <1>27, <1>28, <1>29, <1>30, <1>31, <1>32, <1>33 DEF CareInv, Judged

-----------------------------------------------------------------------------
(* Everything together.                                                    *)

\* The first store has the invariant.
LEMMA CareStarts == CareInit => CareInv
<1> SUFFICES ASSUME CareInit PROVE CareInv
  OBVIOUS
<1>1. PICK mint \in BOOLEAN :
         /\ meta = [anchor |-> <<>>, floor |-> IF mint THEN 0 ELSE NoFloor, prune |-> 0, undo |-> 0]
         /\ mem = [header |-> {}, body |-> {}, vouch |-> {}, mint |-> mint, through |-> -1, unlink |-> {}]
  BY DEF CareInit
<1>2. /\ chain = <<0>> /\ hseg = [s \in Seg |-> "ok"] /\ bseg = [s \in Seg |-> "ok"]
      /\ past = [covered |-> {}, unminted |-> {}, exposed |-> {}, reorgs |-> 0, opens |-> 0, faults |-> 0]
  BY DEF CareInit
<1>3. Len(chain) = 1 /\ chain \in Seq(Nat)
  BY <1>2
<1>4. sealed_through(1) = -1
  <2>1. sealed_through(1) \in Int /\ \A s \in Int : s <= sealed_through(1) <=> LastOf(s) < 1
    BY SealedIs
  <2>2. LastOf(0) = SegLen - 1 /\ LastOf(-1) = -1
    <3>1. 0 * SegLen = 0 /\ (-1) * SegLen = -SegLen
      BY CareNumbers
    <3> QED
      BY <3>1, CareNumbers DEF LastOf, FirstOf
  <2>3. ~(0 <= sealed_through(1)) /\ -1 <= sealed_through(1)
    BY <2>1, <2>2, CareNumbers
  <2> QED
    BY <2>1, <2>3
<1>5. seg_of(0) = 0 /\ FirstOf(0) = 0
  <2>1. seg_of(0) \in Nat /\ \A s \in Int : s <= seg_of(0) <=> FirstOf(s) <= 0
    BY SegOf
  <2>2. FirstOf(0) = 0 /\ FirstOf(1) = SegLen
    BY CareNumbers DEF FirstOf
  <2>3. ~(1 <= seg_of(0))
    BY <2>1, <2>2, CareNumbers
  <2> QED
    BY <2>1, <2>2, <2>3
<1>6. NoFloor \in Nat /\ NoFloor # 0
  BY CareNumbers DEF NoFloor
<1>7. /\ meta.anchor = <<>> /\ meta.prune = 0 /\ meta.undo = 0 /\ meta.floor = IF mint THEN 0 ELSE NoFloor
      /\ mem.header = {} /\ mem.body = {} /\ mem.vouch = {} /\ mem.mint = mint /\ mem.through = -1 /\ mem.unlink = {}
      /\ past.covered = {} /\ past.unminted = {} /\ past.exposed = {} /\ past.reorgs = 0
  BY <1>1, <1>2
<1>8. DOMAIN meta.anchor = {}
  BY <1>7
<1>9. CareTypes
  <2>1. /\ meta = [anchor |-> meta.anchor, floor |-> meta.floor, prune |-> meta.prune, undo |-> meta.undo]
        /\ mem = [header |-> mem.header, body |-> mem.body, vouch |-> mem.vouch, mint |-> mem.mint,
                  through |-> mem.through, unlink |-> mem.unlink]
        /\ past = [covered |-> past.covered, unminted |-> past.unminted, exposed |-> past.exposed,
                   reorgs |-> past.reorgs, opens |-> past.opens, faults |-> past.faults]
    BY <1>1, <1>2
  <2>2. hseg \in [Seg -> HeaderState] /\ bseg \in [Seg -> BodyState]
    BY <1>2 DEF HeaderState, BodyState
  <2> QED
    BY <1>3, <1>7, <2>1, <2>2, CareNumbers DEF CareTypes
<1>10. Marks
  BY <1>3, <1>4, <1>5, <1>6, <1>7, CareNumbers DEF Marks
<1>11. AnchorsSound
  <2>1. \A s \in seg_of(meta.prune)..seg_of(BlocksMax) : bseg[s] # "unlinked"
    <3>1. Seg = 0..seg_of(BlocksMax)
      BY DEF Seg, seg_of
    <3> QED
      BY <1>2, <1>5, <1>7, <3>1
  <2>2. 0..(seg_of(meta.prune) - 1) = {}
    BY <1>5, <1>7
  <2> QED
    BY <1>8, <2>1, <2>2 DEF AnchorsSound
<1>12. ~ \E s \in Seg : s <= sealed_through(Len(chain))
  BY <1>3, <1>4, SegIs
<1>13. Judged
  <2>1. \A s \in Seg : hseg[s] = "ok" /\ bseg[s] = "ok"
    BY <1>2
  <2> QED
    BY <1>7, <1>8, <1>12, <2>1 DEF Judged, OldOnly, BelowTop, RowsFit, Rowed, Told, HeaderFirst, Vouched
<1> QED
  BY <1>9, <1>10, <1>11, <1>13 DEF CareInv

\* Every step keeps the invariant.
LEMMA CareKeeps == CareInv /\ [CareNext]_careVars => CareInv'
<1> SUFFICES ASSUME CareInv, [CareNext]_careVars PROVE CareInv'
  OBVIOUS
<1>1. CASE ExtendStore
  BY <1>1, CareExtendKeeps
<1>2. CASE SweepStep
  BY <1>2, SweepKeeps
<1>3. CASE Reopen
  BY <1>3, OpenKeeps
<1>4. ASSUME NEW fork \in 0..(BlocksMax - 1), NEW w \in 1..BlocksMax, ReorgStore(fork, w)
      PROVE  CareInv'
  <2>1. PICK k : k = fork + 1
    OBVIOUS
  <2>2. Reorged(k, w)
    BY <1>4, <2>1, ReorgIs
  <2> QED
    BY <2>2, CareReorgKeeps
<1>5. ASSUME NEW s \in Seg, Unlink(s)
      PROVE  CareInv'
  BY <1>5, UnlinkKeeps
<1>6. ASSUME NEW s \in Seg, Rot(s)
      PROVE  CareInv'
  BY <1>6, RotKeeps
<1>7. ASSUME NEW d \in mem.header, Repair(d)
      PROVE  CareInv'
  BY <1>7, RepairKeeps
<1>8. CASE UNCHANGED careVars
  BY <1>8, RestKeeps DEF careVars
<1> QED
  BY <1>1, <1>2, <1>3, <1>4, <1>5, <1>6, <1>7, <1>8 DEF CareNext

\* Whatever extensions, reorgs, pruning, faults, repairs and restarts did, in whatever order (reader.rs
\* body_vouch, anchor.rs verify_sealed and anchor_sync): outside the segments a reorg rewrote in part over
\* damage, "verified" is said of no missing, short, foreign or mixed body file; a segment nothing has struck
\* is called damaged only if it was sealed while minting was off; the rows fit the chain as it is now.
THEOREM CareIsSound == CareSpec => []CareSound
<1>1. CareInit => CareInv
  BY CareStarts
<1>2. CareInv /\ [CareNext]_careVars => CareInv'
  BY CareKeeps
<1>3. CareInv => CareSound
  BY CareHolds
<1> QED
  BY <1>1, <1>2, <1>3, PTL DEF CareSpec

-----------------------------------------------------------------------------
\* The ends of a range.
LEMMA RangeEnds ==
    ASSUME NEW lo \in Int, NEW hi \in Int, lo <= hi
    PROVE  Min(lo..hi) = lo /\ Max(lo..hi) = hi
<1>1. PICK x \in lo..hi : x = Min(lo..hi) /\ \A y \in lo..hi : x =< y
  <2>1. \E x \in lo..hi : \A y \in lo..hi : x =< y
    <3>1. lo \in lo..hi /\ \A y \in lo..hi : lo =< y
      OBVIOUS
    <3> QED
      BY <3>1
  <2> QED
    BY <2>1 DEF Min
<1>2. PICK z \in lo..hi : z = Max(lo..hi) /\ \A y \in lo..hi : z >= y
  <2>1. \E v \in lo..hi : \A y \in lo..hi : v >= y
    <3>1. hi \in lo..hi /\ \A y \in lo..hi : hi >= y
      OBVIOUS
    <3> QED
      BY <3>1
  <2> QED
    BY <2>1 DEF Max
<1>3. lo \in lo..hi /\ hi \in lo..hi
  OBVIOUS
<1>4. x = lo /\ z = hi
  BY <1>1, <1>2, <1>3
<1> QED
  BY <1>1, <1>2, <1>4

SweepFields(s) == s = [cursor |-> s.cursor, targets |-> s.targets, wrapped |-> s.wrapped, left |-> s.left, due |-> s.due]
IsDue(x) == x \in Seg /\ x >= seg_of(meta.prune) /\ LastOf(x) < Len(chain)

\* What is due lies ahead of the cursor, in a segment that is kept and full.
SweepInv ==
    /\ SweepFields(sweep) /\ sweep.cursor \in Int
    /\ \A x \in sweep.due : x >= sweep.cursor /\ IsDue(x)
    /\ sweep.wrapped => sweep.left = {}

\* What the sweep looks for is in a segment that is full and kept.
LEMMA BreaksAre ==
    ASSUME NEW c, NEW n \in Int, n = Len(c), NEW H, NEW hd, NEW p, NEW x \in BreaksIn(c, H, hd, p)
    PROVE  x \in Seg /\ x >= seg_of(p) /\ LastOf(x) < n
<1>1. x \in Seg /\ x >= seg_of(p) /\ verify_segment_headers(c, H, hd, x) = "broken"
  BY DEF BreaksIn
<1>2. ~(n < FirstOf(x) + SegLen)
  BY <1>1 DEF verify_segment_headers
<1>3. x \in Int
  BY <1>1, SegIs
<1>4. FirstOf(x) \in Int /\ LastOf(x) = FirstOf(x) + SegLen - 1
  BY <1>3, SegBounds
<1> QED
  BY <1>1, <1>2, <1>4, CareNumbers

\* An action that only forgets what is no longer broken.
LEMMA DueShrinks ==
    ASSUME SweepInv, NEW T, sweep' = [sweep EXCEPT !.targets = T, !.due = StillDue], Len(chain') \in Int
    PROVE  SweepInv'
<1>1. PICK a, b, w, l, d, x : /\ a = sweep.cursor /\ b = sweep.targets /\ w = sweep.wrapped /\ l = sweep.left
                              /\ d = sweep.due /\ x = StillDue
  OBVIOUS
<1>2. sweep = [cursor |-> a, targets |-> b, wrapped |-> w, left |-> l, due |-> d]
  BY <1>1 DEF SweepInv, SweepFields
<1>3. sweep' = [cursor |-> a, targets |-> T, wrapped |-> w, left |-> l, due |-> x]
  BY <1>1, <1>2
<1>4. a \in Int /\ (w => l = {}) /\ \A y \in d : y >= a
  BY <1>1 DEF SweepInv
<1>5. x \subseteq d /\ x \subseteq BreaksIn(chain', hseg', mem'.header, meta'.prune)
  BY <1>1 DEF StillDue
<1>6. ASSUME NEW y \in x
      PROVE  IsDue(y)'
  <2>1. PICK c, n, H, hd, p : c = chain' /\ n = Len(chain') /\ H = hseg' /\ hd = mem'.header /\ p = meta'.prune
    OBVIOUS
  <2>2. n \in Int /\ n = Len(c) /\ y \in BreaksIn(c, H, hd, p)
    BY <1>5, <1>6, <2>1
  <2>3. y \in Seg /\ y >= seg_of(p) /\ LastOf(y) < n
    BY <2>2, BreaksAre
  <2> QED
    BY <2>1, <2>3 DEF IsDue
<1>7. SweepFields(sweep')
  BY <1>3 DEF SweepFields
<1>8. sweep'.cursor = a /\ sweep'.wrapped = w /\ sweep'.left = l /\ sweep'.due = x
  <2>1. PICK z : z = [cursor |-> a, targets |-> T, wrapped |-> w, left |-> l, due |-> x]
    OBVIOUS
  <2>2. z.cursor = a /\ z.left = l /\ z.due = x
    BY <2>1
  <2>3. z.wrapped = w
    BY <2>1, Zenon
  <2> QED
    BY <1>3, <2>1, <2>2, <2>3, Zenon
<1> QED
  BY <1>4, <1>5, <1>6, <1>7, <1>8 DEF SweepInv

\* Every step keeps what is due ahead of the cursor.
LEMMA SweepKeepsDue == CareInv /\ SweepInv /\ [CareNext]_careVars => SweepInv'
<1> SUFFICES ASSUME CareInv, SweepInv, [CareNext]_careVars PROVE SweepInv'
  OBVIOUS
<1>1. CareInv' /\ Len(chain') \in Nat /\ Len(chain) \in Nat /\ Len(chain) >= 1
  BY CareKeeps DEF CareInv, CareTypes
<1>2. CASE ExtendStore \/ \E d \in mem.header : Repair(d)
  <2>1. sweep' = [sweep EXCEPT !.due = StillDue]
    BY <1>2 DEF ExtendStore, Repair
  <2>2. PICK T : T = sweep.targets
    OBVIOUS
  <2>3. sweep' = [sweep EXCEPT !.targets = T, !.due = StillDue]
    BY <2>1, <2>2 DEF SweepInv, SweepFields
  <2>4. Len(chain') \in Int
    BY <1>1
  <2> QED
    BY <2>3, <2>4, DueShrinks, Zenon
<1>3. CASE \E fork \in 0..(BlocksMax - 1), w \in 1..BlocksMax : ReorgStore(fork, w)
  <2>1. PICK fork \in 0..(BlocksMax - 1), w \in 1..BlocksMax : ReorgStore(fork, w)
    BY <1>3
  <2>2. PICK T : T = sweep.targets \cup {s \in seg_of(fork + 1)..seg_of(Len(chain) - 1) : FirstOf(s) + SegLen <= Len(chain)}
    OBVIOUS
  <2>3. sweep' = [sweep EXCEPT !.targets = T, !.due = StillDue]
    BY <2>1, <2>2 DEF ReorgStore
  <2>4. Len(chain') \in Int
    BY <1>1
  <2> QED
    BY <2>3, <2>4, DueShrinks, Zenon
<1>4. CASE SweepStep
  <2>1. PICK n, p, a, top, hi : n = Len(chain) /\ p = meta.prune /\ a = seg_of(p) /\ top = seg_of(n - 1) /\ hi = Max({top, a})
    OBVIOUS
  <2>2. n \in Nat /\ n - 1 \in Nat /\ p \in Nat
    BY <1>1, <2>1 DEF CareInv, Marks
  <2>3. /\ a \in Nat /\ top \in Nat /\ \A s \in Int : s >= top <=> n - 1 <= LastOf(s)
    BY <2>1, <2>2, SegOf
  <2>4. hi \in {top, a} /\ hi >= top /\ hi >= a
    <3>1. top \in Int /\ a \in Int
      BY <2>3
    <3> QED
      BY <2>1, <3>1, MaxTwo
  <2>5. PICK rng : rng = sweepable(chain, meta.prune)
    OBVIOUS
  <2>6. rng = a..hi
    BY <2>1, <2>5 DEF sweepable
  <2>7. Min(rng) = a /\ Max(rng) = hi /\ hi \in Int
    BY <2>3, <2>4, <2>6, RangeEnds
  <2>8. PICK s : s = SweepFrom(sweep.cursor, rng)
    OBVIOUS
  <2>9. s \in a..hi /\ (s = sweep.cursor \/ s = a)
    BY <2>3, <2>4, <2>6, <2>7, <2>8 DEF SweepFrom
  <2>10. PICK left, cur : left = sweep.due \ (sweep.targets \cup {s}) /\ cur = CursorAfter(s, rng)
    OBVIOUS
  <2>11. sweep' = [cursor |-> cur, targets |-> {}, wrapped |-> s >= Max(rng), left |-> left,
                   due |-> IF s >= Max(rng) THEN BreaksIn(chain, hseg, mem.header, meta.prune) ELSE left]
    BY <1>4, <2>5, <2>8, <2>10, Zenon DEF SweepStep
  <2>12. ASSUME NEW x \in left
         PROVE  IsDue(x) /\ x \in Int /\ s < x /\ x <= hi
    <3>1. x \in sweep.due /\ x # s
      BY <2>10, <2>12
    <3>2. IsDue(x) /\ x >= sweep.cursor /\ sweep.cursor \in Int
      BY <3>1 DEF SweepInv
    <3>3. x \in Int /\ x >= a /\ LastOf(x) < n
      BY <2>1, <3>2, SegIs DEF IsDue
    <3>4. x <= top
      <4>1. LastOf(x) \in Int
        BY <3>3, SegBounds
      <4>2. x - 1 \in Int /\ LastOf(x - 1) \in Int /\ LastOf(x - 1) = LastOf(x) - SegLen
        <5>1. (x - 1) * SegLen = x * SegLen - SegLen /\ x * SegLen \in Int
          BY <3>3, CareNumbers
        <5> QED
          BY <3>3, <5>1, CareNumbers DEF LastOf, FirstOf
      <4>3. ~(n - 1 <= LastOf(x - 1))
        BY <2>2, <3>3, <4>1, <4>2, CareNumbers
      <4>4. ~(x - 1 >= top)
        BY <2>3, <4>2, <4>3
      <4> QED
        BY <2>3, <3>3, <4>4
    <3> QED
      BY <2>3, <2>4, <2>9, <3>1, <3>2, <3>3, <3>4
  <2>13. /\ SweepFields(sweep') /\ sweep'.cursor = cur /\ sweep'.wrapped = (s >= Max(rng)) /\ sweep'.left = left
         /\ sweep'.due = IF s >= Max(rng) THEN BreaksIn(chain, hseg, mem.header, meta.prune) ELSE left
    BY <2>11 DEF SweepFields
  <2>14. UNCHANGED <<chain, meta>>
    BY <1>4 DEF SweepStep
  <2>15. CASE s >= hi
    <3>1. left = {}
      BY <2>4, <2>9, <2>7, <2>12, <2>15
    <3>2. cur = a
      BY <2>7, <2>10, <2>15 DEF CursorAfter
    <3>3. ASSUME NEW x \in BreaksIn(chain, hseg, mem.header, meta.prune)
          PROVE  x >= a /\ IsDue(x)'
      <4>1. PICK c, H, hd : c = chain /\ H = hseg /\ hd = mem.header
        OBVIOUS
      <4>2. n \in Int /\ n = Len(c) /\ x \in BreaksIn(c, H, hd, p)
        BY <2>1, <2>2, <3>3, <4>1
      <4>3. x \in Seg /\ x >= seg_of(p) /\ LastOf(x) < n
        BY <4>2, BreaksAre
      <4> QED
        BY <2>1, <2>14, <4>3 DEF IsDue
    <3> QED
      BY <2>3, <2>7, <2>13, <2>15, <3>1, <3>2, <3>3 DEF SweepInv
  <2>16. CASE ~(s >= hi)
    <3>1. cur = s + 1
      BY <2>7, <2>10, <2>16 DEF CursorAfter
    <3>2. s + 1 \in Int /\ \A x \in left : x >= s + 1
      BY <2>3, <2>7, <2>9, <2>12
    <3>3. \A x \in left : IsDue(x)'
      BY <2>12, <2>14 DEF IsDue
    <3> QED
      BY <2>7, <2>13, <2>16, <3>1, <3>2, <3>3 DEF SweepInv
  <2> QED
    BY <2>15, <2>16
<1>5. CASE Reopen
  <2>1. PICK hd, p : p = meta.prune /\ sweep' = [cursor |-> 0, targets |-> {}, wrapped |-> FALSE, left |-> {},
                                         due |-> BreaksIn(chain, hseg', hd, p)]
    <3>1. PICK st \in Struck, mint \in BOOLEAN : Open(st[1], st[2], mint)
      BY <1>5 DEF Reopen
    <3>2. PICK m : m = [meta EXCEPT !.floor = anchor_floor_at_open(@, chain, mint)]
      OBVIOUS
    <3>3. /\ sweep' = [cursor |-> 0, targets |-> {}, wrapped |-> FALSE, left |-> {},
                       due |-> BreaksIn(chain, hseg', scan_headers(chain, st[1]), m.prune)]
      BY <3>1, <3>2 DEF Open
    <3>4. m.prune = meta.prune
      <4>1. PICK an, f, q, u : meta = [anchor |-> an, floor |-> f, prune |-> q, undo |-> u]
        BY DEF CareInv, CareTypes
      <4> QED
        BY <3>2, <4>1
    <3> QED
      BY <3>3, <3>4
  <2>2. chain' = chain /\ meta'.prune = p
    <3>1. chain' = chain
      BY <1>5 DEF Reopen, Open
    <3>2. meta'.prune = meta.prune
      <4>1. PICK st \in Struck, mint \in BOOLEAN : Open(st[1], st[2], mint)
        BY <1>5 DEF Reopen
      <4>2. PICK x, y : meta' = [[meta EXCEPT !.floor = x] EXCEPT !.floor = y]
        BY <4>1 DEF Open
      <4>3. PICK an, f, q, u : meta = [anchor |-> an, floor |-> f, prune |-> q, undo |-> u]
        BY DEF CareInv, CareTypes
      <4>4. meta' = [anchor |-> an, floor |-> y, prune |-> q, undo |-> u]
        BY <4>2, <4>3
      <4> QED
        BY <4>3, <4>4
    <3> QED
      BY <2>1, <3>1, <3>2
  <2>3. SweepFields(sweep') /\ sweep'.cursor = 0 /\ ~sweep'.wrapped /\ sweep'.due = BreaksIn(chain, hseg', hd, p)
    BY <2>1 DEF SweepFields
  <2>4. ASSUME NEW x \in BreaksIn(chain, hseg', hd, p)
        PROVE  x >= 0 /\ IsDue(x)'
    <3>1. PICK c, n, H : c = chain /\ n = Len(chain) /\ H = hseg'
      OBVIOUS
    <3>2. n \in Int /\ n = Len(c) /\ x \in BreaksIn(c, H, hd, p)
      BY <1>1, <2>4, <3>1
    <3>3. x \in Seg /\ x >= seg_of(p) /\ LastOf(x) < n
      BY <3>2, BreaksAre
    <3> QED
      BY <2>2, <3>1, <3>3, SegIs DEF IsDue
  <2> QED
    BY <2>3, <2>4 DEF SweepInv
<1>6. CASE UNCHANGED <<chain, meta, sweep>>
  BY <1>6 DEF SweepInv, IsDue
<1>7. ASSUME NEW s \in Seg, Unlink(s) \/ Rot(s)
      PROVE  UNCHANGED <<chain, meta, sweep>>
  BY <1>7 DEF Unlink, Rot
<1> QED
  BY <1>2, <1>3, <1>4, <1>5, <1>6, <1>7 DEF CareNext, careVars

\* A header sweep that wraps has looked at every break it had to find since it wrapped before, unless
\* the segment was pruned (HeaderSweeper::step): neither a reorg nor the moving floor lets its cursor
\* pass one by.
THEOREM SweepMissesNothing == CareSpec => SweepCovers
<1>1. CareInit => CareInv /\ SweepInv
  <2>1. CareInit => SweepInv
    BY DEF CareInit, SweepInv, SweepFields
  <2> QED
    BY <2>1, CareStarts
<1>2. CareInv /\ SweepInv /\ [CareNext]_careVars => (CareInv /\ SweepInv)'
  BY CareKeeps, SweepKeepsDue
<1>3. SweepInv' => [sweep'.wrapped /\ sweep' # sweep => \A s \in sweep'.left : s < seg_of(meta.prune)]_careVars
  BY DEF SweepInv
<1> QED
  BY <1>1, <1>2, <1>3, PTL DEF CareSpec, SweepCovers
-----------------------------------------------------------------------------
(***************************************************************************)
(* How headers enter the arena.  What is staged remembers a fork point; as *)
(* long as the chain's difficulty anchors below it are on the path of what *)
(* is staged, every verdict of a message is the true one, whatever sources *)
(* interleave, whatever the budget pays and wherever the tip moves.        *)
(***************************************************************************)
\* The root of the headers.
IsRoot(g) ==
    /\ g \in Hdr /\ Prev(g) = g /\ Height(g) = 0
    /\ \A h \in Hdr \ {g} : Prev(h) \in Hdr /\ Prev(h) # h /\ Height(h) = Height(Prev(h)) + 1

\* There is one, and a path is the header and its parent's path.
LEMMA RootExists ==
    /\ \E g : IsRoot(g)
    /\ \A h \in Hdr : Height(h) \in Nat
    /\ \A h \in Hdr : Path(h) = {h} \cup (IF Prev(h) = h THEN {} ELSE Path(Prev(h)))
<1>1. \A h \in Hdr : Height(h) \in Nat
  BY HeaderTree
<1>2. PICK g \in Hdr : \A h \in Hdr :
          IF h = g THEN Prev(h) = h /\ Height(h) = 0
          ELSE Prev(h) \in Hdr /\ Height(h) = Height(Prev(h)) + 1
  BY HeaderTree
<1>3. ASSUME NEW h \in Hdr \ {g}
      PROVE  Prev(h) \in Hdr /\ Prev(h) # h /\ Height(h) = Height(Prev(h)) + 1
  <2>1. Prev(h) \in Hdr /\ Height(h) = Height(Prev(h)) + 1 /\ Height(h) \in Nat
    BY <1>1, <1>2
  <2> QED
    BY <2>1
<1>4. IsRoot(g)
  BY <1>2, <1>3 DEF IsRoot
<1>5. \A h \in Hdr : Path(h) = {h} \cup (IF Prev(h) = h THEN {} ELSE Path(Prev(h)))
  BY IngestConstants DEF Path, Prev
<1> QED
  BY <1>1, <1>4, <1>5

\* A path is a line of headers, one at each height, from the root on.
Linear(h) ==
    /\ Path(h) \subseteq Hdr /\ h \in Path(h)
    /\ \A a \in Path(h) : Height(a) <= Height(h)
    /\ \A a \in Path(h) : Path(a) = {x \in Path(h) : Height(x) <= Height(a)}
    /\ \A a, c \in Path(h) : Height(a) = Height(c) => a = c
    /\ \A n \in 0..Height(h) : \E a \in Path(h) : Height(a) = n

\* Every path is linear: a shortest one that is not would have a shorter one.
LEMMA PathIs == \A h \in Hdr : Linear(h)
<1>1. PICK g : IsRoot(g)
  BY RootExists
<1> DEFINE bad == {h \in Hdr : ~Linear(h)}
           V == {Height(h) : h \in bad}
<1> SUFFICES ASSUME bad # {} PROVE FALSE
  OBVIOUS
<1>2. V \subseteq Nat /\ V # {}
  BY RootExists
<1>3. PICK h \in bad : \A x \in bad : Height(h) <= Height(x)
  <2>1. PICK i \in V : \A j \in V : i <= j
    <3> HIDE DEF V
    <3> QED
      BY <1>2, LeastExists
  <2> QED
    BY <2>1
<1>4. h \in Hdr /\ Height(h) \in Nat /\ ~Linear(h)
  BY RootExists
<1>5. CASE h = g
  <2>1. Path(h) = {h} /\ Height(h) = 0
    BY <1>1, <1>4, <1>5, RootExists DEF IsRoot
  <2> QED
    BY <1>4, <2>1 DEF Linear
<1>6. CASE h # g
  <2>1. PICK p : p = Prev(h)
    OBVIOUS
  <2>2. p \in Hdr /\ Height(p) \in Nat /\ Height(h) = Height(p) + 1 /\ Path(h) = {h} \cup Path(p)
    BY <1>1, <1>4, <1>6, <2>1, RootExists DEF IsRoot
  <2>3. Linear(p)
    <3>1. ~(Height(h) <= Height(p))
      BY <2>2
    <3> QED
      BY <1>3, <2>2, <3>1
  <2>4. /\ Path(p) \subseteq Hdr /\ \A a \in Path(p) : Height(a) \in Nat /\ Height(a) <= Height(p)
        /\ \A a \in Path(p) : Path(a) = {x \in Path(p) : Height(x) <= Height(a)}
        /\ \A a, c \in Path(p) : Height(a) = Height(c) => a = c
        /\ \A n \in 0..Height(p) : \E a \in Path(p) : Height(a) = n
    BY <2>3, RootExists DEF Linear
  <2>5. Path(h) \subseteq Hdr /\ h \in Path(h) /\ \A a \in Path(h) : Height(a) <= Height(h)
    BY <1>4, <2>2, <2>4
  <2>6. ASSUME NEW a \in Path(h)
        PROVE  Path(a) = {x \in Path(h) : Height(x) <= Height(a)}
    <3>1. CASE a = h
      BY <2>5, <3>1
    <3>2. CASE a # h
      <4>1. a \in Path(p) /\ Path(a) = {x \in Path(p) : Height(x) <= Height(a)}
        BY <2>2, <2>4, <3>2
      <4>2. Height(a) <= Height(p) /\ Height(a) \in Nat
        BY <2>4, <4>1
      <4>3. ~(Height(h) <= Height(a))
        BY <2>2, <4>2
      <4> QED
        BY <2>2, <4>1, <4>3
    <3> QED
      BY <3>1, <3>2
  <2>7. ASSUME NEW a \in Path(h), NEW c \in Path(h), Height(a) = Height(c)
        PROVE  a = c
    <3>1. \A x \in Path(p) : Height(x) # Height(h)
      BY <2>2, <2>4
    <3> QED
      BY <2>2, <2>4, <2>7, <3>1
  <2>8. ASSUME NEW n \in 0..Height(h)
        PROVE  \E a \in Path(h) : Height(a) = n
    <3>1. CASE n = Height(h)
      BY <2>5, <3>1
    <3>2. CASE n # Height(h)
      <4>1. n \in 0..Height(p)
        BY <2>2, <3>2
      <4> QED
        BY <2>2, <2>4, <4>1
    <3> QED
      BY <3>1, <3>2
  <2> QED
    BY <1>4, <2>5, <2>6, <2>7, <2>8 DEF Linear
<1> QED
  BY <1>5, <1>6

\* The facts of a path, and that the root is on every one.
LEMMA OnPath ==
    ASSUME NEW h \in Hdr
    PROVE  /\ h \in Path(h) /\ Path(h) \subseteq Hdr /\ Height(h) \in Nat
           /\ \A a \in Path(h) : /\ a \in Hdr /\ Height(a) \in Nat /\ Height(a) <= Height(h)
                                 /\ Path(a) = {x \in Path(h) : Height(x) <= Height(a)}
                                 /\ Path(a) \subseteq Path(h)
           /\ \A a, c \in Path(h) : Height(a) = Height(c) => a = c
           /\ \A n \in 0..Height(h) : \E a \in Path(h) : Height(a) = n
           /\ \A g : IsRoot(g) => g \in Path(h)
           /\ Prev(h) \in Hdr /\ Prev(h) \in Path(h) /\ Path(Prev(h)) \subseteq Path(h)
           /\ Prev(h) # h => Path(h) = {h} \cup Path(Prev(h))
<1>1. Linear(h) /\ Height(h) \in Nat
  BY PathIs, RootExists
<1>2. /\ h \in Path(h) /\ Path(h) \subseteq Hdr
      /\ \A a \in Path(h) : /\ a \in Hdr /\ Height(a) \in Nat /\ Height(a) <= Height(h)
                            /\ Path(a) = {x \in Path(h) : Height(x) <= Height(a)}
                            /\ Path(a) \subseteq Path(h)
      /\ \A a, c \in Path(h) : Height(a) = Height(c) => a = c
      /\ \A n \in 0..Height(h) : \E a \in Path(h) : Height(a) = n
  BY <1>1, RootExists DEF Linear
<1>3. ASSUME NEW g, IsRoot(g)
      PROVE  g \in Path(h)
  <2>1. 0 \in 0..Height(h)
    BY <1>1
  <2>2. PICK a \in Path(h) : Height(a) = 0
    BY <1>2, <2>1
  <2>3. a = g
    <3> SUFFICES ASSUME a # g PROVE FALSE
      OBVIOUS
    <3>1. Prev(a) \in Hdr /\ Height(a) = Height(Prev(a)) + 1 /\ Height(Prev(a)) \in Nat
      BY <1>2, <1>3, RootExists DEF IsRoot
    <3> QED
      BY <2>2, <3>1
  <2> QED
    BY <2>3
<1>4. /\ Prev(h) \in Hdr /\ Prev(h) \in Path(h) /\ Path(Prev(h)) \subseteq Path(h)
      /\ Prev(h) # h => Path(h) = {h} \cup Path(Prev(h))
  <2>1. PICK g : IsRoot(g)
    BY RootExists
  <2>2. CASE h = g
    <3>1. Prev(h) = h
      BY <2>1, <2>2 DEF IsRoot
    <3> QED
      BY <1>2, <3>1
  <2>3. CASE h # g
    <3>1. Prev(h) \in Hdr /\ Prev(h) # h /\ Path(h) = {h} \cup Path(Prev(h))
      BY <2>1, <2>3, RootExists DEF IsRoot
    <3>2. Prev(h) \in Path(Prev(h))
      BY <3>1, PathIs DEF Linear
    <3> QED
      BY <3>1, <3>2
  <2> QED
    BY <2>2, <2>3
<1> QED
  BY <1>1, <1>2, <1>3, <1>4

\* The height of the difficulty anchor of a child of a header at height n.
LEMMA AnchorHeight ==
    ASSUME NEW n \in Nat
    PROVE  /\ (n \div AnchorSpacing) * AnchorSpacing \in 0..n
           /\ ((n \div AnchorSpacing) * AnchorSpacing) % AnchorSpacing = 0
<1>1. PICK s : s = AnchorSpacing /\ s \in Nat \ {0}
  BY IngestConstants
<1>2. PICK q : q = n \div s
  OBVIOUS
<1>3. q \in Nat /\ n = (q * s) + (n % s) /\ (n % s) \in 0..(s - 1)
  BY <1>1, <1>2
<1>4. q * s \in Nat
  BY <1>1, <1>3
<1>5. q * s <= n
  BY <1>1, <1>3, <1>4
<1>6. (q * s) % s = 0
  BY <1>1, <1>3
<1> QED
  BY <1>1, <1>2, <1>4, <1>5, <1>6

\* The difficulty anchor of a header is on its path.
LEMMA TrueAnchorIs ==
    ASSUME NEW h \in Hdr
    PROVE  LET n == (Height(Prev(h)) \div AnchorSpacing) * AnchorSpacing IN
           /\ n \in 0..Height(Prev(h)) /\ n % AnchorSpacing = 0
           /\ TrueAnchor(h) \in Path(Prev(h)) /\ Height(TrueAnchor(h)) = n
           /\ \A x \in Path(Prev(h)) : Height(x) = n => x = TrueAnchor(h)
<1>1. PICK p, n : p = Prev(h) /\ n = (Height(p) \div AnchorSpacing) * AnchorSpacing
  OBVIOUS
<1>2. p \in Hdr /\ Height(p) \in Nat
  BY <1>1, OnPath
<1>3. n \in 0..Height(p) /\ n % AnchorSpacing = 0
  BY <1>1, <1>2, AnchorHeight
<1>4. \E a \in Path(p) : Height(a) = n
  BY <1>2, <1>3, OnPath
<1>5. TrueAnchor(h) = CHOOSE a \in Path(p) : Height(a) = n
  BY <1>1 DEF TrueAnchor
<1>6. TrueAnchor(h) \in Path(p) /\ Height(TrueAnchor(h)) = n
  BY <1>4, <1>5
<1>7. \A x \in Path(p) : Height(x) = n => x = TrueAnchor(h)
  BY <1>2, <1>6, OnPath
<1> QED
  BY <1>1, <1>3, <1>6, <1>7

\* The root is on every path.
LEMMA RootOnPath ==
    ASSUME NEW g, IsRoot(g), NEW h \in Hdr
    PROVE  g \in Path(h)
  BY OnPath

\* Up to b, the difficulty anchors of the chain are on the path of h.
Close(a, h, b) ==
    /\ b \in Nat
    /\ \A x \in Canonical(a) : Height(x) <= b /\ Height(x) % AnchorSpacing = 0 => x \in Path(h)

\* A staging area, over an arena: its headers hang together, each of them is as
\* the rules want it but for the proof of work, and remembers the truth.
Entry == [h : Hdr, base : Nat]
Hangs(a, st, i) ==
    LET h == st[i].h IN
    /\ Prev(h) # h /\ head[h].sound /\ s1b_checkpoint(h) /\ head[h].bits = TrueAnchor(h)
    /\ Prev(h) \in a.nodes \cup {st[j].h : j \in 1..(i - 1)}
Waits(a, st, i) == Hangs(a, st, i) /\ Close(a, st[i].h, st[i].base)
Staging(a, st) ==
    /\ st \in Seq(Entry) /\ Len(st) <= StagedCap
    /\ \A i \in 1..Len(st) : Waits(a, st, i)

\* An arena: valid headers with their ancestors.
Arena(a) ==
    /\ a.nodes \subseteq ValidHeaders /\ a.tip \in a.nodes
    /\ \A h \in a.nodes : Path(h) \subseteq a.nodes

\* A fork base is a fork point, and the child of a header inherits one.
LEMMA BaseIsClose ==
    ASSUME NEW a, Arena(a), NEW st, Staging(a, st), NEW h \in Hdr, Prev(h) # h,
           Prev(h) \in a.nodes \cup StagedIn(st)
    PROVE  /\ Close(a, Prev(h), BaseOf(a, st, Prev(h)))
           /\ Close(a, h, child_branch_base(a, st, Prev(h)))
<1>1. PICK p : p = Prev(h)
  OBVIOUS
<1>2. p \in Hdr /\ a.tip \in Hdr /\ Path(p) \subseteq Path(h) /\ p \in Path(p)
  BY <1>1, OnPath DEF Arena, ValidHeaders
<1>3. /\ Canonical(a) = Path(a.tip) /\ Canonical(a) \subseteq Hdr
      /\ \A c \in Canonical(a) : /\ Height(c) \in Nat
                                 /\ \A x \in Canonical(a) : Height(x) <= Height(c) => x \in Path(c)
  <2>1. PICK t \in Hdr : t = a.tip
    BY <1>2
  <2>2. Canonical(a) = Path(t)
    BY <2>1 DEF Canonical
  <2>3. \A c \in Path(t) : \A x \in Path(t) : Height(x) <= Height(c) => x \in Path(c)
    <3> TAKE c \in Path(t)
    <3>1. Path(c) = {x \in Path(t) : Height(x) <= Height(c)}
      BY OnPath
    <3> QED
      BY <3>1
  <2>4. Path(t) \subseteq Hdr /\ \A c \in Path(t) : Height(c) \in Nat
    BY OnPath
  <2> QED
    BY <2>1, <2>2, <2>3, <2>4
<1>4. \A c \in Canonical(a) : c \in Path(p) => Close(a, p, Height(c))
  <2> TAKE c \in Canonical(a)
  <2> HAVE c \in Path(p)
  <2>1. Path(c) \subseteq Path(p)
    BY <1>2, OnPath
  <2> QED
    BY <1>3, <2>1 DEF Close
<1>5. ASSUME p \in a.nodes PROVE Close(a, p, BaseOf(a, st, p))
  <2>1. BaseOf(a, st, p) = branch_base_height(a, p)
    BY <1>5 DEF BaseOf
  <2>2. PICK g : IsRoot(g)
    BY RootExists
  <2>3. g \in Canonical(a) /\ \A x \in Hdr : g \in Path(x)
    BY <1>2, <1>3, <2>2, RootOnPath
  <2>4. CASE Prev(p) = p
    <3>1. branch_base_height(a, p) = Height(p)
      BY <2>4 DEF branch_base_height
    <3>2. p = g
      BY <1>2, <2>2, <2>4 DEF IsRoot
    <3> QED
      BY <1>2, <1>4, <2>1, <2>3, <3>1, <3>2
  <2>5. CASE Prev(p) # p
    <3> DEFINE S == {Height(x) : x \in Path(Prev(p)) \cap Canonical(a)}
    <3>1. branch_base_height(a, p) = Max(S)
      BY <2>5 DEF branch_base_height
    <3>2. Prev(p) \in Hdr /\ Path(Prev(p)) \subseteq Path(p)
      BY <1>2, OnPath
    <3>3. S \subseteq 0..Height(p) /\ S # {} /\ Height(p) \in Nat
      BY <1>2, <1>3, <2>3, <3>2, OnPath
    <3>4. \E m \in S : \A y \in S : m >= y
      <4>1. \E m \in S : \A y \in S : y <= m
        <5> DEFINE T == {Height(p) - y : y \in S}
        <5>1. T \subseteq Nat /\ T # {}
          BY <3>3
        <5>2. PICK t \in T : \A u \in T : t <= u
          <6> HIDE DEF T
          <6> QED
            BY <5>1, LeastExists
        <5>3. PICK m \in S : t = Height(p) - m
          BY <5>2
        <5>4. \A y \in S : Height(p) - m <= Height(p) - y
          BY <5>2, <5>3
        <5>5. \A y \in S : y <= m
          <6>1. S \subseteq Int /\ Height(p) \in Int
            BY <3>3
          <6> HIDE DEF S
          <6> QED
            BY <5>4, <6>1
        <5> QED
          BY <5>5
      <4>2. S \subseteq Int
        BY <3>3
      <4> HIDE DEF S
      <4> QED
        BY <4>1, <4>2
    <3>5. Max(S) \in S
      <4> HIDE DEF S
      <4> QED
        BY <3>4 DEF Max
    <3>6. PICK c \in Path(Prev(p)) \cap Canonical(a) : Height(c) = Max(S)
      BY <3>5
    <3> QED
      BY <1>4, <2>1, <3>1, <3>2, <3>6
  <2> QED
    BY <2>4, <2>5
<1>6. ASSUME p \notin a.nodes PROVE Close(a, p, BaseOf(a, st, p))
  <2>1. \E i \in DOMAIN st : st[i].h = p
    BY <1>1, <1>6 DEF StagedIn
  <2>2. PICK i \in DOMAIN st : st[i].h = p /\ BaseOf(a, st, p) = st[i].base
    BY <1>6, <2>1 DEF BaseOf
  <2>3. i \in 1..Len(st)
    BY DEF Staging
  <2> QED
    BY <1>1, <2>2, <2>3 DEF Staging, Waits, Hangs
<1>7. Close(a, p, BaseOf(a, st, p))
  BY <1>1, <1>5, <1>6
<1>8. Close(a, p, child_branch_base(a, st, p))
  BY <1>2, <1>4, <1>7 DEF child_branch_base
<1> QED
  BY <1>1, <1>2, <1>7, <1>8 DEF Close

\* The ancestor that the staging area finds at the height of the difficulty
\* anchor is the difficulty anchor, so its verdict on the bits is the true one.
LEMMA BitsAre ==
    ASSUME NEW a, Arena(a), NEW st, Staging(a, st), NEW h \in Hdr, Prev(h) # h,
           Prev(h) \in a.nodes \cup StagedIn(st)
    PROVE  /\ s3_bits(a, st, h) = "ok" => head[h].bits = TrueAnchor(h)
           /\ s3_bits(a, st, h) = "bits" => head[h].bits # TrueAnchor(h)
           /\ s3_bits(a, st, h) \in {"ok", "bits", "noAnchor"}
<1>1. PICK p, n : p = Prev(h) /\ n = (Height(p) \div AnchorSpacing) * AnchorSpacing
  OBVIOUS
<1>2. PICK at, before : at = ancestor_of(a, st, p, n) /\ before = ancestor_of(a, st, p, n - 1)
  OBVIOUS
<1>3. s3_bits(a, st, h) = IF at = {} \/ (n > 0 /\ before = {}) THEN "noAnchor"
                          ELSE IF at = {head[h].bits} THEN "ok" ELSE "bits"
  BY <1>1, <1>2 DEF s3_bits
<1>4. p \in Hdr /\ Height(p) \in Nat /\ a.tip \in Hdr
  BY <1>1, OnPath DEF Arena, ValidHeaders
<1>5. /\ n \in 0..Height(p) /\ n % AnchorSpacing = 0
      /\ TrueAnchor(h) \in Path(p) /\ Height(TrueAnchor(h)) = n
      /\ \A x \in Path(p) : Height(x) = n => x = TrueAnchor(h)
  BY <1>1, TrueAnchorIs
<1>6. Close(a, p, BaseOf(a, st, p))
  BY <1>1, BaseIsClose
<1>7. \A x \in at : x = TrueAnchor(h)
  <2>1. ~(n > Height(p))
    BY <1>4, <1>5
  <2>2. CASE BaseOf(a, st, p) >= n
    <3>1. at = {x \in Canonical(a) : Height(x) = n}
      BY <1>2, <2>1, <2>2 DEF ancestor_of, canonical_at
    <3>2. \A x \in at : Height(x) <= BaseOf(a, st, p)
      BY <1>4, <1>5, <1>6, <2>2, <3>1 DEF Close
    <3>3. at \subseteq Path(p)
      BY <1>5, <1>6, <3>1, <3>2 DEF Close
    <3> QED
      BY <1>5, <3>1, <3>3
  <2>3. CASE ~(BaseOf(a, st, p) >= n)
    <3>1. \A x \in at : x \in Path(p) /\ Height(x) = n
      BY <1>2, <2>1, <2>3 DEF ancestor_of
    <3> QED
      BY <1>5, <3>1
  <2> QED
    BY <2>2, <2>3
<1>8. at = {} \/ at = {TrueAnchor(h)}
  BY <1>7
<1> QED
  BY <1>3, <1>8

\* A verdict: what passes waits for its proof of work only, and what is refused
\* for good is valid in no chain.
LEMMA VerdictIs ==
    ASSUME NEW a, Arena(a), NEW st, Staging(a, st), NEW h \in Hdr, Prev(h) # h
    PROVE  /\ Verdict(a, st, h) = "ok" =>
                 /\ head[h].sound /\ s1b_checkpoint(h) /\ head[h].bits = TrueAnchor(h)
                 /\ Prev(h) \in a.nodes \cup StagedIn(st)
                 /\ Len(st) < StagedCap
           /\ Verdict(a, st, h) \in Permanent => h \notin ValidHeaders
<1>1. PICK why, bits : why = Verdict(a, st, h) /\ bits = s3_bits(a, st, h)
  OBVIOUS
<1>2. why = IF ~head[h].sound THEN "malformed"
            ELSE IF ~s1b_checkpoint(h) THEN "checkpoint"
            ELSE IF Prev(h) \notin a.nodes \cup StagedIn(st) THEN "unknownParent"
            ELSE IF bits # "ok" THEN bits
            ELSE IF head[h].time > wall THEN "tooFarInFuture"
            ELSE IF ~s5_fork_depth(a, st, Prev(h)) THEN "forkTooDeep"
            ELSE IF Len(st) >= StagedCap THEN "stagingFull"
            ELSE "ok"
  BY <1>1 DEF Verdict
<1>3. h \in ValidHeaders => head[h].sound /\ s1b_checkpoint(h) /\ head[h].bits = TrueAnchor(h)
  BY OnPath DEF ValidHeaders, ValidLink
<1>4. CASE ~head[h].sound
  <2>1. why = "malformed"
    BY <1>2, <1>4, Zenon
  <2> QED
    BY <1>1, <1>3, <1>4, <2>1
<1>5. CASE head[h].sound /\ ~s1b_checkpoint(h)
  <2>1. why = "checkpoint"
    BY <1>2, <1>5, Zenon
  <2> QED
    BY <1>1, <1>3, <1>5, <2>1
<1>6. CASE head[h].sound /\ s1b_checkpoint(h) /\ Prev(h) \notin a.nodes \cup StagedIn(st)
  <2>1. why = "unknownParent"
    BY <1>2, <1>6, Zenon
  <2> QED
    BY <1>1, <2>1 DEF Permanent
<1>7. CASE head[h].sound /\ s1b_checkpoint(h) /\ Prev(h) \in a.nodes \cup StagedIn(st)
  <2>1. /\ bits = "ok" => head[h].bits = TrueAnchor(h)
        /\ bits = "bits" => head[h].bits # TrueAnchor(h)
        /\ bits \in {"ok", "bits", "noAnchor"}
    BY <1>1, <1>7, BitsAre
  <2>2. CASE bits # "ok"
    <3>1. why = bits
      BY <1>2, <1>7, <2>2, Zenon
    <3> QED
      BY <1>1, <1>3, <2>1, <2>2, <3>1 DEF Permanent
  <2>3. CASE bits = "ok"
    <3>1. why = IF head[h].time > wall THEN "tooFarInFuture"
                ELSE IF ~s5_fork_depth(a, st, Prev(h)) THEN "forkTooDeep"
                ELSE IF Len(st) >= StagedCap THEN "stagingFull"
                ELSE "ok"
      BY <1>2, <1>7, <2>3, Zenon
    <3>2. why = "ok" => ~(Len(st) >= StagedCap)
      BY <3>1
    <3>3. why \notin Permanent
      BY <3>1 DEF Permanent
    <3>4. Len(st) \in Nat /\ StagedCap \in Nat
      BY IngestConstants DEF Staging
    <3> QED
      BY <1>1, <1>7, <2>1, <2>3, <3>2, <3>3, <3>4
  <2> QED
    BY <2>2, <2>3
<1> QED
  BY <1>4, <1>5, <1>6, <1>7

\* The ring of the refused.
Refused(neg) == neg \in Seq(Hdr) /\ \A i \in 1..Len(neg) : neg[i] \notin ValidHeaders

\* The ring takes a header whose verdict is for good, and nothing else.
LEMMA CachedIs ==
    ASSUME NEW neg, Refused(neg), NEW h \in Hdr, NEW why, why \in Permanent => h \notin ValidHeaders
    PROVE  Refused(Cached(neg, h, why))
<1>1. CASE why \notin Permanent \/ h \in Range(neg)
  <2>1. Cached(neg, h, why) = neg
    BY <1>1 DEF Cached
  <2> QED
    BY <2>1
<1>2. CASE ~(why \notin Permanent \/ h \in Range(neg))
  <2>1. PICK m : m = IF Len(neg) >= NegativeCap THEN Tail(neg) ELSE neg
    OBVIOUS
  <2>2. Refused(m)
    <3>1. CASE Len(neg) >= NegativeCap
      <4>1. neg \in Seq(Hdr) /\ neg # <<>> /\ Len(neg) \in Nat
        BY <3>1, IngestConstants DEF Refused
      <4>2. Tail(neg) \in Seq(Hdr) /\ Len(Tail(neg)) = Len(neg) - 1
            /\ \A i \in 1..(Len(neg) - 1) : Tail(neg)[i] = neg[i + 1] /\ i + 1 \in 1..Len(neg)
        BY <4>1
      <4> QED
        BY <2>1, <3>1, <4>2 DEF Refused
    <3>2. CASE ~(Len(neg) >= NegativeCap)
      BY <2>1, <3>2
    <3> QED
      BY <3>1, <3>2
  <2>3. Cached(neg, h, why) = Append(m, h) /\ h \notin ValidHeaders
    BY <1>2, <2>1 DEF Cached
  <2>4. m \in Seq(Hdr) /\ Len(m) \in Nat /\ \A i \in 1..Len(m) : m[i] \notin ValidHeaders
    BY <2>2 DEF Refused
  <2>5. /\ Append(m, h) \in Seq(Hdr) /\ Len(Append(m, h)) = Len(m) + 1
        /\ Append(m, h)[Len(m) + 1] = h /\ \A i \in 1..Len(m) : Append(m, h)[i] = m[i]
    BY <2>4
  <2>6. \A i \in 1..(Len(m) + 1) : Append(m, h)[i] \notin ValidHeaders
    BY <2>3, <2>4, <2>5
  <2> QED
    BY <2>3, <2>5, <2>6 DEF Refused
<1> QED
  BY <1>1, <1>2

\* What waits goes on waiting when the arena grows under the same tip.
LEMMA StagingStays ==
    ASSUME NEW a, NEW b, NEW st, Staging(a, st), a.nodes \subseteq b.nodes, b.tip = a.tip
    PROVE  Staging(b, st)
<1>1. Canonical(b) = Canonical(a)
  BY DEF Canonical
<1>2. \A i \in 1..Len(st) : Waits(b, st, i)
  <2> TAKE i \in 1..Len(st)
  <2>1. Waits(a, st, i)
    BY DEF Staging
  <2>2. Close(b, st[i].h, st[i].base)
    BY <1>1, <2>1 DEF Waits, Hangs, Close
  <2> QED
    BY <2>1, <2>2 DEF Waits, Hangs
<1> QED
  BY <1>2 DEF Staging

\* A batch under way: its arena, its staging area and its ring are sound.
Areas == [nodes : SUBSET Hdr, tip : Hdr, side : SUBSET Hdr]
Drafts == [arena : Areas, st : Seq(Entry), neg : Seq(Hdr), fails : Int, credit : Int, dups : Int,
           stop : BOOLEAN]
Sound(r) == Arena(r.arena) /\ Staging(r.arena, r.st) /\ Refused(r.neg)

\* What a batch makes of the draft r: sound as well, of the same tip, with no header less.
After(r) ==
    {x \in Drafts : Sound(x) /\ x.arena.tip = r.arena.tip /\ r.arena.nodes \subseteq x.arena.nodes}

\* A header that passes is staged.
LEMMA StageOneIs ==
    ASSUME NEW r \in Drafts, Sound(r), NEW h \in Hdr, Prev(h) # h
    PROVE  stage_one(r, h) \in After(r)
<1>1. PICK a, st, why : a = r.arena /\ st = r.st /\ why = Verdict(a, st, h)
  OBVIOUS
<1>2. /\ a \in Areas /\ st \in Seq(Entry) /\ r.neg \in Seq(Hdr)
      /\ Arena(a) /\ Staging(a, st) /\ Refused(r.neg)
  BY <1>1 DEF Drafts, Sound
<1>3. /\ why = "ok" => /\ head[h].sound /\ s1b_checkpoint(h) /\ head[h].bits = TrueAnchor(h)
                       /\ Prev(h) \in a.nodes \cup StagedIn(st)
                       /\ Len(st) < StagedCap
      /\ why \in Permanent => h \notin ValidHeaders
  BY <1>1, <1>2, VerdictIs
<1>4. CASE why = "ok"
  <2>1. PICK e : e = [h |-> h, base |-> child_branch_base(a, st, Prev(h))]
    OBVIOUS
  <2>2. Close(a, h, child_branch_base(a, st, Prev(h)))
    BY <1>2, <1>3, <1>4, BaseIsClose
  <2>3. e \in Entry /\ e.h = h /\ Close(a, h, e.base)
    BY <2>1, <2>2 DEF Entry, Close
  <2>4. PICK q : q = Append(st, e)
    OBVIOUS
  <2>5. /\ q \in Seq(Entry) /\ Len(q) = Len(st) + 1 /\ q[Len(st) + 1] = e /\ Len(st) \in Nat
        /\ \A i \in 1..Len(st) : q[i] = st[i]
    BY <1>2, <2>3, <2>4
  <2>6. Len(q) <= StagedCap
    BY <1>3, <1>4, <2>5, IngestConstants
  <2>7. ASSUME NEW i \in 1..Len(q)
        PROVE  Waits(a, q, i)
    <3>1. \A j \in 1..(i - 1) : j \in 1..Len(st) /\ q[j] = st[j]
      BY <2>5
    <3>2. CASE i \in 1..Len(st)
      <4>1. Waits(a, st, i) /\ q[i] = st[i]
        BY <1>2, <2>5, <3>2 DEF Staging
      <4>2. {q[j].h : j \in 1..(i - 1)} = {st[j].h : j \in 1..(i - 1)}
        BY <3>1
      <4> QED
        BY <4>1, <4>2 DEF Waits, Hangs
    <3>3. CASE i = Len(st) + 1
      <4>1. q[i] = e
        BY <2>5, <3>3
      <4>2. StagedIn(st) = {st[j].h : j \in 1..Len(st)}
        BY <1>2 DEF StagedIn
      <4>3. {q[j].h : j \in 1..(i - 1)} = StagedIn(st)
        BY <2>5, <3>1, <3>3, <4>2
      <4> QED
        BY <1>3, <1>4, <2>3, <4>1, <4>3 DEF Waits, Hangs
    <3> QED
      BY <2>5, <3>2, <3>3
  <2>8. Staging(a, q)
    BY <2>5, <2>6, <2>7 DEF Staging
  <2>9. stage_one(r, h) = [r EXCEPT !.st = q]
    BY <1>1, <1>4, <2>1, <2>4 DEF stage_one
  <2>10. PICK x : x = [r EXCEPT !.st = q]
    OBVIOUS
  <2>11. x \in Drafts /\ x.arena = r.arena /\ x.neg = r.neg /\ x.st = q
    BY <2>5, <2>10 DEF Drafts
  <2> QED
    BY <1>1, <1>2, <2>8, <2>9, <2>10, <2>11 DEF After, Sound
<1>5. CASE why # "ok"
  <2>1. PICK n : n = Cached(r.neg, h, why)
    OBVIOUS
  <2>2. Refused(n)
    BY <1>2, <1>3, <2>1, CachedIs
  <2>3. stage_one(r, h) = [r EXCEPT !.neg = n]
    BY <1>1, <1>5, <2>1 DEF stage_one
  <2>4. PICK x : x = [r EXCEPT !.neg = n]
    OBVIOUS
  <2>5. x \in Drafts /\ x.arena = r.arena /\ x.neg = n /\ x.st = r.st
    BY <2>2, <2>4 DEF Drafts, Refused
  <2> QED
    BY <1>1, <1>2, <2>2, <2>3, <2>4, <2>5 DEF After, Sound
<1> QED
  BY <1>4, <1>5

\* The walk under way.
Walks(r) ==
    {w \in [r : Drafts, used : Nat, connected : Int, over : BOOLEAN, failed : BOOLEAN] :
        /\ Arena(w.r.arena) /\ Refused(w.r.neg) /\ w.r.st = r.st
        /\ w.r.arena.tip = r.arena.tip /\ r.arena.nodes \subseteq w.r.arena.nodes}

\* A header whose parent is stored, and that has its proof of work, is valid.
LEMMA InsertedIsValid ==
    ASSUME NEW a \in Areas, Arena(a), NEW h \in Hdr, Prev(h) # h, Prev(h) \in a.nodes, ValidLink(h),
           NEW b, b.nodes = a.nodes \cup {h}, b.tip = a.tip
    PROVE  Arena(b)
<1>1. Path(h) = {h} \cup Path(Prev(h)) /\ Path(Prev(h)) \subseteq a.nodes
  BY OnPath DEF Arena
<1>2. \A x \in Path(h) : Prev(x) = x \/ ValidLink(x)
  <2> TAKE x \in Path(h)
  <2>1. CASE x = h
    BY <2>1
  <2>2. CASE x # h
    <3>1. x \in ValidHeaders
      BY <1>1, <2>2 DEF Arena
    <3>2. x \in Hdr /\ x \in Path(x)
      BY <3>1, OnPath DEF ValidHeaders
    <3> QED
      BY <3>1, <3>2 DEF ValidHeaders
  <2> QED
    BY <2>1, <2>2
<1>3. h \in ValidHeaders
  BY <1>2 DEF ValidHeaders
<1>4. b.nodes \subseteq ValidHeaders /\ b.tip \in b.nodes
  BY <1>3 DEF Arena
<1>5. \A x \in b.nodes : Path(x) \subseteq b.nodes
  BY <1>1 DEF Arena
<1> QED
  BY <1>4, <1>5 DEF Arena

\* One step of the walk: it ends it, or the header is verified, and stored if its parent is.
LEMMA WalkOneIs ==
    ASSUME NEW r \in Drafts, Sound(r), NEW w \in Walks(r), NEW i \in 1..Len(r.st), NEW room
    PROVE  LET x == WalkOne(w, r.st[i], room) IN
           /\ x \in Walks(r) /\ w.r.arena.nodes \subseteq x.r.arena.nodes
           /\ \/ x.over /\ x.used = w.used
              \/ /\ ~x.over /\ ~w.over /\ x.used = w.used + 1
                 /\ Prev(r.st[i].h) \in w.r.arena.nodes => r.st[i].h \in x.r.arena.nodes
<1>1. PICK e, h, x : e = r.st[i] /\ h = e.h /\ x = WalkOne(w, e, room)
  OBVIOUS
<1>2. /\ e \in Entry /\ h \in Hdr /\ Prev(h) # h /\ head[h].sound /\ s1b_checkpoint(h)
      /\ head[h].bits = TrueAnchor(h)
  <2>1. PICK st : st = r.st
    OBVIOUS
  <2>2. st \in Seq(Entry) /\ i \in 1..Len(st) /\ Waits(r.arena, st, i)
    BY <2>1 DEF Sound, Staging
  <2>3. e \in Entry /\ e = st[i]
    BY <1>1, <2>1, <2>2
  <2>4. h \in Hdr
    BY <1>1, <2>3 DEF Entry
  <2> QED
    BY <1>1, <2>2, <2>3, <2>4 DEF Waits, Hangs
<1>3. PICK d, a : d = w.r /\ a = d.arena
  OBVIOUS
<1>4. /\ w \in [r : Drafts, used : Nat, connected : Int, over : BOOLEAN, failed : BOOLEAN]
      /\ d \in Drafts /\ a \in Areas /\ Arena(a) /\ Refused(d.neg) /\ d.st = r.st
      /\ a.tip = r.arena.tip /\ r.arena.nodes \subseteq a.nodes /\ w.used \in Nat
      /\ w.connected \in Int /\ d.credit \in Int /\ d.fails \in Int
  BY <1>3 DEF Walks, Drafts
<1>5. CASE w.over \/ w.connected >= room \/ d.credit = 0
  <2>1. x = [w EXCEPT !.over = TRUE]
    BY <1>1, <1>3, <1>5 DEF WalkOne
  <2>2. /\ x \in [r : Drafts, used : Nat, connected : Int, over : BOOLEAN, failed : BOOLEAN]
        /\ x.r = d /\ x.used = w.used /\ x.over
    BY <1>3, <1>4, <2>1
  <2> QED
    BY <1>1, <1>3, <1>4, <2>2 DEF Walks
<1>6. CASE ~(w.over \/ w.connected >= room \/ d.credit = 0) /\ ~head[h].pow
  <2>1. PICK n, f : n = Cached(d.neg, h, "pow") /\ f = d.fails + 1
    OBVIOUS
  <2>2. h \notin ValidHeaders
    BY <1>2, <1>6, OnPath DEF ValidHeaders, ValidLink
  <2>3. Refused(n) /\ n \in Seq(Hdr) /\ f \in Int
    <3>1. PICK neg : neg = d.neg
      OBVIOUS
    <3>2. Refused(neg) /\ ("pow" \in Permanent => h \notin ValidHeaders)
      BY <1>4, <2>2, <3>1
    <3>3. Refused(Cached(neg, h, "pow"))
      BY <1>2, <3>2, CachedIs
    <3> QED
      BY <1>4, <2>1, <3>1, <3>3 DEF Refused
  <2>4. PICK c : c = [d EXCEPT !.neg = n, !.fails = f]
    OBVIOUS
  <2>5. c \in Drafts /\ c.arena = a /\ c.neg = n /\ c.st = r.st
    BY <1>3, <1>4, <2>3, <2>4 DEF Drafts
  <2>6. x = [w EXCEPT !.over = TRUE, !.failed = TRUE, !.r = c]
    BY <1>1, <1>3, <1>4, <1>6, <2>1, <2>4 DEF WalkOne
  <2>7. /\ x \in [r : Drafts, used : Nat, connected : Int, over : BOOLEAN, failed : BOOLEAN]
        /\ x.r = c /\ x.used = w.used /\ x.over
    BY <1>4, <2>1, <2>5, <2>6
  <2> QED
    BY <1>1, <1>3, <1>4, <2>3, <2>5, <2>7 DEF Walks
<1>7. CASE ~(w.over \/ w.connected >= room \/ d.credit = 0) /\ head[h].pow /\ Prev(h) \notin a.nodes
  <2>1. PICK f, u : f = d.credit - 1 /\ u = w.used + 1 /\ f \in Int /\ u \in Nat
    BY <1>4
  <2>2. PICK c : c = [d EXCEPT !.credit = f]
    OBVIOUS
  <2>3. c \in Drafts /\ c.arena = a /\ c.neg = d.neg /\ c.st = r.st
    BY <1>3, <1>4, <2>1, <2>2 DEF Drafts
  <2>4. x = [w EXCEPT !.used = u, !.r = c]
    BY <1>1, <1>3, <1>4, <1>7, <2>1, <2>2 DEF WalkOne
  <2>5. /\ x \in [r : Drafts, used : Nat, connected : Int, over : BOOLEAN, failed : BOOLEAN]
        /\ x.r = c /\ x.used = u /\ x.over = w.over
    BY <1>4, <2>1, <2>3, <2>4
  <2> QED
    BY <1>1, <1>3, <1>4, <1>7, <2>1, <2>3, <2>5 DEF Walks
<1>8. CASE ~(w.over \/ w.connected >= room \/ d.credit = 0) /\ head[h].pow /\ Prev(h) \in a.nodes
  <2>1. PICK f, u, v, b : /\ f = d.credit - 1 /\ u = w.used + 1 /\ v = w.connected + 1
                          /\ f \in Int /\ u \in Nat /\ v \in Int /\ b = Inserted(a, h)
    BY <1>4
  <2>2. b \in Areas /\ b.nodes = a.nodes \cup {h} /\ b.tip = a.tip
    BY <1>2, <1>4, <2>1 DEF Areas, Inserted
  <2>3. Arena(b)
    BY <1>2, <1>4, <1>8, <2>2, InsertedIsValid DEF ValidLink
  <2>4. PICK c : c = [d EXCEPT !.credit = f, !.arena = b]
    OBVIOUS
  <2>5. c \in Drafts /\ c.arena = b /\ c.neg = d.neg /\ c.st = r.st
    BY <1>3, <1>4, <2>1, <2>2, <2>4 DEF Drafts
  <2>6. x = [w EXCEPT !.used = u, !.connected = v, !.r = c]
    BY <1>1, <1>3, <1>4, <1>8, <2>1, <2>4 DEF WalkOne
  <2>7. /\ x \in [r : Drafts, used : Nat, connected : Int, over : BOOLEAN, failed : BOOLEAN]
        /\ x.r = c /\ x.used = u /\ x.over = w.over
    BY <1>4, <2>1, <2>5, <2>6
  <2> QED
    BY <1>1, <1>3, <1>4, <1>8, <2>1, <2>2, <2>3, <2>5, <2>7 DEF Walks
<1> QED
  BY <1>5, <1>6, <1>7, <1>8

\* A walk over the first i headers of the staging area: all of them up to the
\* one that ended it have been verified, and are stored.
Promoted(r, w, i) ==
    /\ w \in Walks(r) /\ w.used <= i /\ (~w.over => w.used = i)
    /\ \A j \in 1..w.used : r.st[j].h \in w.r.arena.nodes

\* A step goes one header on.
LEMMA WalkedOn ==
    ASSUME NEW r \in Drafts, Sound(r), NEW i \in 1..Len(r.st), NEW w, Promoted(r, w, i - 1), NEW room
    PROVE  Promoted(r, WalkOne(w, r.st[i], room), i)
<1>1. PICK x, st : x = WalkOne(w, r.st[i], room) /\ st = r.st
  OBVIOUS
<1>2. w \in Walks(r) /\ w.used <= i - 1 /\ (~w.over => w.used = i - 1)
      /\ (\A j \in 1..w.used : st[j].h \in w.r.arena.nodes)
  BY <1>1 DEF Promoted
<1>3. /\ x \in Walks(r) /\ w.r.arena.nodes \subseteq x.r.arena.nodes
      /\ \/ x.over /\ x.used = w.used
         \/ /\ ~x.over /\ ~w.over /\ x.used = w.used + 1
            /\ Prev(st[i].h) \in w.r.arena.nodes => st[i].h \in x.r.arena.nodes
  BY <1>1, <1>2, WalkOneIs
<1>4. w.used \in Nat /\ x.used \in Nat /\ i \in Nat /\ r.arena.nodes \subseteq w.r.arena.nodes
  BY <1>2, <1>3 DEF Walks
<1>5. CASE x.over /\ x.used = w.used
  BY <1>1, <1>2, <1>3, <1>4, <1>5 DEF Promoted
<1>6. CASE /\ ~x.over /\ ~w.over /\ x.used = w.used + 1
           /\ Prev(st[i].h) \in w.r.arena.nodes => st[i].h \in x.r.arena.nodes
  <2>1. Prev(st[i].h) \in r.arena.nodes \cup {st[j].h : j \in 1..(i - 1)}
    BY <1>1 DEF Sound, Staging, Waits, Hangs
  <2>2. w.used = i - 1 /\ x.used = i
    BY <1>2, <1>4, <1>6
  <2>3. Prev(st[i].h) \in w.r.arena.nodes
    BY <1>2, <1>4, <2>1, <2>2
  <2>4. \A j \in 1..x.used : st[j].h \in x.r.arena.nodes
    <3> TAKE j \in 1..x.used
    <3>1. j = i \/ j \in 1..w.used
      BY <2>2, <1>4
    <3> QED
      BY <1>2, <1>3, <1>6, <2>3, <3>1
  <2> QED
    BY <1>1, <1>3, <1>4, <2>2, <2>4 DEF Promoted
<1> QED
  BY <1>3, <1>5, <1>6

\* So does the walk, to the end of the staging area.
LEMMA WalkIs ==
    ASSUME NEW r \in Drafts, Sound(r), NEW room
    PROVE  Promoted(r, Walk(r, room), Len(r.st))
<1> DEFINE n == Len(r.st)
           X == Walks(r)
           G == [a \in (1..n) \X X |-> WalkOne(a[2], r.st[a[1]], room)]
           start == [r |-> r, used |-> 0, connected |-> 0, over |-> FALSE, failed |-> FALSE]
           w[i \in 0..Len(r.st)] == IF i = 0 THEN [r |-> r, used |-> 0, connected |-> 0, over |-> FALSE, failed |-> FALSE]
                                    ELSE WalkOne(w[i - 1], r.st[i], room)
<1>1. n \in Nat
  BY DEF Sound, Staging
<1>2. Promoted(r, start, 0)
  <2>1. start \in X
    BY DEF Walks, Sound
  <2> QED
    BY <2>1 DEF Promoted
<1>3. start \in X
  <2> HIDE DEF X, start
  <2> QED
    BY <1>2 DEF Promoted, X
<1>4. G \in [(1..n) \X X -> X]
  <2>1. \A i \in 1..n : \A v \in X : WalkOne(v, r.st[i], room) \in X
    BY WalkOneIs
  <2> HIDE DEF X
  <2> QED
    BY <2>1
<1>5. PICK g : Iterates(g, n, X, start, G)
  <2> HIDE DEF X, G, n, start
  <2> QED
    BY <1>1, <1>3, <1>4, IterationExists
<1>6. g \in [0..n -> X] /\ g[0] = start /\ \A i \in 1..n : g[i] = G[<<i, g[i - 1]>>]
  <2> HIDE DEF X, G, n, start
  <2> QED
    BY <1>5, Zenon DEF Iterates
<1>7. \A i \in 1..n : g[i] = WalkOne(g[i - 1], r.st[i], room)
  <2> HIDE DEF X, start
  <2> TAKE i \in 1..n
  <2>1. i - 1 \in 0..n /\ g[i - 1] \in X
    BY <1>1, <1>6
  <2> QED
    BY <2>1, <1>6
<1>8. g = [i \in 0..Len(r.st) |-> IF i = 0 THEN start ELSE WalkOne(g[i - 1], r.st[i], room)]
  <2> HIDE DEF X, G, start
  <2>1. \A i \in 0..n : g[i] = IF i = 0 THEN start ELSE WalkOne(g[i - 1], r.st[i], room)
    <3> TAKE i \in 0..n
    <3>1. CASE i = 0
      BY <1>6, <3>1
    <3>2. CASE i # 0
      <4>1. i \in 1..n
        BY <1>1, <3>2
      <4> QED
        BY <4>1, <3>2, <1>7
    <3> QED
      BY <3>1, <3>2
  <2> QED
    BY <1>6, <2>1
<1>9. w = [i \in 0..Len(r.st) |-> IF i = 0 THEN start ELSE WalkOne(w[i - 1], r.st[i], room)]
  <2> HIDE DEF X, G
  <2> QED
    BY <1>8
<1>10. Walk(r, room) = w[n]
  BY DEF Walk, w
<1> HIDE DEF w, G
<1> DEFINE S == {i \in 0..n : Promoted(r, w[i], i)}
<1>11. \A i \in 0..n : i \in S
  <2>1. 0 \in S
    <3> HIDE DEF start
    <3> QED
      BY <1>1, <1>2, <1>9
  <2>2. ASSUME NEW i \in 1..n, i - 1 \in S
        PROVE  i \in S
    <3> HIDE DEF start
    <3>1. i \in 0..n /\ i # 0 /\ Promoted(r, w[i - 1], i - 1)
      BY <1>1, <2>2
    <3>2. w[i] = WalkOne(w[i - 1], r.st[i], room)
      BY <1>9, <3>1
    <3>3. Promoted(r, w[i], i)
      BY <3>1, <3>2, WalkedOn
    <3> QED
      BY <3>1, <3>3
  <2> HIDE DEF S, n
  <2> QED
    BY <1>1, <2>1, <2>2, UpTo
<1> QED
  BY <1>1, <1>10, <1>11

\* What is left of a staging area when its first u headers are stored.
LEMMA RestStaging ==
    ASSUME NEW a, NEW st, Staging(a, st), NEW u \in 0..Len(st), \A j \in 1..u : st[j].h \in a.nodes
    PROVE  Staging(a, SubSeq(st, u + 1, Len(st)))
<1>1. PICK n, q : n = Len(st) /\ q = SubSeq(st, u + 1, n)
  OBVIOUS
<1>2. st \in Seq(Entry) /\ n \in Nat /\ n <= StagedCap /\ StagedCap \in Nat /\ u \in 0..n
  BY <1>1, IngestConstants DEF Staging
<1>3. /\ q \in Seq(Entry) /\ Len(q) = n - u /\ Len(q) <= StagedCap
      /\ \A i \in 1..(n - u) : q[i] = st[i + u]
  BY <1>1, <1>2
<1>4. ASSUME NEW i \in 1..(n - u)
      PROVE  Waits(a, q, i)
  <2>1. i + u \in 1..n /\ q[i] = st[i + u]
    BY <1>2, <1>3
  <2>2. Waits(a, st, i + u)
    BY <1>1, <2>1 DEF Staging
  <2>3. ASSUME NEW j \in 1..((i + u) - 1)
        PROVE  st[j].h \in a.nodes \cup {q[k].h : k \in 1..(i - 1)}
    <3>1. CASE j \in 1..u
      BY <3>1
    <3>2. CASE j \notin 1..u
      <4>1. j - u \in 1..(i - 1) /\ j - u \in 1..(n - u) /\ (j - u) + u = j
        BY <1>2, <3>2
      <4>2. q[j - u] = st[j]
        BY <1>3, <4>1
      <4> QED
        BY <4>1, <4>2
    <3> QED
      BY <3>1, <3>2
  <2>4. Prev(st[i + u].h) \in a.nodes \cup {q[k].h : k \in 1..(i - 1)}
    <3>1. Prev(st[i + u].h) \in a.nodes \cup {st[j].h : j \in 1..((i + u) - 1)}
      BY <2>2 DEF Waits, Hangs
    <3> QED
      BY <2>3, <3>1
  <2> QED
    BY <2>1, <2>2, <2>4 DEF Waits, Hangs
<1> QED
  BY <1>1, <1>2, <1>3, <1>4 DEF Staging

\* A promotion keeps the draft sound.
LEMMA PromoteIs ==
    ASSUME NEW r \in Drafts, Sound(r), NEW unsolicited, NEW room
    PROVE  promote(r, unsolicited, room) \in After(r)
<1>1. r \in After(r)
  BY DEF After
<1>2. PICK w : w = Walk(r, room)
  OBVIOUS
<1>3. PICK q : q = IF w.failed THEN <<>> ELSE SubSeq(w.r.st, w.used + 1, Len(w.r.st))
  OBVIOUS
<1>4. PICK x : x = [w.r EXCEPT !.st = q]
  OBVIOUS
<1>5. promote(r, unsolicited, room) = r \/ promote(r, unsolicited, room) = x
  <2>1. [w.r EXCEPT !.st = IF w.failed THEN <<>> ELSE SubSeq(@, w.used + 1, Len(@))] = x
    BY <1>3, <1>4
  <2> QED
    BY <1>2, <2>1, Zenon DEF promote
<1>6. /\ w \in Walks(r) /\ w.used <= Len(r.st)
      /\ \A j \in 1..w.used : r.st[j].h \in w.r.arena.nodes
  BY <1>2, WalkIs DEF Promoted
<1>7. PICK d, st : d = w.r /\ st = r.st
  OBVIOUS
<1>8. /\ d \in Drafts /\ Arena(d.arena) /\ Refused(d.neg) /\ d.st = st
      /\ d.arena.tip = r.arena.tip /\ r.arena.nodes \subseteq d.arena.nodes /\ w.used \in Nat
  BY <1>6, <1>7 DEF Walks
<1>9. Staging(r.arena, st) /\ Staging(d.arena, st) /\ st \in Seq(Entry) /\ Len(st) \in Nat
  <2>1. PICK a, b : a = r.arena /\ b = d.arena
    OBVIOUS
  <2>2. Staging(a, st)
    BY <1>7, <2>1 DEF Sound
  <2>3. Staging(b, st)
    BY <1>8, <2>1, <2>2, StagingStays
  <2> QED
    BY <2>1, <2>2, <2>3 DEF Staging
<1>10. Staging(d.arena, q) /\ q \in Seq(Entry)
  <2>1. CASE w.failed
    <3>1. q = <<>> /\ StagedCap \in Nat
      BY <1>3, <2>1, IngestConstants
    <3> QED
      BY <3>1 DEF Staging
  <2>2. CASE ~w.failed
    <3>1. PICK u, a : u = w.used /\ a = d.arena
      OBVIOUS
    <3>2. u \in 0..Len(st) /\ \A j \in 1..u : st[j].h \in a.nodes
      BY <1>6, <1>7, <1>8, <1>9, <3>1
    <3>3. Staging(a, SubSeq(st, u + 1, Len(st)))
      BY <1>9, <3>1, <3>2, RestStaging
    <3> QED
      BY <1>3, <1>7, <1>8, <2>2, <3>1, <3>3 DEF Staging
  <2> QED
    BY <2>1, <2>2
<1>11. x \in Drafts /\ x.arena = d.arena /\ x.neg = d.neg /\ x.st = q
  BY <1>4, <1>7, <1>8, <1>10 DEF Drafts
<1>12. x \in After(r)
  BY <1>8, <1>10, <1>11 DEF After, Sound
<1> QED
  BY <1>1, <1>5, <1>12

\* The root is stored.
LEMMA RootStored ==
    ASSUME NEW a, Arena(a), NEW h \in Hdr, h \notin a.nodes
    PROVE  Prev(h) # h
<1>1. PICK g : IsRoot(g)
  BY RootExists
<1>2. PICK t : t = a.tip
  OBVIOUS
<1>3. t \in Hdr /\ Path(t) \subseteq a.nodes
  BY <1>2 DEF Arena, ValidHeaders
<1>4. g \in a.nodes
  BY <1>1, <1>3, RootOnPath
<1> QED
  BY <1>1, <1>4 DEF IsRoot

\* A header of a message keeps the draft sound.
LEMMA OneHeaderIs ==
    ASSUME NEW r \in Drafts, Sound(r), NEW h \in Hdr, NEW unsolicited, NEW room
    PROVE  one_header(r, h, unsolicited, room) \in After(r)
<1>1. r \in After(r)
  BY DEF After
<1>2. CASE r.stop
  BY <1>1, <1>2 DEF one_header
<1>3. CASE ~r.stop /\ Known(r, h)
  <2>1. PICK k, b : k = r.dups + 1 /\ b = (r.dups + 1 > BatchDups)
    OBVIOUS
  <2>2. PICK x : x = [r EXCEPT !.dups = k, !.stop = b]
    OBVIOUS
  <2>3. k \in Int /\ b \in BOOLEAN
    BY <2>1 DEF Drafts
  <2>4. x \in Drafts /\ x.arena = r.arena /\ x.neg = r.neg /\ x.st = r.st
    BY <2>2, <2>3 DEF Drafts
  <2>5. one_header(r, h, unsolicited, room) = x
    BY <1>3, <2>1, <2>2 DEF one_header
  <2> QED
    BY <2>4, <2>5 DEF After, Sound
<1>4. CASE ~r.stop /\ ~Known(r, h)
  <2>1. PICK q : q = IF Len(r.st) >= StagedCap THEN promote(r, unsolicited, room) ELSE r
    OBVIOUS
  <2>2. q \in After(r)
    BY <1>1, <2>1, PromoteIs
  <2>3. Prev(h) # h
    <3>1. PICK a : a = r.arena
      OBVIOUS
    <3>2. Arena(a) /\ h \notin a.nodes
      BY <1>4, <3>1 DEF Sound, Known
    <3> QED
      BY <3>2, RootStored
  <2>4. q \in Drafts /\ Sound(q) /\ q.arena.tip = r.arena.tip /\ r.arena.nodes \subseteq q.arena.nodes
    BY <2>2 DEF After
  <2>5. PICK x : x = stage_one(q, h)
    OBVIOUS
  <2>6. x \in After(q)
    BY <2>3, <2>4, <2>5, StageOneIs
  <2>7. x \in After(r)
    BY <2>4, <2>6 DEF After
  <2>8. one_header(r, h, unsolicited, room) = x
    BY <1>4, <2>1, <2>5, Zenon DEF one_header
  <2> QED
    BY <2>7, <2>8
<1> QED
  BY <1>2, <1>3, <1>4

\* A message keeps the draft sound.
LEMMA ReadBatchIs ==
    ASSUME NEW r \in Drafts, Sound(r), NEW batch \in Seq(Hdr), NEW unsolicited, NEW room
    PROVE  ReadBatch(r, batch, unsolicited, room) \in After(r)
<1> DEFINE n == Len(batch)
           X == After(r)
           G == [a \in (1..n) \X X |-> one_header(a[2], batch[a[1]], unsolicited, room)]
           after[i \in 0..Len(batch)] ==
               IF i = 0 THEN r ELSE one_header(after[i - 1], batch[i], unsolicited, room)
<1>1. n \in Nat /\ \A i \in 1..n : batch[i] \in Hdr
  OBVIOUS
<1>2. r \in X
  BY DEF After
<1>3. \A h \in Hdr : \A v \in X : one_header(v, h, unsolicited, room) \in X
  <2> TAKE h \in Hdr
  <2> TAKE v \in X
  <2>1. v \in Drafts /\ Sound(v) /\ v.arena.tip = r.arena.tip /\ r.arena.nodes \subseteq v.arena.nodes
    BY DEF After
  <2>2. PICK x : x = one_header(v, h, unsolicited, room)
    OBVIOUS
  <2>3. x \in After(v)
    BY <2>1, <2>2, OneHeaderIs
  <2>4. x \in After(r)
    BY <2>1, <2>3 DEF After
  <2> QED
    BY <2>2, <2>4
<1>4. G \in [(1..n) \X X -> X]
  <2> HIDE DEF X
  <2> QED
    BY <1>1, <1>3
<1>5. PICK g : Iterates(g, n, X, r, G)
  <2> HIDE DEF X, G, n
  <2> QED
    BY <1>1, <1>2, <1>4, IterationExists
<1>6. g \in [0..n -> X] /\ g[0] = r /\ \A i \in 1..n : g[i] = G[<<i, g[i - 1]>>]
  <2> HIDE DEF X, G, n
  <2> QED
    BY <1>5, Zenon DEF Iterates
<1>7. \A i \in 1..n : g[i] = one_header(g[i - 1], batch[i], unsolicited, room)
  <2> HIDE DEF X
  <2> TAKE i \in 1..n
  <2>1. i - 1 \in 0..n /\ g[i - 1] \in X
    BY <1>1, <1>6
  <2> QED
    BY <2>1, <1>6
<1>8. g = [i \in 0..Len(batch) |-> IF i = 0 THEN r ELSE one_header(g[i - 1], batch[i], unsolicited, room)]
  <2> HIDE DEF X, G
  <2>1. \A i \in 0..n : g[i] = IF i = 0 THEN r ELSE one_header(g[i - 1], batch[i], unsolicited, room)
    <3> TAKE i \in 0..n
    <3>1. CASE i = 0
      BY <1>6, <3>1
    <3>2. CASE i # 0
      <4>1. i \in 1..n
        BY <1>1, <3>2
      <4> QED
        BY <4>1, <3>2, <1>7
    <3> QED
      BY <3>1, <3>2
  <2> QED
    BY <1>6, <2>1
<1>9. after = [i \in 0..Len(batch) |->
                  IF i = 0 THEN r ELSE one_header(after[i - 1], batch[i], unsolicited, room)]
  <2> HIDE DEF X, G
  <2> QED
    BY <1>8
<1>10. ReadBatch(r, batch, unsolicited, room) = promote(after[n], unsolicited, room)
  BY DEF ReadBatch, after
<1> HIDE DEF after, G
<1>11. \A i \in 0..n : after[i] \in X
  <2>1. after[0] \in X
    BY <1>1, <1>2, <1>9
  <2>2. ASSUME NEW i \in 1..n, after[i - 1] \in X
        PROVE  after[i] \in X
    <3>1. i \in 0..n /\ i # 0 /\ batch[i] \in Hdr
      BY <1>1
    <3>2. after[i] = one_header(after[i - 1], batch[i], unsolicited, room)
      BY <1>9, <3>1
    <3> HIDE DEF X
    <3> QED
      BY <2>2, <3>1, <3>2, <1>3
  <2> HIDE DEF X, n
  <2> QED
    BY <1>1, <2>1, <2>2, IterationKeeps
<1>12. PICK v, x : v = after[n] /\ x = promote(v, unsolicited, room)
  OBVIOUS
<1>13. v \in Drafts /\ Sound(v) /\ v.arena.tip = r.arena.tip /\ r.arena.nodes \subseteq v.arena.nodes
  BY <1>1, <1>11, <1>12 DEF After
<1>14. x \in After(v)
  BY <1>12, <1>13, PromoteIs
<1>15. x \in After(r)
  BY <1>13, <1>14 DEF After
<1> QED
  BY <1>10, <1>12, <1>15

\* A staging area, without what it remembers of the chain.
Hanging(a, st) ==
    /\ st \in Seq(Entry) /\ Len(st) <= StagedCap
    /\ \A i \in 1..Len(st) : Hangs(a, st, i)

IngestInv ==
    /\ arena \in Areas /\ Arena(arena) /\ Refused(negative)
    /\ failures \in [Origin -> Int] /\ DOMAIN staged = Origin
    /\ \A s \in Origin : Hanging(arena, staged[s])

IngestSpec == IngestInit /\ [][IngestNext]_ingestVars

\* A source whose staged headers remember the truth has a staging area.
LEMMA AgreedIsStaging ==
    ASSUME IngestInv, AnchorsAgree, NEW s \in Origin
    PROVE  Staging(arena, staged[s])
<1>1. PICK a, st : a = arena /\ st = staged[s]
  OBVIOUS
<1>2. st \in Seq(Entry) /\ Len(st) <= StagedCap /\ \A i \in 1..Len(st) : Hangs(a, st, i)
  BY <1>1 DEF IngestInv, Hanging
<1>3. \A i \in 1..Len(st) : \A x \in Canonical(a) :
          Height(x) <= st[i].base /\ Height(x) % AnchorSpacing = 0 => x \in Path(st[i].h)
  BY <1>1, <1>2 DEF AnchorsAgree
<1>4. ASSUME NEW i \in 1..Len(st)
      PROVE  Waits(a, st, i)
  <2>1. st[i] \in Entry
    BY <1>2
  <2>2. st[i].base \in Nat
    BY <2>1 DEF Entry
  <2>3. Close(a, st[i].h, st[i].base)
    BY <1>3, <2>2 DEF Close
  <2> QED
    BY <1>2, <2>3 DEF Hangs, Waits
<1> QED
  BY <1>1, <1>2, <1>4 DEF Staging

\* What is staged hangs on a larger arena as well.
LEMMA HangingStays ==
    ASSUME NEW a, NEW b, a.nodes \subseteq b.nodes, NEW st, Hanging(a, st)
    PROVE  Hanging(b, st)
<1>1. \A i \in 1..Len(st) : Hangs(b, st, i)
  <2> TAKE i \in 1..Len(st)
  <2>1. Hangs(a, st, i)
    BY DEF Hanging
  <2> QED
    BY <2>1 DEF Hangs
<1> QED
  BY <1>1 DEF Hanging

\* A staging area hangs together.
LEMMA StagingHangs ==
    ASSUME NEW a, NEW st, Staging(a, st)
    PROVE  Hanging(a, st)
<1>1. \A i \in 1..Len(st) : Hangs(a, st, i)
  BY DEF Staging, Waits, Hangs
<1> QED
  BY <1>1 DEF Staging, Hanging

\* The invariant holds at the start.
LEMMA IngestStarts == IngestInit => IngestInv
<1> SUFFICES ASSUME IngestInit PROVE IngestInv
  OBVIOUS
<1>1. arena = [nodes |-> Path(StartTip), tip |-> StartTip, side |-> {}]
  BY DEF IngestInit
<1>2. StartTip \in Hdr /\ StartTip \in ValidHeaders
  BY IngestConstants, HeaderTree
<1>3. /\ StartTip \in Path(StartTip) /\ Path(StartTip) \subseteq Hdr
      /\ \A a \in Path(StartTip) : Path(a) \subseteq Path(StartTip)
  BY <1>2, OnPath
<1>4. Path(StartTip) \subseteq ValidHeaders
  BY <1>2, <1>3 DEF ValidHeaders
<1>5. arena \in Areas /\ Arena(arena)
  BY <1>1, <1>2, <1>3, <1>4 DEF Areas, Arena
<1>6. Refused(negative)
  BY DEF IngestInit, Refused
<1>7. failures \in [Origin -> Int] /\ DOMAIN staged = Origin
  BY DEF IngestInit
<1>8. ASSUME NEW s \in Origin
      PROVE  Hanging(arena, staged[s])
  <2>1. staged[s] = <<>> /\ StagedCap \in Nat
    BY IngestConstants DEF IngestInit
  <2> QED
    BY <2>1 DEF Hanging
<1> QED
  BY <1>5, <1>6, <1>7, <1>8 DEF IngestInv

\* A message of a source.
LEMMA SubmitKeeps ==
    ASSUME IngestInv, AnchorsAgree, NEW s \in Origin, NEW batch \in Batches, NEW unsolicited,
           NEW credit \in Int, submit_headers(s, batch, unsolicited, credit)
    PROVE  IngestInv'
<1>1. PICK r, room :
          /\ r = [arena |-> arena, st |-> staged[s], neg |-> negative, fails |-> failures[s],
                  credit |-> credit, dups |-> 0, stop |-> FALSE]
          /\ room = SideCap - Cardinality(arena.side)
  OBVIOUS
<1>2. PICK x : x = ReadBatch(r, batch, unsolicited, room)
  OBVIOUS
<1>3. /\ arena' = x.arena /\ negative' = x.neg /\ staged' = [staged EXCEPT ![s] = x.st]
      /\ failures' = [failures EXCEPT ![s] = x.fails]
  BY <1>1, <1>2 DEF submit_headers
<1>4. Staging(arena, staged[s])
  BY AgreedIsStaging
<1>5. /\ arena \in Areas /\ Arena(arena) /\ Refused(negative) /\ failures[s] \in Int
      /\ staged[s] \in Seq(Entry) /\ negative \in Seq(Hdr)
  BY <1>4 DEF IngestInv, Staging, Refused
<1>6. r \in Drafts /\ r.arena = arena /\ r.st = staged[s] /\ r.neg = negative
  BY <1>1, <1>5 DEF Drafts
<1>7. Sound(r)
  BY <1>4, <1>5, <1>6 DEF Sound
<1>8. batch \in Seq(Hdr)
  BY IngestConstants
<1>9. x \in After(r)
  BY <1>2, <1>6, <1>7, <1>8, ReadBatchIs
<1>10. /\ x.arena \in Areas /\ x.fails \in Int /\ Arena(x.arena) /\ Staging(x.arena, x.st) /\ Refused(x.neg)
       /\ arena.nodes \subseteq x.arena.nodes
  BY <1>6, <1>9 DEF After, Drafts, Sound
<1>11. PICK st, b : st = x.st /\ b = x.arena
  OBVIOUS
<1>12. Hanging(b, st)
  BY <1>10, <1>11, StagingHangs
<1>13. ASSUME NEW t \in Origin
       PROVE  Hanging(arena', staged'[t])
  <2>1. CASE t = s
    <3>1. staged'[t] = st
      BY <1>3, <1>11, <2>1 DEF IngestInv
    <3> QED
      BY <1>3, <1>11, <1>12, <3>1
  <2>2. CASE t # s
    <3>1. PICK a, old : a = arena /\ old = staged[t]
      OBVIOUS
    <3>2. staged'[t] = old
      BY <1>3, <2>2, <3>1 DEF IngestInv
    <3>3. Hanging(a, old) /\ a.nodes \subseteq b.nodes
      BY <1>10, <1>11, <3>1 DEF IngestInv
    <3>4. Hanging(b, old)
      BY <3>3, HangingStays
    <3> QED
      BY <1>3, <1>11, <3>2, <3>4
  <2> QED
    BY <2>1, <2>2
<1>14. failures' \in [Origin -> Int] /\ DOMAIN staged' = Origin
  BY <1>3, <1>10 DEF IngestInv
<1>15. arena' \in Areas /\ Arena(arena') /\ Refused(negative')
  BY <1>3, <1>10
<1> QED
  BY <1>13, <1>14, <1>15 DEF IngestInv

\* An adoption moves the tip within the arena.
LEMMA SetCanonicalKeeps ==
    ASSUME IngestInv, NEW h \in Hdr, SetCanonical(h)
    PROVE  IngestInv'
<1>1. PICK side : side = arena.side \ Path(h)
  OBVIOUS
<1>2. /\ h \in arena.nodes /\ arena' = [arena EXCEPT !.tip = h, !.side = side]
      /\ failures' = [x \in Origin |-> 0] /\ staged' = staged /\ negative' = negative
  BY <1>1 DEF SetCanonical
<1>3. arena \in Areas /\ Arena(arena) /\ side \subseteq Hdr
  BY <1>1 DEF IngestInv, Areas
<1>4. arena' \in Areas /\ arena'.nodes = arena.nodes /\ arena'.tip = h
  BY <1>2, <1>3 DEF Areas
<1>5. Arena(arena')
  BY <1>2, <1>3, <1>4 DEF Arena
<1>6. ASSUME NEW s \in Origin
      PROVE  Hanging(arena', staged'[s])
  <2>1. PICK a, b, st : a = arena /\ b = arena' /\ st = staged[s]
    OBVIOUS
  <2>2. Hanging(a, st) /\ a.nodes \subseteq b.nodes
    BY <1>4, <2>1 DEF IngestInv
  <2>3. Hanging(b, st)
    BY <2>2, HangingStays
  <2> QED
    BY <1>2, <2>1, <2>3
<1>7. failures' \in [Origin -> Int] /\ DOMAIN staged' = Origin /\ Refused(negative')
  BY <1>2 DEF IngestInv
<1> QED
  BY <1>4, <1>5, <1>6, <1>7 DEF IngestInv

\* A source leaves.
LEMMA ForgetKeeps ==
    ASSUME IngestInv, NEW s \in Origin, forget_source(s)
    PROVE  IngestInv'
<1>1. /\ staged' = [staged EXCEPT ![s] = <<>>] /\ failures' = [failures EXCEPT ![s] = 0]
      /\ arena' = arena /\ negative' = negative
  BY DEF forget_source
<1>2. ASSUME NEW t \in Origin
      PROVE  Hanging(arena', staged'[t])
  <2>1. CASE t = s
    <3>1. staged'[t] = <<>> /\ StagedCap \in Nat
      BY <1>1, <2>1, IngestConstants DEF IngestInv
    <3> QED
      BY <3>1 DEF Hanging
  <2>2. CASE t # s
    <3>1. staged'[t] = staged[t]
      BY <1>1, <2>2 DEF IngestInv
    <3> QED
      BY <1>1, <3>1 DEF IngestInv
  <2> QED
    BY <2>1, <2>2
<1>3. failures' \in [Origin -> Int] /\ DOMAIN staged' = Origin
  BY <1>1 DEF IngestInv
<1> QED
  BY <1>1, <1>2, <1>3 DEF IngestInv

\* Every step keeps it, where the anchors agree.
LEMMA IngestKeeps == IngestInv /\ AnchorsAgree /\ [IngestNext]_ingestVars => IngestInv'
<1> SUFFICES ASSUME IngestInv, AnchorsAgree, [IngestNext]_ingestVars
             PROVE  IngestInv'
  OBVIOUS
<1>1. CASE UNCHANGED ingestVars
  BY <1>1 DEF ingestVars, IngestInv
<1>2. CASE WallTick
  BY <1>2 DEF WallTick, IngestInv
<1>3. CASE \E h \in Hdr : SetCanonical(h)
  BY <1>3, SetCanonicalKeeps
<1>4. CASE \E s \in Origin : forget_source(s)
  BY <1>4, ForgetKeeps
<1>5. CASE \E s \in Origin : Batch(s)
  <2>1. PICK s \in Origin : Batch(s)
    BY <1>5
  <2>2. PICK batch \in Batches :
            \/ submit_headers(s, batch, FALSE, 2 * StagedCap)
            \/ \E credit \in 0..(StagedCap - 1) : \E unsolicited \in BOOLEAN :
                  submit_headers(s, batch, unsolicited, credit)
    BY <2>1 DEF Batch
  <2>3. CASE submit_headers(s, batch, FALSE, 2 * StagedCap)
    <3>1. PICK credit : credit = 2 * StagedCap
      OBVIOUS
    <3>2. credit \in Int
      BY <3>1, IngestConstants
    <3>3. submit_headers(s, batch, FALSE, credit)
      BY <2>3, <3>1, Zenon
    <3> QED
      BY <3>2, <3>3, SubmitKeeps
  <2>4. CASE \E credit \in 0..(StagedCap - 1) : \E unsolicited \in BOOLEAN :
                  submit_headers(s, batch, unsolicited, credit)
    <3>1. PICK credit \in 0..(StagedCap - 1), unsolicited \in BOOLEAN :
              submit_headers(s, batch, unsolicited, credit)
      BY <2>4
    <3>2. credit \in Int
      BY IngestConstants
    <3> QED
      BY <3>1, <3>2, SubmitKeeps
  <2> QED
    BY <2>2, <2>3, <2>4
<1> QED
  BY <1>1, <1>2, <1>3, <1>4, <1>5 DEF IngestNext

\* It gives the property.
LEMMA IngestGives == IngestInv => IngestSound
<1> SUFFICES ASSUME IngestInv PROVE IngestSound
  OBVIOUS
<1>1. ValidNotCached
  <2>1. negative \in Seq(Hdr) /\ \A i \in 1..Len(negative) : negative[i] \notin ValidHeaders
    BY DEF IngestInv, Refused
  <2>2. \A h \in Range(negative) : \E i \in 1..Len(negative) : h = negative[i]
    BY <2>1 DEF Range
  <2> QED
    BY <2>1, <2>2 DEF ValidNotCached
<1>2. \A h \in arena.nodes : h \in ValidHeaders /\ Path(h) \subseteq arena.nodes
  BY DEF IngestInv, Arena
<1>3. ASSUME NEW s \in Origin
      PROVE  /\ Len(staged[s]) <= StagedCap
             /\ \A i \in DOMAIN staged[s] :
                   Prev(staged[s][i].h) \in arena.nodes \cup {staged[s][j].h : j \in 1..(i - 1)}
  <2>1. PICK a, st : a = arena /\ st = staged[s]
    OBVIOUS
  <2>2. Hanging(a, st) /\ st \in Seq(Entry)
    BY <2>1 DEF IngestInv, Hanging
  <2>3. Len(st) <= StagedCap /\ \A i \in DOMAIN st : Prev(st[i].h) \in a.nodes \cup {st[j].h : j \in 1..(i - 1)}
    BY <2>2 DEF Hanging, Hangs
  <2> QED
    BY <2>1, <2>3
<1> QED
  BY <1>1, <1>2, <1>3 DEF IngestSound

\* As long as what is staged remembers the chain's difficulty anchors truly,
\* the arena takes only valid headers, and nothing that a later moment would
\* take is refused for good.
THEOREM IngestIsSound == IngestSpec /\ []AnchorsAgree => []IngestSound
<1>1. IngestInit => IngestInv
  BY IngestStarts
<1>2. IngestInv /\ AnchorsAgree /\ [IngestNext]_ingestVars => IngestInv'
  BY IngestKeeps
<1>3. IngestInv => IngestSound
  BY IngestGives
<1> QED
  BY <1>1, <1>2, <1>3, PTL DEF IngestSpec
=============================================================================
