----------------------------- MODULE StoreCare -----------------------------
(***************************************************************************)
(* What the store says of the bytes it keeps (lib/storage integrity.rs,    *)
(* anchor.rs, sweep.rs, the open path of recover.rs, the sealing, pruning  *)
(* and repair of committer.rs, the availability answers of reader.rs).     *)
(*                                                                         *)
(* A chain is kept in segments of SegLen blocks.  A segment is sealed when *)
(* the chain passes its last block; the commit that seals it mints an      *)
(* anchor row: a digest of its first and last header, its index and its    *)
(* first and last frame.  The scan at open compares lengths, seams and     *)
(* anchors and says of every sealed segment that it is damaged,            *)
(* unverifiable or verified.  Faults strike the files of sealed segments   *)
(* while the node is down; one bad header may also appear while it runs.   *)
(***************************************************************************)
EXTENDS Integers, Sequences, FiniteSets, FiniteSetsExt, Functions

CONSTANTS
    SegLen,       \* SEG_BLOCKS
    Retain,       \* body_retain_blocks
    RollbackMax,  \* MAX_REORG_DEPTH
    UndoKept,     \* UNDO_RING
    Window,       \* VERIFY_WINDOW: headers the open walks below the tip
    BlocksMax, ReorgsMax, OpensMax, FaultsMax,  \* bounds: chain, reorgs, restarts, faults
    Downgrades    \* whether a session may run with anchor_mint_off

ASSUME CareConstants ==
    /\ {SegLen, RollbackMax, UndoKept, BlocksMax} \subseteq Nat \ {0} /\ {Retain, Window} \subseteq Nat
    /\ RollbackMax < UndoKept /\ UndoKept <= SegLen /\ UndoKept <= Retain + 1 /\ RollbackMax < Window
    /\ {ReorgsMax, OpensMax, FaultsMax} \subseteq Nat /\ Downgrades \in BOOLEAN

VARIABLES
    chain,   \* the blocks, each a version that a reorg raises
    hseg,    \* header file of a segment: ok, gone, short, alien, torn (inside) or edge (first header)
    bseg,    \* its body file and index: ok, gone, short, long, alien, mixed, holed, flip, noside, unlinked
    meta,    \* [anchor: segment -> row, floor: anchor_floor, prune: prune_floor, undo: lowest undo row]
    mem,     \* the session: damage and vouch sets, anchors_through, mint, prune in progress
    sweep,   \* [cursor, targets] and due: breaks no step has visited since the last wrap
    past     \* ghosts: segments re-sealed over damage, sealed while minting was off; counters

careVars == <<chain, hseg, bseg, meta, mem, sweep, past>>

Seg == 0..(BlocksMax \div SegLen)
NoFloor == BlocksMax + SegLen + 1      \* anchor_floor.unwrap_or(u64::MAX)
seg_of(h) == h \div SegLen
FirstOf(s) == s * SegLen
LastOf(s) == FirstOf(s) + SegLen - 1
watermark(c) == Len(c)
sealed_through(w) == w \div SegLen - 1
Prefix(c, s) == SubSeq(c, 1, LastOf(s) + 1)
Span(s, from, to) == [seg |-> s, first |-> from, last |-> to]
Covers(D, h) == \E d \in D : h \in d.first..d.last
Hurts(D, s) == \E d \in D : d.first <= LastOf(s) /\ d.last >= FirstOf(s)

(***************************************************************************)
(* integrity.rs: lengths and seams.                                        *)
(***************************************************************************)
FirstIsOurs(h) == h \in {"ok", "torn"}
LastIsOurs(h) == h \in {"ok", "torn", "edge"}

scan_headers(c, H) ==
    LET top == seg_of(Len(c) - 1)
        Whole(s) == Span(s, FirstOf(s), Min({LastOf(s), Len(c) - 1}))
        cut == {[Whole(s) EXCEPT !.first = IF H[s] = "short" THEN @ + 1 ELSE @] :
                   s \in {x \in 0..top : H[x] \in {"gone", "short"}}}
        \* a seam is not looked at when either side is already blamed
        blamed[s \in 0..top] ==
            /\ s > 0 /\ ~blamed[s - 1] /\ ~Hurts(cut, s - 1) /\ ~Hurts(cut, s)
            /\ ~(LastIsOurs(H[s - 1]) /\ FirstIsOurs(H[s]))
    IN  IF c = <<>> THEN {} ELSE cut \cup {Whole(s) : s \in {x \in 0..top : blamed[x]}}

\* the index and the first and last frame, below the segment of the last block
scan_bodies(c, B, floor) ==
    {Span(s, FirstOf(s) + (IF B[s] = "short" THEN 1 ELSE 0), LastOf(s)) :
        s \in {x \in seg_of(floor)..(seg_of(Len(c) - 1) - 1) : B[x] \in {"gone", "short", "holed", "noside"}}}

(***************************************************************************)
(* anchor.rs: what a row commits to, and the judgement at open.            *)
(***************************************************************************)
identity(H, s) == H[s] \notin {"gone", "short"}
material(B, s) == B[s] \in {"ok", "long", "flip", "alien", "mixed"}
\* mutant: a digest of the headers alone
geomOfHeaders(c, H, B, s) == <<Prefix(c, s), IF H[s] = "torn" THEN "ok" ELSE H[s], "ok">>
geom(c, H, B, s) ==
    <<Prefix(c, s), IF H[s] = "torn" THEN "ok" ELSE H[s], IF B[s] \in {"long", "flip"} THEN "ok" ELSE B[s]>>
computable(H, B, s) == identity(H, s) /\ material(B, s)

\* mutant: the row of the segment the watermark falls into stays
delete_above_tip(A, w) == Restrict(A, {s \in DOMAIN A : s <= seg_of(w)})
delete_above_watermark(A, w) == Restrict(A, {s \in DOMAIN A : s <= sealed_through(w)})
\* mutant: the row of the last pruned segment stays
delete_below_but_one(A, s) == Restrict(A, {x \in DOMAIN A : x >= s - 1})
delete_below_segment(A, s) == Restrict(A, {x \in DOMAIN A : x >= s})

\* anchor_sync: every segment the commit passed gets its row, once
anchor_sync(m, through, mint, c, H, B) ==
    LET kept == IF sealed_through(Len(c)) < through
                THEN delete_above_watermark(m.anchor, Len(c)) ELSE m.anchor
        new == {s \in Seg : /\ s \in (through + 1)..sealed_through(Len(c))
                            /\ mint /\ m.floor # NoFloor
                            /\ FirstOf(s) >= m.prune /\ computable(H, B, s)}
        row(s) == [grade |-> IF FirstOf(s) >= m.floor THEN "sealed_here" ELSE "unchanged_since",
                   geom |-> geom(c, H, B, s), intact |-> B[s] # "flip"]
    IN  [m EXCEPT !.anchor = [s \in DOMAIN kept \cup new |-> IF s \in DOMAIN kept THEN kept[s] ELSE row(s)]]

\* verify_sealed: the damage it finds, the segments it cannot vouch for, the regressed ones
verify_sealed(m, c, H, B, hd, bd) ==
    LET seen == {s \in seg_of(m.prune)..sealed_through(Len(c)) : ~Hurts(bd, s)}
        rowed == seen \cap DOMAIN m.anchor
        blind(s) == ~identity(H, s) \/ Hurts(hd, s)
        mismatch == {s \in rowed : ~blind(s) /\ geom(c, H, B, s) # m.anchor[s].geom}
        missing == {s \in seen \ rowed : FirstOf(s) >= m.floor /\ ~blind(s) /\ \E a \in DOMAIN m.anchor : a > s}
        regressed == {s \in (seen \ rowed) \ missing : FirstOf(s) >= m.floor /\ ~blind(s)}
        weak == {s \in rowed : blind(s) \/ m.anchor[s].grade # "sealed_here"}
    IN  [damage |-> {Span(s, FirstOf(s), LastOf(s)) : s \in mismatch \cup missing},
         vouch |-> ((seen \ rowed) \ missing) \cup (weak \ mismatch),
         floor |-> IF regressed # {} THEN Max({m.floor, FirstOf(Min(regressed))}) ELSE m.floor]

(***************************************************************************)
(* reader.rs: what a caller is told.                                       *)
(***************************************************************************)
body_availability(h) ==
    IF h >= Len(chain) THEN "above"
    ELSE IF Covers(mem.body, h) THEN "damaged"
    ELSE IF h < meta.prune THEN "pruned"
    ELSE IF seg_of(h) > sealed_through(Len(chain)) \/ seg_of(h) \in mem.vouch THEN "unverifiable"
    ELSE "verified"

\* the frame digest of the row (the L2 sweep)
verify_segment_frames(s) ==
    IF s > sealed_through(Len(chain)) \/ s \notin DOMAIN meta.anchor
            \/ ~identity(hseg, s) \/ bseg[s] \in {"gone", "unlinked", "noside", "short"} THEN "none"
    ELSE IF meta.anchor[s].intact = (bseg[s] # "flip") /\ meta.anchor[s].geom = geom(chain, hseg, bseg, s)
         THEN "match" ELSE "differs"

\* the links inside a segment and into the next one (the L3-H sweep)
verify_segment_headers(c, H, hd, s) ==
    IF Len(c) < FirstOf(s) + SegLen \/ Hurts(hd, s) \/ H[s] \in {"gone", "short"} THEN "unjudged"
    ELSE IF H[s] \in {"torn", "edge"} THEN "broken"
    ELSE IF Len(c) = LastOf(s) + 1 THEN "clean"
    ELSE IF Covers(hd, LastOf(s) + 1) \/ H[s + 1] = "gone" THEN "unjudged"
    ELSE IF LastIsOurs(H[s]) /\ FirstIsOurs(H[s + 1]) THEN "clean" ELSE "broken"

sweepable(c, floor) == seg_of(floor)..Max({seg_of(Len(c) - 1), seg_of(floor)})
BreaksIn(c, H, hd, floor) ==
    {s \in Seg : s >= seg_of(floor) /\ verify_segment_headers(c, H, hd, s) = "broken"}
StillDue == sweep.due \cap BreaksIn(chain', hseg', mem'.header, meta'.prune)

(***************************************************************************)
(* The committer.                                                          *)
(***************************************************************************)
Idle == mem.unlink = {}

\* apply_block: an undo row for each block, and the oldest goes for good; the manager rolls back
\* no block that has none (rewind_to_fork)
PushUndoRows(m, c) == [m EXCEPT !.undo = Max({@, Len(c) - UndoKept})]

\* write_block and seal; the horizon may then let a segment go (maybe_prune)
ExtendStore ==
    /\ Idle /\ Len(chain) < BlocksMax
    /\ chain' = Append(chain, past.reorgs)
    /\ LET m == anchor_sync(PushUndoRows(meta, chain'), mem.through, mem.mint, chain', hseg, bseg)
           target == seg_of(Len(chain) - Retain)
           cuts == Len(chain) >= Retain + SegLen /\ Len(chain) - Retain > meta.prune + SegLen
           through == sealed_through(Len(chain'))
       IN  /\ meta' = IF cuts THEN [m EXCEPT !.prune = FirstOf(target),
                                             !.anchor = delete_below_segment(@, target)] ELSE m
           /\ mem' = [mem EXCEPT !.through = through,
                                 !.unlink = IF cuts THEN seg_of(meta.prune)..(target - 1) ELSE {},
                                 !.body = IF cuts THEN {d \in @ : d.last >= FirstOf(target)} ELSE @]
           /\ past' = [past EXCEPT !.unminted = IF mem.mint THEN @ ELSE @ \cup ((mem.through + 1)..through)]
    /\ UNCHANGED <<hseg, bseg>>
    /\ sweep' = [sweep EXCEPT !.due = StillDue]

\* prune_to unlinks after its floor is committed
Unlink(s) ==
    /\ s \in mem.unlink
    /\ bseg' = [bseg EXCEPT ![s] = "unlinked"]
    /\ mem' = [mem EXCEPT !.unlink = @ \ {s}]
    /\ UNCHANGED <<chain, hseg, meta, sweep, past>>

\* what rewriting the blocks from slot `kept` on leaves of a file
HeaderOver(h, kept) ==
    CASE kept = 0 \/ (h = "short" /\ kept = 1) -> "ok"
      [] kept > 0 /\ h \in {"gone", "alien"} -> "edge"
      [] kept > 1 /\ h = "short" -> "torn"
      [] OTHER -> h
BodyOver(b, kept) ==
    CASE kept = 0 \/ (b = "short" /\ kept = 1) -> "ok"
      [] kept > 0 /\ b \in {"gone", "noside"} -> "holed"
      [] kept > 1 /\ b = "short" -> "mixed"
      [] kept > 0 /\ b = "alien" -> "mixed"
      [] OTHER -> b

\* reorg: the branch above fork is rewritten, the anchors above it go and come again
ReorgStore(fork, w) ==
    LET Kept(s) == IF FirstOf(s) > fork THEN 0 ELSE fork + 1 - FirstOf(s)
        touched == {s \in Seg : LastOf(s) > fork /\ FirstOf(s) < w}
        back == sealed_through(fork + 1)
        old == Len(chain)
    IN  /\ Idle /\ past.reorgs < ReorgsMax
        /\ fork + 1 < old /\ old - fork - 1 <= RollbackMax /\ fork + 1 >= meta.undo /\ w > fork + 1
        /\ chain' = SubSeq(chain, 1, fork + 1) \o [i \in 1..(w - fork - 1) |-> past.reorgs + 1]
        /\ hseg' = [s \in Seg |-> IF s \in touched THEN HeaderOver(hseg[s], Kept(s)) ELSE hseg[s]]
        /\ bseg' = [s \in Seg |-> IF s \in touched THEN BodyOver(bseg[s], Kept(s)) ELSE bseg[s]]
        /\ LET cut == [PushUndoRows(meta, chain') EXCEPT !.anchor = delete_above_watermark(@, fork + 1)]
               from == Min({mem.through, back})
           IN  meta' = anchor_sync(cut, from, mem.mint, chain', hseg', bseg')
        /\ mem' = [mem EXCEPT !.through = sealed_through(w),
                              !.header = {d \in @ : d.first < w},
                              !.body = {d \in @ : d.first < w /\ d.last >= meta.prune}]
        /\ sweep' = [sweep EXCEPT
              !.targets = @ \cup {s \in seg_of(fork + 1)..seg_of(old - 1) : FirstOf(s) + SegLen <= old},
              !.due = StillDue]
        /\ past' = [past EXCEPT
              !.reorgs = @ + 1,
              !.covered = {s \in Seg : IF s \in touched
                                        THEN Kept(s) > 0 /\ (s \in @ \/ bseg[s] # "ok" \/ hseg[s] # "ok")
                                        ELSE s \in @},
              !.unminted = {s \in @ : s <= back} \cup (IF mem.mint THEN {} ELSE (back + 1)..sealed_through(w))]

\* repair_headers: one damaged range, whole, pinned by the header above it
Repair(d) ==
    /\ Idle /\ d \in mem.header
    /\ d.last + 1 < Len(chain) /\ ~Covers(mem.header, d.last + 1)
    /\ IF seg_of(d.last + 1) = d.seg THEN hseg[d.seg] # "gone" ELSE FirstIsOurs(hseg[seg_of(d.last + 1)])
    /\ d.first > 0 /\ ~Covers(mem.header, d.first - 1) =>
          IF seg_of(d.first - 1) = d.seg THEN hseg[d.seg] \notin {"alien", "gone"}
          ELSE LastIsOurs(hseg[seg_of(d.first - 1)])
    /\ hseg' = [hseg EXCEPT ![d.seg] = IF (d.first = FirstOf(d.seg) /\ d.last = LastOf(d.seg)) \/ @ = "short"
                                       THEN "ok" ELSE @]
    /\ mem' = [mem EXCEPT !.header = @ \ {d}]
    /\ UNCHANGED <<chain, bseg, meta, past>>
    /\ sweep' = [sweep EXCEPT !.due = StillDue]

\* HeaderSweeper::step with its budget of one segment: targets first, then the cursor
SweepFrom(cursor, rng) == IF cursor \in rng THEN cursor ELSE Min(rng)
\* mutant: the turn goes to the segment after the first
CursorPastFirst(s, rng) == IF s >= Max(rng) THEN Min(rng) + 1 ELSE s + 1
CursorAfter(s, rng) == IF s >= Max(rng) THEN Min(rng) ELSE s + 1
SweepStep ==
    /\ chain # <<>>
    /\ LET rng == sweepable(chain, meta.prune)
           s == SweepFrom(sweep.cursor, rng)
           wrapped == s >= Max(rng)
       IN  sweep' = [cursor |-> CursorAfter(s, rng), targets |-> {}, wrapped |-> wrapped,
                     left |-> sweep.due \ (sweep.targets \cup {s}),
                     due |-> IF wrapped THEN BreaksIn(chain, hseg, mem.header, meta.prune)
                             ELSE sweep.due \ (sweep.targets \cup {s})]
    /\ UNCHANGED <<chain, hseg, bseg, meta, mem, past>>

(***************************************************************************)
(* Faults and the open that follows a stop or a crash.                     *)
(***************************************************************************)
\* a header of a sealed segment goes bad while the node runs
Rot(s) ==
    /\ past.faults < FaultsMax
    /\ s \in past.exposed /\ hseg[s] = "ok"
    /\ hseg' = [hseg EXCEPT ![s] = "torn"]
    /\ past' = [past EXCEPT !.faults = @ + 1]
    /\ UNCHANGED <<chain, bseg, meta, mem, sweep>>

\* files change while the node is down, below the segments the open rescans
HeaderFault == {"gone", "short", "alien", "torn"}
BodyFault == {"gone", "short", "long", "alien", "flip", "noside"}
Below == {s \in past.exposed : s < seg_of(Len(chain) - 1)}
Struck ==
    {<<hseg, bseg>>}
      \cup {<<[hseg EXCEPT ![s] = f], bseg>> : s \in Below, f \in HeaderFault}
      \cup {<<hseg, [bseg EXCEPT ![s] = f]>> :
               s \in {x \in Below : bseg[x] \notin {"unlinked", "gone"}}, f \in BodyFault}

\* open: scratch goes, what can be truncated or rebuilt is, the rest is judged
Healed(m, c, H, B) ==
    [s \in Seg |->
        IF s < seg_of(m.prune) THEN "unlinked"
        ELSE CASE B[s] = "noside" /\ (s \in DOMAIN m.anchor =>
                identity(H, s) /\ m.anchor[s].geom = geom(c, H, [B EXCEPT ![s] = "ok"], s)) -> "ok"
               [] B[s] = "long" /\ s \in DOMAIN m.anchor
                /\ identity(H, s) /\ m.anchor[s].geom = geom(c, H, B, s) -> "ok"
               [] OTHER -> B[s]]

anchor_floor_at_open(floor, c, mint) ==
    IF floor # NoFloor \/ ~mint THEN floor
    ELSE IF Len(c) % SegLen = 0 THEN Len(c) ELSE FirstOf(seg_of(Len(c)) + 1)

Open(H, B, mint) ==
    LET m == [meta EXCEPT !.floor = anchor_floor_at_open(@, chain, mint)]
        hd == scan_headers(chain, H)
        B2 == Healed(m, chain, H, B)
        bd == scan_bodies(chain, B2, m.prune)
        pass == verify_sealed(m, chain, H, B2, hd, bd)
    IN  /\ hseg' = H /\ bseg' = B2
        /\ meta' = [m EXCEPT !.floor = pass.floor]
        /\ mem' = [header |-> hd, body |-> bd \cup pass.damage, vouch |-> pass.vouch, mint |-> mint,
                   through |-> sealed_through(Len(chain)), unlink |-> {}]
        /\ past' = [past EXCEPT
              !.opens = @ + 1, !.exposed = IF chain = <<>> THEN {} ELSE 0..(seg_of(Len(chain) - 1) - 1),
              !.faults = IF H # hseg \/ B # bseg THEN @ + 1 ELSE @]
        /\ sweep' = [cursor |-> 0, targets |-> {}, wrapped |-> FALSE, left |-> {},
                     due |-> BreaksIn(chain, H, hd, m.prune)]
        /\ UNCHANGED chain

\* what the open walks anew lowers a watermark when it is cut; BlockStore has that
Walked(H, B) ==
    /\ \A s \in Seg : LastOf(s) >= Len(chain) - Window - 1 => H[s] = "ok"
    /\ \A s \in Seg \ past.exposed : B[s] \in {"ok", "alien", "mixed", "long", "flip", "unlinked"}

Reopen ==
    /\ past.opens < OpensMax
    /\ \E f \in Struck, mint \in (IF Downgrades THEN BOOLEAN ELSE {TRUE}) :
          /\ f # <<hseg, bseg>> => past.faults < FaultsMax
          /\ Walked(f[1], f[2])
          /\ Open(f[1], f[2], mint)

CareInit ==
    /\ chain = <<0>>
    /\ hseg = [s \in Seg |-> "ok"] /\ bseg = [s \in Seg |-> "ok"]
    /\ \E mint \in (IF Downgrades THEN BOOLEAN ELSE {TRUE}) :
          /\ meta = [anchor |-> <<>>, floor |-> IF mint THEN 0 ELSE NoFloor, prune |-> 0, undo |-> 0]
          /\ mem = [header |-> {}, body |-> {}, vouch |-> {}, mint |-> mint, through |-> -1, unlink |-> {}]
    /\ sweep = [cursor |-> 0, targets |-> {}, wrapped |-> FALSE, left |-> {}, due |-> {}]
    /\ past = [covered |-> {}, unminted |-> {}, exposed |-> {}, reorgs |-> 0, opens |-> 0, faults |-> 0]

CareNext ==
    \/ ExtendStore \/ SweepStep \/ Reopen
    \/ \E fork \in 0..(BlocksMax - 1), w \in 1..BlocksMax : ReorgStore(fork, w)
    \/ \E s \in Seg : Unlink(s) \/ Rot(s)
    \/ \E d \in mem.header : Repair(d)

-----------------------------------------------------------------------------
Verified(s) == body_availability(FirstOf(s)) = "verified" /\ body_availability(LastOf(s)) = "verified"

\* "Verified" is said only of bytes this node wrote for the chain it is on.
VouchSound ==
    \A s \in Seg : Verified(s) => s \in past.covered \/ bseg[s] \in {"ok", "flip", "long"}

\* A segment nothing has struck is never called damaged.
IntactServed ==
    \A s \in Seg \ (past.covered \cup past.unminted) :
        bseg[s] = "ok" /\ hseg[s] = "ok" => ~Hurts(mem.body, s)

\* There is a row only for sealed segments that are kept, and it commits to
\* the blocks that are in them now; what pruning let go is gone or going, and
\* nothing else is.
AnchorsSound ==
    /\ \A s \in DOMAIN meta.anchor :
          /\ s \in seg_of(meta.prune)..sealed_through(Len(chain))
          /\ meta.anchor[s].geom[1] = Prefix(chain, s)
    /\ \A s \in 0..(seg_of(meta.prune) - 1) : bseg[s] = "unlinked" \/ s \in mem.unlink
    /\ \A s \in seg_of(meta.prune)..seg_of(BlocksMax) : bseg[s] # "unlinked"

\* Through extensions, reorgs, pruning, faults and the judgement of every open
\* (anchor.rs verify_sealed, reader.rs body_vouch): the anchors fit the chain
\* and the answers about bodies are neither too good nor too bad.
CareSound == VouchSound /\ IntactServed /\ AnchorsSound

\* Damage once told is not forgotten while the bytes are still wrong
\* (anchor.rs: "Mint once, then immutable", "a bug to surface, not a repair").
NotLaundered ==
    \A s \in Seg : Verified(s) => bseg[s] \notin {"alien", "mixed", "holed"}

\* When the header sweep (sweep.rs, HeaderSweeper::step) wraps, it has looked
\* at every break that was there when it wrapped before, wherever reorgs and
\* pruning moved its cursor in between.
SweepCovers == [][sweep'.wrapped /\ sweep' # sweep => \A s \in sweep'.left : s < seg_of(meta.prune)]_careVars
=============================================================================
