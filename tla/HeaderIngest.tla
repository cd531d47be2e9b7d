---------------------------- MODULE HeaderIngest ----------------------------
(***************************************************************************)
(* How headers enter the arena (lib/chain header.rs, gates.rs, index.rs,   *)
(* and ingest_headers of manager.rs): the gates that need no proof of      *)
(* work, the staging of each source, the promotion that pays for proof of  *)
(* work, and the cache of headers refused for good.                        *)
(*                                                                         *)
(* Batches come from several sources in any order and the canonical chain  *)
(* moves between them, while headers wait in a staging area.  The verifier *)
(* budget is that of module SourceBudgets: here it may run out anywhere.   *)
(***************************************************************************)
EXTENDS Integers, Sequences, FiniteSets, SequencesExt, FiniteSetsExt

CONSTANTS
    Hdr, head,                 \* head[h]: [prev, height, work, key, time, pow, bits, sound]
    PathTo,                    \* PathTo[h]: h and the headers before it
    Origin,                    \* sources of headers
    StartTip,                  \* the canonical tip at the start
    AnchorSpacing,             \* asert_anchor_interval
    IngestReorgMax,            \* max_reorg_depth, 0 for no limit
    SignedAnchor,              \* the signed anchor, or NoSigned
    NoSigned,
    PinnedHeaders,             \* enforced checkpoints
    StagedCap, SideCap,        \* max_staged_headers, max_side_headers
    NegativeCap,               \* negative_cache_entries
    ChildFailures,             \* child_pow_failures_per_source
    BatchDups,                 \* max_duplicates_per_batch
    Batches,                   \* the messages a source may send
    WallMax                    \* bound: clock

ASSUME IngestConstants ==
    /\ IsFiniteSet(Hdr) /\ IsFiniteSet(Origin) /\ DOMAIN head = Hdr
    /\ \A h \in Hdr : PathTo[h] = {h} \cup (IF head[h].prev = h THEN {} ELSE PathTo[head[h].prev])
    /\ StartTip \in Hdr /\ Batches \subseteq Seq(Hdr) /\ PinnedHeaders \subseteq Hdr /\ SignedAnchor \in Hdr \cup {NoSigned}
    /\ {AnchorSpacing, StagedCap, SideCap, NegativeCap} \subseteq Nat \ {0}
    /\ {IngestReorgMax, ChildFailures, BatchDups, WallMax} \subseteq Nat

VARIABLES
    arena,     \* [nodes: headers stored, tip: canonical tip, side: keys of side_raws]
    staged,    \* staged[s]: sequence of [h, base]
    negative,  \* ring of the headers refused for good
    failures,  \* failures[s]: pow_failures, for the tip_epoch they were counted in
    wall       \* now_unix

ingestVars == <<arena, staged, negative, failures, wall>>

Prev(h) == head[h].prev
Height(h) == head[h].height
Path(h) == PathTo[h]

\* an enforced checkpoint of its height is the header itself
s1b_checkpoint(h) == \A c \in PinnedHeaders : Height(c) = Height(h) => c = h

\* what the rules of consensus and the enforced checkpoints say of a header,
\* whoever looks at it
TrueAnchor(h) ==
    CHOOSE a \in Path(Prev(h)) : Height(a) = (Height(Prev(h)) \div AnchorSpacing) * AnchorSpacing
ValidLink(a) == head[a].sound /\ s1b_checkpoint(a) /\ head[a].pow /\ head[a].bits = TrueAnchor(a)
ValidHeaders == {h \in Hdr : \A a \in Path(h) : Prev(a) = a \/ ValidLink(a)}

\* headers hang on one root, and the chain at the start is valid
ASSUME HeaderTree ==
    /\ \E root \in Hdr : \A h \in Hdr :
          IF h = root THEN Prev(h) = h /\ Height(h) = 0
          ELSE Prev(h) \in Hdr /\ Height(h) = Height(Prev(h)) + 1
    /\ \A h \in Hdr : Height(h) \in Nat /\ head[h].sound \in BOOLEAN /\ head[h].pow \in BOOLEAN
    /\ StartTip \in ValidHeaders

(***************************************************************************)
(* HeaderIndex: set_canonical recomputes the fork base of every node, so a *)
(* base is a function of the tip.                                          *)
(***************************************************************************)
Canonical(a) == Path(a.tip)
canonical_at(a, n) == {h \in Canonical(a) : Height(h) = n}
branch_base_height(a, h) ==
    IF Prev(h) = h THEN Height(h) ELSE Max({Height(x) : x \in Path(Prev(h)) \cap Canonical(a)})

(***************************************************************************)
(* stage_one, for the staging st of one source.  A parent is in the arena, *)
(* or staged with the base it had when it was staged.                      *)
(***************************************************************************)
StagedIn(st) == {st[i].h : i \in DOMAIN st}
BaseOf(a, st, h) ==
    IF h \in a.nodes THEN branch_base_height(a, h) ELSE st[CHOOSE i \in DOMAIN st : st[i].h = h].base
child_branch_base(a, st, p) == IF p \in Canonical(a) THEN Height(p) ELSE BaseOf(a, st, p)

\* at most one header; none if a link is neither stored nor staged
ancestor_of(a, st, p, n) ==
    IF n > Height(p) THEN {}
    ELSE IF BaseOf(a, st, p) >= n THEN canonical_at(a, n)
    ELSE {x \in Path(p) : Height(x) = n /\ {y \in Path(p) : Height(y) >= n} \subseteq a.nodes \cup StagedIn(st)}

AnchorReach(a, st, p) ==
    LET at == ancestor_of(a, st, p, Height(SignedAnchor)) IN
    IF Height(p) < Height(SignedAnchor) \/ at = {} THEN "notReached"
    ELSE IF at = {SignedAnchor} THEN "matches" ELSE "contradicts"

s3_bits(a, st, h) ==
    LET n == (Height(Prev(h)) \div AnchorSpacing) * AnchorSpacing
        at == ancestor_of(a, st, Prev(h), n)
    IN  IF at = {} \/ (n > 0 /\ ancestor_of(a, st, Prev(h), n - 1) = {}) THEN "noAnchor"
        ELSE IF at = {head[h].bits} THEN "ok" ELSE "bits"
s5_fork_depth(a, st, p) ==
    \/ IngestReorgMax = 0
    \/ Height(a.tip) - child_branch_base(a, st, p) <= IngestReorgMax
    \/ SignedAnchor # NoSigned /\ AnchorReach(a, st, p) # "contradicts"
s6_claimed_work(a, e) ==
    \/ head[e.h].work > head[a.tip].work
    \/ /\ head[e.h].work = head[a.tip].work /\ Height(a.tip) - e.base = 1
       /\ Height(e.h) = Height(a.tip) /\ head[e.h].key < head[a.tip].key

\* mutant: the clock's verdict is kept as well
PermanentAndClock == {"malformed", "checkpoint", "bits", "pow", "tooFarInFuture"}
Permanent == {"malformed", "checkpoint", "bits", "pow"}
Verdict(a, st, h) ==
    IF ~head[h].sound THEN "malformed"
    ELSE IF ~s1b_checkpoint(h) THEN "checkpoint"
    ELSE IF Prev(h) \notin a.nodes \cup StagedIn(st) THEN "unknownParent"
    ELSE IF s3_bits(a, st, h) # "ok" THEN s3_bits(a, st, h)
    ELSE IF head[h].time > wall THEN "tooFarInFuture"
    ELSE IF ~s5_fork_depth(a, st, Prev(h)) THEN "forkTooDeep"
    ELSE IF Len(st) >= StagedCap THEN "stagingFull"
    ELSE "ok"

\* NegativeCache
Cached(neg, h, why) ==
    IF why \notin Permanent \/ h \in Range(neg) THEN neg
    ELSE Append(IF Len(neg) >= NegativeCap THEN Tail(neg) ELSE neg, h)

(***************************************************************************)
(* A batch: r carries what the call has changed so far.                    *)
(***************************************************************************)
stage_one(r, h) ==
    LET why == Verdict(r.arena, r.st, h) IN
    IF why = "ok"
    THEN [r EXCEPT !.st = Append(@, [h |-> h, base |-> child_branch_base(r.arena, r.st, Prev(h))])]
    ELSE [r EXCEPT !.neg = Cached(@, h, why)]

\* the heaviest staged header, the lower hash on a tie
Terminal(st) ==
    st[CHOOSE i \in DOMAIN st : \A j \in DOMAIN st \ {i} :
        LET x == head[st[i].h] y == head[st[j].h] IN x.work > y.work \/ (x.work = y.work /\ x.key < y.key)]

Inserted(a, h) == [a EXCEPT !.nodes = a.nodes \cup {h}, !.side = a.side \cup {h}]

\* one staged header: verified and inserted while the side area has room and
\* the budget pays
WalkOne(w, e, room) ==
    IF w.over \/ w.connected >= room \/ w.r.credit = 0 THEN [w EXCEPT !.over = TRUE]
    ELSE IF ~head[e.h].pow
    THEN [w EXCEPT !.over = TRUE, !.failed = TRUE,
                   !.r = [w.r EXCEPT !.neg = Cached(w.r.neg, e.h, "pow"), !.fails = w.r.fails + 1]]
    ELSE IF Prev(e.h) \notin w.r.arena.nodes
    THEN [w EXCEPT !.used = w.used + 1, !.r = [w.r EXCEPT !.credit = w.r.credit - 1]]
    ELSE [w EXCEPT !.used = w.used + 1, !.connected = w.connected + 1,
                   !.r = [w.r EXCEPT !.credit = w.r.credit - 1, !.arena = Inserted(w.r.arena, e.h)]]

\* the staged headers in order, until one is not, or fails
Walk(r, room) ==
    LET w[i \in 0..Len(r.st)] ==
            IF i = 0 THEN [r |-> r, used |-> 0, connected |-> 0, over |-> FALSE, failed |-> FALSE]
            ELSE WalkOne(w[i - 1], r.st[i], room)
    IN  w[Len(r.st)]

promote(r, unsolicited, room) ==
    LET w == Walk(r, room) IN
    IF r.st = <<>> THEN r
    ELSE IF ~s6_claimed_work(r.arena, Terminal(r.st)) THEN r   \* held for more
    ELSE IF unsolicited /\ r.fails >= ChildFailures THEN r
    ELSE [w.r EXCEPT !.st = IF w.failed THEN <<>> ELSE SubSeq(@, w.used + 1, Len(@))]

Known(r, h) == h \in StagedIn(r.st) \cup r.arena.nodes \cup Range(r.neg)
one_header(r, h, unsolicited, room) ==
    IF r.stop THEN r
    ELSE IF Known(r, h)
    THEN [r EXCEPT !.dups = @ + 1, !.stop = r.dups + 1 > BatchDups]
    ELSE stage_one(IF Len(r.st) >= StagedCap THEN promote(r, unsolicited, room) ELSE r, h)

\* submit_headers; the tip is read once, and so is the room of the side area
ReadBatch(r, batch, unsolicited, room) ==
    LET after[i \in 0..Len(batch)] ==
            IF i = 0 THEN r ELSE one_header(after[i - 1], batch[i], unsolicited, room)
    IN  promote(after[Len(batch)], unsolicited, room)

submit_headers(s, batch, unsolicited, credit) ==
    \E r \in {ReadBatch([arena |-> arena, st |-> staged[s], neg |-> negative, fails |-> failures[s], credit |-> credit, dups |-> 0, stop |-> FALSE],
                       batch, unsolicited, SideCap - Cardinality(arena.side))} :
        /\ arena' = r.arena /\ negative' = r.neg
        /\ staged' = [staged EXCEPT ![s] = r.st]
        /\ failures' = [failures EXCEPT ![s] = r.fails]
        /\ UNCHANGED wall

IngestInit ==
    /\ arena = [nodes |-> Path(StartTip), tip |-> StartTip, side |-> {}]
    /\ staged = [s \in Origin |-> <<>>] /\ negative = <<>>
    /\ failures = [s \in Origin |-> 0] /\ wall = 0

\* Solicitation: the initial download is charged nothing, a steady batch the
\* budget, which pays for some of the verifications, an unsolicited one the
\* quota of children as well
Batch(s) ==
    \E batch \in Batches :
        \/ submit_headers(s, batch, FALSE, 2 * StagedCap)
        \/ \E credit \in 0..(StagedCap - 1) : \E unsolicited \in BOOLEAN :
              submit_headers(s, batch, unsolicited, credit)

\* the manager adopted a branch of the arena (set_canonical); the failures of
\* an epoch are forgotten with it (roll_quota_epoch), as they are in time
SetCanonical(h) ==
    LET fork == Max({Height(x) : x \in Path(h) \cap Canonical(arena)}) IN
    /\ h \in arena.nodes
    /\ head[h].work > head[arena.tip].work \/ s6_claimed_work(arena, [h |-> h, base |-> fork])
    /\ IngestReorgMax = 0 \/ Height(arena.tip) - fork <= IngestReorgMax
    /\ arena' = [arena EXCEPT !.tip = h, !.side = @ \ Path(h)]
    /\ failures' = [s \in Origin |-> 0]
    /\ UNCHANGED <<staged, negative, wall>>

\* the source left, or made room in the table for another (forget, touch)
forget_source(s) ==
    /\ staged' = [staged EXCEPT ![s] = <<>>] /\ failures' = [failures EXCEPT ![s] = 0]
    /\ UNCHANGED <<arena, negative, wall>>

WallTick == wall < WallMax /\ wall' = wall + 1 /\ UNCHANGED <<arena, staged, negative, failures>>

IngestNext ==
    \/ \E s \in Origin : Batch(s) \/ forget_source(s)
    \/ \E h \in Hdr : SetCanonical(h)
    \/ WallTick
-----------------------------------------------------------------------------
\* A header is refused for good only if no chain can ever take it: what a
\* later clock, tip or parent may change is not cached (header.rs, Reject).
ValidNotCached == \A h \in Range(negative) : h \notin ValidHeaders

\* What a staged header remembers of the chain is true of the difficulty
\* anchors: below the fork point it was staged with, the anchors of the chain
\* are its own.  A reorg below that point breaks it (set_canonical does not
\* look at what is staged).
AnchorsAgree ==
    \A s \in Origin : \A i \in DOMAIN staged[s] :
        \A x \in Canonical(arena) :
            Height(x) <= staged[s][i].base /\ Height(x) % AnchorSpacing = 0
                => x \in Path(staged[s][i].h)

\* Headers are verified source by source, in the order they were staged, in
\* part, and after the tip has moved; still the arena (index.rs) holds valid
\* headers with their ancestors, what waits hangs on the arena or on an
\* earlier header of the same source, the counts stay within their caps, and
\* no header is refused for good that a later moment would take.
IngestSound ==
    /\ ValidNotCached
    /\ \A h \in arena.nodes : h \in ValidHeaders /\ Path(h) \subseteq arena.nodes
    /\ \A s \in Origin :
          /\ Len(staged[s]) <= StagedCap
          /\ \A i \in DOMAIN staged[s] :
                Prev(staged[s][i].h) \in arena.nodes \cup {staged[s][j].h : j \in 1..(i - 1)}
=============================================================================
