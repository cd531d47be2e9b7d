----------------------------- MODULE BodySync ------------------------------
(***************************************************************************)
(* The body half of the sync engine (lib/p2p/src/sync): BodyTrack fetches  *)
(* the bodies above the watermark `applied` and hands them to the          *)
(* validator in height order; the fork list fetches the ones below it that *)
(* the chain still misses.  The engine runs on one thread, so an event and *)
(* a tick never overlap; the validator runs on another and may take a step *)
(* between any two stages of a tick.                                       *)
(*                                                                         *)
(* Left out: byte counts (a body is one unit of every budget), the reports *)
(* and the dialling that follow starvation, and peer scores, whose effect  *)
(* here, the loss of a peer, is PeerGone.  A clock is an action that may   *)
(* fire whenever the clock runs.                                           *)
(***************************************************************************)
EXTENDS BlockTree, SequencesExt

CONSTANTS
    Peer, NoPeer,
    Claim,          \* Session::claimed_height
    PeerOrder,      \* peers by claim and id, highest first
    Serves,         \* Serves[p]: the bodies p has
    Stored,         \* tips a node may start from
    Heads,          \* branches the header track verifies
    Reliable,       \* peers that stay connected and answer in time
    Window,         \* BODY_WINDOW_HASHES
    PerPeer,        \* per_peer_inflight
    ReadyAhead,     \* READY_AHEAD_BLOCKS
    WantedMax,      \* WANTED_MAX
    CatchUpMax,     \* CHAIN_CATCHUP_MAX
    Attempts,       \* BODY_ATTEMPTS
    HolParallel,    \* HOL_PARALLEL
    ForkMax,        \* FORK_BODY_MAX
    ForkInflight,   \* FORK_BODY_INFLIGHT
    ForkAttempts,   \* FORK_BODY_ATTEMPTS
    MissLimit,      \* misses that cost a peer its body slot (3 in the code)
    MaxSuppliers,   \* BODY_SUPPLIERS
    SinkCap,        \* room in the validator's channel
    MaxUpsets       \* bound: peers lost, gained or designated, and stray answers

ASSUME BodySyncConstants ==
    /\ NoPeer \notin Peer
    /\ Reliable \subseteq Peer /\ Stored \subseteq Block /\ Heads \subseteq Block
    /\ Serves \in [Peer -> SUBSET Block]
    /\ Claim \in [Peer -> Nat]
    /\ \A p \in Peer : \A b \in Serves[p] : height[b] <= Claim[p]
    /\ PeerOrder \in Seq(Peer) /\ Range(PeerOrder) = Peer
    /\ \A i \in 1..Len(PeerOrder) : \A j \in 1..i : Claim[PeerOrder[j]] >= Claim[PeerOrder[i]]
    /\ {Window, PerPeer, ReadyAhead, WantedMax, CatchUpMax, Attempts, HolParallel, ForkMax,
        ForkInflight, ForkAttempts, MissLimit, MaxSuppliers, SinkCap} \subseteq Nat \ {0}
    /\ MaxUpsets \in Nat

VARIABLES
    known,          \* chain: headers it has indexed
    tip,            \* chain: adopted head; its branch is what the store holds
    bodies,         \* chain: bodies held in memory
    queue,          \* validator channel: submitted bodies
    seen,           \* header track: verified tip
    syncPeer,       \* header track: sync peer, or NoPeer
    applied,        \* BodyTrack::applied, the watermark
    wanted,         \* Engine::wanted: height -> block
    inflight,       \* BodyTrack::inflight: block -> request
    ready,          \* BodyTrack::ready: height -> block
    hol,            \* hol_since: "no", "since", or "due" once HOL_TIMEOUT_MS have passed
    fork,           \* Engine::fork_wanted: block -> ForkWant
    pc,             \* stage of tick_bodies
    designated,     \* peer the current tick designated, or NoPeer
    connected,      \* peers with a session
    misses,         \* Session::body_misses
    slot,           \* body_slot_lost_until: "held", "lost", "back soon" from the next tick on
    upsets

chain == <<known, tip, bodies, queue>>
session == <<misses, slot>>
links == <<connected, upsets>>
vars == <<chain, seen, syncPeer, applied, wanted, inflight, ready, hol, fork, pc, designated,
          links, session>>

Request == [peer : Peer, tried : SUBSET Peer, attempts : 0..Attempts,
            due : {"no", "late", "refused"}, parallel : SUBSET Peer]
ForkWant == [asked : Peer \cup {NoPeer}, late : BOOLEAN, attempts : 0..ForkAttempts,
             back : {"no", "since", "due"}]

Heights == {height[b] : b \in Block}

\* Every variable has its type.
TypeOK ==
    /\ known \subseteq Block /\ tip \in known /\ bodies \subseteq known
    /\ queue \in Seq(Block) /\ Len(queue) <= SinkCap
    /\ seen \in Block /\ syncPeer \in connected \cup {NoPeer}
    /\ applied \in Nat
    /\ DOMAIN wanted \subseteq Heights /\ \A h \in DOMAIN wanted : wanted[h] \in Block /\ height[wanted[h]] = h
    /\ DOMAIN inflight \subseteq Block /\ \A b \in DOMAIN inflight : inflight[b] \in Request
    /\ DOMAIN ready \subseteq Heights /\ \A h \in DOMAIN ready : ready[h] \in Block /\ height[ready[h]] = h
    /\ hol \in {"no", "since", "due"}
    /\ DOMAIN fork \subseteq Block /\ \A b \in DOMAIN fork : fork[b] \in ForkWant
    /\ pc \in {"idle", "fork"}
    /\ designated \in connected \cup {NoPeer}
    /\ connected \subseteq Peer
    /\ misses \in [Peer -> 0..MissLimit - 1]
    /\ slot \in [Peer -> {"held", "lost", "back soon"}]
    /\ upsets \in 0..MaxUpsets

-----------------------------------------------------------------------------
(* The chain side: what the engine sees of it, and the validator's steps.  *)

\* ChainView::have_body: the store keeps the bodies of the adopted branch.
HaveBody(b) == b \in Anc[tip]

\* ChainView::wanted_bodies: what advance found missing on better branches.
WantedBodies == (UNION {Anc[b] \ Anc[tip] : b \in {c \in known : Better(c, tip)}}) \ bodies

\* advance: the best branch whose bodies are all held.
BestHeld(held) ==
    LET fit == {b \in known : Anc[b] \subseteq Anc[tip] \cup held} IN
    CHOOSE b \in fit : \A c \in fit \ {b} : Better(b, c)

\* Cmd::Block: a body whose header the chain does not know is refused.
ProcessBlock ==
    LET b == Head(queue)
        held == IF b \in known /\ ~HaveBody(b) THEN bodies \cup {b} ELSE bodies
    IN
    /\ queue # <<>>
    /\ queue' = Tail(queue)
    /\ tip' = BestHeld(held)
    /\ bodies' = held \ Anc[tip']
    /\ UNCHANGED <<known, seen, syncPeer, applied, wanted, inflight, ready, hol, fork, pc,
                   designated, links, session>>

\* Cmd::Headers: the batches the header track submitted reach the chain.
ConnectHeaders ==
    /\ ~ Anc[seen] \subseteq known
    /\ known' = known \cup Anc[seen]
    /\ UNCHANGED <<tip, bodies, queue, seen, syncPeer, applied, wanted, inflight, ready, hol,
                   fork, pc, designated, links, session>>

\* The header track verifies a better branch.
VerifyHeaders(b) ==
    /\ pc = "idle"
    /\ b \in Heads /\ Better(b, seen)
    /\ seen' = b
    /\ UNCHANGED <<chain, syncPeer, applied, wanted, inflight, ready, hol, fork, pc, designated,
                   links, session>>

-----------------------------------------------------------------------------
(* Suppliers and sessions.                                                 *)

BodyEligible == {p \in connected : slot[p] = "held"}

\* The elements of s that are in T, in their order.
Those(s, T) ==
    LET kept[i \in 0..Len(s)] ==
            IF i = 0 THEN <<>>
            ELSE IF s[i] \in T THEN Append(kept[i - 1], s[i]) ELSE kept[i - 1]
    IN  kept[Len(s)]

\* f, and g where f has no entry (an entry is inserted where none is held).
Filled(f, g) == [x \in DOMAIN f \cup DOMAIN g |-> IF x \in DOMAIN f THEN f[x] ELSE g[x]]

\* body_suppliers: the eligible peers but for the excluded one, then all the
\* eligible ones, then everyone.
BodySuppliers(excluded) ==
    LET others == BodyEligible \ excluded
        tier == IF others # {} THEN others
                ELSE IF BodyEligible # {} THEN BodyEligible ELSE connected
        ranked == Those(PeerOrder, tier)
    IN  SubSeq(ranked, 1, Min({Len(ranked), MaxSuppliers}))

\* A slot lost before this tick may be back before the next one.
SlotAged == [p \in Peer |-> IF slot[p] = "lost" THEN "back soon" ELSE slot[p]]

\* k[p] more misses of p: the slot goes with every MissLimit-th.
ChargeMisses(k, was) ==
    /\ misses' = [p \in Peer |-> (misses[p] + k[p]) % MissLimit]
    /\ slot' = [p \in Peer |-> IF misses[p] + k[p] >= MissLimit THEN "lost"
                              ELSE was[p]]

\* Session::record_body.
RecordBody(p) == misses' = [misses EXCEPT ![p] = 0]

\* release_peer: the requests p holds are forgotten.
Released(reqs, p) == Restrict(reqs, {b \in DOMAIN reqs : reqs[b].peer # p})

\* mutant: its requests stay in the window
PeerGoneUnreleased(p) ==
    /\ pc = "idle" /\ upsets < MaxUpsets
    /\ p \in connected \ Reliable
    /\ connected' = connected \ {p}
    /\ syncPeer' = IF syncPeer = p THEN NoPeer ELSE syncPeer
    /\ upsets' = upsets + 1
    /\ UNCHANGED <<chain, seen, applied, wanted, inflight, ready, hol, fork, pc, designated, session>>

\* Event::PeerReady: a fresh session.
PeerReady(p) ==
    /\ pc = "idle"
    /\ p \notin connected
    /\ connected' = connected \cup {p}
    /\ misses' = [misses EXCEPT ![p] = 0]
    /\ slot' = [slot EXCEPT ![p] = "held"]
    /\ UNCHANGED <<chain, seen, syncPeer, applied, wanted, inflight, ready, hol, fork, pc,
                   designated, upsets>>

\* Event::PeerGone, a ban, or a session on_tick finds dead.
PeerGone(p) ==
    /\ pc = "idle" /\ upsets < MaxUpsets
    /\ p \in connected \ Reliable
    /\ connected' = connected \ {p}
    /\ syncPeer' = IF syncPeer = p THEN NoPeer ELSE syncPeer
    /\ inflight' = Released(inflight, p)
    /\ upsets' = upsets + 1
    /\ UNCHANGED <<chain, seen, applied, wanted, ready, hol, fork, pc, designated, session>>

-----------------------------------------------------------------------------
(* Answers.                                                                *)

\* on_fork_body: handed to the validator at once, or dropped when its
\* channel is full.
OnForkBody(b) ==
    IF Len(queue) < SinkCap
    THEN /\ queue' = Append(queue, b)
         /\ fork' = Restrict(fork, DOMAIN fork \ {b})
    ELSE /\ fork' = [fork EXCEPT ![b].asked = NoPeer, ![b].late = FALSE]
         /\ UNCHANGED queue

\* BodyTrack::on_body: kept when it is in reach of the watermark and no body
\* is held at its height.
OnBody(b) ==
    /\ inflight' = Restrict(inflight, DOMAIN inflight \ {b})
    /\ ready' = IF height[b] > applied /\ height[b] <= applied + ReadyAhead
                THEN Filled(ready, [h \in {height[b]} |-> b]) ELSE ready
    /\ wanted' = Restrict(wanted, {h \in DOMAIN wanted : wanted[h] # b})

\* The peers that may still answer a request: every peer it was sent to.
Outstanding(p, b) ==
    \/ b \in DOMAIN inflight /\ p \in inflight[b].tried \cup inflight[b].parallel
    \/ b \in DOMAIN fork /\ fork[b].asked = p

\* Anything else a peer sends is an answer nobody waits for any more.
Answers(p, b) ==
    /\ p \in connected
    /\ b \in Anc[seen]
    /\ \/ Outstanding(p, b) /\ UNCHANGED upsets
       \/ ~Outstanding(p, b) /\ upsets < MaxUpsets /\ upsets' = upsets + 1

\* Event::Body.
Body(p, b) ==
    /\ pc = "idle"
    /\ b \in Serves[p] /\ Answers(p, b)
    /\ RecordBody(p)
    /\ \/ b \in DOMAIN fork /\ OnForkBody(b) /\ UNCHANGED <<inflight, ready, wanted>>
       \/ b \notin DOMAIN fork /\ OnBody(b) /\ UNCHANGED <<queue, fork>>
    /\ UNCHANGED <<known, tip, bodies, seen, syncPeer, applied, hol, pc, designated,
                   connected, slot>>

\* Event::NotFound: the fork list takes it from anyone, the window only from
\* the peer the request is with, whose deadline it brings forward.
NotFound(p, b) ==
    LET mine == b \in DOMAIN inflight /\ inflight[b].peer = p IN
    /\ pc = "idle"
    /\ b \notin Serves[p] /\ Answers(p, b)
    /\ mine => inflight[b].due # "refused"
    /\ fork' = IF b \in DOMAIN fork
               THEN [fork EXCEPT ![b].asked = NoPeer, ![b].late = FALSE,
                                 ![b].attempts = Min({@ + 1, ForkAttempts})]
               ELSE fork
    /\ inflight' = IF mine THEN [inflight EXCEPT ![b].due = "refused"] ELSE inflight
    /\ ChargeMisses([q \in Peer |-> IF q = p /\ mine THEN 1 ELSE 0], slot)
    /\ UNCHANGED <<chain, seen, syncPeer, applied, wanted, ready, hol, pc, designated,
                   connected>>

-----------------------------------------------------------------------------
(* tick_bodies, stage by stage.                                            *)

\* catch_up_to_the_chain: the watermark follows blocks adopted without us.
CaughtUp ==
    IF height[tip] > applied THEN Min({height[tip], applied + CatchUpMax}) ELSE applied

\* drain_applicable: how many bodies above the watermark the sink takes.
Drained(from) ==
    Max({k \in 0..SinkCap - Len(queue) : \A i \in 1..k : from + i \in DOMAIN ready})

\* The head-of-line clock runs while bodies wait for a missing one.
HolAfter(was, held, head) ==
    IF held # {} /\ head \notin held THEN (IF was = "no" THEN "since" ELSE was)
    ELSE IF head \in held THEN "no" ELSE was

\* refill_wanted: the missing blocks of the verified branch above mark.
Refilled(w, mark) ==
    LET missing == {b \in Anc[seen] \ Anc[tip] :
                      height[b] > mark /\ height[b] <= mark + WantedMax}
    IN  IF Cardinality(DOMAIN w) >= Window THEN w
        ELSE Filled(w, [h \in {height[b] : b \in missing} |-> CHOOSE b \in missing : height[b] = h])

\* catch_up, drain_bodies and refill_wanted.
Drain ==
    LET from == CaughtUp
        k == Drained(from)
        mark == from + k
        held == {h \in DOMAIN ready : h > mark}
    IN
    /\ queue' = queue \o [i \in 1..k |-> ready[from + i]]
    /\ applied' = mark
    /\ ready' = Restrict(ready, held)
    /\ hol' = HolAfter(IF k > 0 THEN "no" ELSE hol, held, mark + 1)
    /\ wanted' = Refilled(Restrict(wanted, {h \in DOMAIN wanted : h > mark}), mark)

NewRequest(p) == [peer |-> p, tried |-> {p}, attempts |-> 0, due |-> "no", parallel |-> {}]

\* One turn of schedule's loop: the wanted block at height h goes to the
\* next supplier in the round that has room, in the first round only to one
\* whose claim reaches h.  The first height that finds no room ends the loop.
Place(acc, h, sup) ==
    LET turn(i) == sup[((acc.cursor + i - 1) % Len(sup)) + 1]
        load(p) == Cardinality({b \in DOMAIN acc.reqs : acc.reqs[b].peer = p})
        fits == {i \in 1..2 * Len(sup) : /\ load(turn(i)) < PerPeer
                                         /\ i <= Len(sup) => Claim[turn(i)] >= h}
    IN  IF ~acc.open \/ Cardinality(DOMAIN acc.reqs) >= Window THEN [acc EXCEPT !.open = FALSE]
        ELSE IF wanted'[h] \in DOMAIN acc.reqs \/ h \in DOMAIN ready' THEN acc
        ELSE IF fits = {} THEN [acc EXCEPT !.open = FALSE]
        ELSE [acc EXCEPT !.cursor = @ + Min(fits),
                         !.reqs = Filled(@, [b \in {wanted'[h]} |-> NewRequest(turn(Min(fits)))])]

\* schedule: the wanted heights in reach, lowest first, unless the ready
\* buffer is full.
Scheduled(sup) ==
    LET start == [reqs |-> inflight, cursor |-> 0, open |-> Cardinality(DOMAIN ready') < ReadyAhead]
        after[i \in 0..ReadyAhead] ==
            IF i = 0 THEN start
            ELSE IF applied' + i \in DOMAIN wanted' THEN Place(after[i - 1], applied' + i, sup)
            ELSE after[i - 1]
    IN  after[ReadyAhead].reqs

\* The suppliers whose claim reaches h, or all of them if there is none.
Reaching(sup, h) ==
    LET some == Those(sup, {p \in Peer : Claim[p] >= h}) IN IF some = <<>> THEN sup ELSE some

\* The first supplier request r for b has not tried; its own peer when none is left.
NextPeer(b, r, sup) ==
    LET untried == Those(sup, Peer \ r.tried) IN
    IF untried = <<>> THEN r.peer ELSE Reaching(untried, height[b])[1]

Exhausted(r, sup) == Range(sup) \subseteq r.tried /\ r.attempts + 1 >= Attempts

Retried(b, r, sup) ==
    [r EXCEPT !.peer = NextPeer(b, r, sup), !.tried = @ \cup {NextPeer(b, r, sup)},
              !.attempts = Min({@ + 1, Attempts}), !.due = "no"]

\* BodyTrack::tick: overdue requests move on or are given up, then a head
\* that has blocked the line for too long is asked of several peers at once.
Retry(reqs, sup) ==
    LET due == {b \in DOMAIN reqs : reqs[b].due # "no"}
        gone == {b \in due : Exhausted(reqs[b], sup)}
        kept == [b \in DOMAIN reqs \ gone |-> IF b \in due THEN Retried(b, reqs[b], sup) ELSE reqs[b]]
        heads == {b \in DOMAIN kept : hol' = "due" /\ height[b] = applied' + 1}
        reach == Reaching(sup, applied' + 1)
        several == Range(SubSeq(reach, 1, Min({HolParallel, Len(reach)})))
    IN
    /\ \E first \in IF heads = {} THEN {{}} ELSE {{b} : b \in heads} :
          inflight' = [b \in DOMAIN kept |->
                          IF b \in first /\ kept[b].parallel = {}
                          THEN [kept[b] EXCEPT !.parallel = several, !.due = "no"]
                          ELSE kept[b]]
    /\ ChargeMisses([p \in Peer |->
          Cardinality({b \in due : reqs[b].due = "late" /\ reqs[b].peer = p})], SlotAged)

\* The first part of a tick.  The header track may have designated or dropped
\* a sync peer in it.
TickWindow(sync) ==
    LET sup == BodySuppliers({sync}) IN
    /\ pc = "idle"
    /\ sync # syncPeer => upsets < MaxUpsets
    /\ syncPeer' = sync
    /\ designated' = IF sync # syncPeer THEN sync ELSE NoPeer
    /\ upsets' = IF sync # syncPeer THEN upsets + 1 ELSE upsets
    /\ Drain
    /\ Retry(Scheduled(sup), sup)
    /\ pc' = "fork"
    /\ UNCHANGED <<known, tip, bodies, seen, fork, connected>>

\* mutant: only the ancestors of the lowest wanted block are listed
ForkBranchWalkOnly(w) ==
    IF DOMAIN w = {} THEN {}
    ELSE LET start == w[Min(DOMAIN w)] IN Anc[start] \ (Anc[tip] \cup {start})

\* refill_fork_wanted: what the chain wants at or below the watermark, and
\* the unstored ancestors of the lowest wanted block.
ForkBranch(w) ==
    LET below == {b \in WantedBodies : height[b] <= applied}
        start == w[Min(DOMAIN w)]
        walk == IF DOMAIN w = {} THEN {}
                ELSE {b \in Anc[start] \ (Anc[tip] \cup {start}) : height[b] >= height[start] - ForkMax}
        all == below \cup walk
        before(b, c) == height[b] < height[c] \/ (height[b] = height[c] /\ hashKey[b] < hashKey[c])
    IN  {b \in all : Cardinality({c \in all : before(c, b)}) < ForkMax}

NewForkWant == [asked |-> NoPeer, late |-> FALSE, attempts |-> 0, back |-> "no"]

\* schedule_fork_bodies, first loop: an overdue request counts as an
\* attempt; an entry out of attempts rests, then starts again.
ForkAged(w) ==
    LET tries == IF w.late THEN Min({w.attempts + 1, ForkAttempts}) ELSE w.attempts
        who == IF w.late THEN NoPeer ELSE w.asked
        out == tries >= ForkAttempts
    IN  [asked |-> who, late |-> FALSE,
         attempts |-> IF out /\ w.back = "due" THEN 0 ELSE tries,
         back |-> IF ~out THEN w.back ELSE IF w.back = "no" THEN "since"
                  ELSE IF w.back = "due" THEN "no" ELSE w.back]

\* mutant: every attempt starts at the same supplier
ForkAskedSame(f, sup) ==
    LET busy == {b \in DOMAIN f : f[b].asked # NoPeer}
        todo == {b \in DOMAIN f \ busy : f[b].attempts < ForkAttempts}
        place(b) == Cardinality({c \in todo : height[c] < height[b]})
        slots == ForkInflight - Cardinality(busy)
    IN  [b \in DOMAIN f |-> IF b \in todo /\ place(b) < slots
                            THEN [f[b] EXCEPT !.asked = sup[(place(b) % Len(sup)) + 1]]
                            ELSE f[b]]

\* Its second loop: the lowest idle entries take the free slots, each from
\* the supplier its attempts and its place in the queue point at.
ForkAsked(f, sup) ==
    LET busy == {b \in DOMAIN f : f[b].asked # NoPeer}
        todo == {b \in DOMAIN f \ busy : f[b].attempts < ForkAttempts}
        before(b, c) == height[b] < height[c] \/ (height[b] = height[c] /\ hashKey[b] < hashKey[c])
        place(b) == Cardinality({c \in todo : before(c, b)})
        slots == ForkInflight - Cardinality(busy)
    IN  [b \in DOMAIN f |->
            IF b \in todo /\ place(b) < slots
            THEN [f[b] EXCEPT !.asked = sup[((f[b].attempts + place(b)) % Len(sup)) + 1]]
            ELSE f[b]]

\* The end of the tick: what the chain misses above the watermark is wanted
\* (the last one listed at a height stays), the rest is asked for from the
\* fork list, and apply releases the peer designated in this tick.
TickFork ==
    LET above == {b \in WantedBodies : height[b] > applied /\ height[b] <= applied + WantedMax}
        sup == BodySuppliers({})
    IN
    /\ pc = "fork"
    /\ \E pick \in [{height[b] : b \in above} -> above] :
         LET w == Filled(pick, wanted)
             branch == ForkBranch(w)
             listed == [b \in branch |-> IF b \in DOMAIN fork THEN fork[b] ELSE NewForkWant]
             aged == [b \in branch |-> ForkAged(listed[b])]
             asks == IF sup = <<>> THEN listed ELSE ForkAsked(aged, sup)
         IN
         /\ \A h \in DOMAIN pick : height[pick[h]] = h
         /\ wanted' = w
         /\ fork' = asks
    /\ inflight' = IF designated = NoPeer THEN inflight ELSE Released(inflight, designated)
    /\ designated' = NoPeer
    /\ pc' = "idle"
    /\ UNCHANGED <<chain, seen, syncPeer, applied, ready, hol, session, links>>

-----------------------------------------------------------------------------
(* Clocks.                                                                 *)

clocksOnly == <<chain, seen, syncPeer, applied, wanted, ready, pc, designated, links, misses>>

\* BODY_TIMEOUT_MS after a request.
BodyLate(b) ==
    /\ pc = "idle"
    /\ b \in DOMAIN inflight /\ inflight[b].due = "no" /\ inflight[b].peer \notin Reliable
    /\ inflight' = [inflight EXCEPT ![b].due = "late"]
    /\ UNCHANGED <<clocksOnly, hol, fork, slot>>

\* HOL_TIMEOUT_MS after a body first waited for a missing one.
HolLate ==
    /\ pc = "idle"
    /\ hol = "since"
    /\ hol' = "due"
    /\ UNCHANGED <<clocksOnly, inflight, fork, slot>>

\* FORK_BODY_TIMEOUT_MS after a request, BODY_UNAVAILABLE_RETRY_MS of rest.
ForkLate(b) ==
    /\ pc = "idle"
    /\ b \in DOMAIN fork
    /\ \/ /\ fork[b].asked \notin Reliable \cup {NoPeer} /\ ~fork[b].late
          /\ fork' = [fork EXCEPT ![b].late = TRUE]
       \/ /\ fork[b].back = "since"
          /\ fork' = [fork EXCEPT ![b].back = "due"]
    /\ UNCHANGED <<clocksOnly, inflight, hol, slot>>

\* BODY_SLOT_LOST_MS is 30 times BODY_TIMEOUT_MS: by then ticks have run and
\* every request the peer held has moved on.
SlotBack(p) ==
    /\ pc = "idle"
    /\ slot[p] = "back soon"
    /\ \A b \in DOMAIN inflight : inflight[b].peer # p
    /\ slot' = [slot EXCEPT ![p] = "held"]
    /\ UNCHANGED <<clocksOnly, inflight, hol, fork>>

-----------------------------------------------------------------------------
Init ==
    /\ tip \in Stored /\ known = Anc[tip] /\ bodies = {} /\ queue = <<>>
    /\ connected = Peer
    /\ seen = tip /\ syncPeer \in connected \cup {NoPeer}
    /\ applied = height[tip] /\ wanted = <<>> /\ inflight = <<>> /\ ready = <<>> /\ hol = "no"
    /\ fork = <<>> /\ pc = "idle" /\ designated = NoPeer
    /\ misses = [p \in Peer |-> 0] /\ slot = [p \in Peer |-> "held"]
    /\ upsets = 0

Tick ==
    \/ \E sync \in connected \cup {NoPeer} : TickWindow(sync)
    \/ TickFork

Validator == ProcessBlock \/ ConnectHeaders

Clock ==
    \/ \E b \in Block : BodyLate(b) \/ ForkLate(b)
    \/ HolLate
    \/ \E p \in Peer : SlotBack(p)

Next ==
    \/ Tick
    \/ Validator
    \/ Clock
    \/ \E b \in Block : VerifyHeaders(b)
    \/ \E p \in Peer : PeerReady(p) \/ PeerGone(p)
    \/ \E p \in Peer, b \in Block : Body(p, b) \/ NotFound(p, b)

Spec == Init /\ [][Next]_vars

\* The engine ticks, the validator takes headers and at times empties its
\* channel, clocks run, and a reliable peer answers every request.  What waits for
\* the end of a tick is taken between two of them (the driver alternates
\* events and ticks), so the fairness of an event is strong.  A tick is never
\* disabled: that it is taken again and again is stated by its two stages.
Fairness ==
    /\ []<>(pc = "fork") /\ []<>(pc = "idle")
    /\ WF_vars(ConnectHeaders) /\ []<>(queue = <<>>)
    /\ SF_vars(\E b \in Block : BodyLate(b)) /\ SF_vars(\E b \in Block : ForkLate(b))
    /\ SF_vars(\E p \in Peer : SlotBack(p))
    /\ \A p \in Reliable, b \in Block \ {Genesis} : SF_vars(Outstanding(p, b) /\ Body(p, b))

FairSpec == Spec /\ Fairness

-----------------------------------------------------------------------------
\* Every request in the window is with a connected peer (release_peer runs
\* wherever a session ends or changes role), and the window has its size.
RequestsHeld ==
    /\ \A b \in DOMAIN inflight : inflight[b].peer \in connected
    /\ Cardinality(DOMAIN inflight) <= Window

\* on_body, the drain and the catch-up together: a body kept for later is
\* above the watermark and within ReadyAhead of it, at a height of its own.
ReadyInReach ==
    \A h \in DOMAIN ready : h > applied /\ h <= applied + ReadyAhead

\* The window as a whole: types, requests and buffered bodies.
WindowSound == TypeOK /\ RequestsHeld /\ ReadyInReach

\* tick_bodies: a tick ends with nothing wanted, listed or queued only when
\* the chain has adopted the best branch it knows.  A body counted as
\* applied and then refused, or a branch below the watermark, is not
\* forgotten.
QuietOnlyWhenSynced ==
    [][/\ pc = "fork" /\ pc' = "idle"
       /\ DOMAIN wanted' = {} /\ DOMAIN fork' = {} /\ queue = <<>>
       => \A b \in known : ~Better(b, tip)]_vars

\* The whole engine: whatever the other peers withhold, delay or refuse, and
\* whichever requests are lost with them, the chain reaches the tip of the
\* verified headers and stays there.
Converges == <>[](tip = seen)
=============================================================================
