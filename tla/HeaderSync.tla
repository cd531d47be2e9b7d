---------------------------- MODULE HeaderSync ----------------------------
(***************************************************************************)
(* Which peer a node fetches headers from, and what becomes of it: the     *)
(* header track of lib/p2p (sync/header_track.rs), with the choice of a    *)
(* peer (rotation.rs), its stall clock (stall.rs), the staged headers      *)
(* (staging.rs) and the events of sync/mod.rs that reach them.             *)
(*                                                                         *)
(* An event or a tick is one step, as in the code: the engine handles one  *)
(* at a time.  The track is one record, and the parts of a tick are        *)
(* functions on it.  Time is abstract: `x` is the set of timers that are   *)
(* found expired by this tick.  A header is its height; the bits, times    *)
(* and hashes the gates check decide only between the outcomes listed at   *)
(* on_headers.  Scores are not counted: an offence of 100 points ends the  *)
(* peer, a smaller one is a PeerGone the environment may choose.           *)
(***************************************************************************)
EXTENDS Integers, Sequences, FiniteSets

CONSTANTS
    Prompt, Others,          \* peers, by their PeerId: those that answer in time, and the rest
    Group,                   \* Group[p]: the network group of a peer
    Target, ClaimMax,        \* heights: the best chain there is; the highest one claimed
    StageMax,                \* PRESYNC_LEAD_HEADERS
    ClaimAttempts,           \* CLAIM_ATTEMPTS
    Budget,                  \* ROTATION_BUDGET
    ConfirmAudits,           \* STALL_CONFIRM_AUDITS
    PullPeers,               \* ANCHOR_PULL_PEERS
    FlapLimit,               \* RECOVERY_FLAP_LIMIT
    MaxTrouble               \* bound: recoveries, departures of peers, paused reads

Peer == Prompt \cup Others

ASSUME SyncConstants ==
    /\ Peer \subseteq Nat \ {0} /\ Prompt \cap Others = {} /\ Group \in [Peer -> Nat \ {0}]
    /\ {Target, StageMax, ClaimAttempts, Budget, ConfirmAudits, PullPeers, FlapLimit}
           \subseteq Nat \ {0}
    /\ ClaimMax \in Nat /\ ClaimMax >= Target /\ MaxTrouble \in Nat

VARIABLES
    ht,       \* HeaderTrack, its Rotator, ProgressClock and Staging
    sess,     \* the sessions: one record for every peer
    tip,      \* height of the chain's tip: verified headers whose bodies are applied
    trouble   \* history: recoveries, departures and pauses so far

syncVars == <<ht, sess, tip, trouble>>

NoPeer == 0
Nobody == [known |-> FALSE, height |-> 0, proved |-> 0, failures |-> 0, demoted |-> FALSE]
Gone == [up |-> FALSE, role |-> FALSE, cooling |-> FALSE, disqualified |-> FALSE, rate |-> 0]
Session_ready == [Gone EXCEPT !.up = TRUE]
NewClock == [suspended |-> FALSE, bound |-> FALSE, refused |-> FALSE]

HeaderTrack_new ==
    [state |-> "ColdStart", sync |-> NoPeer, locate |-> FALSE, clock |-> NewClock,
     sinkHeld |-> FALSE, commitBound |-> FALSE, charged |-> 0, lastGroup |-> 0,
     staged |-> <<>>, verified |-> 0, claims |-> [p \in Peer |-> Nobody], flat |-> 0,
     episode |-> FALSE, asked |-> {}, failures |-> 0]

\* ClaimRec::effective_height
effective_height(c) == IF c.demoted THEN c.proved ELSE c.height
Heights(h, P) == {0} \cup {effective_height(h.claims[p]) : p \in P}
Highest(S) == CHOOSE a \in S : \A b \in S : b <= a
best_claimed_height(h) == Highest(Heights(h, Peer))

Ready(s) == {p \in Peer : s[p].up}
sync_eligible(s, p) == s[p].up /\ ~s[p].disqualified /\ ~s[p].cooling
best_actionable_height(h, s) == Highest(Heights(h, {p \in Peer : sync_eligible(s, p)}))

\* note_claim: a claim only grows; a demoted one is believed again when CLAIM_REARM_MS
\* has passed (`rearmed`) and it grows.
note_claim(h, p, n, rearmed) ==
    LET c == h.claims[p] IN
    IF c.known /\ (n <= c.height \/ (c.demoted /\ ~rearmed)) THEN h
    ELSE [h EXCEPT !.claims[p] =
             [c EXCEPT !.known = TRUE, !.height = n, !.demoted = FALSE,
                       !.failures = IF c.demoted THEN 0 ELSE @]]

note_substantiated(h, p, n) ==
    LET c == h.claims[p] IN
    IF ~c.known THEN h
    ELSE [h EXCEPT !.claims[p] = [c EXCEPT !.proved = Highest({c.proved, n}), !.failures = 0]]

Forgiving(h, p) == h
note_unsubstantiated(h, p) ==
    LET c == h.claims[p] IN
    IF ~c.known \/ c.demoted THEN h
    ELSE [h EXCEPT !.claims[p] = [c EXCEPT !.failures = @ + 1,
                                           !.demoted = c.failures + 1 >= ClaimAttempts]]

forget(h, p) == [h EXCEPT !.claims[p] = Nobody, !.sync = IF @ = p THEN NoPeer ELSE @]

-----------------------------------------------------------------------------
\* Rotator::select goes through the eligible peers by id and keeps the first of the highest
\* rate, where any rate beats none.  One of the group designated last is passed over, unless
\* it is where the scan starts or nobody else is eligible.
Rotates(h, E) ==
    {p \in E : (\A q \in E : p <= q) \/ Group[p] # h.lastGroup}
Fastest(h, s, E) ==
    CHOOSE p \in Rotates(h, E) : \A q \in Rotates(h, E) :
        s[q].rate < s[p].rate \/ (s[q].rate = s[p].rate /\ p <= q)

Ahead(h, P) == {p \in P : effective_height(h.claims[p]) > tip}
Eligible(h, s, P) == {p \in Ahead(h, P) : sync_eligible(s, p)}
\* Nobody qualifies for SYNC_ELIGIBILITY_FLOOR_MS: the rules are waived.  The code
\* takes the peer penalised least recently; any of them may be that one.
Waivable(h, s, P) == {p \in Ahead(h, P) : s[p].up /\ ~s[p].disqualified}

\* The designations `select` may return: {} stands for NoneYet.
select(h, s, P, x) ==
    IF Eligible(h, s, P) # {} THEN {Fastest(h, s, Eligible(h, s, P))}
    ELSE IF "floor" \in x THEN Waivable(h, s, P) ELSE {}

\* Several results of one call: pairs of the track and the sessions.
Designated(h, s, p) ==
    <<[h EXCEPT !.sync = p, !.lastGroup = Group[p], !.clock = NewClock, !.locate = TRUE,
                !.state = "HeaderSync"],
      [q \in Peer |-> [s[q] EXCEPT !.role = (q = p),
                                   !.cooling = @ /\ ~(q = p /\ ~sync_eligible(s, p))]]>>

\* designate, set_sync_peer and send_getheaders, with what apply does for them; the
\* caller enters HeaderSync.  `else` is the result when nobody is designated.
designate(h, s, P, x, else) ==
    LET D == select(h, s, P, x) IN
    IF D = {} THEN {else} ELSE {Designated(h, s, p) : p \in D}

Enter(h, state) == [h EXCEPT !.state = state]

RotatesSilently(h, s, from, charged, x) ==
    LET cleared == [h EXCEPT !.sync = NoPeer, !.locate = FALSE] IN
    designate(cleared, s, Ready(s) \ {from}, x, <<Enter(cleared, "Probing"), s>>)
\* rotate, with Undesignate and SyncCooldown applied.
rotate(h, s, from, charged, x) ==
    LET cleared == [h EXCEPT !.sync = NoPeer, !.locate = FALSE]
        s1 == IF from = NoPeer THEN s
              ELSE [s EXCEPT ![from].role = FALSE, ![from].cooling = @ \/ charged]
    IN IF charged /\ h.charged >= Budget THEN {<<Enter(cleared, "Probing"), s1>>}
       ELSE designate(cleared, s1, Ready(s) \ {from}, x, <<Enter(cleared, "Probing"), s1>>)

-----------------------------------------------------------------------------
\* One tick of the track, by state.

tick_coldstart(h, s) ==
    {<<IF Ready(s) # {} THEN Enter(h, "Probing") ELSE h, s>>}

tick_probing(h, s, x) ==
    IF "probe" \notin x THEN {<<h, s>>}      \* or PROBE_PEERS are ready
    ELSE designate(h, s, Ready(s), x,
             <<IF best_actionable_height(h, s) <= tip THEN Enter(h, "Tracking") ELSE h, s>>)

\* ProgressClock::verdict
StallKind(h, x) ==
    IF "suspend" \in x THEN "LocalSuspendExceeded"
    ELSE IF h.clock.suspended \/ h.clock.bound \/ "stall" \notin x THEN "None"
    ELSE IF h.clock.refused THEN "LocalReadRefused"
    ELSE "NoProgress"                \* or BelowRateFloor

Charge(h) == [h EXCEPT !.charged = IF @ < Budget THEN @ + 1 ELSE @]

\* set_verify_bound
Bound(h) == [h EXCEPT !.clock.bound = h.staged # <<>> \/ h.commitBound]

CaughtUp(h) == h.staged = <<>> /\ ~h.locate /\ h.verified >= effective_height(h.claims[h.sync])

tick_headersync(h0, s, x) ==
    LET p == h0.sync
        h == Bound(h0)
        kind == StallKind(h, x)
    IN  IF p = NoPeer THEN {<<Enter(h0, "Probing"), s>>}
        ELSE IF kind = "NoProgress" \/ (h.locate /\ "locate" \in x)
             THEN rotate(Charge(note_unsubstantiated(h, p)), s, p, TRUE, x)
        ELSE IF kind # "None" \/ (s[p].rate = 0 /\ "probation" \in x) THEN rotate(h, s, p, FALSE, x)
        ELSE {<<IF CaughtUp(h) THEN Enter(h, "Tracking") ELSE h, s>>}

begin_recovery(h) == [Enter(h, "DeepRecovery") EXCEPT !.episode = TRUE, !.asked = {}]

Stranded(h, s) == <<IF h.flat + 1 >= ConfirmAudits
                    THEN [begin_recovery(h) EXCEPT !.flat = 0]
                    ELSE [h EXCEPT !.flat = @ + 1], s>>

\* The audit: peers that are ahead but may not be used, a branch already parked,
\* a peer to follow, or one more audit without any.
Audit(h, s, x) ==
    LET behind == best_actionable_height(h, s) > tip
        masked == ~behind /\ best_claimed_height(h) > tip
    IN CASE masked -> designate(h, s, Ready(s), x, <<h, s>>)
         [] ~masked /\ ~behind -> {<<[h EXCEPT !.flat = 0], s>>}
         [] behind /\ h.episode -> {<<begin_recovery(h), s>>}
         [] OTHER -> {<<IF r[1].state = "HeaderSync" THEN [r[1] EXCEPT !.flat = 0] ELSE r[1],
                        r[2]>> : r \in designate(h, s, Ready(s), x, Stranded(h, s))}

tick_tracking(h, s, x) ==
    LET catchup == "probe" \in x /\ best_actionable_height(h, s) > Highest({h.verified, tip})
        audit == IF "audit" \in x THEN Audit(h, s, x) ELSE {<<h, s>>}
    IN IF catchup THEN LET D == designate(h, s, Ready(s), x, <<h, s>>) IN
                       IF <<h, s>> \in D THEN audit ELSE D
       ELSE audit

\* Ask one more peer for its checkpoint (the one with the highest claim, not asked within
\* GETCHECKPOINT_INTERVAL_MS), or give the branch up at the deadline.
peer_furthest_ahead(h, excluded) ==
    {p \in Peer \ excluded : h.claims[p].known /\
        \A q \in Peer \ excluded : h.claims[q].known =>
            effective_height(h.claims[q]) <= effective_height(h.claims[p])}
AsksForever(h, s, x) ==
    {IF "pull" \notin x /\ "deadline" \in x THEN <<Enter(h, "Probing"), s>> ELSE <<h, s>>}
tick_deep(h, s, x) ==
    LET next == peer_furthest_ahead(h, h.asked)
        given_up == <<[Enter(h, "Probing") EXCEPT !.episode = FALSE, !.asked = {}], s>>
    IN CASE ~h.episode -> {<<Enter(h, "Probing"), s>>}
         [] h.episode /\ "pull" \in x /\ Cardinality(h.asked) < PullPeers /\ next # {} ->
              {<<[h EXCEPT !.asked = @ \cup {p}], s>> : p \in next}
         [] OTHER -> {IF "deadline" \in x THEN given_up ELSE <<h, s>>}

tick_quarantined(h, s, x) ==
    {<<IF "deadline" \in x THEN Enter(h, "Probing") ELSE h, s>>}

\* HeaderTrack::tick
track_tick(h0, s, x) ==
    LET h == IF Ready(s) = {} /\ h0.state # "ColdStart"
             THEN [Enter(h0, "ColdStart") EXCEPT !.sync = NoPeer] ELSE h0
    IN CASE h.state = "ColdStart" -> tick_coldstart(h, s)
         [] h.state = "Probing" -> tick_probing(h, s, x)
         [] h.state = "HeaderSync" -> tick_headersync(h, s, x)
         [] h.state = "Tracking" -> tick_tracking(h, s, x)
         [] h.state = "DeepRecovery" -> tick_deep(h, s, x)
         [] h.state = "Quarantined" -> tick_quarantined(h, s, x)

\* request_more: one GetHeaders at a time, while there is room to stage.
request_more(h) ==
    IF h.state = "HeaderSync" /\ h.sync # NoPeer /\ Len(h.staged) < StageMax
    THEN [h EXCEPT !.locate = TRUE] ELSE h

-----------------------------------------------------------------------------
\* Verification of staged headers.

Truncated(h, k) == [h EXCEPT !.staged = SubSeq(@, 1, k - 1)]
Suspend(h, on) == [h EXCEPT !.clock.suspended = on, !.sinkHeld = on]
\* set_sink_blocked: the clock is suspended while the sink takes nothing.
set_sink_blocked(h, blocked) ==
    LET b == [h EXCEPT !.commitBound = blocked] IN
    CASE blocked /\ ~h.sinkHeld /\ ~h.clock.suspended -> Suspend(b, TRUE)
      [] ~blocked /\ h.sinkHeld -> Suspend(b, FALSE)
      [] OTHER -> b

\* commit_front, for the first k staged headers, and the credit for those who sent them.
\* Note_progress also clears the outstanding locate.
Committed(h, k) ==
    LET credited(p) == {h.verified + i : i \in {j \in 1..k : h.staged[j].from = p}}
        h1 == [h EXCEPT !.staged = SubSeq(@, k + 1, Len(@)), !.verified = @ + k,
                        !.locate = @ /\ k = 0, !.clock.refused = @ /\ k = 0]
    IN [h1 EXCEPT !.claims = [p \in Peer |->
          IF credited(p) = {} THEN @[p]
          ELSE note_substantiated(h1, p, Highest(credited(p))).claims[p]]]
Credited(h, s, k) ==
    [p \in Peer |-> IF s[p].up /\ \E j \in 1..k : h.staged[j].from = p
                    THEN [s[p] EXCEPT !.rate = 1] ELSE s[p]]

\* How a pass ends after k headers: nothing left, no budget for the interpreter, the sink
\* is full, the chain refuses the header, or its proof of work is bad.
Endings(h, k) ==
    IF k = Len(h.staged) THEN {"dry"}
    ELSE {"budget", "full"} \cup (IF h.staged[k + 1].good THEN {} ELSE {"bad", "invalid"})
Passes(h) == {k \in 0..Len(h.staged) : \A i \in 1..k : h.staged[i].good}

\* The pair after a pass.  A peer whose header has a bad proof is scored 100 points: it is
\* disqualified and, not being whitelisted, gone at the end of the tick.
verify_pass(h, s, k, end) ==
    LET h1 == Committed(h, k)
        h2 == CASE end = "invalid" -> [Truncated(h1, 1) EXCEPT !.clock.refused = TRUE]
                [] end = "bad" -> Truncated(h1, 1)
                [] OTHER -> h1
    IN <<set_sink_blocked(h2, end = "full"), Credited(h, s, k)>>

\* apply: Ban and Disconnect.
Banned(r, P) ==
    <<[r[1] EXCEPT !.claims = [p \in Peer |-> IF p \in P THEN Nobody ELSE @[p]],
                   !.sync = IF @ \in P THEN NoPeer ELSE @],
      [p \in Peer |-> IF p \in P THEN Gone ELSE r[2][p]]>>

\* Timers that may be found expired.  A prompt peer answers before the timers of its
\* answer; suspension and the others depend on this node.
Watched(h) ==
    CASE h.state = "Probing" -> {"probe", "floor"}
      [] h.state = "HeaderSync" /\ h.sync \in Prompt -> {}
      [] h.state = "HeaderSync" /\ h.sync \notin Prompt -> {"locate", "stall", "suspend", "probation"}
      [] h.state = "Tracking" -> {"probe", "audit", "floor"}
      [] h.state \in {"DeepRecovery", "Quarantined"} -> {"pull", "deadline"}
      [] OTHER -> {}

\* One of them, or all: other combinations take the same branches.
Expired(h) == {{}, Watched(h)} \cup {{t} : t \in Watched(h)}

\* SyncEngine::on_tick, the part that concerns headers.
TickWith(k, end, x) ==
    /\ LET bad == IF end = "bad" THEN {ht.staged[k + 1].from} ELSE {}
           v == verify_pass(ht, sess, k, end)
       IN \E r \in track_tick(v[1], v[2], x) :
             LET done == Banned(<<request_more(r[1]), r[2]>>, bad)
             IN ht' = done[1] /\ sess' = done[2]
    /\ trouble' = IF end = "bad" THEN trouble + 1 ELSE trouble
    /\ trouble' <= MaxTrouble
    /\ UNCHANGED tip

on_tick == \E k \in Passes(ht) : \E end \in Endings(ht, k) :
               \E x \in Expired(ht) : TickWith(k, end, x)

\* A tick at which every timer has run out and the verifier and the sink have room.
LateTick == \E k \in Passes(ht) : \E end \in Endings(ht, k) \ {"budget", "full"} :
                TickWith(k, end, Watched(ht))

-----------------------------------------------------------------------------
\* Events

PeerReady(p, n) ==
    /\ ~sess[p].up
    /\ n = IF p \in Prompt THEN Target ELSE ClaimMax
    /\ sess' = [sess EXCEPT ![p] = Session_ready]
    /\ \E rearmed \in {TRUE, ~ht.claims[p].demoted} : ht' = note_claim(ht, p, n, rearmed)
    /\ UNCHANGED <<tip, trouble>>

PeerGone(p) ==
    /\ sess[p].up /\ p \notin Prompt /\ trouble < MaxTrouble
    /\ sess' = [sess EXCEPT ![p] = Gone]
    /\ ht' = forget(ht, p)
    /\ trouble' = trouble + 1
    /\ UNCHANGED tip

\* Reads from the designated peer are paused for a local cause, which suspends its clock,
\* and resumed.
Paused ==
    /\ ht.sync # NoPeer /\ ~ht.clock.suspended /\ trouble < MaxTrouble
    /\ ht' = [ht EXCEPT !.clock.suspended = TRUE] /\ trouble' = trouble + 1
    /\ UNCHANGED <<sess, tip>>
Unpaused ==
    /\ ht.sync # NoPeer /\ ht.clock.suspended /\ ht' = Suspend(ht, FALSE)
    /\ UNCHANGED <<sess, tip, trouble>>

StagedTip(h) == h.verified + Len(h.staged)
Batch(p, n, good) == [i \in 1..n |-> [from |-> p, good |-> good]]

\* The designated peer's batch goes on where staging ends: n headers are staged.  The
\* claim is raised to its last header, and the question is answered.
on_headers(p, n, good) ==
    /\ sess[p].up /\ ht.sync = p
    /\ n \in 0..(StageMax - Len(ht.staged)) /\ StagedTip(ht) + n <= Target
    /\ p \in Prompt => good /\ (n > 0 \/ StagedTip(ht) = Target)
    /\ \E rearmed \in {TRUE, ~ht.claims[p].demoted} :
         LET h == IF n = 0 THEN ht ELSE note_claim(ht, p, StagedTip(ht) + n, rearmed) IN
         ht' = [h EXCEPT !.staged = @ \o Batch(p, n, good), !.locate = FALSE,
                         !.clock.refused = @ /\ n = 0]
    /\ UNCHANGED <<sess, tip, trouble>>

\* The batch does not fit the byte budget: it is dropped before it is looked at.
on_headers_refused(p) ==
    /\ sess[p].up /\ ht.sync = p /\ p \notin Prompt
    /\ ht' = [ht EXCEPT !.clock.refused = TRUE]
    /\ UNCHANGED <<sess, tip, trouble>>

\* Structure, bits or time of a batch are wrong: 100 points.
on_headers_malformed(p) ==
    /\ sess[p].up /\ p \notin Prompt /\ trouble < MaxTrouble
    /\ LET r == Banned(<<ht, sess>>, {p}) IN ht' = r[1] /\ sess' = r[2]
    /\ trouble' = trouble + 1
    /\ UNCHANGED tip

\* The designated peer's branch leaves ours too deep, or a checkpoint contradicts our
\* chain: recovery begins, and repeated failures end in quarantine.
ReorgTooDeep ==
    /\ ht.sync # NoPeer /\ ht.sync \notin Prompt /\ trouble < MaxTrouble
    /\ LET h == [begin_recovery(ht) EXCEPT !.failures = @ + 1, !.locate = FALSE] IN
       ht' = IF h.failures >= FlapLimit
             THEN [Enter(h, "Quarantined") EXCEPT !.episode = FALSE] ELSE h
    /\ trouble' = trouble + 1
    /\ UNCHANGED <<sess, tip>>
AnchorContradiction ==
    /\ trouble < MaxTrouble
    /\ ht' = begin_recovery(ht)
    /\ trouble' = trouble + 1
    /\ UNCHANGED <<sess, tip>>
AnchorAdvanced ==
    /\ ht.episode /\ ht' = [ht EXCEPT !.episode = FALSE, !.asked = {}]
    /\ UNCHANGED <<sess, tip, trouble>>

\* admit_announced: another peer announces a header with a good proof of work; the claim
\* of that peer grows.
admit_announced(p, n) ==
    /\ sess[p].up /\ ht.sync # p /\ n \in 1..Target
    /\ \E rearmed \in {TRUE, ~ht.claims[p].demoted} : ht' = note_claim(ht, p, n, rearmed)
    /\ UNCHANGED <<sess, tip, trouble>>

\* Bodies are applied up to a verified header.
BodiesApplied == /\ tip < ht.verified /\ tip' = tip + 1
                 /\ UNCHANGED <<ht, sess, trouble>>

\* SYNC_COOLDOWN_MS or ROTATION_WINDOW_MS have passed.
CooldownEnds(p) == /\ sess[p].cooling /\ sess' = [sess EXCEPT ![p].cooling = FALSE]
                   /\ UNCHANGED <<ht, tip, trouble>>
WindowEnds == /\ ht.charged > 0 /\ ht' = [ht EXCEPT !.charged = 0]
              /\ UNCHANGED <<sess, tip, trouble>>

SyncInit ==
    /\ ht = HeaderTrack_new /\ sess = [p \in Peer |-> Gone] /\ tip = 0
    /\ trouble = 0

PeerEvents(p) ==
    \/ \E n \in {Target, ClaimMax} : PeerReady(p, n)
    \/ PeerGone(p) \/ CooldownEnds(p)
    \/ on_headers_refused(p) \/ on_headers_malformed(p)
    \/ \E n \in 0..StageMax, good \in BOOLEAN : on_headers(p, n, good)
    \/ \E n \in 1..Target : admit_announced(p, n)

SyncNext == \/ \E p \in Peer : PeerEvents(p)
            \/ on_tick \/ ReorgTooDeep \/ AnchorContradiction \/ AnchorAdvanced
            \/ BodiesApplied \/ WindowEnds \/ Paused \/ Unpaused

\* Ticks go on and every timer that is watched expires in the end; the sink takes headers
\* again and again; prompt peers come and answer; bodies arrive.
SyncFairness ==
    /\ SF_syncVars(LateTick)
    /\ \A p \in Prompt :
           /\ WF_syncVars(PeerReady(p, Target))
           /\ SF_syncVars(\E n \in 0..StageMax : on_headers(p, n, TRUE))
    /\ WF_syncVars(BodiesApplied)

-----------------------------------------------------------------------------
\* The record of the header track and the sessions stay within their types.
SyncTypeOK ==
    /\ ht.state \in {"ColdStart", "Probing", "HeaderSync", "Tracking", "DeepRecovery", "Quarantined"}
    /\ ht.sync \in Peer \cup {NoPeer} /\ ht.verified \in 0..Target /\ tip \in 0..ht.verified
    /\ Len(ht.staged) <= StageMax /\ ht.verified + Len(ht.staged) <= Target
    /\ \A p \in Peer : ht.claims[p].proved <= ht.verified /\ ht.claims[p].failures <= ClaimAttempts

\* The roles the sessions carry agree with the track at all times: just the designated
\* peer is marked as the sync peer, through designation, rotation, bans, departures and
\* recovery.  A mark left behind exempts a peer from the ingest budget's pauses and keeps
\* it from supplying bodies.
DesignationExact == \A p \in Peer : sess[p].role <=> ht.sync = p

\* An audit that finds the node behind finds a peer to follow in the same breath: the two
\* notions of a usable peer, best_actionable_height's and select's, agree, so audits
\* without a peer never add up to a recovery.
AuditFindsPeer == ht.flat = 0

\* The track at any moment.
TrackSound == SyncTypeOK /\ DesignationExact /\ AuditFindsPeer

\* With one peer that answers in time and is never the one to leave, the node gets to the
\* best chain there is, whatever the other peers claim, stall, send or ask for.
CatchesUp == <>(tip = Target)

\* Recovery and quarantine are left again.
RecoveryEnds == ht.state \in {"DeepRecovery", "Quarantined"} ~>
                ht.state \notin {"DeepRecovery", "Quarantined"}
=============================================================================
