--------------------------- MODULE StratumShares ---------------------------
(***************************************************************************)
(* One mining connection (lib/stratum/src/session.rs, job.rs, verify.rs,   *)
(* the loop of server.rs) between the source of templates (wire/jobs.rs)   *)
(* and the validator that seals blocks (validator.rs).  The connection's   *)
(* task, the verification threads and the validator run concurrently: a    *)
(* job is pushed from two reads of the published tip, and a verdict may    *)
(* come back after the connection has gone.                                *)
(*                                                                         *)
(* Left out: the difficulty of a share (Vardiff decides whether a job is   *)
(* pushed, which here may happen with any accepted share), scores (a       *)
(* scored answer may end the connection; StratumGate counts them), the     *)
(* text of the messages.  Other connections show as `Other` entries of the *)
(* verification queue and as misses of the template cache.                 *)
(***************************************************************************)
EXTENDS Integers, Sequences, FiniteSets

CONSTANTS
    Nonce, Low, Solves,   \* nonces; those below the share target; those that make a block
    JobSlots,             \* JOB_SLOTS
    DedupMax,             \* DEDUP_PER_JOB
    QueueCap,             \* capacity of ThreadPoolVerifier's queue
    ResultDepth,          \* RESULT_CHANNEL_DEPTH
    MaxTip, MaxPush, MaxSeq, MaxLife   \* bounds: tips, pushed jobs, shares, connections

ASSUME SharesConstants ==
    /\ Low \subseteq Nonce /\ Solves \subseteq Nonce \ Low
    /\ {JobSlots, DedupMax, QueueCap, ResultDepth} \subseteq Nat \ {0}
    /\ MaxTip \in Nat \ {0} /\ {MaxPush, MaxSeq, MaxLife} \subseteq Nat

VARIABLES
    tip,          \* the published tip: hash and epoch of TipView, one number for both
    unannounced,  \* the tip moved and notify_generation has not been called yet
    cache,        \* Templates::cache for this login: {} or one [epoch, tmpl]
    life,         \* the connection's id: connections opened so far
    phase,        \* Session::phase, or "closed"
    ring, head, nextId, previous,      \* JobSlots
    lastGen,      \* last_generation, and last_clean_gen once it is not 0
    inFlight, queued, pending, seq,        \* Admission, Session::pending, Session::seq
    todo,         \* what is left of the current turn of the connection loop
    push,         \* the epoch and the template push_job has read
    actions,      \* Session::actions: shares to verify
    notified,     \* gen_rx has changed
    results,      \* the connection's result channel
    vqueue, thread, sealing,               \* verifier queue, its thread, validator commands
    credited      \* history: shares the server has paid for

tipVars == <<tip, unannounced>>
jobVars == <<ring, head, nextId, previous, lastGen>>
admitVars == <<inFlight, queued, pending, seq>>
loopVars == <<todo, push, actions, notified>>
verifyVars == <<vqueue, thread, sealing>>
shareVars == <<tipVars, cache, life, phase, jobVars, admitVars, loopVars, results,
               verifyVars, credited>>

None == [none |-> TRUE]
Other == [other |-> TRUE]
Template == 1..MaxTip   \* a template is told by the parent it builds on
Job == [id : Nat, tmpl : Template, dedup : SUBSET Nonce]
Share == [life : 1..MaxLife, job : Nat, nonce : Nonce, tmpl : Template, eligible : BOOLEAN]
Key(s) == <<s.life, s.job, s.nonce>>
Verdict == {"accepted", "low", "error"}
Stage == {"lines", "tick", "push", "build", "gen", "complete", "actions", "close"}

EmptyRing == [i \in 0..(JobSlots - 1) |-> None]

Session_new ==
    /\ ring' = EmptyRing /\ head' = 0 /\ nextId' = 0 /\ previous' = None
    /\ lastGen' = 0
    /\ inFlight' = FALSE /\ queued' = FALSE /\ pending' = None /\ seq' = 0
    /\ push' = None /\ actions' = <<>> /\ notified' = FALSE
    /\ results' = <<>>

Connect ==
    /\ phase = "closed" /\ life < MaxLife
    /\ life' = life + 1 /\ phase' = "fresh" /\ todo' = <<>>
    /\ Session_new
    /\ UNCHANGED <<tipVars, cache, verifyVars, credited>>

\* ConnGuard::drop: the router forgets the connection, so its verdicts are dropped.
Drop ==
    /\ phase' = "closed" /\ todo' = <<>>
    /\ Session_new
    /\ UNCHANGED <<tipVars, cache, life, verifyVars, credited>>

Live == phase # "closed"
Idle == Live /\ todo = <<>>
Rest == Tail(todo)

\* Eof, Shutdown, a read timeout, a write that fails.
Hangup == Idle /\ Drop

-----------------------------------------------------------------------------
\* One turn of the connection loop: the event, then the actions.  A tick that
\* falls due during another event is a turn of its own here.

\* A message that is answered and, when it is scored, may end the connection.
Answered(after) == todo' = after \/ todo' = <<"close">>

Lines == Idle \/ (Live /\ todo # <<>> /\ todo[1] = "lines")

on_keepalive == Lines /\ todo' = <<"lines">>
    /\ UNCHANGED <<tipVars, cache, life, phase, jobVars, admitVars, push, actions, notified,
                   results, verifyVars, credited>>

\* A line that does not parse: BadMessage or a throttle, and the connection is closed.
on_garbage == Lines /\ todo' = <<"close">>
    /\ UNCHANGED <<tipVars, cache, life, phase, jobVars, admitVars, push, actions, notified,
                   results, verifyVars, credited>>

\* The slice comes from E1Allocator (StratumGate); none left is ServerBusy.
on_subscribe ==
    /\ Lines
    /\ \/ phase = "fresh" /\ phase' = "subscribed" /\ todo' = <<"lines">>
       \/ phase' = phase /\ Answered(<<"lines">>)
    /\ UNCHANGED <<tipVars, cache, life, jobVars, admitVars, push, actions, notified,
                   results, verifyVars, credited>>

on_authorize ==
    /\ Lines
    /\ \/ phase = "subscribed" /\ phase' = "authorized" /\ todo' = <<"push", "lines">>
       \/ phase' = phase /\ Answered(<<"lines">>)
    /\ UNCHANGED <<tipVars, cache, life, jobVars, admitVars, push, actions, notified,
                   results, verifyVars, credited>>

Slots(j) == {i \in DOMAIN ring : ring[i] # None /\ ring[i].id = j}

\* JobSlots::lookup.  Whether STALE_CREDIT_GRACE has passed for `previous` is left
\* open: on_submit may answer any share as stale.
Lookup(j) == IF Slots(j) # {} THEN "live"
             ELSE IF previous # None /\ previous.id = j THEN "credited"
             ELSE IF j < nextId THEN "stale" ELSE "unknown"

JobOf(j) == IF Lookup(j) = "live" THEN ring[CHOOSE i \in Slots(j) : TRUE] ELSE previous

\* Dedup::check_and_record
Recorded(job, n) ==
    [job EXCEPT !.dedup = IF Cardinality(@) < DedupMax THEN @ \cup {n} ELSE @]

RecordsLiveOnly(j, n) ==
    /\ ring' = [i \in DOMAIN ring |-> IF i \in Slots(j) THEN Recorded(ring[i], n) ELSE ring[i]]
    /\ UNCHANGED previous

Record(j, n) ==
    IF Lookup(j) = "live"
    THEN /\ ring' = [i \in DOMAIN ring |-> IF i \in Slots(j) THEN Recorded(ring[i], n) ELSE ring[i]]
         /\ UNCHANGED previous
    ELSE previous' = Recorded(previous, n) /\ UNCHANGED ring

check_duplicate(j, n) == n \in JobOf(j).dedup

\* Admission::request
Admit(s) ==
    \/ /\ ~inFlight /\ inFlight' = TRUE /\ actions' = Append(actions, s)
       /\ UNCHANGED <<queued, pending>>
    \/ /\ inFlight /\ ~queued /\ queued' = TRUE /\ pending' = s
       /\ UNCHANGED <<inFlight, actions>>
    \/ /\ inFlight /\ queued                      \* ServerBusy
       /\ UNCHANGED <<inFlight, queued, pending, actions>>

on_submit(j, n) ==
    /\ Lines /\ phase = "authorized" /\ seq < MaxSeq
    /\ \/ /\ Lookup(j) \in {"live", "credited"} /\ ~check_duplicate(j, n)
          /\ Record(j, n)
          /\ seq' = seq + 1
          /\ Admit([life |-> life, job |-> j, nonce |-> n, tmpl |-> JobOf(j).tmpl,
                    eligible |-> Lookup(j) = "live"])
          /\ todo' = <<"lines">>
       \/ \* stale, unknown, duplicate: scored; throttled: not; nothing is kept
          /\ Answered(<<"lines">>)
          /\ UNCHANGED <<ring, previous, admitVars, actions>>
    /\ UNCHANGED <<tipVars, cache, life, phase, head, nextId, lastGen, push,
                   notified, results, verifyVars, credited>>

EndLines ==
    /\ Live /\ todo = <<"lines">> /\ todo' = <<"actions">>
    /\ UNCHANGED <<tipVars, cache, life, phase, jobVars, admitVars, push, actions, notified,
                   results, verifyVars, credited>>

\* on_verify_result up to Admission::complete; an accepted share may retarget.
on_verify_result ==
    /\ Idle /\ results # <<>>
    /\ LET r == Head(results) IN
       /\ credited' = IF r.verdict = "accepted" THEN credited \cup {Key(r.share)} ELSE credited
       /\ \/ todo' = <<"complete", "actions">>
          \/ r.verdict = "accepted" /\ todo' = <<"push", "complete", "actions">>
          \/ r.verdict = "low" /\ todo' = <<"complete", "close">>
    /\ results' = Tail(results)
    /\ UNCHANGED <<tipVars, cache, life, phase, jobVars, admitVars, push, actions, notified,
                   verifyVars>>

CompletedUnmarked(acts) ==
    /\ inFlight' = FALSE /\ queued' = FALSE
    /\ pending' = None
    /\ actions' = IF queued THEN Append(acts, pending) ELSE acts

\* Admission::complete, and the share that waited is dispatched.
Completed(acts) ==
    /\ inFlight' = queued /\ queued' = FALSE
    /\ pending' = None
    /\ actions' = IF queued THEN Append(acts, pending) ELSE acts

Complete ==
    /\ Live /\ todo # <<>> /\ todo[1] = "complete"
    /\ Completed(actions) /\ todo' = Rest
    /\ UNCHANGED <<tipVars, cache, life, phase, jobVars, seq, push, notified, results,
                   verifyVars, credited>>

NewGeneration ==
    /\ Idle /\ notified /\ notified' = FALSE
    /\ todo' = IF phase = "authorized" THEN <<"push", "actions">> ELSE <<"actions">>
    /\ UNCHANGED <<tipVars, cache, life, phase, jobVars, admitVars, push, actions, results,
                   verifyVars, credited>>

TickEvent ==
    /\ Idle /\ todo' = <<"tick", "actions">>
    /\ UNCHANGED <<tipVars, cache, life, phase, jobVars, admitVars, push, actions, notified,
                   results, verifyVars, credited>>

\* Pushes of an unchanged template are bounded; in the code they never end.
OnTip == ring[head] # None /\ ring[head].tmpl = tip
MayRepeat == ~(OnTip /\ nextId >= MaxPush)

InTick == Live /\ todo # <<>> /\ todo[1] = "tick"
    /\ UNCHANGED <<tipVars, cache, life, phase, jobVars, admitVars, push, actions, notified,
                   results, verifyVars, credited>>

TickWithoutRefresh ==
    InTick /\ phase = "authorized" /\ tip # lastGen /\ todo' = <<"push">> \o Rest

\* on_tick: a new generation, a refresh that is due or a retarget pushes a job.
on_tick_push == InTick /\ phase = "authorized" /\ MayRepeat /\ todo' = <<"push">> \o Rest

\* on_tick otherwise: AuthTimeout, Idle, SlowClient or Banned close, or nothing is due.
on_tick_quiet ==
    /\ InTick
    /\ \/ todo' = <<"close">>
       \/ (phase = "authorized" => tip = lastGen) /\ todo' = Rest

-----------------------------------------------------------------------------
\* push_job: Templates::current reads the epoch, the cache answers or the
\* validator builds, and only then is the generation read.

\* An entry may also have gone, evicted for another login.
CurrentCached ==
    /\ Live /\ todo # <<>> /\ todo[1] = "push"
    /\ \/ \E e \in cache : e.epoch = tip /\ push' = e /\ todo' = <<"gen">> \o Rest
       \/ /\ push' = [epoch |-> tip, tmpl |-> 0] /\ todo' = <<"build">> \o Rest
    /\ UNCHANGED <<tipVars, cache, life, phase, jobVars, admitVars, actions, notified,
                   results, verifyVars, credited>>

\* Templates::build and build_template: the parent is the validator's tip at this moment.
build ==
    /\ Live /\ todo # <<>> /\ todo[1] = "build"
    /\ push' = [push EXCEPT !.tmpl = tip] /\ cache' = {push'}
    /\ todo' = <<"gen">> \o Rest
    /\ UNCHANGED <<tipVars, life, phase, jobVars, admitVars, actions, notified, results,
                   verifyVars, credited>>

\* The channel is full, TEMPLATE_DEADLINE passes, or refuse_template: NotReady.
NotReady ==
    /\ Live /\ todo # <<>> /\ todo[1] = "build"
    /\ push' = None /\ todo' = Rest
    /\ UNCHANGED <<tipVars, cache, life, phase, jobVars, admitVars, actions, notified,
                   results, verifyVars, credited>>

\* JobSlots::push
push_clean(job) ==
    /\ previous' = ring[head]
    /\ ring' = [EmptyRing EXCEPT ![0] = job] /\ head' = 0

push_next(job) ==
    /\ head' = (head + 1) % JobSlots
    /\ ring' = [ring EXCEPT ![(head + 1) % JobSlots] = job]
    /\ UNCHANGED previous

\* The node's templates always say new_tip, so a job is clean once per generation.
push_job ==
    /\ Live /\ todo # <<>> /\ todo[1] = "gen"
    /\ LET job == [id |-> nextId, tmpl |-> push.tmpl, dedup |-> {}] IN
       IF lastGen # tip THEN push_clean(job) ELSE push_next(job)
    /\ lastGen' = tip /\ nextId' = nextId + 1
    /\ push' = None /\ todo' = Rest
    /\ UNCHANGED <<tipVars, cache, life, phase, admitVars, actions, notified, results,
                   verifyVars, credited>>

-----------------------------------------------------------------------------
\* The actions of a turn: ThreadPoolVerifier::enqueue, or on_verify_refused.

TakeActions ==
    /\ Live /\ todo # <<>> /\ todo[1] = "actions"
    /\ \/ actions = <<>> /\ UNCHANGED <<vqueue, inFlight, queued, pending, actions>>
       \/ /\ actions # <<>> /\ Len(vqueue) < QueueCap
          /\ vqueue' = vqueue \o actions /\ actions' = <<>>
          /\ UNCHANGED <<inFlight, queued, pending>>
       \/ /\ actions # <<>> /\ Len(vqueue) = QueueCap
          /\ Completed(<<>>)         \* on_verify_refused
          /\ UNCHANGED vqueue
    /\ todo' = <<>>
    /\ UNCHANGED <<tipVars, cache, life, phase, jobVars, seq, push, notified, results, thread,
                   sealing, credited>>

\* A closing turn still enqueues what it has before the connection is dropped.
Close ==
    /\ Live /\ todo = <<"close">>
    /\ vqueue' = IF actions # <<>> /\ Len(vqueue) < QueueCap THEN vqueue \o actions ELSE vqueue
    /\ phase' = "closed" /\ todo' = <<>>
    /\ Session_new
    /\ UNCHANGED <<tipVars, cache, life, thread, sealing, credited>>

-----------------------------------------------------------------------------
\* The verification threads (one of them is followed), Router::sink, the validator.

OtherEnqueues == Len(vqueue) < QueueCap /\ vqueue' = Append(vqueue, Other)
    /\ UNCHANGED <<tipVars, cache, life, phase, jobVars, admitVars, loopVars, results, thread,
                   sealing, credited>>

\* A thread takes the first share; another connection's verdict does not concern us.
ThreadTakes ==
    /\ thread = None /\ vqueue # <<>>
    /\ vqueue' = Tail(vqueue)
    /\ thread' = IF Head(vqueue) = Other THEN None
                 ELSE [share |-> Head(vqueue), stage |-> "hash"]
    /\ UNCHANGED <<tipVars, cache, life, phase, jobVars, admitVars, loopVars, results, sealing,
                   credited>>

\* Router::sink: try_send to a registered connection, and dropped otherwise.
sink(s, verdict) ==
    results' = IF Live /\ s.life = life /\ Len(results) < ResultDepth
               THEN Append(results, [share |-> s, verdict |-> verdict]) ELSE results

\* verify_one_isolated: a panic of the interpreter is an InternalError.
verify_one ==
    /\ thread # None /\ thread.stage = "hash"
    /\ LET s == thread.share IN
       \/ sink(s, "error") /\ thread' = None /\ UNCHANGED sealing
       \/ s.nonce \in Low /\ sink(s, "low") /\ thread' = None /\ UNCHANGED sealing
       \/ /\ s.nonce \notin Low /\ ~(s.eligible /\ s.nonce \in Solves)
          /\ sink(s, "accepted") /\ thread' = None /\ UNCHANGED sealing
       \/ /\ s.eligible /\ s.nonce \in Solves
          /\ \/ /\ s.tmpl = tip                    \* NodeBody::seal
                /\ sealing' = Append(sealing, s) /\ thread' = [thread EXCEPT !.stage = "sealing"]
                /\ UNCHANGED results
             \/ sink(s, "accepted") /\ thread' = None /\ UNCHANGED sealing   \* Obsolete
    /\ UNCHANGED <<tipVars, cache, life, phase, jobVars, admitVars, loopVars, vqueue, credited>>

\* The validator's verdict, or SEAL_DEADLINE: the share is accepted either way.
SealAnswered ==
    /\ thread # None /\ thread.stage = "sealing"
    /\ sink(thread.share, "accepted") /\ thread' = None
    /\ UNCHANGED <<tipVars, cache, life, phase, jobVars, admitVars, loopVars, vqueue, sealing,
                   credited>>

\* validator.rs seal: obsolete once the tip has left the template's parent.
seal ==
    /\ sealing # <<>> /\ ~unannounced
    /\ sealing' = Tail(sealing)
    /\ \/ Head(sealing).tmpl = tip /\ tip < MaxTip /\ tip' = tip + 1 /\ unannounced' = TRUE
       \/ UNCHANGED <<tip, unannounced>>          \* Obsolete, Rejected, or the bound
    /\ UNCHANGED <<cache, life, phase, jobVars, admitVars, loopVars, results, vqueue,
                   thread, credited>>

\* run: a block or headers from the network move the tip, and publish runs.
publish ==
    /\ ~unannounced /\ tip < MaxTip /\ tip' = tip + 1 /\ unannounced' = TRUE
    /\ UNCHANGED <<cache, life, phase, jobVars, admitVars, loopVars, results, verifyVars,
                   credited>>

\* on_tip calls notify_generation, which wakes the connections there are.
notify_generation ==
    /\ unannounced /\ unannounced' = FALSE
    /\ notified' = Live
    /\ UNCHANGED <<tip, cache, life, phase, jobVars, admitVars, todo, push, actions,
                   results, verifyVars, credited>>

SharesInit ==
    /\ tip = 1 /\ unannounced = FALSE /\ cache = {}
    /\ life = 0 /\ phase = "closed"
    /\ ring = EmptyRing /\ head = 0 /\ nextId = 0 /\ previous = None
    /\ lastGen = 0
    /\ inFlight = FALSE /\ queued = FALSE /\ pending = None /\ seq = 0
    /\ todo = <<>> /\ push = None /\ actions = <<>> /\ notified = FALSE
    /\ results = <<>> /\ vqueue = <<>> /\ thread = None /\ sealing = <<>> /\ credited = {}

SessionSteps == Complete \/ on_tick_push \/ on_tick_quiet \/ CurrentCached \/ NotReady \/ push_job \/ TakeActions \/ Close
    \/ EndLines
Events == on_keepalive \/ on_garbage \/ on_subscribe \/ on_authorize \/ Hangup
    \/ \E j \in 0..(MaxPush + MaxTip + 1), n \in Nonce : on_submit(j, n)
Environment == OtherEnqueues \/ publish

SharesNext ==
    \/ Connect \/ Events \/ SessionSteps \/ build \/ on_verify_result \/ NewGeneration \/ TickEvent
    \/ ThreadTakes \/ verify_one \/ SealAnswered \/ seal \/ notify_generation \/ Environment

\* The task of a connection, the threads and the validator are scheduled; the
\* ticker fires; a validator that could build again and again is not always late.
SharesFairness ==
    /\ WF_shareVars(SessionSteps) /\ SF_shareVars(build) /\ SF_shareVars(on_verify_result)
    /\ SF_shareVars(NewGeneration) /\ SF_shareVars(TickEvent) /\ SF_shareVars(on_tick_push)
    /\ WF_shareVars(ThreadTakes) /\ WF_shareVars(verify_one) /\ WF_shareVars(SealAnswered)
    /\ WF_shareVars(notify_generation)
-----------------------------------------------------------------------------
\* The state of a connection and of the verification pool is well formed.
SharesTypeOK ==
    /\ tip \in 1..MaxTip /\ {unannounced, inFlight, queued, notified} \subseteq BOOLEAN
    /\ \A e \in cache : e.epoch \in 1..MaxTip /\ e.tmpl \in Template
    /\ life \in 0..MaxLife
    /\ phase \in {"closed", "fresh", "subscribed", "authorized"}
    /\ ring \in [0..(JobSlots - 1) -> Job \cup {None}] /\ head \in DOMAIN ring
    /\ previous \in Job \cup {None} /\ nextId \in Nat /\ lastGen \in 0..MaxTip
    /\ pending \in Share \cup {None} /\ seq \in 0..MaxSeq
    /\ \A i \in 1..Len(todo) : todo[i] \in Stage
    /\ \A i \in 1..Len(actions) : actions[i] \in Share
    /\ \A i \in 1..Len(vqueue) : vqueue[i] \in Share \cup {Other}
    /\ \A i \in 1..Len(sealing) : sealing[i] \in Share
    /\ \A i \in 1..Len(results) : results[i].share \in Share /\ results[i].verdict \in Verdict
    /\ thread = None \/ (thread.share \in Share /\ thread.stage \in {"hash", "sealing"})

Mine(s) == s # Other /\ s.life = life
\* Where the shares of the present connection are that were admitted and not yet
\* answered: to be enqueued, in the pool's queue, with a thread, or coming back;
\* last, the answer whose slot is about to be given back.
Waiting == {i \in 1..Len(vqueue) : Mine(vqueue[i])}
WithThread == {i \in {1} : thread # None /\ Mine(thread.share)}
Completions == {i \in 1..Len(todo) : todo[i] = "complete"}
Stations == ({"actions"} \X (1..Len(actions))) \cup ({"queue"} \X Waiting)
    \cup ({"thread"} \X WithThread) \cup ({"results"} \X (1..Len(results)))
    \cup ({"complete"} \X Completions)
InSystem == {actions[i] : i \in 1..Len(actions)} \cup {vqueue[i] : i \in Waiting}
    \cup {thread.share : i \in WithThread} \cup {results[i].share : i \in 1..Len(results)}

\* Admission always agrees with where the connection's shares are: one admitted
\* share is on its way through the pool exactly when in_flight is set, and one
\* waits exactly when queued is.  A slip on any path (refused, failed, sealed,
\* connection closed) leaves the connection answering ServerBusy for ever, or
\* lets it have more than two shares in the verifier.
AdmissionExact ==
    Live => /\ Cardinality(Stations) = IF inFlight THEN 1 ELSE 0
            /\ queued <=> pending # None
            /\ queued => inFlight

\* A connection and its shares, as one.
AdmissionSound == SharesTypeOK /\ AdmissionExact

\* A share (connection, job, nonce) is paid for once, however it is resubmitted:
\* while its job is live, after the job became `previous`, and after an earlier
\* copy was refused for want of room.
CreditedOnce ==
    Live => /\ \A s \in InSystem : Key(s) \notin credited
            /\ pending # None => /\ Key(pending) \notin credited
                                 /\ \A s \in InSystem : Key(s) # Key(pending)

\* A connection is not left on an old template: once the tip stops moving and the
\* node is willing to build, an authorized miner's newest job is on that tip.
\* push_job reads the tip twice and may give up in between, so this rests on the
\* refresh and not on the notification alone.
NewTipReachesMiner ==
    []<>(phase # "authorized" \/ OnTip)

=============================================================================
