------------------------- MODULE StratumDifficulty -------------------------
(***************************************************************************)
(* Share difficulty: Vardiff of every session (vardiff.rs), the cache of   *)
(* earned difficulties and the reconnect floor of an address (abuse.rs     *)
(* DiffCache), and the places of session.rs that use them.  The sessions   *)
(* here log in to one address.  The rate estimators are floating-point:    *)
(* what they want is any difficulty the code's bounds allow, and the gates *)
(* decide whether it is acted on.                                          *)
(***************************************************************************)
EXTENDS Integers, FiniteSets

CONSTANTS
    Session,
    MaxDiff,              \* difficulties are 1..MaxDiff
    MinDiff, StartDiff,   \* DiffPolicy
    CfgMax,               \* vardiff_max_diff, 0: none
    MaxStep, GateShares,  \* Cadence
    MinShares,            \* DIFF_CACHE_MIN_SHARES
    StormPerMin, StormWindow, Ttl,   \* DiffPolicy, in time units; a minute is one
    MaxMinutes               \* bound on the clock

ASSUME DifficultyConstants ==
    /\ {MaxDiff, MinDiff, StartDiff, MaxStep, GateShares, MinShares, StormWindow, Ttl}
         \subseteq Nat \ {0}
    /\ {CfgMax, StormPerMin, MaxMinutes} \subseteq Nat /\ MinDiff <= MaxDiff /\ StartDiff <= MaxDiff

VARIABLES now, network,   \* the clock; difficulty of the current template
          vd,             \* Vardiff and login of a session, Gone when there is none
          jobs,           \* difficulties of a session's newest job and the one before
          addr,           \* AddrState of the address
          earned          \* history: difficulties accepted while a session was free to move

diffVars == <<now, network, vd, jobs, addr, earned>>

Diff == 1..MaxDiff
Gone == [gone |-> TRUE]
Lesser(a, b) == IF a < b THEN a ELSE b
Greater(a, b) == IF a > b THEN a ELSE b
clamp(d, lo, hi) == Greater(lo, Lesser(d, hi))

vardiff_ceiling(net) == IF CfgMax > 0 THEN Lesser(net, CfgMax) ELSE net
\* Session::vardiff_min: the reconnect floor of the login, 0 when there is none.
vardiff_min(floor) == Greater(floor, MinDiff)

\* Vardiff::new and pin, with the bounds either way round.
Within(d, lo, hi) == clamp(d, Lesser(lo, hi), Greater(lo, hi))
Vardiff_new(start, floor, pin) ==
    LET lo == vardiff_min(floor)
        hi == vardiff_ceiling(network)
    IN [cur |-> Within(IF pin = 0 THEN start ELSE pin, lo, hi), pinned |-> pin # 0,
        floor |-> floor, since |-> 0, count |-> 0]

\* Vardiff::set_bounds and the difficulty push_job serves.
set_bounds(v) ==
    LET lo == vardiff_min(v.floor) IN
    [v EXCEPT !.cur = clamp(@, lo, Greater(lo, vardiff_ceiling(network)))]

push_job_at(s, v) ==
    /\ vd' = [vd EXCEPT ![s] = set_bounds(v)]
    /\ jobs' = [jobs EXCEPT ![s] = {vd[s].cur, set_bounds(v).cur}]

\* DiffCache::start_for
start_for == IF addr.last > 0 /\ now - addr.updated <= Ttl THEN addr.last ELSE StartDiff

\* DiffCache::note_login: a floor once the logins of a minute stay above the limit.
NewMinute == now # addr.window
note_login ==
    LET calm == NewMinute /\ addr.logins <= StormPerMin
        logins == (IF NewMinute THEN 0 ELSE addr.logins) + 1
        since == IF calm THEN 0 ELSE addr.storm
        over == logins > StormPerMin
    IN [addr EXCEPT !.logins = Lesser(logins, StormPerMin + 1), !.window = now,
            !.storm = IF over /\ since = 0 THEN now ELSE since,
            !.floor = IF over /\ since # 0 /\ now - since >= StormWindow
                      THEN Greater(start_for, MinDiff) ELSE @]

on_authorize_diff(s, pin) ==
    /\ vd[s] = Gone
    /\ addr' = note_login
    /\ LET floor == IF addr.floor # 0 THEN addr.floor ELSE note_login.floor IN
       vd' = [vd EXCEPT ![s] = set_bounds(Vardiff_new(start_for, floor, pin))]
    /\ jobs' = [jobs EXCEPT ![s] = {vd'[s].cur}]
    /\ UNCHANGED <<now, network, earned>>

\* Vardiff::decide: at most MaxStep away, within the bounds, and not without a reason.
gate_open(v) == v.since >= GateShares
Steps(v, lower) ==
    LET lo == Greater((v.cur + MaxStep - 1) \div MaxStep, vardiff_min(v.floor))
        hi == Lesser(v.cur * MaxStep, vardiff_ceiling(network))
    IN {d \in Diff : d # v.cur /\ d >= lo /\ d <= hi /\ (lower => d < v.cur)}

\* retarget: the count of shares at the present difficulty starts again.
retarget(s, v, d) == push_job_at(s, [v EXCEPT !.cur = d, !.since = 0, !.count = 0])

RememberPinned(v, d) == d = v.cur
Counts(v, d) == d = v.cur /\ ~v.pinned

\* DiffCache::record at the fourth share (and then every 64th).
record(v, d) ==
    IF Counts(v, d) /\ v.count + 1 = MinShares
    THEN [addr EXCEPT !.last = d, !.updated = now] ELSE addr

\* on_verify_result with an accepted share served at d, and Vardiff::on_share.
on_share(s, d) ==
    /\ vd[s] # Gone /\ d \in jobs[s]
    /\ LET v == vd[s]
           counted == IF Counts(v, d) THEN [v EXCEPT !.count = Lesser(@ + 1, MinShares + 1)] ELSE v
           w == IF v.pinned THEN counted
                ELSE IF d # v.cur THEN [counted EXCEPT !.since = 0]
                ELSE [counted EXCEPT !.since = Lesser(@ + 1, GateShares)]
       IN /\ addr' = record(v, d)
          /\ earned' = IF v.pinned THEN earned ELSE earned \cup {d}
          /\ \/ vd' = [vd EXCEPT ![s] = w] /\ UNCHANGED jobs
             \/ /\ ~v.pinned /\ d = v.cur
                /\ \E to \in Steps(w, FALSE) : gate_open(w) /\ retarget(s, w, to)
    /\ UNCHANGED <<now, network>>

\* on_tick: silence only lowers; a new template or a refresh pushes a job.
on_tick_diff(s) ==
    /\ vd[s] # Gone
    /\ \/ ~vd[s].pinned /\ \E to \in Steps(vd[s], TRUE) : retarget(s, vd[s], to)
       \/ push_job_at(s, vd[s])
    /\ UNCHANGED <<now, network, addr, earned>>

Leaves(s) ==
    /\ vd[s] # Gone
    /\ vd' = [vd EXCEPT ![s] = Gone] /\ jobs' = [jobs EXCEPT ![s] = {}]
    /\ UNCHANGED <<now, network, addr, earned>>

NetworkMoves(d) == network' = d /\ UNCHANGED <<now, vd, jobs, addr, earned>>
Minutes == /\ now < MaxMinutes /\ now' = now + 1 /\ UNCHANGED <<network, vd, jobs, addr, earned>>

DiffInit ==
    /\ now = 1 /\ network = MaxDiff
    /\ vd = [s \in Session |-> Gone] /\ jobs = [s \in Session |-> {}]
    /\ addr = [last |-> 0, updated |-> 0, logins |-> 0, window |-> 0, storm |-> 0, floor |-> 0]
    /\ earned = {}

DiffNext ==
    \/ \E s \in Session : Leaves(s) \/ on_tick_diff(s)
    \/ \E s \in Session, d \in Diff : on_share(s, d)
    \/ \E s \in Session, pin \in {0, MaxDiff} : on_authorize_diff(s, pin)
    \/ \E d \in Diff : NetworkMoves(d)
    \/ Minutes

-----------------------------------------------------------------------------
\* session.rs: a pinned or one-off value never becomes another connection's
\* warm-up start.  What the cache holds was accepted by some session of the
\* address that was free to move, whatever order jobs, retargets, new network
\* difficulties and the answers to older jobs came in.
CacheEarned == addr.last # 0 => addr.last \in earned
=============================================================================
