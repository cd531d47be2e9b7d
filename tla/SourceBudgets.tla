--------------------------- MODULE SourceBudgets ---------------------------
(***************************************************************************)
(* What each peer may cost the consensus thread: the interpreter budget of *)
(* headers (lib/chain header.rs) and the admission of transactions         *)
(* (Ingress, mempool.rs).  Both are a table of rows, one per source, with  *)
(* a bucket of its own and a reserve, above one bucket all sources share;  *)
(* a behaviour follows one of the two tables.  Nothing in the node removes *)
(* the row of a peer that left: it goes when another source needs the room.*)
(***************************************************************************)
EXTENDS Integers, FiniteSets, FiniteSetsExt, Functions

CONSTANTS
    Client,                  \* sources that may ask
    RowCap,                  \* max_sources
    CallCost,                \* cost_micros, TX_COST_MILLI
    OwnRule, SharedRule, ReserveRule,  \* [rate, per, burst]: rate units in per ticks, up to burst
    CallsMax,                \* bound: verifications in one batch
    Patience, MonoMax        \* ticks a patient source waits; bound of the clock

ASSUME BudgetConstants ==
    /\ IsFiniteSet(Client) /\ Client \subseteq Nat  \* a source is a number
    /\ RowCap \in Nat \ {0} /\ CallCost \in Nat \ {0}
    /\ \A r \in {OwnRule, SharedRule, ReserveRule} :
          r.rate \in Nat \ {0} /\ r.per \in Nat \ {0} /\ r.burst \in Nat
    /\ {CallsMax, Patience, MonoMax} \subseteq Nat
    \* class_reserve_is_survivable, with what rounding may lose
    /\ Patience * ReserveRule.rate >= CallCost * ReserveRule.per

VARIABLES
    budget,  \* [kind, shared: bucket, rows: source -> [own, reserve, fails, parked, asked]]
    mono,    \* mono_ms
    spent,   \* what all calls cost so far
    starved  \* the last request was refused, though its source had a row and waited

budgetVars == <<budget, mono, spent, starved>>

FullBucket(rule, now) == [level |-> rule.burst, last |-> now]

\* mutant: the fraction of a unit is lost at every call
RefillLoses(b, rule, now) ==
    [level |-> Min({b.level + ((now - b.last) * rule.rate) \div rule.per, rule.burst}), last |-> now]
\* what is less than a unit waits for a later call: the clock stays
Refill(b, rule, now) ==
    LET more == ((now - b.last) * rule.rate) \div rule.per IN
    IF more > 0 THEN [level |-> Min({b.level + more, rule.burst}), last |-> now] ELSE b

NewRow(now) == [own |-> FullBucket(OwnRule, now), reserve |-> FullBucket(ReserveRule, now), fails |-> 0, parked |-> 0, asked |-> now]
RefillRow(row, now) ==
    [row EXCEPT !.own = Refill(@, OwnRule, now), !.reserve = Refill(@, ReserveRule, now)]

budgets_full(row) == row.fails = 0 /\ row.own.level >= OwnRule.burst /\ row.reserve.level >= ReserveRule.burst

\* mutant: any row makes room, one that owes as well
VictimsOwing(rows) == DOMAIN rows
\* an idle source of the lowest id, else the one with the least parked
\* headers; transactions park nothing and any full row will do
Victims(rows) ==
    LET full == {s \in DOMAIN rows : budgets_full(rows[s])}
        idle == {s \in full : rows[s].parked = 0}
    IN  IF budget.kind = "txs" THEN full
        ELSE IF idle # {} THEN {Min(idle)}
        ELSE {s \in full : \A r \in full \ {s} :
                \/ rows[s].parked < rows[r].parked
                \/ (rows[s].parked = rows[r].parked /\ s < r)}

WithRow(rows, s, row) == [r \in DOMAIN rows \cup {s} |-> IF r = s THEN row ELSE rows[r]]

\* the tables touch may leave, the row of s in them; none if all rows owe
touch(s) ==
    LET rows == budget.rows
        fresh == [r \in DOMAIN rows |-> RefillRow(rows[r], mono)]
    IN  IF s \in DOMAIN rows THEN {WithRow(rows, s, RefillRow(rows[s], mono))}
        ELSE IF Cardinality(DOMAIN rows) < RowCap THEN {WithRow(rows, s, NewRow(mono))}
        ELSE {WithRow(Restrict(fresh, DOMAIN fresh \ {v}), s, NewRow(mono)) : v \in Victims(fresh)}
Refilled == [r \in DOMAIN budget.rows |-> RefillRow(budget.rows[r], mono)]

\* spend_class_budget: the shared bucket first, then the reserve
Affords(t, s) ==
    /\ t.rows[s].own.level >= CallCost
    /\ t.shared.level >= CallCost \/ t.rows[s].reserve.level >= CallCost
Spend(t, s) ==
    IF t.shared.level >= CallCost
    THEN [t EXCEPT !.shared.level = @ - CallCost, !.rows[s].own.level = @ - CallCost]
    ELSE [t EXCEPT !.rows[s].reserve.level = @ - CallCost, !.rows[s].own.level = @ - CallCost]
SpendUpTo(t, s, n) ==
    LET after[k \in 0..n] ==
            IF k = 0 THEN [t |-> t, calls |-> 0]
            ELSE IF after[k - 1].calls = k - 1 /\ Affords(after[k - 1].t, s)
                 THEN [t |-> Spend(after[k - 1].t, s), calls |-> k]
                 ELSE after[k - 1]
    IN  after[n]

Answer(s, ok, calls) ==
    /\ starved' = (~ok /\ s \in DOMAIN budget.rows /\ mono - budget.rows[s].asked >= Patience)
    /\ spent' = spent + calls * CallCost
    /\ UNCHANGED mono

SharedNow == Refill(budget.shared, SharedRule, mono)

TooManySources(s) ==
    /\ touch(s) = {}
    /\ budget' = [budget EXCEPT !.shared = SharedNow, !.rows = Refilled]
    /\ Answer(s, FALSE, 0)

\* submit_headers: up to want verifications; the last may fail, and what is
\* not verified stays parked.  A new tip or time forgives the failures.
submit_headers_cost(s) ==
    /\ budget.kind = "headers"
    /\ \E rows \in touch(s), want \in 1..CallsMax, forgiven, bad \in BOOLEAN :
         \E done \in {SpendUpTo([shared |-> SharedNow, rows |-> rows], s, want)} :
            /\ bad => done.calls > 0
            /\ budget' = [budget EXCEPT !.shared = done.t.shared, !.rows =
                   [done.t.rows EXCEPT ![s].fails = (IF forgiven THEN 0 ELSE @) + (IF bad THEN 1 ELSE 0),
                                       ![s].parked = IF bad THEN 0 ELSE want - done.calls,
                                       ![s].asked = mono]]
            /\ budget'.rows[s].fails <= 1
            /\ Answer(s, done.calls > 0, done.calls)

\* Ingress::admit
admit_tx(s) ==
    /\ budget.kind = "txs"
    /\ \E rows \in touch(s) : \E done \in {SpendUpTo([shared |-> SharedNow, rows |-> rows], s, 1)} :
          /\ budget' = [budget EXCEPT !.shared = done.t.shared,
                                       !.rows = [done.t.rows EXCEPT ![s].asked = mono]]
          /\ Answer(s, done.calls = 1, done.calls)

MonoTick == mono < MonoMax /\ mono' = mono + 1 /\ UNCHANGED <<budget, spent, starved>>

BudgetInit ==
    /\ mono = 0 /\ spent = 0 /\ starved = FALSE
    /\ budget \in [kind : {"headers", "txs"}, shared : {FullBucket(SharedRule, 0)}, rows : {<<>>}]

BudgetNext ==
    \/ \E s \in Client : submit_headers_cost(s) \/ admit_tx(s) \/ TooManySources(s)
    \/ MonoTick
-----------------------------------------------------------------------------
\* Whatever the others ask, a source that has a row and waited for the time
\* its reserve takes to pay for one call is served (types.rs: "Every peer's
\* reserve must refill one interpreter call per 30s or honest peers starve").
PatientServed == ~starved

\* Rows come and go, and a new one starts with a full reserve; still all
\* sources together never cost more than the shared bucket and one reserve
\* per row pay for: a row that owes is not traded for a fresh one.
ClassBound ==
    LET per == SharedRule.per * ReserveRule.per IN
    spent * per <= (SharedRule.burst + RowCap * ReserveRule.burst) * per
                   + mono * (SharedRule.rate * ReserveRule.per + RowCap * ReserveRule.rate * SharedRule.per)
=============================================================================
