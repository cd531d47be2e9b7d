----------------------------- MODULE AddrBook -----------------------------
(***************************************************************************)
(* The book of peer addresses: lib/p2p addr/addrman.rs, its file           *)
(* (addr/persist.rs) and the calls of net/node.rs that reach it.           *)
(*                                                                         *)
(* `book` keeps entries, the map from address to position, and counters    *)
(* per table and per source, all updated apart from each other.  The time  *)
(* of an address is one bit (`old`: last seen more than ADDR_MAX_AGE_SECS  *)
(* ago); `tries` ranks the addresses by their last attempt.  The source of an *)
(* address is the group of the peer that told of it, 0 for the operator.   *)
(* mark_foreign and select_feeler have no caller and are left out.         *)
(***************************************************************************)
EXTENDS Integers, Sequences, FiniteSets, SequencesExt

CONSTANTS
    Addr,               \* addresses (ip and port) that are admissible
    AddrGroup,          \* AddrGroup[a]: group_of its ip
    Source,             \* groups that tell of addresses
    NewMax, TriedMax,   \* ADDR_NEW_MAX, ADDR_TRIED_MAX
    PerSource,          \* ADDR_PER_SOURCE_GROUP_MAX
    DemoteAfter,        \* DEMOTE_AFTER_FAILURES
    DemoteAfterDeaths,  \* DEMOTE_AFTER_PROTOCOL_DEATHS
    PerGroup,           \* OUTBOUND_PER_GROUP
    MaxSample           \* bound: size of the books for which the sample is checked

ASSUME BookConstants ==
    /\ IsFiniteSet(Addr) /\ AddrGroup \in [Addr -> Nat] /\ Source \subseteq Nat \ {0}
    /\ {NewMax, TriedMax, PerSource, DemoteAfter, DemoteAfterDeaths, PerGroup, MaxSample}
           \subseteq Nat \ {0}

VARIABLES book, tries

bookVars == <<book, tries>>

EmptyBook == [entries |-> <<>>, index |-> <<>>, bySource |-> [s \in Source \cup {0} |-> 0],
              new |-> 0, tried |-> 0]

AddrEntry(a, seed, src, table) ==
    [addr |-> a, table |-> table, fail |-> 0, dead |-> 0, seed |-> seed, src |-> src, old |-> FALSE]

Has(b, a) == a \in DOMAIN b.index
At(b, a) == b.entries[b.index[a]]
InTable(b, table) == {i \in DOMAIN b.entries : b.entries[i].table = table}
Less(n) == IF n = 0 THEN 0 ELSE n - 1                 \* saturating_sub(1)

note_added(b, i) ==
    LET e == b.entries[i] IN
    [b EXCEPT !.index = [a \in DOMAIN b.index \cup {e.addr} |-> IF a = e.addr THEN i ELSE b.index[a]],
              !.new = IF e.table = "New" THEN b.new + 1 ELSE b.new,
              !.bySource = IF e.table = "New" THEN [b.bySource EXCEPT ![e.src] = @ + 1] ELSE b.bySource,
              !.tried = IF e.table = "Tried" THEN b.tried + 1 ELSE b.tried]

note_removed(b, e) ==
    [b EXCEPT !.index = [a \in DOMAIN b.index \ {e.addr} |-> b.index[a]],
              !.new = IF e.table = "New" THEN Less(b.new) ELSE b.new,
              !.bySource = IF e.table = "New" THEN [b.bySource EXCEPT ![e.src] = Less(@)] ELSE b.bySource,
              !.tried = IF e.table = "Tried" THEN Less(b.tried) ELSE b.tried]

push(b, e) == note_added([b EXCEPT !.entries = Append(@, e)], Len(b.entries) + 1)

\* the last entry takes the place of the removed one
SwapRemoved(b, i) ==
    LET n == Len(b.entries) IN
    note_removed([b EXCEPT !.entries = [k \in 1..n - 1 |-> IF k = i THEN b.entries[n] ELSE b.entries[k]]],
                 b.entries[i])

remove_at(b, i) ==
    LET r == SwapRemoved(b, i) IN
    IF i <= Len(r.entries) THEN [r EXCEPT !.index = [r.index EXCEPT ![r.entries[i].addr] = i]] ELSE r

Wrote(b, i, e) == [b EXCEPT !.entries = [b.entries EXCEPT ![i] = e]]

set_table(b, i, table) ==
    LET e == b.entries[i]
        w == Wrote(b, i, [e EXCEPT !.table = table])
    IN  IF e.table = table THEN b
        ELSE IF table = "Tried"
             THEN [w EXCEPT !.new = Less(w.new), !.tried = w.tried + 1,
                            !.bySource = [w.bySource EXCEPT ![e.src] = Less(@)]]
             ELSE [w EXCEPT !.new = w.new + 1, !.tried = Less(w.tried),
                            !.bySource = [w.bySource EXCEPT ![e.src] = @ + 1]]

\* in table, as if it had not failed `fail` times (and `dead`)
Settled(b, i, table, dead) ==
    LET s == set_table(b, i, table)
    IN  Wrote(s, i, [s.entries[i] EXCEPT !.fail = 0, !.dead = IF dead THEN 0 ELSE @])

\* told by a peer before told by the operator, then the busiest source, then the busiest group
EvictKey(b, e) ==
    <<IF e.src # 0 THEN 1 ELSE 0, b.bySource[e.src],
      Cardinality({k \in InTable(b, "New") : AddrGroup[b.entries[k].addr] = AddrGroup[e.addr]})>>

Above(x, y) == \E n \in 1..3 : x[n] > y[n] /\ \A m \in 1..n - 1 : x[m] = y[m]

\* the first entry of New whose key none exceeds
evict_one_new(b) ==
    LET new == InTable(b, "New")
        Key(i) == EvictKey(b, b.entries[i])
        victims == {i \in new : \A j \in new : ~Above(Key(j), Key(i)) /\ (j < i => Key(j) # Key(i))}
    IN  IF new = {} THEN b ELSE remove_at(b, CHOOSE i \in victims : TRUE)

\* the ranks of the attempts in t, those of the addresses in s
Ranks(t, s) == [a \in s |-> Cardinality({x \in s : t[x] <= t[a]})]

\* attempts of addresses the book forgot are forgotten with their entries
Becomes(b) == book' = b /\ tries' = Ranks(tries, DOMAIN tries \cap DOMAIN b.index)

\* when a was tried last: 0 for never (last_attempt.unwrap_or(ZERO))
Attempt(a) == IF a \in DOMAIN tries THEN tries[a] ELSE 0

BookInit == book = EmptyBook /\ tries = <<>>

\* add: learn_address (a peer's own word) and add_address (the operator: `seed`)
Add(a, seed) ==
    IF Has(book, a)
    THEN Becomes(Wrote(book, book.index[a],
                       [At(book, a) EXCEPT !.old = FALSE, !.seed = @ \/ seed]))
    ELSE Becomes(push(IF book.new >= NewMax THEN evict_one_new(book) ELSE book,
                      AddrEntry(a, seed, 0, "New")))

\* add_from_peer: what a record of an Addr message, or the Hello of an inbound peer, does
AddFromPeer(a, src) ==
    \/ Has(book, a) /\ Becomes(Wrote(book, book.index[a], [At(book, a) EXCEPT !.old = FALSE]))
    \/ /\ ~Has(book, a) /\ book.bySource[src] < PerSource /\ book.new < NewMax
       /\ Becomes(push(book, AddrEntry(a, FALSE, src, "New")))

\* time passes: nothing was heard of a for ADDR_MAX_AGE_SECS
AddrAges(a) ==
    /\ Has(book, a) /\ ~At(book, a).old
    /\ Becomes(Wrote(book, book.index[a], [At(book, a) EXCEPT !.old = TRUE]))

\* reap_expired: each entry of New that is old, unless the operator named it
ReapOne(s) ==
    LET e == s.b.entries[s.i] IN
    IF e.table = "New" /\ ~e.seed /\ e.old THEN [b |-> remove_at(s.b, s.i), i |-> s.i]
    ELSE [b |-> s.b, i |-> s.i + 1]

\* each turn removes an entry or passes one by, so there are as many as entries
Reaped(b) ==
    LET scan[k \in 0..Len(b.entries)] == IF k = 0 THEN [b |-> b, i |-> 1] ELSE ReapOne(scan[k - 1])
    IN  scan[Len(b.entries)].b

reap_expired == Becomes(Reaped(book))

\* enforce_tried_cap: back to New with the entry tried the longest time ago.  One turn of its
\* loop: it runs after each promotion, of a book within the cap (BookBounded).
enforce_tried_cap(b) ==
    LET tried == InTable(b, "Tried")
        oldest == CHOOSE i \in tried : \A j \in tried :
                      \/ Attempt(b.entries[i].addr) < Attempt(b.entries[j].addr)
                      \/ Attempt(b.entries[i].addr) = Attempt(b.entries[j].addr) /\ i <= j
    IN  IF b.tried > TriedMax THEN Settled(b, oldest, "New", FALSE)
        ELSE b

\* conn.rs: the handshake with an address dialled succeeded (the time it was seen stays)
on_handshake_ok(a) ==
    Has(book, a) /\ Becomes(enforce_tried_cap(Settled(book, book.index[a], "Tried", FALSE)))

\* the dial failed, or the handshake did (`protocol`)
on_failure(a, protocol) ==
    /\ Has(book, a)
    /\ LET i == book.index[a]
           e == [At(book, a) EXCEPT !.fail = IF @ = DemoteAfter THEN @ ELSE @ + 1,
                                    !.dead = IF protocol /\ @ < DemoteAfterDeaths
                                             THEN @ + 1 ELSE @]
           b == Wrote(book, i, e)
       IN  Becomes(IF e.table = "Tried" /\ (e.fail >= DemoteAfter \/ e.dead >= DemoteAfterDeaths)
                   THEN Settled(b, i, "New", TRUE) ELSE b)

\* dial_loop: the attempt is noted before it is made
note_attempt(a) ==
    /\ Has(book, a) /\ UNCHANGED book
    /\ LET tried == DOMAIN tries \cup {a}
       IN  tries' = Ranks([x \in tried |-> IF x = a THEN Cardinality(tried) + 1 ELSE tries[x]], tried)

\* mutant of Loads: one cap for both tables
OneCap(b, r) == b.new < NewMax /\ b.bySource[r.src] < PerSource

\* restore: a record of the file is loaded unless old, known or over its table's limits
Loads(b, r) ==
    IF r.table = "Tried" THEN b.tried < TriedMax
    ELSE b.bySource[r.src] < PerSource /\ b.new < NewMax

RestoreOne(b, r) ==
    IF ~r.old /\ ~Has(b, r.addr) /\ Loads(b, r)
    THEN push(b, AddrEntry(r.addr, FALSE, r.src, r.table)) ELSE b

Restored(recs) ==
    LET load[k \in 0..Len(recs)] == IF k = 0 THEN EmptyBook ELSE RestoreOne(load[k - 1], recs[k])
    IN  load[Len(recs)]

\* addr_snapshot, the end of the process, load_addrs: the file holds at most NewMax + TriedMax
\* entries (persist::encode) and is read in a random order
Restart ==
    LET n == Len(book.entries)
        kept == IF n > NewMax + TriedMax THEN NewMax + TriedMax ELSE n
    IN  \E order \in SetToSeqs(1..kept) :
            /\ book' = Restored([k \in 1..kept |-> book.entries[order[k]]])
            /\ tries' = <<>>

BookNext ==
    \/ \E a \in Addr :
           \/ \E seed \in BOOLEAN : Add(a, seed) \/ on_failure(a, seed)
           \/ \E src \in Source : AddFromPeer(a, src)
           \/ AddrAges(a) \/ on_handshake_ok(a) \/ note_attempt(a)
    \/ reap_expired \/ Restart

-----------------------------------------------------------------------------
(* What a dial and an answer to GetAddr read.                              *)

Grouped(s, g) == {a \in s : AddrGroup[a] = g}

\* mutant of GroupFull: the peers we have do not count
GroupFullOfPicked(used, connected, g) == used[g] - Cardinality(Grouped(connected, g)) >= PerGroup

\* used[g]: peers of the group, connected or picked
GroupFull(used, connected, g) == used[g] >= PerGroup

Eligible_dial(e, connected, expired) == e.addr \notin connected /\ (Attempt(e.addr) = 0 \/ e.addr \in expired)

DialOne(s, e, table, want, connected, expired) ==
    IF e.table # table \/ Len(s.out) >= want \/ ~Eligible_dial(e, connected, expired)
       \/ GroupFull(s.used, connected, AddrGroup[e.addr]) THEN s
    ELSE [used |-> [s.used EXCEPT ![AddrGroup[e.addr]] = @ + 1], out |-> Append(s.out, e.addr)]

\* tried entries first, each in the order of the book
select_dial_filtered(want, connected, expired) ==
    LET n == Len(book.entries)
        used == [g \in Range(AddrGroup) |-> Cardinality(Grouped(connected, g))]
        pick[k \in 0..2 * n] ==
            IF k = 0 THEN [used |-> used, out |-> <<>>]
            ELSE IF k <= n
            THEN DialOne(pick[k - 1], book.entries[k], "Tried", want, connected, expired)
            ELSE DialOne(pick[k - 1], book.entries[k - n], "New", want, connected, expired)
    IN  pick[2 * n].out

gcd[p \in Nat \X Nat] == IF p[2] = 0 THEN p[1] ELSE gcd[<<p[2], p[1] % p[2]>>]

\* the first number from a random one on, round 1..n-1, that has no divisor in common with n
coprime_stride(n, draw) ==
    IF n <= 2 THEN 1
    ELSE LET From_draw(k) == 1 + ((draw + k) % (n - 1))
             good == {k \in 0..n - 1 : gcd[<<From_draw(k), n>>] = 1}
         IN  IF good = {} THEN 1
             ELSE From_draw(CHOOSE k \in good : \A j \in good : k <= j)

\* sample: the positions it looks at, from a random one on
Probed(n, start, draw) == [k \in 0..n - 1 |-> (start + k * coprime_stride(n, draw)) % n]

-----------------------------------------------------------------------------

\* AddrMan::counters_consistent: after any calls the index, the table counters and the counters
\* per source say what the entries say (remove_at moves an entry, set_table moves a count).
BookConsistent ==
    /\ book.new = Cardinality(InTable(book, "New")) /\ book.tried = Cardinality(InTable(book, "Tried"))
    /\ DOMAIN book.index = {book.entries[i].addr : i \in DOMAIN book.entries}
    /\ \A i \in DOMAIN book.entries : book.index[book.entries[i].addr] = i
    /\ \A s \in Source \cup {0} :
           book.bySource[s] = Cardinality({i \in InTable(book, "New") : book.entries[i].src = s})

\* Demotions may carry New past its cap, but the two tables together never outgrow the file
\* (persist.rs drops what is beyond, and refuses a longer file).
BookBounded == Len(book.entries) <= NewMax + TriedMax /\ book.tried <= TriedMax

\* An address the operator gave is evicted for another only when New holds none a peer told of.
EvictionSpares ==
    [][\A x, y \in Addr :
           /\ Has(book, x) /\ ~Has(book', x) /\ ~Has(book, y) /\ Has(book', y)
           /\ At(book, x).src = 0
           => \A i \in InTable(book, "New") : book.entries[i].src = 0]_bookVars

\* A restart keeps every tried address heard of lately, in any order of the file.
RestartKeepsTried ==
    [][Restart => \A a \in Addr :
           Has(book, a) /\ At(book, a).table = "Tried" /\ ~At(book, a).old
           => Has(book', a) /\ At(book', a).table = "Tried"]_bookVars

\* A dial list never brings a group past its share, counting the peers already connected, and
\* takes a New address only when no Tried one with room in its group is left.
DialsDiverse ==
    \A connected \in SUBSET Addr, expired \in {{}, DOMAIN tries}, want \in 1..2 :
        LET out == select_dial_filtered(want, connected, expired)
            InGroup(a, s) == Cardinality(Grouped(s, AddrGroup[a]))
        IN  /\ \A a \in Range(out) : InGroup(a, connected \cup Range(out)) <= PerGroup
            /\ Len(out) < want \/ (\E a \in Range(out) : At(book, a).table = "New") =>
                   \A i \in DOMAIN book.entries :
                       LET e == book.entries[i] IN
                       /\ e.addr \notin Range(out) /\ Eligible_dial(e, connected, expired)
                       /\ e.table = "Tried" \/ Len(out) < want
                       => InGroup(e.addr, connected \cup Range(out)) >= PerGroup

\* An answer to GetAddr never looks at an address twice, whatever the size of the book.
SampleDistinct ==
    \A n \in 1..MaxSample : \A start, draw \in 0..n - 1 :
        draw < (IF n > 1 THEN n - 1 ELSE 1) => IsInjective(Probed(n, start, draw))

\* The book at any moment: index and counters, sizes, dial lists and answers.
BookSound == BookConsistent /\ BookBounded /\ DialsDiverse /\ SampleDistinct

\* What a step may do to it: evict, and restart.
BookSteps == EvictionSpares /\ RestartKeepsTried
=============================================================================
