----------------------------- MODULE TxRelay -----------------------------
(***************************************************************************)
(* How a node relays transactions: lib/p2p sync/tx_relay.rs, the events of *)
(* sync/mod.rs that reach it and the queue in front of the engine          *)
(* (engine/mod.rs).                                                        *)
(*                                                                         *)
(* The engine thread sorts what is waiting into control and bulk messages  *)
(* and handles the control ones first: a peer is found ready or gone at    *)
(* once, and the messages it sent before may be handled after it is gone.  *)
(* A peer is one connection (a PeerId is never used twice), a transaction  *)
(* its id.                                                                 *)
(***************************************************************************)
EXTENDS Integers, Sequences, FiniteSets, SequencesExt

CONSTANTS
    TxPeer, Tx,         \* connections; transactions
    SeenMax,            \* SEEN_TX_GLOBAL
    KnownMax,           \* KNOWN_TX_PER_PEER
    InflightMax,        \* TX_INFLIGHT_MAX
    InflightPerPeer,    \* TX_INFLIGHT_PER_PEER
    QueueMax,           \* TX_ANNOUNCE_QUEUE_MAX
    PerInv              \* INV_TX_PER_MSG

ASSUME TxConstants ==
    /\ IsFiniteSet(TxPeer) /\ IsFiniteSet(Tx)
    /\ {SeenMax, KnownMax, InflightMax, InflightPerPeer, QueueMax, PerInv}
           \subseteq Nat \ {0}

VARIABLES
    relay,      \* TxRelay: seen, known, inflight, pending
    link,       \* link[p]: "new", "ready" or "gone"
    invs,       \* invs[p]: what this step announces to p
    told        \* history: what p told us or was told

relayVars == <<relay, link, invs, told>>

\* an IdSet: the newest ids, oldest first; inserting a known one changes nothing
IdSetInsert(s, t, cap) ==
    IF t \in Range(s) THEN s
    ELSE LET n == Append(s, t) IN IF Len(n) > cap THEN Tail(n) ELSE n

note_known(r, p, t) == [r EXCEPT !.known[p] = IdSetInsert(@, t, KnownMax)]

queue_announce(r, t) ==
    IF t \in Range(r.pending) THEN r
    ELSE LET n == Append(r.pending, t) IN
         [r EXCEPT !.pending = IF Len(n) > QueueMax THEN Tail(n) ELSE n]

Inflight(r, p) == {t \in Tx : r.inflight[t] = {p}}
AnyInflight(r) == {t \in Tx : r.inflight[t] # {}}

\* the common cap does not count what this message wants already
NoRoomForPeer(r, p, want) == Cardinality(Inflight(r, p)) + Len(want) >= InflightPerPeer
NoRoom(r, p, want) ==
    Cardinality(AnyInflight(r)) >= InflightMax \/ NoRoomForPeer(r, p, want)

\* on_announced, one id of an Inv: noted, and wanted unless it is seen or in
\* flight; the first that finds no room ends the reading
ReadId(r, p, w, t) ==
    LET noted == [w EXCEPT !.known = IdSetInsert(@, t, KnownMax), !.read = @ \cup {t}] IN
    IF w.full THEN w
    ELSE IF t \in Range(r.seen) \/ r.inflight[t] # {} THEN noted
    ELSE IF NoRoom(r, p, w.want) THEN [noted EXCEPT !.full = TRUE]
    ELSE [noted EXCEPT !.want = Append(@, t)]

Wanted(r, p, ids) ==
    LET after[i \in 0..Len(ids)] ==
            IF i = 0 THEN [known |-> r.known[p], want |-> <<>>, full |-> FALSE, read |-> {}]
            ELSE ReadId(r, p, after[i - 1], ids[i])
    IN after[Len(ids)]

on_announced(r, p, ids) ==
    LET w == Wanted(r, p, ids)
    IN  [r EXCEPT !.known[p] = w.known,
                  !.inflight = [t \in Tx |-> IF t \in Range(w.want) THEN {p} ELSE @[t]]]

Silent == [p \in TxPeer |-> {}]

RelayInit ==
    /\ relay = [seen |-> <<>>, known |-> [p \in TxPeer |-> <<>>],
                inflight |-> [t \in Tx |-> {}], pending |-> <<>>]
    /\ link = [p \in TxPeer |-> "new"] /\ invs = Silent
    /\ told = [p \in TxPeer |-> {}]

\* a message of p reaches the engine: p is connected, or was when it wrote it
From(p) == link[p] # "new"

\* what one connection spoke of, up to KnownMax; beyond that, everything
Spoken(ts) == IF Cardinality(ts) > KnownMax THEN Tx ELSE ts
Heard(p, ts) == told' = [told EXCEPT ![p] = Spoken(@ \cup ts)]

\* Event::AnnouncedTx: an Inv, which may repeat an id; what is behind the id
\* that finds no room is not read
AnnouncedTx(p, ids) ==
    /\ From(p) /\ relay' = on_announced(relay, p, ids) /\ invs' = Silent
    /\ Heard(p, Wanted(relay, p, ids).read)
    /\ UNCHANGED link

\* Event::Tx: only a body asked of this peer and not seen before reaches the sink
OnTx(p, t) ==
    LET r == note_known(relay, p, t)
        asked == [r EXCEPT !.inflight[t] = {}]
        once == [asked EXCEPT !.seen = IdSetInsert(@, t, SeenMax)]
    IN  /\ From(p) /\ Heard(p, {t}) /\ invs' = Silent
        /\ \/ r.inflight[t] # {p} /\ relay' = r
           \/ r.inflight[t] = {p} /\ t \in Range(r.seen) /\ relay' = asked
           \/ /\ r.inflight[t] = {p} /\ t \notin Range(r.seen)
              /\ relay' \in {queue_announce(once, t), once}     \* the sink takes or refuses it
        /\ UNCHANGED link

\* Event::NotFoundTx
OnNotFound(p, t) ==
    /\ From(p) /\ invs' = Silent
    /\ relay' = IF relay.inflight[t] = {p} THEN [relay EXCEPT !.inflight[t] = {}] ELSE relay
    /\ UNCHANGED <<link, told>>

\* Event::PeerReady and Event::PeerGone
TxPeerReady(p) ==
    /\ link[p] = "new" /\ link' = [link EXCEPT ![p] = "ready"] /\ invs' = Silent
    /\ UNCHANGED <<relay, told>>

TxPeerGone(p) ==
    /\ link[p] = "ready" /\ link' = [link EXCEPT ![p] = "gone"] /\ invs' = Silent
    /\ relay' = [relay EXCEPT !.known[p] = <<>>,
                              !.inflight = [t \in Tx |-> @[t] \ {p}]]
    /\ UNCHANGED told

\* on_tick: the ids the chain's pool lists, in any order, are queued unless seen
PollId(r, t) ==
    IF t \in Range(r.seen) THEN r
    ELSE queue_announce([r EXCEPT !.seen = IdSetInsert(@, t, SeenMax)], t)

Polled(r, ids) ==
    LET after[i \in 0..Len(ids)] == IF i = 0 THEN r ELSE PollId(after[i - 1], ids[i])
    IN after[Len(ids)]

TxBatch(r) == SubSeq(r.pending, 1, IF Len(r.pending) < PerInv THEN Len(r.pending) ELSE PerInv)

\* what the batch tells p, and what p is then known to know: told ids are noted in turn
Items(r, p) == Range(TxBatch(r)) \ Range(r.known[p])
Noted(r, p) ==
    LET batch == TxBatch(r)
        after[i \in 0..Len(batch)] ==
            IF i = 0 THEN r.known[p]
            ELSE IF batch[i] \in Items(r, p) THEN IdSetInsert(after[i - 1], batch[i], KnownMax)
            ELSE after[i - 1]
    IN after[Len(batch)]

\* mutants of AfterTxBatch: an announcement is not noted; a batch nobody needs stays
ForgetsAnnounced(r, ready) == [r EXCEPT !.pending = SubSeq(@, Len(TxBatch(r)) + 1, Len(@))]
StaysUnlessNeeded(r, ready) ==
    [r EXCEPT !.pending = IF \A p \in ready : Items(r, p) = {} THEN @
                          ELSE SubSeq(@, Len(TxBatch(r)) + 1, Len(@)),
              !.known = [p \in TxPeer |-> IF p \in ready THEN Noted(r, p) ELSE @[p]]]

\* the batch leaves the queue once any peer is ready, whether or not one needed it
AfterTxBatch(r, ready) ==
    [r EXCEPT !.known = [p \in TxPeer |-> IF p \in ready THEN Noted(r, p) ELSE @[p]],
              !.pending = SubSeq(@, Len(TxBatch(r)) + 1, Len(@))]

\* on_tick with the requests in `late` past their deadline
TxTick(late, poll) ==
    LET ready == {p \in TxPeer : link[p] = "ready"}
        r0 == [relay EXCEPT !.inflight = [t \in Tx |-> IF t \in late THEN {} ELSE @[t]]]
    IN  \E pool \in IF poll THEN SUBSET Tx ELSE {{}} : \E ids \in SetToSeqs(pool) :
            LET r == Polled(r0, ids) IN
            IF r.pending = <<>> \/ ready = {}
            THEN relay' = r /\ invs' = Silent /\ UNCHANGED <<link, told>>
            ELSE /\ invs' = [p \in TxPeer |-> IF p \in ready THEN Items(r, p) ELSE {}]
                 /\ relay' = AfterTxBatch(r, ready)
                 /\ told' = [p \in TxPeer |-> Spoken(told[p] \cup invs'[p])]
                 /\ UNCHANGED link

AnyTxTick == \E late \in SUBSET AnyInflight(relay), poll \in BOOLEAN : TxTick(late, poll)

RelayNext ==
    \/ \E p \in TxPeer : TxPeerReady(p) \/ TxPeerGone(p)
    \/ \E p \in TxPeer, t \in Tx : OnTx(p, t) \/ OnNotFound(p, t)
    \/ \E p \in TxPeer, ids \in SeqOf(Tx, 2) \ {<<>>} : AnnouncedTx(p, ids)
    \/ AnyTxTick

-----------------------------------------------------------------------------

\* The relay's state: no peer in flight for a transaction but one, no set above its cap.
RelayTypeOK ==
    /\ \A t \in Tx : Cardinality(relay.inflight[t]) <= 1
    /\ Len(relay.seen) <= SeenMax /\ Len(relay.pending) <= QueueMax
    /\ \A p \in TxPeer : Len(relay.known[p]) <= KnownMax
    /\ link \in [TxPeer -> {"new", "ready", "gone"}]

\* Requests are bounded although the cap is looked at once per id and counted once per message:
\* each peer holds its share at most, all of them one share above the common cap at most.
RequestsBounded ==
    /\ \A p \in TxPeer : Cardinality(Inflight(relay, p)) <= InflightPerPeer
    /\ Cardinality(AnyInflight(relay)) <= InflightMax + InflightPerPeer - 1

\* The two together: requests and sets stay within their bounds.
RelaySound == RelayTypeOK /\ RequestsBounded

\* A peer is never told of a transaction that it told us of, or was told of before, as long as
\* its connection has spoken of no more than KnownMax: `known` is written on every path (an Inv,
\* a body even when unsolicited, our own Inv), before the answer is looked at.  Only what an Inv
\* lists behind the id that finds no room is not remembered (on_announced breaks there), and
\* may come back to the peer.
NotEchoed ==
    [][\A p \in TxPeer : Cardinality(told[p]) <= KnownMax => invs'[p] \cap told[p] = {}]_relayVars

\* A transaction that waits to be announced leaves the queue unless no peer is ready: ids every
\* peer knows already do not hold up those behind them.
QueueDrains ==
    \A t \in Tx : [](t \in Range(relay.pending) ~>
                     (t \notin Range(relay.pending) \/ \A p \in TxPeer : link[p] # "ready"))
=============================================================================
