------------------------------- MODULE Conns -------------------------------
(***************************************************************************)
(* The connections of a node: who gets a slot and a descriptor, what is    *)
(* queued for a peer, and what is given back when it leaves (lib/p2p       *)
(* net/conn.rs, net/node.rs, net/limits.rs, engine/fd.rs).                 *)
(*                                                                         *)
(* Each connection is a task of its own beside the accept loop, the dial   *)
(* loop, a writer task and the engine's threads that queue messages; the   *)
(* counters they share are atomics and small locked maps, each updated     *)
(* apart from the others.  Bytes are small numbers: a control frame and a  *)
(* ping have CtlBytes, an answer has BulkBytes, counters wrap at Wrap.     *)
(***************************************************************************)
EXTENDS Integers, Sequences, FiniteSets, FiniteSetsExt

CONSTANTS
    Link,                          \* connections
    LinkIp,                        \* LinkIp[c]: the address it comes from or goes to
    IpGroup,                       \* IpGroup[i]: group_of
    MaxInbound, MaxOutbound,       \* MAX_INBOUND, MAX_OUTBOUND
    InPerIp, InPerGroup,           \* INBOUND_PER_IP, INBOUND_PER_GROUP
    OutPerGroup,                   \* OUTBOUND_PER_GROUP
    FdPeer, FdShake, FdDial,       \* FD_PEERS, FD_INBOUND_HANDSHAKE, FD_TRANSIENT_DIALS
    OutboxBytes, OutboxSoft,       \* OUTBOX_BYTES, OUTBOX_SOFT_BYTES
    OutboxPool, OutboxItems,       \* OUTBOX_POOL_BYTES, OUTBOX_ITEMS
    CtlBytes, BulkBytes,           \* sizes of the frames
    Wrap                           \* 2^64

ASSUME ConnConstants ==
    /\ DOMAIN LinkIp = Link /\ IsFiniteSet(Link) /\ Range(LinkIp) \subseteq DOMAIN IpGroup
    /\ {MaxInbound, MaxOutbound, InPerIp, InPerGroup, OutPerGroup, FdPeer, FdShake, FdDial,
        OutboxBytes, OutboxSoft, OutboxPool, OutboxItems, CtlBytes, BulkBytes, Wrap} \subseteq Nat \ {0}
    /\ OutboxPool < Wrap

VARIABLES
    conn,      \* conn[c]: what became of it, and its writer
    acct,      \* the shared counters
    dead       \* a task panicked while it held the lock of `peers`

connVars == <<conn, acct, dead>>

Free == [at |-> "none", out |-> FALSE, kill |-> FALSE, writer |-> "none", ctl |-> 0, bulk |-> 0,
         writing |-> 0, outbox |-> 0]

ConnInit ==
    /\ conn = [c \in Link |-> Free] /\ dead = FALSE
    /\ acct = [inbound |-> 0, outbound |-> 0, dialing |-> 0, pool |-> 0,
               ip |-> [i \in DOMAIN IpGroup |-> 0],
               inGroup |-> [g \in Range(IpGroup) |-> 0], outGroup |-> [g \in Range(IpGroup) |-> 0],
               peer |-> 0, shake |-> 0, dial |-> 0]

Ip(c) == LinkIp[c]
Group_of(c) == IpGroup[LinkIp[c]]
Drop(n) == IF n = 0 THEN 0 ELSE n - 1

\* ConnLimits
admit_inbound(a, c) == [a EXCEPT !.ip[Ip(c)] = @ + 1, !.inGroup[Group_of(c)] = @ + 1]
release_inbound(a, c) == [a EXCEPT !.ip[Ip(c)] = Drop(@), !.inGroup[Group_of(c)] = Drop(@)]
release_outbound(a, c) == [a EXCEPT !.outGroup[Group_of(c)] = Drop(@)]

\* FdLease: dropped with the class it has now
Dropped(a, c) ==
    IF conn[c].at = "up" THEN [a EXCEPT !.peer = @ - 1]
    ELSE IF conn[c].out THEN [a EXCEPT !.dial = @ - 1] ELSE [a EXCEPT !.shake = @ - 1]

Becomes_at(c, at, out) == conn' = [conn EXCEPT ![c] = [Free EXCEPT !.at = at, !.out = out]]

\* accept_loop: a slot is looked at, then the limits, then a descriptor, given back if there is none.
\* The slot counts established connections: those that still shake hands are not in `inbound`.
Accept(c) ==
    /\ ~dead /\ conn[c].at = "none"
    /\ acct.inbound < MaxInbound
    /\ acct.ip[Ip(c)] < InPerIp /\ acct.inGroup[Group_of(c)] < InPerGroup
    /\ IF acct.shake < FdShake
       THEN acct' = [admit_inbound(acct, c) EXCEPT !.shake = @ + 1] /\ Becomes_at(c, "shaking", FALSE)
       ELSE acct' = release_inbound(admit_inbound(acct, c), c) /\ UNCHANGED conn
    /\ UNCHANGED dead

\* dial_loop
Dial(c) ==
    /\ ~dead /\ conn[c].at = "none"
    /\ acct.outbound + acct.dialing < MaxOutbound /\ acct.outGroup[Group_of(c)] < OutPerGroup
    /\ IF acct.dial < FdDial
       THEN /\ acct' = [acct EXCEPT !.outGroup[Group_of(c)] = @ + 1, !.dial = @ + 1, !.dialing = @ + 1]
            /\ Becomes_at(c, "dialing", TRUE)
       ELSE UNCHANGED <<acct, conn>>                  \* admitted and released
    /\ UNCHANGED dead

\* sock::connect: from here until the handshake ends no counter of connections holds it
Connected(c) ==
    /\ ~dead /\ conn[c].at = "dialing"
    /\ acct' = [acct EXCEPT !.dialing = Drop(@)] /\ conn' = [conn EXCEPT ![c].at = "shaking"]
    /\ UNCHANGED dead

ConnectFails(c) ==
    /\ ~dead /\ conn[c].at = "dialing"
    /\ acct' = release_outbound(Dropped([acct EXCEPT !.dialing = Drop(@)], c), c)
    /\ conn' = [conn EXCEPT ![c] = Free]
    /\ UNCHANGED dead

\* mutant of GivenBack: a handshake that fails frees the descriptor alone
LeaseAlone(a, c) == Dropped(a, c)

\* run gives up before the peer is known: handshake failed, or no descriptor for a peer
GivenBack(a, c) == Dropped(IF conn[c].out THEN release_outbound(a, c) ELSE release_inbound(a, c), c)

HandshakeFails(c) ==
    /\ ~dead /\ conn[c].at = "shaking"
    /\ acct' = GivenBack(acct, c) /\ conn' = [conn EXCEPT ![c] = Free]
    /\ UNCHANGED dead

\* the lease is promoted; the peer enters `peers` and its counter
HandshakeOk(c) ==
    /\ ~dead /\ conn[c].at = "shaking"
    /\ IF acct.peer < FdPeer
       THEN LET a == [Dropped(acct, c) EXCEPT !.peer = @ + 1] IN
            /\ acct' = IF conn[c].out THEN [a EXCEPT !.outbound = @ + 1]
                       ELSE [a EXCEPT !.inbound = @ + 1]
            /\ conn' = [conn EXCEPT ![c].at = "up", ![c].writer = "idle"]
       ELSE acct' = GivenBack(acct, c) /\ conn' = [conn EXCEPT ![c] = Free]
    /\ UNCHANGED dead

\* enqueue: what a refused try_send leaves charged
Unsent(c, n) == [charged |-> 0]

Kill(c) == conn' = [conn EXCEPT ![c].kill = TRUE]

\* enqueue, under the lock of `peers`: pool + n is checked arithmetic and panics when it overflows
EnqueueBulk(c) ==
    /\ ~dead /\ conn[c].at = "up"
    /\ LET queued == conn[c].outbox
           n == BulkBytes
       IN  IF queued + n <= OutboxBytes /\ acct.pool + n >= Wrap
           THEN dead' = TRUE /\ UNCHANGED <<conn, acct>>
           ELSE /\ UNCHANGED dead
                /\ IF queued + n > OutboxBytes \/ acct.pool + n > OutboxPool
                   THEN Kill(c) /\ UNCHANGED acct
                   ELSE IF queued + n > OutboxSoft THEN UNCHANGED <<conn, acct>>
                   ELSE IF conn[c].writer # "done" /\ conn[c].bulk < OutboxItems
                   THEN /\ conn' = [conn EXCEPT ![c].outbox = @ + n, ![c].bulk = @ + 1]
                        /\ acct' = [acct EXCEPT !.pool = (@ + n) % Wrap]
                   ELSE /\ conn' = [conn EXCEPT ![c].outbox = @ + Unsent(c, n).charged]
                        /\ acct' = [acct EXCEPT !.pool = (@ + Unsent(c, n).charged) % Wrap]

EnqueueControl(c) ==
    /\ ~dead /\ conn[c].at = "up"
    /\ IF conn[c].writer # "done" /\ conn[c].ctl < OutboxItems
       THEN /\ conn' = [conn EXCEPT ![c].outbox = @ + CtlBytes, ![c].ctl = @ + 1]
            /\ acct' = [acct EXCEPT !.pool = (@ + CtlBytes) % Wrap]
       ELSE Kill(c) /\ UNCHANGED acct
    /\ UNCHANGED dead

\* write_loop: control frames first; a ping, which nobody charged, when nothing waits
WriterTakes(c) ==
    /\ ~dead /\ conn[c].writer = "idle" /\ ~conn[c].kill
    /\ conn' = IF conn[c].ctl > 0 THEN [conn EXCEPT ![c].ctl = @ - 1, ![c].writing = CtlBytes, ![c].writer = "writes"]
               ELSE IF conn[c].bulk > 0 THEN [conn EXCEPT ![c].bulk = @ - 1, ![c].writing = BulkBytes, ![c].writer = "writes"]
               ELSE [conn EXCEPT ![c].writing = CtlBytes, ![c].writer = "pings"]
    /\ UNCHANGED <<acct, dead>>

Least(x, y) == IF x < y THEN x ELSE y

\* the frame is out, or the write failed or stalled for WRITE_STALL_MS
Written(c, ok) ==
    /\ ~dead /\ conn[c].writer \in {"writes", "pings"}
    /\ conn' = [conn EXCEPT ![c].outbox = @ - Least(conn[c].writing, @), ![c].writing = 0,
                            ![c].writer = IF ok THEN "idle" ELSE "done"]
    /\ acct' = [acct EXCEPT !.pool = @ - Least(conn[c].writing, @)]
    /\ UNCHANGED dead

WriterStops(c) ==
    /\ ~dead /\ conn[c].writer = "idle" /\ conn[c].kill
    /\ conn' = [conn EXCEPT ![c].writer = "done"]
    /\ UNCHANGED <<acct, dead>>

\* the engine disconnects or bans the peer; the peer closes or breaks the protocol
Killed(c) == ~dead /\ conn[c].at = "up" /\ ~conn[c].kill /\ Kill(c) /\ UNCHANGED <<acct, dead>>

\* the end of run, when the writer is done or SHUTDOWN_DRAIN_MS are over: out of `peers`, the counter, the limits, the pool, the lease, then the
\* dial loop's share of the group.  A writer that still writes goes on alone.
Teardown(c) ==
    /\ ~dead /\ conn[c].at = "up" /\ conn[c].kill
    /\ LET a == IF conn[c].out THEN release_outbound([acct EXCEPT !.outbound = @ - 1], c)
                ELSE release_inbound([acct EXCEPT !.inbound = @ - 1], c)
       IN  acct' = Dropped([a EXCEPT !.pool = (@ - conn[c].outbox) % Wrap], c)
    /\ conn' = [conn EXCEPT ![c].at = "gone",
                            ![c].writer = IF @ \in {"writes", "pings"} THEN @ ELSE "done"]
    /\ UNCHANGED dead

\* the last trace of a connection is its writer; then the slot may be used again
Forgotten(c) ==
    /\ ~dead /\ conn[c].at = "gone" /\ conn[c].writer \in {"idle", "done"}
    /\ conn' = [conn EXCEPT ![c] = Free] /\ UNCHANGED <<acct, dead>>

ConnNext ==
    \E c \in Link :
        \/ Accept(c) \/ Dial(c) \/ Connected(c) \/ ConnectFails(c) \/ HandshakeFails(c) \/ HandshakeOk(c)
        \/ EnqueueBulk(c) \/ EnqueueControl(c) \/ WriterTakes(c) \/ WriterStops(c) \/ Killed(c)
        \/ \E ok \in BOOLEAN : Written(c, ok)
        \/ Teardown(c) \/ Forgotten(c)

-----------------------------------------------------------------------------

In(at, out) == {c \in Link : conn[c].at \in at /\ conn[c].out = out}
OfIp(at, out, i) == {c \in In(at, out) : Ip(c) = i}
OfGroup(at, out, g) == {c \in In(at, out) : Group_of(c) = g}

\* Whatever way a connection takes (refused, failed, no descriptor, killed), every shared counter
\* says what the connections say: no slot, share of an address or a group, or descriptor is kept
\* or given back twice.
AccountsExact ==
    /\ acct.inbound = Cardinality(In({"up"}, FALSE)) /\ acct.outbound = Cardinality(In({"up"}, TRUE))
    /\ acct.dialing = Cardinality(In({"dialing"}, TRUE))
    /\ \A i \in DOMAIN IpGroup :
           acct.ip[i] = Cardinality(OfIp({"shaking", "up"}, FALSE, i))
    /\ \A g \in Range(IpGroup) :
           /\ acct.inGroup[g] = Cardinality(OfGroup({"shaking", "up"}, FALSE, g))
           /\ acct.outGroup[g] = Cardinality(OfGroup({"dialing", "shaking", "up"}, TRUE, g))
    /\ acct.peer = Cardinality(In({"up"}, TRUE) \cup In({"up"}, FALSE))
    /\ acct.shake = Cardinality(In({"shaking"}, FALSE))
    /\ acct.dial = Cardinality(In({"dialing", "shaking"}, TRUE))

\* A peer is never charged for bytes that do not wait for it: one whose queue is empty is not
\* refused, or cut off, for what was queued before.
NotOvercharged ==
    \A c \in Link : conn[c].at = "up" =>
        conn[c].outbox <= conn[c].ctl * CtlBytes + conn[c].bulk * BulkBytes
                          + (IF conn[c].writer = "writes" THEN conn[c].writing ELSE 0)

\* Both: what is counted in common, and what is charged to each.
AccountsSound == AccountsExact /\ NotOvercharged

\* net.peers.lock().expect("peers"): no task panics while it holds the lock of the peers.
PeersLockSound == ~dead
=============================================================================
