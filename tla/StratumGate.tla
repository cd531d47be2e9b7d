---------------------------- MODULE StratumGate ----------------------------
(***************************************************************************)
(* Who may be connected to the Stratum server: the accept loop of          *)
(* server.rs, the table of scores, bans, throttles and connection counts   *)
(* per address (abuse.rs BanTable over Lru), and the allocation of nonce   *)
(* slices (nonce.rs E1Allocator).  Every call of the table first brings    *)
(* the address's record up to date (decayed), which may evict another one, *)
(* or, when no record may go, works on a throw-away record.                *)
(***************************************************************************)
EXTENDS Integers, Sequences, FiniteSets, SequencesExt

CONSTANTS
    Conn, Ip, Slices,          \* connections, addresses, size of the slice space
    TableCap,                  \* ban_table_entries
    MaxConns, MaxPerIp, PerMin,     \* Caps
    Burst,                     \* burst of the accept bucket, refilled by one a time unit
    Threshold, SoftCap, Base, Ladder, MaxBan, Throttle, Minute,   \* BanPolicy, in time units
    Points,                    \* Points[severity]: score of one fault
    MaxTime, MaxPoints           \* bounds: the clock, points of a record

ASSUME GateConstants ==
    /\ {Slices, TableCap, MaxConns, MaxPerIp, PerMin, Burst, Threshold, Base, Ladder, MaxBan,
        Throttle, Minute} \subseteq Nat \ {0}
    /\ {SoftCap, MaxPoints} \subseteq Nat /\ SoftCap < Threshold
    /\ MaxTime \in Nat \ {0} /\ Points \in [{"soft", "hard"} -> Nat \ {0}]
    /\ IsFiniteSet(Conn) /\ "none" \notin Ip

VARIABLES clock,
          lru, rec,            \* Lru: addresses, the most recent first; their IpRecords
          saturated,           \* BanTable::saturated > 0
          bucket,              \* the accept TokenBucket
          open,                \* open[c]: address of a live connection, or NoIp
          slice, bits, cursor  \* slice held by a connection; E1Allocator

table == <<lru, rec, saturated>>
nonces == <<slice, bits, cursor>>
gateVars == <<clock, table, bucket, open, nonces>>

NoIp == "none"
NoSlice == -1
IpRecord == [hard : Nat, soft : Nat, decay : Nat, banned : Nat, bans : Nat, conns : Nat,
             attempts : Nat, window : Nat, throttled : Nat]
Fresh == [hard |-> 0, soft |-> 0, decay |-> clock, banned |-> 0, bans |-> 0, conns |-> 0,
          attempts |-> 0, window |-> clock, throttled |-> 0]

Least(a, b) == IF a < b THEN a ELSE b
Most(a, b) == IF a > b THEN a ELSE b

effective(r) == r.hard + Least(r.soft, SoftCap)

EvictsBanned(r) == r.conns = 0 /\ r.throttled <= clock
EvictsInUse(r) == r.banned <= clock /\ r.throttled <= clock
evictable(r) == r.conns = 0 /\ r.banned <= clock /\ r.throttled <= clock

\* Lru::entry_or_default_protected: the least recent entry that may go.
Victims == {i \in 1..Len(lru) : evictable(rec[lru[i]])}
Held(ip) == ip \in Range(lru)
Room(ip) == Held(ip) \/ Len(lru) < TableCap \/ Victims # {}

PlaceOf(ip) == CHOOSE i \in 1..Len(lru) : lru[i] = ip
LastVictim == CHOOSE i \in Victims : \A j \in Victims : j <= i
Touched(ip) ==
    IF Held(ip) THEN <<ip>> \o RemoveAt(lru, PlaceOf(ip))
    ELSE IF Len(lru) < TableCap THEN <<ip>> \o lru
    ELSE <<ip>> \o RemoveAt(lru, LastVictim)

\* BanTable::decayed: one point a time unit, soft points first.
decayed(ip) ==
    IF ~Held(ip) THEN Fresh
    ELSE LET r == rec[ip]
             points == clock - r.decay
             soft == Least(points, r.soft)
         IN [r EXCEPT !.soft = @ - soft, !.hard = Most(0, @ - (points - soft)), !.decay = clock]

\* Write back a record of decayed(ip); the throw-away one is lost.
Store(ip, r) ==
    IF Room(ip)
    THEN /\ lru' = Touched(ip)
         /\ rec' = [x \in Range(Touched(ip)) |-> IF x = ip THEN r ELSE rec[x]]
         /\ UNCHANGED saturated
    ELSE saturated' = TRUE /\ UNCHANGED <<lru, rec>>

\* penalise: the ban grows with every repetition; a ban in force is not extended.
BanLength(n) == LET l == Base * Ladder ^ n IN IF l \in 0..MaxBan THEN l ELSE MaxBan
Scored(r, severity) ==
    IF severity = "soft" THEN [r EXCEPT !.soft = @ + Points["soft"]]
                         ELSE [r EXCEPT !.hard = @ + Points["hard"]]
Bans(r) == effective(r) >= Threshold /\ r.banned <= clock
penalise(r) ==
    IF Bans(r) THEN [r EXCEPT !.bans = @ + 1, !.banned = clock + BanLength(r.bans),
                              !.hard = 0, !.soft = 0]
    ELSE r

LiveConns == {c \in Conn : open[c] # NoIp}
LiveOf(ip) == {c \in Conn : open[c] = ip}

\* TokenBucket::take
Refilled == Least(bucket.tokens + (clock - bucket.last), Burst)

\* admit: the checks in order, each on the record with this attempt counted.
Attempt(ip) ==
    LET r == decayed(ip)
        w == IF clock - r.window >= Minute THEN [r EXCEPT !.window = clock, !.attempts = 0] ELSE r
    IN [w EXCEPT !.attempts = Least(@ + 1, PerMin + 1)]   \* more attempts say no more
Refusal(ip) ==
    LET r == Attempt(ip) IN
    r.banned > clock \/ r.throttled > clock \/ r.conns >= MaxPerIp \/ r.attempts > PerMin

\* serve_on: a full server is refused before the table is touched.
ServerFull == Cardinality(LiveConns) >= MaxConns

admit_refused(ip) ==
    /\ ~ServerFull
    /\ \/ Refusal(ip) /\ UNCHANGED bucket
       \/ ~Refusal(ip) /\ Refilled < 1 /\ bucket' = [tokens |-> Refilled, last |-> clock]
    /\ Store(ip, Attempt(ip))
    /\ UNCHANGED <<clock, open, nonces>>

admit(c, ip) ==
    /\ open[c] = NoIp /\ ~ServerFull /\ ~Refusal(ip) /\ Refilled >= 1
    /\ bucket' = [tokens |-> Refilled - 1, last |-> clock]
    /\ Store(ip, [Attempt(ip) EXCEPT !.conns = @ + 1])
    /\ open' = [open EXCEPT ![c] = ip]
    /\ UNCHANGED <<clock, nonces>>

\* E1Allocator::acquire: the first free slice from the cursor on.
Free(k) == ~bits[(cursor + k) % Slices]
acquire ==
    LET k == CHOOSE i \in 0..(Slices - 1) : Free(i) /\ \A j \in 0..(i - 1) : ~Free(j)
    IN (cursor + k) % Slices

on_subscribe_slice(c) ==
    /\ open[c] # NoIp /\ slice[c] = NoSlice /\ \E k \in 0..(Slices - 1) : Free(k)
    /\ slice' = [slice EXCEPT ![c] = acquire]
    /\ bits' = [bits EXCEPT ![acquire] = TRUE]
    /\ cursor' = (acquire + 1) % Slices
    /\ UNCHANGED <<clock, table, bucket, open>>

\* E1Allocator::release
release_slice(c) == bits' = [i \in DOMAIN bits |-> bits[i] /\ i # slice[c]]

ReleaseForgotten(r) == r
\* BanTable::release
released(r) == [r EXCEPT !.conns = Most(0, @ - 1)]

\* ConnGuard::drop, with the record as the connection's last act left it.
Leave(c, r) ==
    /\ Store(open[c], released(r))
    /\ release_slice(c)
    /\ slice' = [slice EXCEPT ![c] = NoSlice]
    /\ open' = [open EXCEPT ![c] = NoIp]
    /\ UNCHANGED <<clock, bucket, cursor>>

Hangs_up(c) == open[c] # NoIp /\ Leave(c, decayed(open[c]))

\* Session::score: a ban closes this connection, and only this one.
score(c, severity) ==
    /\ open[c] # NoIp
    /\ LET r == Scored(decayed(open[c]), severity) IN
       /\ r.soft + r.hard <= MaxPoints
       /\ IF Bans(r) THEN Leave(c, penalise(r))
          ELSE Store(open[c], r) /\ UNCHANGED <<clock, bucket, open, nonces>>

\* A line that does not parse before authorization: throttle, and the end.
throttle(c) ==
    /\ open[c] # NoIp
    /\ Leave(c, [decayed(open[c]) EXCEPT !.throttled = clock + Throttle])

Second == /\ clock < MaxTime /\ clock' = clock + 1
          /\ UNCHANGED <<table, bucket, open, nonces>>

GateInit ==
    /\ clock = 1
    /\ lru = <<>> /\ rec = [x \in {} |-> Fresh] /\ saturated = FALSE
    /\ bucket = [tokens |-> Burst, last |-> clock]
    /\ open = [c \in Conn |-> NoIp] /\ slice = [c \in Conn |-> NoSlice]
    /\ bits = [i \in 0..(Slices - 1) |-> FALSE] /\ cursor = 0

GateNext ==
    \/ \E ip \in Ip : admit_refused(ip)
    \/ \E c \in Conn, ip \in Ip : admit(c, ip)
    \/ \E c \in Conn : on_subscribe_slice(c) \/ Hangs_up(c) \/ throttle(c)
    \/ \E c \in Conn, s \in {"soft", "hard"} : score(c, s)
    \/ Second

-----------------------------------------------------------------------------
\* The table lists every address once and keeps a record for just those.
GateTypeOK ==
    /\ clock \in 1..MaxTime /\ saturated \in BOOLEAN
    /\ Len(lru) <= TableCap /\ Cardinality(Range(lru)) = Len(lru)
    /\ DOMAIN rec = Range(lru) /\ \A ip \in Range(lru) : rec[ip] \in IpRecord
    /\ open \in [Conn -> Ip \cup {NoIp}] /\ slice \in [Conn -> (0..(Slices - 1)) \cup {NoSlice}]

\* The number of connections a record counts never exceeds the connections its
\* address has (it would lock the address out), and is exact as long as the table
\* never overflowed: decay, eviction and every way a connection ends included.
ConnsCounted ==
    \A ip \in Ip : LET n == IF Held(ip) THEN rec[ip].conns ELSE 0 IN
        /\ n <= Cardinality(LiveOf(ip))
        /\ ~saturated => n = Cardinality(LiveOf(ip))

\* No two live connections search the same nonces, and a slice is marked taken
\* exactly while a connection holds it.
SlicesDisjoint ==
    /\ \A c, d \in LiveConns : c # d /\ slice[c] # NoSlice => slice[c] # slice[d]
    /\ \A i \in DOMAIN bits : bits[i] <=> \E c \in LiveConns : slice[c] = i

\* The gate as a whole: table, connections and slices.
GateSound == GateTypeOK /\ ConnsCounted /\ SlicesDisjoint

\* abuse.rs: churn of connections does not knock out a live ban.  While a ban
\* runs, no step of any address shortens or forgets it.
BanOutlivesChurn ==
    [][\A ip \in Range(lru) : rec[ip].banned > clock' =>
          ip \in Range(lru') /\ rec'[ip].banned >= rec[ip].banned]_gateVars
=============================================================================
