--------------------------- MODULE StratumProofs ---------------------------
(***************************************************************************)
(* Proofs about the Stratum server, for every number of connections,       *)
(* addresses, sessions and slices and every setting of the policies: the   *)
(* cache of difficulties, the gate, and one mining connection.             *)
(***************************************************************************)
EXTENDS StratumShares, StratumGate, StratumDifficulty, SequenceTheorems, FiniteSetTheorems, TLAPS

DiffSpec == DiffInit /\ [][DiffNext]_diffVars

\* What on_tick_diff, on_share and on_authorize_diff do to the cache: only an
\* accepted share that counts writes it, and it is in the history by then.
LEMMA RecordEarned ==
    ASSUME CacheEarned, NEW s \in Session, NEW d \in Diff, on_share(s, d)
    PROVE  CacheEarned'
<1>1. addr' = record(vd[s], d) /\ earned' = IF vd[s].pinned THEN earned ELSE earned \cup {d}
  BY DEF on_share
<1>2. CASE Counts(vd[s], d) /\ vd[s].count + 1 = MinShares
  <2>1. addr'.last = d \/ addr' = addr
    BY <1>1 DEF record
  <2>2. earned' = earned \cup {d}
    BY <1>1, <1>2 DEF Counts
  <2> QED
    BY <2>1, <2>2 DEF CacheEarned
<1>3. CASE ~(Counts(vd[s], d) /\ vd[s].count + 1 = MinShares)
  BY <1>1, <1>3 DEF record, CacheEarned
<1> QED
  BY <1>2, <1>3

\* The difficulty cache of an address holds only what a session that was free
\* to move has earned (abuse.rs DiffCache, session.rs on_verify_result), in
\* every reachable state.
THEOREM CacheIsEarned == DiffSpec => []CacheEarned
<1>1. DiffInit => CacheEarned
  BY DEF DiffInit, CacheEarned
<1>2. CacheEarned /\ [DiffNext]_diffVars => CacheEarned'
  <2> SUFFICES ASSUME CacheEarned, [DiffNext]_diffVars PROVE CacheEarned'
    OBVIOUS
  <2>1. CASE \E s \in Session, d \in Diff : on_share(s, d)
    BY <2>1, RecordEarned
  <2>2. CASE \E s \in Session, pin \in {0, MaxDiff} : on_authorize_diff(s, pin)
    <3>1. addr' = note_login /\ earned' = earned
      BY <2>2 DEF on_authorize_diff
    <3>2. addr'.last = addr.last
      BY <3>1 DEF note_login
    <3> QED
      BY <3>1, <3>2 DEF CacheEarned
  <2>3. CASE \E s \in Session : Leaves(s) \/ on_tick_diff(s)
    BY <2>3 DEF Leaves, on_tick_diff, CacheEarned
  <2>4. CASE (\E d \in Diff : NetworkMoves(d)) \/ Minutes
    BY <2>4 DEF NetworkMoves, Minutes, CacheEarned
  <2>5. CASE UNCHANGED diffVars
    BY <2>5 DEF diffVars, CacheEarned
  <2> QED
    BY <2>1, <2>2, <2>3, <2>4, <2>5 DEF DiffNext
<1> QED
  BY <1>1, <1>2, PTL DEF DiffSpec

-----------------------------------------------------------------------------
\* A sequence that lists nothing twice.
Distinct(s) == \A i, j \in 1..Len(s) : s[i] = s[j] => i = j

\* Moving to the front: the element at one place goes, another comes first.
LEMMA PushFront ==
    ASSUME NEW S, NEW s \in Seq(S), Distinct(s), NEW x \in S, x \notin Range(s)
    PROVE  LET t == <<x>> \o s IN
           /\ t \in Seq(S) /\ Distinct(t) /\ Len(t) = Len(s) + 1
           /\ Range(t) = {x} \cup Range(s)
<1> DEFINE t == <<x>> \o s
<1>1. /\ t \in Seq(S) /\ Len(t) = Len(s) + 1
      /\ \A i \in 1..Len(t) : t[i] = IF i = 1 THEN x ELSE s[i - 1]
  BY ConcatProperties
<1>2. Len(s) \in Nat /\ DOMAIN s = 1..Len(s) /\ DOMAIN t = 1..Len(t)
  BY <1>1, LenProperties
<1>3. \A i \in 1..Len(s) : s[i] # x /\ s[i] = t[i + 1]
  BY <1>1, <1>2 DEF Range
<1>4. Distinct(t)
  <2> SUFFICES ASSUME NEW i \in 1..Len(t), NEW j \in 1..Len(t), t[i] = t[j]
               PROVE  i = j
    BY DEF Distinct
  <2>1. CASE i = 1 \/ j = 1
    BY <2>1, <1>1, <1>2, <1>3
  <2>2. CASE i # 1 /\ j # 1
    <3>1. i - 1 \in 1..Len(s) /\ j - 1 \in 1..Len(s) /\ s[i - 1] = s[j - 1]
      BY <2>2, <1>1, <1>2
    <3> QED
      BY <3>1, <1>1, <1>2 DEF Distinct
  <2> QED
    BY <2>1, <2>2
<1>5. Range(t) = {x} \cup Range(s)
  <2>1. \A y \in Range(t) : y = x \/ y \in Range(s)
    BY <1>1, <1>2 DEF Range
  <2>2. t[1] = x /\ 1 \in DOMAIN t
    BY <1>1, <1>2
  <2>3. \A y \in Range(s) : y \in Range(t)
    <3> SUFFICES ASSUME NEW i \in 1..Len(s) PROVE s[i] \in Range(t)
      BY <1>2 DEF Range
    <3>1. i + 1 \in DOMAIN t /\ t[i + 1] = s[i]
      BY <1>1, <1>2, <1>3
    <3> QED
      BY <3>1 DEF Range
  <2>4. x \in Range(t)
    BY <2>2 DEF Range
  <2> QED
    BY <2>1, <2>3, <2>4
<1> QED
  BY <1>1, <1>4, <1>5

LEMMA TakenOut ==
    ASSUME NEW S, NEW s \in Seq(S), Distinct(s), NEW k \in 1..Len(s)
    PROVE  LET t == RemoveAt(s, k) IN
           /\ t \in Seq(S) /\ Distinct(t) /\ Len(t) = Len(s) - 1
           /\ Range(t) = Range(s) \ {s[k]}
<1> DEFINE a == SubSeq(s, 1, k - 1)
           b == SubSeq(s, k + 1, Len(s))
           t == RemoveAt(s, k)
<1>1. Len(s) \in Nat /\ DOMAIN s = 1..Len(s) /\ k \in Nat
  BY LenProperties
<1>2. a \in Seq(S) /\ Len(a) = k - 1 /\ \A i \in 1..(k - 1) : a[i] = s[i]
  <2>1. \A i \in 1..(k - 1) : s[i] \in S
    BY <1>1, ElementOfSeq
  <2> QED
    BY <2>1, <1>1, SubSeqProperties
<1>3. b \in Seq(S) /\ Len(b) = Len(s) - k /\ \A i \in 1..(Len(s) - k) : b[i] = s[k + i]
  <2>1. \A i \in (k + 1)..Len(s) : s[i] \in S
    BY <1>1, ElementOfSeq
  <2>2. k + 1 \in Int /\ Len(s) \in Int
    BY <1>1
  <2>3. /\ b \in Seq(S) /\ Len(b) = IF k + 1 <= Len(s) THEN Len(s) - (k + 1) + 1 ELSE 0
        /\ \A i \in 1..(Len(s) - (k + 1) + 1) : b[i] = s[(k + 1) + i - 1]
    BY <2>1, <2>2, SubSeqProperties
  <2> HIDE DEF b
  <2>4. Len(s) - (k + 1) + 1 = Len(s) - k
    BY <1>1
  <2>5. \A i \in 1..(Len(s) - k) : (k + 1) + i - 1 = k + i
    BY <1>1
  <2>6. Len(b) = Len(s) - k
    <3>1. CASE k + 1 <= Len(s)
      BY <3>1, <2>3, <2>4
    <3>2. CASE ~(k + 1 <= Len(s))
      <4>1. Len(b) = 0
        BY <3>2, <2>3
      <4>2. Len(s) - k = 0
        <5>1. \A n \in Nat : \A j \in 1..n : ~(j + 1 <= n) => n - j = 0
          OBVIOUS
        <5> QED
          BY <5>1, <3>2, <1>1
      <4> QED
        BY <4>1, <4>2
    <3> QED
      BY <3>1, <3>2
  <2> QED
    BY <2>3, <2>4, <2>5, <2>6
<1>4. t = a \o b
  BY DEF RemoveAt
<1> HIDE DEF a, b, t
<1>5. /\ t \in Seq(S) /\ Len(t) = Len(s) - 1
      /\ \A i \in 1..Len(t) : t[i] = IF i < k THEN s[i] ELSE s[i + 1]
  <2>1. /\ a \o b \in Seq(S) /\ Len(a \o b) = Len(a) + Len(b)
        /\ \A i \in 1..(Len(a) + Len(b)) :
              (a \o b)[i] = IF i <= Len(a) THEN a[i] ELSE b[i - Len(a)]
    BY <1>2, <1>3, ConcatProperties
  <2>2. Len(a) + Len(b) = Len(s) - 1
    BY <1>1, <1>2, <1>3
  <2>3. ASSUME NEW i \in 1..(Len(s) - 1)
        PROVE  t[i] = IF i < k THEN s[i] ELSE s[i + 1]
    <3>1. CASE i < k
      BY <3>1, <2>1, <2>2, <1>1, <1>2, <1>4
    <3>2. CASE i >= k
      <4>1. i - (k - 1) \in 1..(Len(s) - k) /\ k + (i - (k - 1)) = i + 1
        BY <3>2, <1>1
      <4>2. t[i] = b[i - (k - 1)]
        BY <3>2, <2>1, <2>2, <1>1, <1>2, <1>4
      <4> QED
        BY <3>2, <4>1, <4>2, <1>1, <1>3
    <3> QED
      BY <3>1, <3>2, <1>1
  <2> QED
    BY <2>1, <2>2, <2>3, <1>4
<1>6. DOMAIN t = 1..Len(t)
  BY <1>5, LenProperties
<1>7. Distinct(t)
  BY <1>1, <1>5 DEF Distinct
<1>8. Range(t) = Range(s) \ {s[k]}
  <2>1. \A y \in Range(t) : y \in Range(s) /\ y # s[k]
    BY <1>1, <1>5, <1>6 DEF Range, Distinct
  <2>2. ASSUME NEW i \in 1..Len(s), s[i] # s[k] PROVE s[i] \in Range(t)
    <3>1. CASE i < k
      BY <3>1, <1>1, <1>5, <1>6 DEF Range
    <3>2. CASE i > k
      <4>1. i - 1 \in DOMAIN t /\ t[i - 1] = s[i]
        BY <3>2, <1>1, <1>5, <1>6
      <4> QED
        BY <4>1 DEF Range
    <3> QED
      BY <2>2, <3>1, <3>2
  <2> QED
    BY <2>1, <2>2, <1>1 DEF Range
<1> QED
  BY <1>5, <1>7, <1>8 DEF t

\* A set of natural numbers has a least element, a bounded one a greatest.
LEMMA Lowest ==
    ASSUME NEW V, V \subseteq Nat, V # {}
    PROVE  \E i \in V : \A j \in V : i <= j
<1>1. IsWellFoundedOn(OpToRel(<, Nat), Nat)
  BY NatLessThanWellFounded
<1>2. \E i \in V : \A j \in V : ~(<<j, i>> \in OpToRel(<, Nat))
  BY <1>1, WFMin
<1>3. \A i, j \in Nat : j < i => <<j, i>> \in OpToRel(<, Nat)
  BY DEF OpToRel
<1>4. PICK i \in V : \A j \in V : ~(<<j, i>> \in OpToRel(<, Nat))
  BY <1>2
<1>5. \A j \in V : ~(j < i)
  BY <1>3, <1>4
<1> QED
  BY <1>5

LEMMA Highest ==
    ASSUME NEW n \in Nat, NEW V, V \subseteq 1..n, V # {}
    PROVE  \E i \in V : \A j \in V : j <= i
<1> DEFINE W == {n - i : i \in V}
<1>1. W \subseteq Nat /\ W # {}
  <2>1. \A i \in V : n - i \in Nat
    OBVIOUS
  <2> QED
    BY <2>1, Zenon
<1>2. PICK w \in W : \A u \in W : w <= u
  BY <1>1, Lowest
<1>3. PICK i \in V : w = n - i
  OBVIOUS
<1>4. \A j \in V : n - i <= n - j
  BY <1>2, <1>3
<1> QED
  BY <1>4

-----------------------------------------------------------------------------
GateSpec == GateInit /\ [][GateNext]_gateVars

\* A record as the table holds it: no time in it that is still to come, but for
\* the ends of a ban and of a throttle.
Kept(r) == r \in IpRecord /\ r.decay <= clock /\ r.window <= clock

TableOK ==
    /\ lru \in Seq(Ip) /\ Distinct(lru) /\ Len(lru) <= TableCap
    /\ DOMAIN rec = Range(lru) /\ \A ip \in Range(lru) : Kept(rec[ip])

GateTypes ==
    /\ clock \in 1..MaxTime /\ saturated \in BOOLEAN
    /\ open \in [Conn -> Ip \cup {NoIp}] /\ slice \in [Conn -> (0..(Slices - 1)) \cup {NoSlice}]
    /\ bits \in [0..(Slices - 1) -> BOOLEAN] /\ cursor \in 0..(Slices - 1)
    /\ \A c \in Conn : open[c] = NoIp => slice[c] = NoSlice

\* The inductive invariant: a connection that is gone holds no slice, and the
\* table is a list without repetitions of well-formed records.
GateInv == GateTypes /\ TableOK /\ ConnsCounted /\ SlicesDisjoint

LEMMA CapIsNat ==
    /\ TableCap \in Nat \ {0} /\ Slices \in Nat \ {0} /\ MaxTime \in Nat \ {0}
    /\ MaxBan \in Nat /\ Throttle \in Nat /\ PerMin \in Nat
BY GateConstants

\* Lru::entry_or_default_protected: the address comes first, and only a record
\* that may go has gone.
LEMMA TouchedIs ==
    ASSUME TableOK, NEW ip \in Ip, Room(ip)
    PROVE  LET t == Touched(ip) IN
           /\ t \in Seq(Ip) /\ Distinct(t) /\ Len(t) <= TableCap
           /\ ip \in Range(t) /\ Range(t) \subseteq Range(lru) \cup {ip}
           /\ \A x \in Range(lru) \ Range(t) : evictable(rec[x])
<1> DEFINE t == Touched(ip)
<1>1. Len(lru) \in Nat /\ DOMAIN lru = 1..Len(lru) /\ lru \in Seq(Ip) /\ Distinct(lru)
  BY LenProperties DEF TableOK
<1>2. CASE Held(ip)
  <2>1. \E i \in 1..Len(lru) : lru[i] = ip
    BY <1>1, <1>2 DEF Held, Range
  <2>2. PlaceOf(ip) \in 1..Len(lru) /\ lru[PlaceOf(ip)] = ip
    BY <2>1 DEF PlaceOf
  <2> DEFINE u == RemoveAt(lru, PlaceOf(ip))
  <2>3. u \in Seq(Ip) /\ Distinct(u) /\ Len(u) = Len(lru) - 1 /\ Range(u) = Range(lru) \ {ip}
    BY <1>1, <2>2, TakenOut
  <2> HIDE DEF u
  <2>4. t = <<ip>> \o u
    BY <1>2 DEF Touched, u
  <2>5. /\ t \in Seq(Ip) /\ Distinct(t) /\ Len(t) = Len(u) + 1 /\ Range(t) = {ip} \cup Range(u)
    <3>1. ip \notin Range(u)
      BY <2>3
    <3> QED
      BY <2>3, <2>4, <3>1, PushFront
  <2>6. Len(t) <= TableCap
    BY <1>1, <2>3, <2>5, CapIsNat DEF TableOK
  <2> QED
    BY <2>3, <2>5, <2>6
<1>3. CASE ~Held(ip) /\ Len(lru) < TableCap
  <2>1. t = <<ip>> \o lru /\ ip \notin Range(lru)
    BY <1>3 DEF Touched, Held
  <2>2. /\ t \in Seq(Ip) /\ Distinct(t) /\ Len(t) = Len(lru) + 1 /\ Range(t) = {ip} \cup Range(lru)
    BY <1>1, <2>1, PushFront
  <2> HIDE DEF t
  <2>3. Len(t) <= TableCap
    BY <1>1, <1>3, <2>2, CapIsNat
  <2>4. Range(lru) \ Range(t) = {}
    BY <2>2
  <2> QED
    BY <2>2, <2>3, <2>4 DEF t
<1>4. CASE ~Held(ip) /\ ~(Len(lru) < TableCap)
  <2>1. Victims # {} /\ Victims \subseteq 1..Len(lru)
    BY <1>4 DEF Room, Victims
  <2>2. \E i \in Victims : \A j \in Victims : j <= i
    BY <1>1, <2>1, Highest
  <2>3. LastVictim \in Victims
    BY <2>2 DEF LastVictim
  <2> DEFINE k == LastVictim
             u == RemoveAt(lru, k)
  <2>4. k \in 1..Len(lru) /\ evictable(rec[lru[k]])
    BY <2>3 DEF Victims
  <2>5. u \in Seq(Ip) /\ Distinct(u) /\ Len(u) = Len(lru) - 1 /\ Range(u) = Range(lru) \ {lru[k]}
    BY <1>1, <2>4, TakenOut
  <2>6. t = <<ip>> \o u /\ ip \notin Range(lru)
    BY <1>4 DEF Touched, Held
  <2> HIDE DEF u, t
  <2>7. /\ t \in Seq(Ip) /\ Distinct(t) /\ Len(t) = Len(u) + 1 /\ Range(t) = {ip} \cup Range(u)
    BY <2>5, <2>6, PushFront
  <2>8. Len(t) <= TableCap
    BY <1>1, <2>5, <2>7 DEF TableOK
  <2>9. \A x \in Range(lru) \ Range(t) : x = lru[k]
    BY <2>5, <2>7
  <2> QED
    BY <2>4, <2>5, <2>7, <2>8, <2>9 DEF t
<1> QED
  BY <1>2, <1>3, <1>4

\* What storing a record comes to: the record is there and nothing else has
\* changed but for a record that could go; or the table is full of records that
\* cannot go, it says so, and nothing is stored.
Stored(ip, r) ==
    \/ /\ ip \in Range(lru') /\ rec'[ip] = r /\ saturated' = saturated
       /\ Range(lru') \subseteq Range(lru) \cup {ip}
       /\ \A x \in Range(lru') \ {ip} : rec'[x] = rec[x]
       /\ \A x \in Range(lru) \ Range(lru') : evictable(rec[x])
    \/ lru' = lru /\ rec' = rec /\ saturated' = TRUE /\ ip \notin Range(lru)

LEMMA StoreStores ==
    ASSUME TableOK, NEW ip \in Ip, NEW r, Kept(r), Store(ip, r), clock' = clock
    PROVE  TableOK' /\ Stored(ip, r)
<1>1. CASE Room(ip)
  <2> DEFINE t == Touched(ip)
  <2>1. /\ lru' = t /\ saturated' = saturated
        /\ rec' = [x \in Range(t) |-> IF x = ip THEN r ELSE rec[x]]
    BY <1>1 DEF Store
  <2>2. /\ t \in Seq(Ip) /\ Distinct(t) /\ Len(t) <= TableCap
        /\ ip \in Range(t) /\ Range(t) \subseteq Range(lru) \cup {ip}
        /\ \A x \in Range(lru) \ Range(t) : evictable(rec[x])
    BY <1>1, TouchedIs
  <2> HIDE DEF t
  <2>3. rec'[ip] = r /\ DOMAIN rec' = Range(lru')
    BY <2>1, <2>2
  <2>4. \A x \in Range(lru') \ {ip} : rec'[x] = rec[x]
    BY <2>1, <2>2
  <2>5. \A x \in Range(lru') : Kept(rec'[x])
    BY <2>1, <2>2, <2>3, <2>4 DEF TableOK
  <2>6. TableOK'
    <3>1. \A x \in Range(lru') : Kept(rec[x])'
      BY <2>5 DEF Kept
    <3> QED
      BY <3>1, <2>1, <2>2, <2>3 DEF TableOK, Distinct
  <2> QED
    BY <2>1, <2>2, <2>3, <2>4, <2>6 DEF Stored
<1>2. CASE ~Room(ip)
  <2>1. lru' = lru /\ rec' = rec /\ saturated' = TRUE
    BY <1>2 DEF Store
  <2>2. ip \notin Range(lru)
    BY <1>2 DEF Room, Held
  <2> QED
    BY <2>1, <2>2 DEF Stored, TableOK, Kept, Distinct
<1> QED
  BY <1>1, <1>2

\* BanTable::decayed, and what admit, score, penalise, throttle and release make
\* of its record: the count of connections and the end of the ban are those of the
\* table unless that step is about them.
Counted(ip) == IF Held(ip) THEN rec[ip].conns ELSE 0
BannedTill(ip) == IF Held(ip) THEN rec[ip].banned ELSE 0

LEMMA DecayedIs ==
    ASSUME TableOK, clock \in Nat, NEW ip \in Ip
    PROVE  LET r == decayed(ip) IN
           Kept(r) /\ r.conns = Counted(ip) /\ r.banned = BannedTill(ip)
<1>1. CASE ~Held(ip)
  <2>1. decayed(ip) = Fresh
    BY <1>1 DEF decayed
  <2> QED
    BY <2>1, <1>1 DEF Fresh, Kept, IpRecord, Counted, BannedTill
<1>2. CASE Held(ip)
  <2> DEFINE r == rec[ip]
             points == clock - r.decay
             soft == Least(points, r.soft)
             hard == Most(0, r.hard - (points - soft))
             d == [r EXCEPT !.soft = @ - soft, !.hard = Most(0, @ - (points - soft)), !.decay = clock]
  <2>1. decayed(ip) = d
    BY <1>2 DEF decayed
  <2>2. r \in IpRecord /\ r.decay <= clock /\ r.window <= clock
    BY <1>2 DEF TableOK, Kept, Held
  <2>3. r.soft \in Nat /\ r.hard \in Nat /\ r.decay \in Nat /\ r.window \in Nat
    BY <2>2 DEF IpRecord
  <2>4. r.soft - soft \in Nat /\ hard \in Nat
    BY <2>2, <2>3 DEF Least, Most
  <2> HIDE DEF soft, points
  <2>5. d \in IpRecord /\ d.decay = clock /\ d.window = r.window /\ d.conns = r.conns /\ d.banned = r.banned
    BY <2>2, <2>4 DEF IpRecord
  <2> QED
    BY <2>1, <2>2, <2>5, <1>2 DEF Kept, Counted, BannedTill
<1> QED
  BY <1>1, <1>2

LEMMA AttemptIs ==
    ASSUME TableOK, clock \in Nat, NEW ip \in Ip
    PROVE  LET r == Attempt(ip) IN
           Kept(r) /\ r.conns = Counted(ip) /\ r.banned = BannedTill(ip)
<1> DEFINE r == decayed(ip)
           w == IF clock - r.window >= Minute THEN [r EXCEPT !.window = clock, !.attempts = 0] ELSE r
           a == Least(w.attempts + 1, PerMin + 1)
<1>1. Kept(r) /\ r.conns = Counted(ip) /\ r.banned = BannedTill(ip)
  BY DecayedIs
<1>2. Attempt(ip) = [w EXCEPT !.attempts = a]
  BY DEF Attempt
<1> HIDE DEF r
<1>3. w \in IpRecord /\ w.decay <= clock /\ w.window <= clock
      /\ w.conns = r.conns /\ w.banned = r.banned
  <2>1. CASE clock - r.window >= Minute
    <3>1. w = [r EXCEPT !.window = clock, !.attempts = 0]
      BY <2>1
    <3> DEFINE v == [r EXCEPT !.window = clock]
    <3> HIDE DEF w
    <3>2. r \in IpRecord /\ r.decay <= clock
      BY <1>1 DEF Kept
    <3>3. /\ v \in IpRecord /\ v.window = clock
          /\ v.decay = r.decay /\ v.conns = r.conns /\ v.banned = r.banned
      BY <3>2 DEF IpRecord
    <3>4. w = [v EXCEPT !.attempts = 0]
      BY <3>1
    <3> HIDE DEF v
    <3>5. /\ w \in IpRecord /\ w.window = v.window
          /\ w.decay = v.decay /\ w.conns = v.conns /\ w.banned = v.banned
      BY <3>3, <3>4 DEF IpRecord
    <3> QED
      BY <3>2, <3>3, <3>5
  <2>2. CASE ~(clock - r.window >= Minute)
    BY <2>2, <1>1 DEF Kept
  <2> QED
    BY <2>1, <2>2
<1>4. a \in Nat
  BY <1>3, CapIsNat DEF IpRecord, Least
<1> HIDE DEF w, a
<1> QED
  BY <1>1, <1>2, <1>3, <1>4 DEF Kept, IpRecord

LEMMA ReleasedIs ==
    ASSUME NEW r, Kept(r)
    PROVE  /\ Kept(released(r)) /\ released(r).banned = r.banned
           /\ released(r).conns = Most(0, r.conns - 1)
<1>1. r \in IpRecord /\ Most(0, r.conns - 1) \in Nat
  BY DEF Kept, IpRecord, Most
<1> QED
  BY <1>1 DEF Kept, IpRecord, released

LEMMA ScoredIs ==
    ASSUME clock \in Nat, NEW r, Kept(r), NEW severity \in {"soft", "hard"}
    PROVE  LET q == Scored(r, severity) IN
           Kept(q) /\ q.conns = r.conns /\ q.banned = r.banned
<1>1. Points["soft"] \in Nat /\ Points["hard"] \in Nat
  BY GateConstants
<1>2. r \in IpRecord /\ r.soft + Points["soft"] \in Nat /\ r.hard + Points["hard"] \in Nat
  BY <1>1 DEF Kept, IpRecord
<1> QED
  BY <1>2 DEF Kept, IpRecord, Scored

LEMMA PenaliseIs ==
    ASSUME clock \in Nat, NEW r, Kept(r)
    PROVE  /\ Kept(penalise(r)) /\ penalise(r).conns = r.conns
           /\ penalise(r).banned >= r.banned
<1>1. CASE ~Bans(r)
  BY <1>1 DEF penalise, Kept, IpRecord
<1>2. CASE Bans(r)
  <2> DEFINE l == BanLength(r.bans)
  <2>1. l \in Nat
    BY CapIsNat DEF BanLength
  <2>2. r \in IpRecord /\ r.banned <= clock
    BY <1>2 DEF Kept, Bans
  <2>3. penalise(r) = [r EXCEPT !.bans = @ + 1, !.banned = clock + l, !.hard = 0, !.soft = 0]
    BY <1>2 DEF penalise
  <2> HIDE DEF l
  <2>4. r.bans + 1 \in Nat /\ clock + l \in Nat
    BY <2>1, <2>2 DEF IpRecord
  <2>5. penalise(r) \in IpRecord
    <3> DEFINE q == [r EXCEPT !.bans = @ + 1, !.banned = clock + l]
    <3>1. q \in IpRecord
      BY <2>2, <2>4 DEF IpRecord
    <3>2. penalise(r) = [q EXCEPT !.hard = 0, !.soft = 0]
      BY <2>3
    <3> HIDE DEF q
    <3>3. [q EXCEPT !.hard = 0, !.soft = 0] \in IpRecord
      BY <3>1 DEF IpRecord
    <3> QED
      BY <3>2, <3>3
  <2>6. /\ penalise(r).decay = r.decay /\ penalise(r).window = r.window
        /\ penalise(r).conns = r.conns /\ penalise(r).banned = clock + l
    BY <2>2, <2>3 DEF IpRecord
  <2>7. r.banned \in Nat /\ clock + l >= r.banned
    BY <2>1, <2>2 DEF IpRecord
  <2> QED
    BY <2>5, <2>6, <2>7 DEF Kept
<1> QED
  BY <1>1, <1>2

\* A connection that comes or goes changes the number of one address by one.
LEMMA LiveComes ==
    ASSUME GateTypes, NEW c \in Conn, NEW ip \in Ip, open[c] = NoIp,
           open' = [open EXCEPT ![c] = ip]
    PROVE  /\ Cardinality(LiveOf(ip))' = Cardinality(LiveOf(ip)) + 1
           /\ Cardinality(LiveOf(ip)) \in Nat
           /\ \A x \in Ip \ {ip} : LiveOf(x)' = LiveOf(x)
<1>1. IsFiniteSet(Conn) /\ NoIp \notin Ip /\ open \in [Conn -> Ip \cup {NoIp}]
  BY GateConstants DEF NoIp, GateTypes
<1>2. IsFiniteSet(LiveOf(ip))
  BY <1>1, FS_Subset DEF LiveOf
<1>3. LiveOf(ip)' = LiveOf(ip) \cup {c} /\ c \notin LiveOf(ip)
  BY <1>1 DEF LiveOf
<1>4. \A x \in Ip \ {ip} : LiveOf(x)' = LiveOf(x)
  BY <1>1 DEF LiveOf
<1>5. Cardinality(LiveOf(ip) \cup {c}) = Cardinality(LiveOf(ip)) + 1
  BY <1>2, <1>3, FS_AddElement
<1> QED
  BY <1>2, <1>3, <1>4, <1>5, FS_CardinalityType

LEMMA LiveGoes ==
    ASSUME GateTypes, NEW c \in Conn, open[c] # NoIp, open' = [open EXCEPT ![c] = NoIp]
    PROVE  /\ open[c] \in Ip
           /\ Cardinality(LiveOf(open[c])) \in Nat \ {0}
           /\ \A x \in Ip : Cardinality(LiveOf(x))' =
                 IF x = open[c] THEN Cardinality(LiveOf(x)) - 1 ELSE Cardinality(LiveOf(x))
<1> DEFINE ip == open[c]
<1>1. IsFiniteSet(Conn) /\ NoIp \notin Ip /\ open \in [Conn -> Ip \cup {NoIp}] /\ ip \in Ip
  BY GateConstants DEF NoIp, GateTypes
<1>2. IsFiniteSet(LiveOf(ip)) /\ c \in LiveOf(ip)
  BY <1>1, FS_Subset DEF LiveOf
<1>3. Cardinality(LiveOf(ip) \ {c}) = Cardinality(LiveOf(ip)) - 1
  BY <1>2, FS_RemoveElement
<1>4. Cardinality(LiveOf(ip)) \in Nat /\ LiveOf(ip) # {}
  BY <1>2, FS_CardinalityType
<1>5. Cardinality(LiveOf(ip)) # 0
  BY <1>2, <1>4, FS_EmptySet
<1>6. ASSUME NEW x \in Ip
      PROVE  LiveOf(x)' = IF x = ip THEN LiveOf(ip) \ {c} ELSE LiveOf(x)
  BY <1>1 DEF LiveOf
<1>7. ASSUME NEW x \in Ip
      PROVE  Cardinality(LiveOf(x))' =
                 IF x = ip THEN Cardinality(LiveOf(x)) - 1 ELSE Cardinality(LiveOf(x))
  BY <1>3, <1>6
<1> QED
  BY <1>1, <1>4, <1>5, <1>7

\* Storing a record whose count fits its address keeps every count right: what
\* was evicted counted nobody, and a table that overflows says so.
LEMMA CountsKept ==
    ASSUME TableOK, ConnsCounted, NEW ip \in Ip, NEW r, Kept(r), Stored(ip, r),
           Cardinality(LiveOf(ip))' \in Nat,
           r.conns <= Cardinality(LiveOf(ip))',
           ~saturated => r.conns = Cardinality(LiveOf(ip))',
           \A x \in Ip \ {ip} : Cardinality(LiveOf(x))' = Cardinality(LiveOf(x))
    PROVE  ConnsCounted'
<1>1. \A x \in Ip : /\ Counted(x) <= Cardinality(LiveOf(x))
                    /\ ~saturated => Counted(x) = Cardinality(LiveOf(x))
  BY DEF ConnsCounted, Counted
<1>2. SUFFICES ASSUME NEW x \in Ip
               PROVE  /\ Counted(x)' <= Cardinality(LiveOf(x))'
                      /\ ~saturated' => Counted(x)' = Cardinality(LiveOf(x))'
  BY DEF ConnsCounted, Counted
<1>3. CASE /\ ip \in Range(lru') /\ rec'[ip] = r /\ saturated' = saturated
           /\ Range(lru') \subseteq Range(lru) \cup {ip}
           /\ \A y \in Range(lru') \ {ip} : rec'[y] = rec[y]
           /\ \A y \in Range(lru) \ Range(lru') : evictable(rec[y])
  <2>1. CASE x = ip
    BY <1>3, <2>1 DEF Counted, Held
  <2>2. CASE x # ip
    <3>1. Counted(x)' = Counted(x)
      BY <1>3, <2>2 DEF Counted, Held, evictable
    <3> QED
      BY <3>1, <2>2, <1>1, <1>3
  <2> QED
    BY <2>1, <2>2
<1>4. CASE lru' = lru /\ rec' = rec /\ saturated' = TRUE /\ ip \notin Range(lru)
  <2>1. Counted(x)' = Counted(x)
    BY <1>4 DEF Counted, Held
  <2>2. CASE x = ip
    BY <2>1, <2>2, <1>4 DEF Counted, Held
  <2>3. CASE x # ip
    BY <2>1, <2>3, <1>1, <1>4
  <2> QED
    BY <2>2, <2>3
<1> QED
  BY <1>3, <1>4 DEF Stored

\* E1Allocator::acquire finds a slice nobody holds.
LEMMA AcquireIs ==
    ASSUME GateTypes, \E k \in 0..(Slices - 1) : Free(k)
    PROVE  acquire \in 0..(Slices - 1) /\ ~bits[acquire]
<1> DEFINE V == {k \in 0..(Slices - 1) : Free(k)}
           First(i) == i \in 0..(Slices - 1) /\ Free(i) /\ \A j \in 0..(i - 1) : ~Free(j)
<1>1. V \subseteq Nat /\ V # {}
  BY CapIsNat
<1>2. PICK i \in V : \A j \in V : i <= j
  BY <1>1, Lowest
<1>3. Free(i) /\ i \in 0..(Slices - 1) /\ \A j \in 0..(i - 1) : ~Free(j)
  <2>1. ASSUME NEW j \in 0..(i - 1) PROVE ~Free(j)
    <3>1. j \in 0..(Slices - 1) /\ ~(i <= j)
      BY CapIsNat
    <3> QED
      BY <1>2, <3>1
  <2> QED
    BY <1>2, <2>1
<1> DEFINE k == CHOOSE h \in 0..(Slices - 1) : Free(h) /\ \A j \in 0..(h - 1) : ~Free(j)
<1>4. k \in 0..(Slices - 1) /\ Free(k)
  BY <1>3
<1>5. acquire = (cursor + k) % Slices
  BY DEF acquire
<1> HIDE DEF k
<1>6. (cursor + k) % Slices \in 0..(Slices - 1)
  <2>1. \A a \in Nat, n \in Nat \ {0} : a % n \in 0..(n - 1)
    OBVIOUS
  <2>2. cursor + k \in Nat
    BY <1>4, CapIsNat DEF GateTypes
  <2> QED
    BY <2>1, <2>2, CapIsNat
<1> QED
  BY <1>4, <1>5, <1>6 DEF Free

LEMMA CountIs ==
    ASSUME GateInv, NEW ip \in Ip
    PROVE  /\ clock \in Nat /\ Cardinality(LiveOf(ip)) \in Nat
           /\ Counted(ip) <= Cardinality(LiveOf(ip))
           /\ ~saturated => Counted(ip) = Cardinality(LiveOf(ip))
<1>1. clock \in Nat
  BY CapIsNat DEF GateInv, GateTypes
<1>2. IsFiniteSet(LiveOf(ip))
  BY GateConstants, FS_Subset DEF LiveOf
<1> QED
  BY <1>1, <1>2, FS_CardinalityType DEF GateInv, ConnsCounted, Counted

\* A record stored for an address whose connections stay: refused attempts and
\* faults that do not ban.
LEMMA StayStep ==
    ASSUME GateInv, NEW ip \in Ip, NEW r, Kept(r), r.conns = Counted(ip), Store(ip, r),
           UNCHANGED <<clock, open, nonces>>
    PROVE  GateInv'
<1>1. TableOK' /\ Stored(ip, r)
  BY StoreStores DEF GateInv
<1>2. ConnsCounted'
  <2>1. \A x \in Ip : LiveOf(x)' = LiveOf(x)
    BY DEF LiveOf
  <2>2. /\ Cardinality(LiveOf(ip))' \in Nat /\ r.conns <= Cardinality(LiveOf(ip))'
        /\ ~saturated => r.conns = Cardinality(LiveOf(ip))'
    BY <2>1, CountIs
  <2> QED
    BY <1>1, <2>1, <2>2, CountsKept DEF GateInv
<1>3. saturated' \in BOOLEAN
  BY <1>1 DEF Stored, GateInv, GateTypes
<1> QED
  BY <1>1, <1>2, <1>3 DEF GateInv, GateTypes, SlicesDisjoint, LiveConns, nonces

LEMMA AdmitStep ==
    ASSUME GateInv, NEW c \in Conn, NEW ip \in Ip, admit(c, ip)
    PROVE  GateInv'
<1> DEFINE a == Attempt(ip)
           r == [a EXCEPT !.conns = @ + 1]
<1>1. /\ open[c] = NoIp /\ open' = [open EXCEPT ![c] = ip] /\ Store(ip, r)
      /\ UNCHANGED <<clock, nonces>>
  BY DEF admit
<1>2. Kept(a) /\ a.conns = Counted(ip)
  BY AttemptIs, CountIs DEF GateInv
<1> HIDE DEF a
<1>3. Kept(r) /\ r.conns = Counted(ip) + 1 /\ Counted(ip) \in Nat
  BY <1>2 DEF Kept, IpRecord
<1> HIDE DEF r
<1>4. TableOK' /\ Stored(ip, r)
  BY <1>1, <1>3, StoreStores DEF GateInv
<1>5. ConnsCounted'
  <2>1. /\ Cardinality(LiveOf(ip))' = Cardinality(LiveOf(ip)) + 1
        /\ Cardinality(LiveOf(ip)) \in Nat
        /\ \A x \in Ip \ {ip} : LiveOf(x)' = LiveOf(x)
    BY <1>1, LiveComes DEF GateInv
  <2>2. \A x \in Ip \ {ip} : Cardinality(LiveOf(x))' = Cardinality(LiveOf(x))
    BY <2>1
  <2>3. /\ Cardinality(LiveOf(ip))' \in Nat /\ r.conns <= Cardinality(LiveOf(ip))'
        /\ ~saturated => r.conns = Cardinality(LiveOf(ip))'
    BY <1>3, <2>1, CountIs
  <2> QED
    BY <1>3, <1>4, <2>2, <2>3, CountsKept DEF GateInv
<1>6. GateTypes'
  BY <1>1, <1>4, GateConstants DEF Stored, GateInv, GateTypes, nonces, NoIp
<1>7. SlicesDisjoint'
  <2>1. LiveConns' = LiveConns \cup {c} /\ slice[c] = NoSlice
    BY <1>1, GateConstants DEF LiveConns, GateInv, GateTypes, NoIp
  <2>2. \A i \in DOMAIN bits : i # NoSlice
    BY CapIsNat DEF GateInv, GateTypes, NoSlice
  <2> QED
    BY <1>1, <2>1, <2>2 DEF SlicesDisjoint, GateInv, nonces
<1> QED
  BY <1>4, <1>5, <1>6, <1>7 DEF GateInv

\* ConnGuard::drop, whatever the connection did last.
LEMMA LeaveStep ==
    ASSUME GateInv, NEW c \in Conn, open[c] # NoIp, NEW r, Kept(r),
           r.conns = Counted(open[c]), Leave(c, r)
    PROVE  GateInv'
<1>0. PICK ip \in Ip : ip = open[c]
  BY DEF GateInv, GateTypes
<1> DEFINE q == released(r)
<1>1. /\ Store(ip, q) /\ open' = [open EXCEPT ![c] = NoIp]
      /\ slice' = [slice EXCEPT ![c] = NoSlice] /\ UNCHANGED <<clock, cursor>>
      /\ bits' = [i \in DOMAIN bits |-> bits[i] /\ i # slice[c]]
  BY <1>0 DEF Leave, release_slice
<1>2. /\ ip \in Ip /\ Cardinality(LiveOf(ip)) \in Nat \ {0}
      /\ \A x \in Ip : Cardinality(LiveOf(x))' =
            IF x = ip THEN Cardinality(LiveOf(x)) - 1 ELSE Cardinality(LiveOf(x))
  BY <1>0, <1>1, LiveGoes DEF GateInv
<1>3. Kept(q) /\ q.conns = Most(0, r.conns - 1) /\ r.conns \in Nat
  BY ReleasedIs DEF Kept, IpRecord
<1> HIDE DEF q
<1>4. TableOK' /\ Stored(ip, q)
  BY <1>1, <1>2, <1>3, StoreStores DEF GateInv
<1>5. ConnsCounted'
  <2>1. /\ Counted(ip) <= Cardinality(LiveOf(ip))
        /\ ~saturated => Counted(ip) = Cardinality(LiveOf(ip))
    BY <1>2, CountIs
  <2>2. /\ Cardinality(LiveOf(ip))' \in Nat /\ q.conns <= Cardinality(LiveOf(ip))'
        /\ ~saturated => q.conns = Cardinality(LiveOf(ip))'
    BY <1>0, <1>2, <1>3, <2>1 DEF Most
  <2>3. \A x \in Ip \ {ip} : Cardinality(LiveOf(x))' = Cardinality(LiveOf(x))
    BY <1>2
  <2> QED
    BY <1>2, <1>3, <1>4, <2>2, <2>3, CountsKept DEF GateInv
<1>6. GateTypes'
  <2>1. saturated' \in BOOLEAN
    BY <1>4 DEF Stored, GateInv, GateTypes
  <2>2. /\ open' \in [Conn -> Ip \cup {NoIp}]
        /\ slice' \in [Conn -> (0..(Slices - 1)) \cup {NoSlice}]
        /\ \A d \in Conn : open'[d] = NoIp => slice'[d] = NoSlice
    BY <1>1 DEF GateInv, GateTypes
  <2>3. bits' \in [0..(Slices - 1) -> BOOLEAN]
    BY <1>1 DEF GateInv, GateTypes
  <2> QED
    BY <1>1, <2>1, <2>2, <2>3 DEF GateInv, GateTypes
<1>7. SlicesDisjoint'
  <2>1. LiveConns' = LiveConns \ {c} /\ c \in LiveConns
    BY <1>1 DEF LiveConns, GateInv, GateTypes
  <2>2. \A d \in LiveConns' : slice'[d] = slice[d]
    BY <1>1, <2>1 DEF LiveConns, GateInv, GateTypes
  <2>3. DOMAIN bits' = DOMAIN bits /\ NoSlice \notin DOMAIN bits
    BY <1>1, CapIsNat DEF GateInv, GateTypes, NoSlice
  <2>4. \A i \in DOMAIN bits : bits[i] <=> \E d \in LiveConns : slice[d] = i
    BY DEF SlicesDisjoint, GateInv
  <2>5. \A d \in LiveConns : d # c /\ slice[d] # NoSlice => slice[d] # slice[c]
    BY <2>1 DEF SlicesDisjoint, GateInv
  <2>6. ASSUME NEW i \in DOMAIN bits
        PROVE  bits'[i] <=> \E d \in LiveConns' : slice'[d] = i
    <3>1. bits'[i] <=> bits[i] /\ i # slice[c]
      BY <1>1
    <3>2. bits[i] /\ i # slice[c] <=> \E d \in LiveConns \ {c} : slice[d] = i
      BY <2>1, <2>3, <2>4, <2>5
    <3> QED
      BY <3>1, <3>2, <2>1, <2>2
  <2> QED
    BY <2>1, <2>2, <2>3, <2>6 DEF SlicesDisjoint, GateInv
<1> QED
  BY <1>4, <1>5, <1>6, <1>7 DEF GateInv

\* E1Allocator::acquire and the subscription that keeps the slice.
LEMMA SubscribeStep ==
    ASSUME GateInv, NEW c \in Conn, on_subscribe_slice(c)
    PROVE  GateInv'
<1>1. /\ open[c] # NoIp /\ slice[c] = NoSlice /\ slice' = [slice EXCEPT ![c] = acquire]
      /\ bits' = [bits EXCEPT ![acquire] = TRUE] /\ cursor' = (acquire + 1) % Slices
      /\ UNCHANGED <<clock, lru, rec, saturated, open>>
  BY DEF on_subscribe_slice, table
<1>2. acquire \in 0..(Slices - 1) /\ ~bits[acquire]
  BY AcquireIs DEF on_subscribe_slice, GateInv
<1> DEFINE k == acquire
<1>3. PICK a \in 0..(Slices - 1) : a = acquire
  BY <1>2
<1>4. cursor' \in 0..(Slices - 1)
  <2>1. \A b \in Nat, n \in Nat \ {0} : b % n \in 0..(n - 1)
    OBVIOUS
  <2>2. a + 1 \in Nat
    BY CapIsNat
  <2> QED
    BY <2>1, <2>2, <1>1, <1>3, CapIsNat
<1>5. GateTypes'
  BY <1>1, <1>3, <1>4 DEF GateInv, GateTypes
<1>6. TableOK' /\ ConnsCounted'
  BY <1>1 DEF GateInv, TableOK, Kept, Distinct, ConnsCounted, LiveOf, Held
<1>7. SlicesDisjoint'
  <2>1. LiveConns' = LiveConns /\ c \in LiveConns
    BY <1>1 DEF LiveConns
  <2>2. \A d \in LiveConns : slice'[d] = IF d = c THEN a ELSE slice[d]
    BY <1>1, <1>3 DEF LiveConns, GateInv, GateTypes
  <2>3. \A d \in LiveConns : slice[d] # a
    BY <1>2, <1>3 DEF SlicesDisjoint, GateInv, GateTypes
  <2>4. a # NoSlice /\ NoSlice \notin DOMAIN bits
    BY CapIsNat DEF NoSlice, GateInv, GateTypes
  <2>5. ASSUME NEW i \in DOMAIN bits
        PROVE  bits'[i] <=> \E d \in LiveConns : slice'[d] = i
    <3>1. bits'[i] <=> bits[i] \/ i = a
      BY <1>1, <1>3 DEF GateInv, GateTypes
    <3>2. bits[i] <=> \E d \in LiveConns : slice[d] = i
      BY DEF SlicesDisjoint, GateInv
    <3>3. slice[c] # i
      BY <1>1, <2>4
    <3> QED
      BY <3>1, <3>2, <3>3, <2>1, <2>2
  <2>6. DOMAIN bits' = DOMAIN bits
    BY <1>1
  <2>7. ASSUME NEW d \in LiveConns, NEW e \in LiveConns, d # e, slice'[d] # NoSlice
        PROVE  slice'[d] # slice'[e]
    BY <2>2, <2>3, <2>4, <2>7 DEF SlicesDisjoint, GateInv
  <2> QED
    BY <2>1, <2>5, <2>6, <2>7 DEF SlicesDisjoint
<1> QED
  BY <1>5, <1>6, <1>7 DEF GateInv

LEMMA ScoreStep ==
    ASSUME GateInv, NEW c \in Conn, NEW severity \in {"soft", "hard"}, score(c, severity)
    PROVE  GateInv'
<1>1. PICK ip \in Ip : ip = open[c]
  BY DEF score, GateInv, GateTypes
<1> DEFINE d == decayed(ip)
           r == Scored(d, severity)
<1>2. Kept(d) /\ d.conns = Counted(ip) /\ clock \in Nat
  BY DecayedIs, CountIs DEF GateInv
<1> HIDE DEF d
<1>3. Kept(r) /\ r.conns = Counted(ip)
  BY <1>2, ScoredIs
<1> HIDE DEF r
<1>4. Kept(penalise(r)) /\ penalise(r).conns = Counted(ip)
  BY <1>2, <1>3, PenaliseIs
<1>5. CASE Bans(r)
  BY <1>1, <1>4, <1>5, LeaveStep DEF score, r, d
<1>6. CASE ~Bans(r)
  <2>1. Store(ip, r) /\ UNCHANGED <<clock, open, nonces>>
    BY <1>1, <1>6 DEF score, r, d
  <2> QED
    BY <1>3, <2>1, StayStep
<1> QED
  BY <1>5, <1>6

\* The type, the counts of connections and the slices of the gate hold in every
\* reachable state: BanTable over an Lru too small for the addresses, the accept
\* loop, and E1Allocator.
LEMMA GateInductive == GateInv /\ [GateNext]_gateVars => GateInv'
<1> SUFFICES ASSUME GateInv, [GateNext]_gateVars PROVE GateInv'
  OBVIOUS
<1>1. ASSUME NEW ip \in Ip, admit_refused(ip) PROVE GateInv'
  <2>1. Kept(Attempt(ip)) /\ Attempt(ip).conns = Counted(ip)
    BY AttemptIs, CountIs DEF GateInv
  <2> QED
    BY <1>1, <2>1, StayStep DEF admit_refused
<1>2. ASSUME NEW c \in Conn, Hangs_up(c) PROVE GateInv'
  <2>1. open[c] \in Ip /\ open[c] # NoIp
    BY <1>2 DEF Hangs_up, GateInv, GateTypes
  <2>2. Kept(decayed(open[c])) /\ decayed(open[c]).conns = Counted(open[c])
    BY <2>1, DecayedIs, CountIs DEF GateInv
  <2> QED
    BY <1>2, <2>1, <2>2, LeaveStep DEF Hangs_up
<1>3. ASSUME NEW c \in Conn, throttle(c) PROVE GateInv'
  <2>1. open[c] \in Ip /\ open[c] # NoIp
    BY <1>3 DEF throttle, GateInv, GateTypes
  <2> DEFINE d == decayed(open[c])
             r == [d EXCEPT !.throttled = clock + Throttle]
  <2>2. Kept(d) /\ d.conns = Counted(open[c]) /\ clock \in Nat
    BY <2>1, DecayedIs, CountIs DEF GateInv
  <2>3. Leave(c, r)
    BY <1>3 DEF throttle
  <2> HIDE DEF d
  <2>4. Kept(r) /\ r.conns = Counted(open[c])
    BY <2>2, CapIsNat DEF Kept, IpRecord
  <2> HIDE DEF r
  <2> QED
    BY <2>1, <2>3, <2>4, LeaveStep
<1>4. CASE Second
  <2>1. /\ clock' = clock + 1 /\ clock' \in 1..MaxTime /\ clock \in Nat
        /\ UNCHANGED <<lru, rec, saturated, open, slice, bits, cursor>>
    BY <1>4, CapIsNat DEF Second, GateInv, GateTypes, table, nonces
  <2>2. \A r \in IpRecord : r.decay <= clock => r.decay <= clock'
    BY <2>1 DEF IpRecord
  <2>3. \A r \in IpRecord : r.window <= clock => r.window <= clock'
    BY <2>1 DEF IpRecord
  <2>4. TableOK'
    <3>1. \A ip \in Range(lru) : /\ rec[ip] \in IpRecord
                                  /\ rec[ip].decay <= clock' /\ rec[ip].window <= clock'
      BY <2>2, <2>3 DEF GateInv, TableOK, Kept
    <3> QED
      BY <3>1, <2>1 DEF GateInv, TableOK, Distinct, Kept
  <2>5. GateTypes'
    BY <2>1 DEF GateInv, GateTypes
  <2>6. ConnsCounted' /\ SlicesDisjoint'
    BY <2>1 DEF GateInv, ConnsCounted, LiveOf, Held, SlicesDisjoint, LiveConns
  <2> QED
    BY <2>4, <2>5, <2>6 DEF GateInv
<1>5. CASE UNCHANGED gateVars
  <2>1. UNCHANGED <<clock, lru, rec, saturated, open, slice, bits, cursor>>
    BY <1>5 DEF gateVars, table, nonces
  <2>2. TableOK'
    BY <2>1 DEF GateInv, TableOK, Kept, Distinct
  <2>3. GateTypes'
    BY <2>1 DEF GateInv, GateTypes
  <2>4. ConnsCounted' /\ SlicesDisjoint'
    BY <2>1 DEF GateInv, ConnsCounted, LiveOf, Held, SlicesDisjoint, LiveConns
  <2> QED
    BY <2>2, <2>3, <2>4 DEF GateInv
<1> QED
  BY <1>1, <1>2, <1>3, <1>4, <1>5, AdmitStep, SubscribeStep, ScoreStep DEF GateNext

LEMMA GateInitially == GateInit => GateInv
<1> SUFFICES ASSUME GateInit PROVE GateInv
  OBVIOUS
<1>1. lru = <<>> /\ Range(lru) = {} /\ DOMAIN rec = {}
  BY DEF GateInit, Range
<1>2. TableOK
  BY <1>1, CapIsNat, EmptySeq DEF TableOK, Distinct
<1>3. LiveConns = {} /\ \A ip \in Ip : LiveOf(ip) = {}
  BY GateConstants DEF GateInit, LiveConns, LiveOf, NoIp
<1>4. GateTypes
  <2>1. clock \in 1..MaxTime /\ saturated \in BOOLEAN /\ cursor \in 0..(Slices - 1)
    <3>1. clock = 1 /\ saturated = FALSE /\ cursor = 0
      BY DEF GateInit
    <3>2. saturated \in BOOLEAN
      BY <3>1, Zenon
    <3>3. clock \in 1..MaxTime /\ cursor \in 0..(Slices - 1)
      BY <3>1, CapIsNat
    <3> QED
      BY <3>2, <3>3
  <2>2. /\ open \in [Conn -> Ip \cup {NoIp}]
        /\ slice \in [Conn -> (0..(Slices - 1)) \cup {NoSlice}]
        /\ \A c \in Conn : slice[c] = NoSlice
    BY DEF GateInit
  <2>3. bits \in [0..(Slices - 1) -> BOOLEAN]
    BY DEF GateInit
  <2> QED
    BY <2>1, <2>2, <2>3 DEF GateTypes
<1>5. ConnsCounted
  BY <1>1, <1>3, FS_EmptySet DEF ConnsCounted, Held
<1>6. SlicesDisjoint
  BY <1>3 DEF SlicesDisjoint, GateInit
<1> QED
  BY <1>2, <1>4, <1>5, <1>6 DEF GateInv

LEMMA TypeOfGate ==
    ASSUME GateInv
    PROVE  GateTypeOK
<1>1. Len(lru) \in Nat /\ lru \in [1..Len(lru) -> Ip] /\ DOMAIN lru = 1..Len(lru)
  BY LenProperties DEF GateInv, TableOK
<1>2. lru \in Bijection(1..Len(lru), Range(lru))
  BY <1>1 DEF GateInv, TableOK, Distinct, Bijection, Injection, Surjection, Range, IsInjective
<1>3. Cardinality(Range(lru)) = Len(lru)
  BY <1>1, <1>2, FS_CountingElements DEF ExistsBijection
<1> QED
  BY <1>3 DEF GateInv, GateTypes, TableOK, Kept, GateTypeOK

THEOREM GateIsSound == GateSpec => []GateSound
<1>1. GateInv => GateSound
  BY TypeOfGate DEF GateInv, GateSound
<1> QED
  BY <1>1, GateInitially, GateInductive, PTL DEF GateSpec

BansKept ==
    \A ip \in Range(lru) : rec[ip].banned > clock' =>
        ip \in Range(lru') /\ rec'[ip].banned >= rec[ip].banned

LEMMA StoreKeepsBans ==
    ASSUME GateInv, NEW ip \in Ip, NEW r, Kept(r), r.banned >= BannedTill(ip), Store(ip, r),
           clock' = clock
    PROVE  BansKept
<1>1. Stored(ip, r)
  BY StoreStores DEF GateInv
<1>2. SUFFICES ASSUME NEW x \in Range(lru), rec[x].banned > clock
               PROVE  x \in Range(lru') /\ rec'[x].banned >= rec[x].banned
  BY DEF BansKept
<1>3. rec[x].banned \in Nat /\ clock \in Nat
  <2>1. rec[x] \in IpRecord
    BY DEF GateInv, TableOK, Kept
  <2> QED
    BY <2>1, CountIs DEF IpRecord
<1>4. ~evictable(rec[x])
  BY <1>2, <1>3 DEF evictable
<1>5. CASE x = ip
  BY <1>1, <1>3, <1>5 DEF Stored, BannedTill, Held
<1>6. CASE x # ip
  BY <1>1, <1>3, <1>4, <1>6 DEF Stored
<1> QED
  BY <1>5, <1>6

LEMMA LeaveKeepsBans ==
    ASSUME GateInv, NEW c \in Conn, open[c] # NoIp, NEW r, Kept(r),
           r.banned >= BannedTill(open[c]), Leave(c, r)
    PROVE  BansKept
<1>1. open[c] \in Ip /\ Store(open[c], released(r)) /\ clock' = clock
  BY DEF GateInv, GateTypes, Leave
<1>2. Kept(released(r)) /\ released(r).banned = r.banned
  BY ReleasedIs
<1> QED
  BY <1>1, <1>2, StoreKeepsBans

\* abuse.rs: "what stops connection churn from knocking out a live ban".  No step
\* of any address shortens or forgets a ban that runs, in any number of steps.
THEOREM BansOutliveChurn == GateSpec => BanOutlivesChurn
<1>1. GateInv /\ [GateNext]_gateVars => BansKept \/ UNCHANGED gateVars
  <2> SUFFICES ASSUME GateInv, GateNext PROVE BansKept
    OBVIOUS
  <2>1. ASSUME NEW ip \in Ip
        PROVE  /\ Kept(Attempt(ip)) /\ Attempt(ip).banned = BannedTill(ip)
               /\ Kept(decayed(ip)) /\ decayed(ip).banned = BannedTill(ip)
               /\ BannedTill(ip) \in Nat /\ clock \in Nat
    <3>1. clock \in Nat /\ TableOK
      BY CountIs DEF GateInv
    <3>2. BannedTill(ip) \in Nat
      BY <3>1 DEF BannedTill, TableOK, Kept, IpRecord, Held
    <3> QED
      BY <3>1, <3>2, AttemptIs, DecayedIs
  <2>2. ASSUME NEW ip \in Ip, admit_refused(ip) PROVE BansKept
    <3>1. Store(ip, Attempt(ip)) /\ clock' = clock /\ Attempt(ip).banned >= BannedTill(ip)
      BY <2>1, <2>2 DEF admit_refused
    <3> QED
      BY <2>1, <3>1, StoreKeepsBans
  <2>3. ASSUME NEW c \in Conn, NEW ip \in Ip, admit(c, ip) PROVE BansKept
    <3> DEFINE a == Attempt(ip)
               r == [a EXCEPT !.conns = @ + 1]
    <3>1. Store(ip, r) /\ clock' = clock
      BY <2>3 DEF admit
    <3>2. Kept(a) /\ a.banned = BannedTill(ip) /\ BannedTill(ip) \in Nat
      BY <2>1
    <3> HIDE DEF a
    <3>3. Kept(r) /\ r.banned >= BannedTill(ip)
      BY <3>2 DEF Kept, IpRecord
    <3> HIDE DEF r
    <3> QED
      BY <3>1, <3>3, StoreKeepsBans
  <2>4. ASSUME NEW c \in Conn, open[c] # NoIp PROVE open[c] \in Ip
    BY <2>4 DEF GateInv, GateTypes
  <2>5. ASSUME NEW c \in Conn, Hangs_up(c) PROVE BansKept
    <3>1. open[c] # NoIp /\ open[c] \in Ip /\ Leave(c, decayed(open[c]))
      BY <2>4, <2>5 DEF Hangs_up
    <3>2. Kept(decayed(open[c])) /\ decayed(open[c]).banned >= BannedTill(open[c])
      BY <2>1, <3>1
    <3> QED
      BY <3>1, <3>2, LeaveKeepsBans
  <2>6. ASSUME NEW c \in Conn, throttle(c) PROVE BansKept
    <3> DEFINE d == decayed(open[c])
               r == [d EXCEPT !.throttled = clock + Throttle]
    <3>1. open[c] # NoIp /\ open[c] \in Ip /\ Leave(c, r)
      BY <2>4, <2>6 DEF throttle
    <3>2. Kept(d) /\ d.banned >= BannedTill(open[c]) /\ clock \in Nat
      BY <2>1, <3>1
    <3> HIDE DEF d
    <3>3. Kept(r) /\ r.banned >= BannedTill(open[c])
      BY <3>2, CapIsNat DEF Kept, IpRecord
    <3> HIDE DEF r
    <3> QED
      BY <3>1, <3>3, LeaveKeepsBans
  <2>7. ASSUME NEW c \in Conn, NEW s \in {"soft", "hard"}, score(c, s) PROVE BansKept
    <3>1. open[c] # NoIp /\ open[c] \in Ip
      BY <2>4, <2>7 DEF score
    <3> DEFINE d == decayed(open[c])
               r == Scored(d, s)
               p == penalise(r)
    <3>2. Kept(d) /\ d.banned = BannedTill(open[c]) /\ clock \in Nat /\ d.banned \in Nat
      BY <2>1, <3>1
    <3>3. IF Bans(r) THEN Leave(c, p) ELSE Store(open[c], r) /\ clock' = clock
      BY <2>7 DEF score
    <3> HIDE DEF d
    <3>4. Kept(r) /\ r.banned = BannedTill(open[c]) /\ r.banned \in Nat
      BY <3>2, ScoredIs
    <3> HIDE DEF r
    <3>5. Kept(p) /\ p.banned >= BannedTill(open[c]) /\ r.banned >= BannedTill(open[c])
      BY <3>2, <3>4, PenaliseIs
    <3> HIDE DEF p
    <3> QED
      BY <3>1, <3>3, <3>4, <3>5, LeaveKeepsBans, StoreKeepsBans
  <2>8. ASSUME UNCHANGED <<lru, rec>> PROVE BansKept
    BY <2>8 DEF BansKept, GateInv, TableOK, Kept, IpRecord
  <2>9. ASSUME Second \/ \E c \in Conn : on_subscribe_slice(c) PROVE UNCHANGED <<lru, rec>>
    BY <2>9 DEF Second, on_subscribe_slice, table
  <2> QED
    BY <2>2, <2>3, <2>5, <2>6, <2>7, <2>8, <2>9 DEF GateNext
<1> QED
  BY <1>1, GateInitially, GateInductive, PTL DEF GateSpec, BanOutlivesChurn, BansKept
-----------------------------------------------------------------------------
(***************************************************************************)
(* One mining connection.  AdmissionInv is inductive: an                   *)
(* admitted share is in one place (the actions of a turn, the pool's       *)
(* queue, its thread, the result channel, the answer being given), and     *)
(* in_flight and queued say so.  PaidInv adds why a share is paid once:    *)
(* whatever is on its way or paid has its nonce in the dedup of every      *)
(* slot, `previous` included, that still answers for its job.              *)
(***************************************************************************)
SharesSpec == SharesInit /\ [][SharesNext]_shareVars

\* What is left of a turn of the connection loop.
Endings == {<<"lines">>, <<"close">>, <<"actions">>}
Pushing == {"push", "build", "gen"}
Turns == {<<>>} \cup Endings \cup {<<"tick", "actions">>, <<"complete", "actions">>, <<"complete", "close">>}
    \cup {<<p, e>> : p \in Pushing, e \in {"lines", "actions"}}
    \cup {<<p, "complete", "actions">> : p \in Pushing}

Pushed == [epoch : 1..MaxTip, tmpl : Template]
Drafted == [epoch : 1..MaxTip, tmpl : 0..MaxTip]

SharesTypes ==
    /\ tip \in 1..MaxTip /\ unannounced \in BOOLEAN /\ notified \in BOOLEAN
    /\ inFlight \in BOOLEAN /\ queued \in BOOLEAN
    /\ cache \subseteq Pushed /\ life \in 0..MaxLife
    /\ phase \in {"closed", "fresh", "subscribed", "authorized"}
    /\ ring \in [0..(JobSlots - 1) -> Job \cup {None}] /\ head \in 0..(JobSlots - 1)
    /\ previous \in Job \cup {None} /\ nextId \in Nat /\ lastGen \in 0..MaxTip
    /\ pending \in Share \cup {None} /\ seq \in 0..MaxSeq
    /\ todo \in Turns /\ actions \in Seq(Share) /\ vqueue \in Seq(Share \cup {Other})
    /\ sealing \in Seq(Share) /\ results \in Seq([share : Share, verdict : Verdict])
    /\ thread \in [share : Share, stage : {"hash", "sealing"}] \cup {None}
    /\ credited \subseteq (1..MaxLife) \X Nat \X Nonce

\* The template push_job has read is there when it is needed.
PushHasTemplate ==
    todo # <<>> => /\ todo[1] = "build" => push \in Drafted
                   /\ todo[1] = "gen" => push \in Pushed

Closed == ~Live => /\ todo = <<>> /\ actions = <<>> /\ results = <<>> /\ ~inFlight /\ ~queued
                   /\ pending = None

\* No share is of a connection that is still to come, and what a connection
\* holds is its own.
Owned ==
    /\ Live => life \in 1..MaxLife
    /\ \A i \in 1..Len(vqueue) : vqueue[i] # Other => vqueue[i].life <= life
    /\ thread # None => thread.share.life <= life
    /\ \A k \in credited : k[1] <= life
    /\ \A i \in 1..Len(actions) : actions[i].life = life
    /\ \A i \in 1..Len(results) : results[i].share.life = life
    /\ pending # None => pending.life = life

\* One share of the connection is in at most one place, and in_flight says so.
InActions == actions # <<>>
InQueue == Waiting # {}
InThread == thread # None /\ Mine(thread.share)
InResults == results # <<>>
InAnswer == Completions # {}
OnePlace ==
    /\ Len(actions) <= 1 /\ Len(results) <= 1
    /\ \A i, j \in Waiting : i = j
    /\ \A i, j \in Completions : i = j
    /\ InActions => ~InQueue /\ ~InThread /\ ~InResults /\ ~InAnswer
    /\ InQueue => ~InThread /\ ~InResults /\ ~InAnswer
    /\ InThread => ~InResults /\ ~InAnswer
    /\ InResults => ~InAnswer
    /\ inFlight <=> InActions \/ InQueue \/ InThread \/ InResults \/ InAnswer
    /\ queued <=> pending # None
    /\ queued => inFlight

AdmissionInv == SharesTypes /\ PushHasTemplate /\ Closed /\ Owned /\ (Live => OnePlace)

\* A nonce is known to whatever the connection still holds of a job.
KnownTo(job, j, n) == job # None /\ job.id = j => n \in job.dedup
Known(j, n) ==
    /\ j \in Nat /\ j < nextId /\ KnownTo(previous, j, n)
    /\ \A i \in DOMAIN ring : KnownTo(ring[i], j, n)

Bounded(job, ids, shares) ==
    job # None => /\ job.id < ids
                  /\ IsFiniteSet(job.dedup) /\ Cardinality(job.dedup) <= shares
JobsOK ==
    /\ \A i \in DOMAIN ring : Bounded(ring[i], nextId, seq)
    /\ Bounded(previous, nextId, seq)
    /\ previous # None => \A i \in DOMAIN ring : ring[i] # None => ring[i].id # previous.id

NoncesKnown ==
    Live => /\ \A s \in InSystem : Known(s.job, s.nonce)
            /\ pending # None => Known(pending.job, pending.nonce)
            /\ \A k \in credited : k[1] = life => Known(k[2], k[3])

PaidInv == JobsOK /\ NoncesKnown /\ CreditedOnce
SharesInv == AdmissionInv /\ PaidInv

LEMMA NotNone ==
    /\ \A j \in Job : j # None
    /\ \A s \in Share : s # None /\ s # Other
    /\ \A t \in [share : Share, stage : {"hash", "sealing"}] : t # None
    /\ None # Other
<1>1. "none" \in DOMAIN None /\ "other" \in DOMAIN Other /\ "none" \notin DOMAIN Other
  BY DEF None, Other
<1>2. \A j \in Job : "none" \notin DOMAIN j
  BY DEF Job
<1>3. \A s \in Share : "none" \notin DOMAIN s /\ "other" \notin DOMAIN s
  BY DEF Share
<1>4. \A t \in [share : Share, stage : {"hash", "sealing"}] : "none" \notin DOMAIN t
  OBVIOUS
<1> QED
  BY <1>1, <1>2, <1>3, <1>4

\* Tuples: what Tail and putting an element in front make of them.
LEMMA Tuples ==
    ASSUME NEW S, NEW a \in S, NEW b \in S, NEW c \in S
    PROVE  /\ Tail(<<a>>) = <<>> /\ Tail(<<a, b>>) = <<b>> /\ Tail(<<a, b, c>>) = <<b, c>>
           /\ <<a>> \o <<b>> = <<a, b>>
<1>1. <<a>> \in Seq(S) /\ Len(<<a>>) = 1
  OBVIOUS
<1>2. <<b>> \in Seq(S) /\ Len(<<b>>) = 1
  OBVIOUS
<1>3. <<a, b>> \in Seq(S) /\ Len(<<a, b>>) = 2 /\ <<a, b>>[1] = a /\ <<a, b>>[2] = b
  OBVIOUS
<1>4. <<b, c>> \in Seq(S) /\ Len(<<b, c>>) = 2 /\ <<b, c>>[1] = b /\ <<b, c>>[2] = c
  OBVIOUS
<1>5. /\ <<a, b, c>> \in Seq(S) /\ Len(<<a, b, c>>) = 3
      /\ <<a, b, c>>[1] = a /\ <<a, b, c>>[2] = b /\ <<a, b, c>>[3] = c
  OBVIOUS
<1>6. Tail(<<a>>) = <<>>
  <2>1. Tail(<<a>>) \in Seq(S) /\ Len(Tail(<<a>>)) = 0
    BY <1>1, HeadTailProperties
  <2> QED
    BY <2>1, EmptySeq
<1>7. Tail(<<a, b>>) = <<b>>
  <2> DEFINE t == Tail(<<a, b>>)
  <2>1. t \in Seq(S) /\ Len(t) = 1 /\ t[1] = <<a, b>>[2]
    BY <1>3, HeadTailProperties
  <2> HIDE DEF t
  <2> QED
    BY <2>1, <1>2, <1>3, SeqEqual DEF t
<1>8. Tail(<<a, b, c>>) = <<b, c>>
  <2> DEFINE t == Tail(<<a, b, c>>)
  <2>1. t \in Seq(S) /\ Len(t) = 2 /\ t[1] = <<a, b, c>>[2] /\ t[2] = <<a, b, c>>[3]
    BY <1>5, HeadTailProperties
  <2> HIDE DEF t
  <2> QED
    BY <2>1, <1>4, <1>5, SeqEqual DEF t
<1>9. <<a>> \o <<b>> = <<a, b>>
  <2> DEFINE t == <<a>> \o <<b>>
  <2>1. t \in Seq(S) /\ Len(t) = 2 /\ t[1] = a /\ t[2] = b
    BY <1>1, <1>2, ConcatProperties
  <2> HIDE DEF t
  <2> QED
    <3>1. t = <<a, b>>
      BY <2>1, <1>3, SeqEqual
    <3> QED
      BY <3>1, Zenon DEF t
<1> QED
  BY <1>6, <1>7, <1>8, <1>9

LEMMA InFront ==
    ASSUME NEW S, NEW a \in S, NEW b \in S, NEW c \in S
    PROVE  <<a>> \o <<b, c>> = <<a, b, c>>
<1> DEFINE t == <<a>> \o <<b, c>>
<1>1. <<a>> \in Seq(S) /\ Len(<<a>>) = 1 /\ <<a>>[1] = a
  OBVIOUS
<1>2. <<b, c>> \in Seq(S) /\ Len(<<b, c>>) = 2 /\ <<b, c>>[1] = b /\ <<b, c>>[2] = c
  OBVIOUS
<1>3. /\ <<a, b, c>> \in Seq(S) /\ Len(<<a, b, c>>) = 3
      /\ <<a, b, c>>[1] = a /\ <<a, b, c>>[2] = b /\ <<a, b, c>>[3] = c
  OBVIOUS
<1>4. t \in Seq(S) /\ Len(t) = 3 /\ t[1] = a /\ t[2] = b /\ t[3] = c
  BY <1>1, <1>2, ConcatProperties
<1> HIDE DEF t
<1>5. t = <<a, b, c>>
  BY <1>3, <1>4, SeqEqual
<1> QED
  BY <1>5, Zenon DEF t

Answering(t) == \E i \in 1..Len(t) : t[i] = "complete"

LEMMA TurnShape ==
    ASSUME NEW t \in Turns
    PROVE  /\ \A i, j \in 1..Len(t) : t[i] = "complete" /\ t[j] = "complete" => i = j
           /\ Answering(t) <=> \/ t \in {<<"complete", "actions">>, <<"complete", "close">>}
                               \/ t \in {<<p, "complete", "actions">> : p \in Pushing}
           /\ \A i \in 1..Len(t) : t[i] \in Stage
<1>1. CASE t = <<>>
  BY <1>1 DEF Answering, Pushing, Stage
<1>2. CASE t \in Endings
  BY <1>2 DEF Answering, Pushing, Endings, Stage
<1>3. CASE t \in {<<"tick", "actions">>, <<"complete", "actions">>, <<"complete", "close">>}
  BY <1>3 DEF Answering, Pushing, Stage
<1>4. CASE t \in {<<p, e>> : p \in Pushing, e \in {"lines", "actions"}}
  BY <1>4 DEF Answering, Pushing, Stage
<1>5. CASE t \in {<<p, "complete", "actions">> : p \in Pushing}
  BY <1>5 DEF Answering, Pushing, Stage
<1> QED
  BY <1>1, <1>2, <1>3, <1>4, <1>5 DEF Turns

LEMMA TurnStage ==
    ASSUME NEW t \in Turns, t # <<>>
    PROVE  /\ t[1] = "lines" => t = <<"lines">>
           /\ t[1] = "close" => t = <<"close">>
           /\ t[1] = "actions" => t = <<"actions">>
           /\ t[1] = "tick" => t = <<"tick", "actions">>
           /\ t[1] = "complete" => t \in {<<"complete", "actions">>, <<"complete", "close">>}
           /\ t[1] \in Pushing =>
                /\ Tail(t) \in Endings \cup {<<"complete", "actions">>}
                /\ Answering(Tail(t)) <=> Answering(t)
                /\ \A p \in Pushing : /\ <<p>> \o Tail(t) \in Turns
                                      /\ Answering(<<p>> \o Tail(t)) <=> Answering(t)
                                      /\ (<<p>> \o Tail(t))[1] = p /\ <<p>> \o Tail(t) # <<>>
<1>1. CASE t \in Endings
  BY <1>1 DEF Endings, Pushing
<1>2. CASE t \in {<<"tick", "actions">>, <<"complete", "actions">>, <<"complete", "close">>}
  BY <1>2 DEF Pushing
<1>3. CASE t \in {<<p, e>> : p \in Pushing, e \in {"lines", "actions"}}
  <2>1. PICK q \in Pushing, e \in {"lines", "actions"} : t = <<q, e>>
    BY <1>3
  <2>2. Tail(t) = <<e>> /\ \A p \in Pushing : <<p>> \o Tail(t) = <<p, e>>
    <3>1. q \in Stage /\ e \in Stage /\ \A p \in Pushing : p \in Stage
      BY DEF Pushing, Stage
    <3>2. Tail(<<q, e>>) = <<e>>
      BY <3>1, Tuples
    <3>3. \A p \in Pushing : <<p>> \o <<e>> = <<p, e>>
      BY <3>1, Tuples
    <3> QED
      BY <2>1, <3>2, <3>3, Zenon
  <2>3. \A p \in Pushing : <<p, e>> \in Turns
    BY DEF Turns
  <2>4. ~Answering(<<e>>) /\ \A p \in Pushing : ~Answering(<<p, e>>)
    BY DEF Pushing, Answering
  <2>5. \A p \in Pushing : <<p, e>>[1] = p /\ <<p, e>> # <<>>
    OBVIOUS
  <2> QED
    BY <2>1, <2>2, <2>3, <2>4, <2>5 DEF Endings, Pushing
<1>4. CASE t \in {<<p, "complete", "actions">> : p \in Pushing}
  <2>1. PICK q \in Pushing : t = <<q, "complete", "actions">>
    BY <1>4
  <2>2. /\ Tail(t) = <<"complete", "actions">>
        /\ \A p \in Pushing : <<p>> \o Tail(t) = <<p, "complete", "actions">>
    <3>1. q \in Stage /\ "complete" \in Stage /\ "actions" \in Stage
          /\ \A p \in Pushing : p \in Stage
      BY DEF Pushing, Stage
    <3>2. Tail(<<q, "complete", "actions">>) = <<"complete", "actions">>
      BY <3>1, Tuples
    <3>3. ASSUME NEW p \in Pushing
          PROVE  <<p>> \o <<"complete", "actions">> = <<p, "complete", "actions">>
      <4> DEFINE x == "complete"
                 y == "actions"
      <4>1. p \in Stage /\ x \in Stage /\ y \in Stage
        BY <3>1
      <4> HIDE DEF x, y
      <4>2. <<p>> \o <<x, y>> = <<p, x, y>>
        BY <4>1, InFront, Zenon
      <4> QED
        BY <4>2 DEF x, y
    <3> QED
      BY <2>1, <3>2, <3>3, Zenon
  <2>3. \A p \in Pushing : <<p, "complete", "actions">> \in Turns
    BY DEF Turns
  <2>4. /\ Answering(<<"complete", "actions">>)
        /\ \A p \in Pushing : Answering(<<p, "complete", "actions">>)
    <3>1. \A p \in Pushing : <<p, "complete", "actions">>[2] = "complete" /\ 2 \in 1..Len(<<p, "complete", "actions">>)
      OBVIOUS
    <3>2. <<"complete", "actions">>[1] = "complete" /\ 1 \in 1..Len(<<"complete", "actions">>)
      OBVIOUS
    <3> QED
      BY <3>1, <3>2 DEF Answering
  <2>5. \A p \in Pushing : <<p, "complete", "actions">>[1] = p /\ <<p, "complete", "actions">> # <<>>
    OBVIOUS
  <2> QED
    BY <2>1, <2>2, <2>3, <2>4, <2>5 DEF Endings, Pushing
<1> QED
  BY <1>1, <1>2, <1>3, <1>4 DEF Turns

-----------------------------------------------------------------------------
LEMMA AnswerIs ==
    ASSUME todo \in Turns
    PROVE  /\ InAnswer <=> Answering(todo)
           /\ \A i, j \in Completions : i = j
BY TurnShape DEF InAnswer, Completions, Answering

\* A step of the connection's turn that moves no share.
LEMMA TurnStep ==
    ASSUME AdmissionInv, Live, Live', todo' \in Turns, Answering(todo') <=> Answering(todo),
           UNCHANGED <<actions, vqueue, thread, results, inFlight, queued, pending, life, credited>>
    PROVE  Closed' /\ Owned' /\ OnePlace'
<1>1. /\ InAnswer' <=> InAnswer
      /\ \A i, j \in Completions' : i = j
  <2>1. /\ InAnswer' <=> Answering(todo')
        /\ \A i, j \in Completions' : i = j
    BY TurnShape DEF InAnswer, Completions, Answering
  <2> QED
    BY <2>1, AnswerIs DEF AdmissionInv, SharesTypes
<1>2. Waiting' = Waiting
  BY DEF Waiting, Mine
<1>3. InThread' <=> InThread
  BY DEF InThread, Mine
<1>4. Closed' /\ Owned'
  BY DEF AdmissionInv, Closed, Owned
<1> QED
  BY <1>1, <1>2, <1>3, <1>4 DEF AdmissionInv, OnePlace, InActions, InQueue, InResults

\* The shape of what is left of a turn after one of its steps.
LEMMA TurnGoes ==
    /\ {<<>>, <<"lines">>, <<"close">>, <<"actions">>, <<"push", "lines">>, <<"push", "actions">>,
        <<"tick", "actions">>} \subseteq Turns
    /\ \A t \in {<<>>, <<"lines">>, <<"close">>, <<"actions">>, <<"push", "lines">>,
                 <<"push", "actions">>, <<"tick", "actions">>} :
          /\ ~Answering(t)
          /\ t # <<>> => t[1] \notin {"build", "gen"}
BY DEF Turns, Endings, Pushing, Answering

LEMMA LinesStep ==
    ASSUME AdmissionInv, Lines, todo' \in Turns, todo' # <<>> => todo'[1] \notin {"build", "gen"},
           ~Answering(todo'), phase' \in {"fresh", "subscribed", "authorized"},
           UNCHANGED <<tipVars, cache, life, jobVars, admitVars, push, actions, notified,
                       results, verifyVars, credited>>
    PROVE  AdmissionInv'
<1>1. Live /\ Live' /\ ~Answering(todo)
  BY DEF Lines, Idle, Live, Answering, AdmissionInv, Closed, SharesTypes, TurnStage, Turns, Endings, Pushing
<1>2. Closed' /\ Owned' /\ OnePlace'
  BY <1>1, TurnStep DEF admitVars, verifyVars
<1>3. SharesTypes'
  BY DEF AdmissionInv, SharesTypes, tipVars, jobVars, admitVars, verifyVars
<1>4. PushHasTemplate'
  BY DEF PushHasTemplate
<1> QED
  BY <1>2, <1>3, <1>4 DEF AdmissionInv

\* Messages that move no share: keepalive, garbage, subscribe, authorize, the end
\* of the lines; a new generation and a tick.
LEMMA MessageSteps ==
    ASSUME AdmissionInv,
           on_keepalive \/ on_garbage \/ on_subscribe \/ on_authorize \/ EndLines
             \/ NewGeneration \/ TickEvent
    PROVE  AdmissionInv'
<1>1. phase \in {"closed", "fresh", "subscribed", "authorized"} /\ todo \in Turns
  BY DEF AdmissionInv, SharesTypes
<1>2. CASE on_keepalive \/ on_garbage \/ on_subscribe \/ on_authorize
  <2>1. Live
    BY <1>2 DEF on_keepalive, on_garbage, on_subscribe, on_authorize, Lines, Idle
  <2>2. todo' \in {<<"lines">>, <<"close">>, <<"push", "lines">>}
    BY <1>2 DEF on_keepalive, on_garbage, on_subscribe, on_authorize, Answered
  <2>3. todo' \in Turns /\ ~Answering(todo') /\ (todo' # <<>> => todo'[1] \notin {"build", "gen"})
    BY <2>2, TurnGoes
  <2>4. /\ Lines /\ phase' \in {"fresh", "subscribed", "authorized"}
        /\ UNCHANGED <<tipVars, cache, life, jobVars, admitVars, push, actions, notified,
                       results, verifyVars, credited>>
    BY <1>1, <1>2, <2>1 DEF on_keepalive, on_garbage, on_subscribe, on_authorize, Live
  <2> QED
    BY <2>3, <2>4, LinesStep
<1>3. CASE EndLines \/ NewGeneration \/ TickEvent
  <2>1. /\ Live /\ Live' /\ todo \in {<<>>, <<"lines">>}
        /\ todo' \in {<<"actions">>, <<"push", "actions">>, <<"tick", "actions">>}
        /\ notified' \in BOOLEAN
        /\ UNCHANGED <<tipVars, cache, life, phase, jobVars, admitVars, push, actions,
                       results, verifyVars, credited>>
    BY <1>3 DEF EndLines, NewGeneration, TickEvent, Idle, Live, AdmissionInv, SharesTypes
  <2>2. /\ todo' \in Turns /\ ~Answering(todo') /\ ~Answering(todo)
        /\ todo' # <<>> => todo'[1] \notin {"build", "gen"}
    BY <2>1, TurnGoes
  <2>3. Closed' /\ Owned' /\ OnePlace'
    BY <2>1, <2>2, TurnStep DEF admitVars, verifyVars
  <2>4. SharesTypes'
    BY <2>1, <2>2 DEF AdmissionInv, SharesTypes, tipVars, jobVars, admitVars, verifyVars
  <2>5. PushHasTemplate'
    BY <2>2 DEF PushHasTemplate
  <2> QED
    BY <2>3, <2>4, <2>5 DEF AdmissionInv
<1> QED
  BY <1>2, <1>3

LEMMA TickSteps ==
    ASSUME AdmissionInv, on_tick_push \/ on_tick_quiet
    PROVE  AdmissionInv'
<1>1. /\ Live /\ Live' /\ todo # <<>> /\ todo[1] = "tick" /\ todo \in Turns
      /\ UNCHANGED <<tipVars, cache, life, phase, jobVars, admitVars, push, actions, notified,
                     results, verifyVars, credited>>
  BY DEF on_tick_push, on_tick_quiet, InTick, Live, AdmissionInv, SharesTypes
<1>2. todo = <<"tick", "actions">>
  BY <1>1, TurnStage
<1>3. Tail(<<"tick", "actions">>) = <<"actions">> /\ <<"push">> \o <<"actions">> = <<"push", "actions">>
  <2>1. "tick" \in Stage /\ "actions" \in Stage /\ "push" \in Stage
    BY DEF Stage
  <2> QED
    BY <2>1, Tuples
<1>4. todo' \in {<<"push", "actions">>, <<"close">>, <<"actions">>}
  BY <1>2, <1>3 DEF on_tick_push, on_tick_quiet, Rest
<1>5. /\ todo' \in Turns /\ ~Answering(todo') /\ ~Answering(todo)
      /\ todo' # <<>> => todo'[1] \notin {"build", "gen"}
  BY <1>2, <1>4, TurnGoes
<1>6. Closed' /\ Owned' /\ OnePlace'
  BY <1>1, <1>5, TurnStep DEF admitVars, verifyVars
<1>7. SharesTypes'
  BY <1>1, <1>5 DEF AdmissionInv, SharesTypes, tipVars, jobVars, admitVars, verifyVars
<1>8. PushHasTemplate'
  BY <1>5 DEF PushHasTemplate
<1> QED
  BY <1>6, <1>7, <1>8 DEF AdmissionInv

\* The two reads of push_job and the push itself.
LEMMA PushSteps ==
    ASSUME AdmissionInv, CurrentCached \/ build \/ NotReady \/ push_job
    PROVE  AdmissionInv'
<1>1. /\ Live /\ Live' /\ todo # <<>> /\ todo[1] \in Pushing /\ todo \in Turns
      /\ UNCHANGED <<tip, unannounced, life, phase, inFlight, queued, pending, seq, actions,
                     notified, results, vqueue, thread, sealing, credited>>
  BY DEF CurrentCached, build, NotReady, push_job, Live, Pushing, AdmissionInv, SharesTypes,
     tipVars, admitVars, verifyVars
<1>2. /\ Rest \in Turns /\ (Answering(Rest) <=> Answering(todo))
      /\ Rest # <<>> => Rest[1] \notin {"build", "gen"}
  <2>1. Rest \in Endings \cup {<<"complete", "actions">>} /\ (Answering(Rest) <=> Answering(todo))
    BY <1>1, TurnStage DEF Rest
  <2> QED
    BY <2>1 DEF Endings, Turns
<1>3. ASSUME NEW p \in {"build", "gen"}
      PROVE  /\ <<p>> \o Rest \in Turns /\ (Answering(<<p>> \o Rest) <=> Answering(todo))
             /\ (<<p>> \o Rest)[1] = p /\ <<p>> \o Rest # <<>>
  BY <1>1, TurnStage DEF Rest, Pushing
<1>4. CASE CurrentCached
  <2>1. UNCHANGED <<cache, jobVars>>
    BY <1>4 DEF CurrentCached
  <2>2. \/ push' \in Pushed /\ todo' = <<"gen">> \o Rest
        \/ push' \in Drafted /\ todo' = <<"build">> \o Rest
    <3>1. tip \in 1..MaxTip /\ 0 \in 0..MaxTip /\ cache \subseteq Pushed
      BY SharesConstants DEF AdmissionInv, SharesTypes
    <3>2. [epoch |-> tip, tmpl |-> 0] \in Drafted
      BY <3>1 DEF Drafted
    <3> QED
      BY <1>4, <3>1, <3>2 DEF CurrentCached
  <2> HIDE DEF Rest
  <2>3. Closed' /\ Owned' /\ OnePlace' /\ todo' \in Turns
    BY <1>1, <1>3, <2>2, TurnStep
  <2>4. SharesTypes'
    BY <1>1, <2>1, <2>3 DEF AdmissionInv, SharesTypes, jobVars
  <2>5. PushHasTemplate'
    BY <1>3, <2>2 DEF PushHasTemplate
  <2> QED
    BY <2>3, <2>4, <2>5 DEF AdmissionInv
<1>5. CASE build
  <2>1. UNCHANGED jobVars /\ push \in Drafted
    BY <1>5 DEF build, AdmissionInv, PushHasTemplate
  <2>2. push' \in Pushed /\ cache' = {push'} /\ todo' = <<"gen">> \o Rest
    BY <1>5, <2>1 DEF build, AdmissionInv, SharesTypes, Drafted, Pushed, Template
  <2> HIDE DEF Rest
  <2>3. Closed' /\ Owned' /\ OnePlace' /\ todo' \in Turns
    BY <1>1, <1>3, <2>2, TurnStep
  <2>4. SharesTypes'
    BY <1>1, <2>1, <2>2, <2>3 DEF AdmissionInv, SharesTypes, jobVars
  <2>5. PushHasTemplate'
    BY <1>3, <2>2 DEF PushHasTemplate
  <2> QED
    BY <2>3, <2>4, <2>5 DEF AdmissionInv
<1>6. CASE NotReady
  <2>1. UNCHANGED <<cache, jobVars>> /\ todo' = Rest
    BY <1>6 DEF NotReady
  <2> HIDE DEF Rest
  <2>3. Closed' /\ Owned' /\ OnePlace' /\ todo' \in Turns
    BY <1>1, <1>2, <2>1, TurnStep
  <2>4. SharesTypes'
    BY <1>1, <2>1, <2>3 DEF AdmissionInv, SharesTypes, jobVars
  <2>5. PushHasTemplate'
    BY <1>2, <2>1 DEF PushHasTemplate
  <2> QED
    BY <2>3, <2>4, <2>5 DEF AdmissionInv
<1>7. CASE push_job
  <2>1. cache' = cache /\ todo' = Rest /\ lastGen' = tip /\ nextId' = nextId + 1 /\ push \in Pushed
    BY <1>7 DEF push_job, AdmissionInv, PushHasTemplate
  <2> DEFINE job == [id |-> nextId, tmpl |-> push.tmpl, dedup |-> {}]
  <2>2. job \in Job
    BY <2>1 DEF Job, Pushed, AdmissionInv, SharesTypes
  <2>3. push_clean(job) \/ push_next(job)
    BY <1>7 DEF push_job
  <2> HIDE DEF job, Rest
  <2>4. /\ ring' \in [0..(JobSlots - 1) -> Job \cup {None}] /\ head' \in 0..(JobSlots - 1)
        /\ previous' \in Job \cup {None}
    <3>1. JobSlots \in Nat \ {0} /\ head \in 0..(JobSlots - 1)
      BY SharesConstants DEF AdmissionInv, SharesTypes
    <3>2. CASE push_clean(job)
      BY <2>2, <3>1, <3>2 DEF push_clean, EmptyRing, AdmissionInv, SharesTypes
    <3>3. CASE push_next(job)
      <4>1. (head + 1) % JobSlots \in 0..(JobSlots - 1)
        <5>1. \A b \in Nat, n \in Nat \ {0} : b % n \in 0..(n - 1)
          OBVIOUS
        <5>2. head + 1 \in Nat
          BY <3>1
        <5> QED
          BY <3>1, <5>1, <5>2
      <4> QED
        BY <2>2, <3>3, <4>1 DEF push_next, AdmissionInv, SharesTypes
    <3> QED
      BY <2>3, <3>2, <3>3
  <2>5. Closed' /\ Owned' /\ OnePlace' /\ todo' \in Turns
    BY <1>1, <1>2, <2>1, TurnStep
  <2>6. SharesTypes'
    BY <1>1, <2>1, <2>4, <2>5 DEF AdmissionInv, SharesTypes
  <2>7. PushHasTemplate'
    BY <1>2, <2>1 DEF PushHasTemplate
  <2> QED
    BY <2>5, <2>6, <2>7 DEF AdmissionInv
<1> QED
  BY <1>4, <1>5, <1>6, <1>7

-----------------------------------------------------------------------------
LEMMA ConnectStep ==
    ASSUME AdmissionInv, Connect
    PROVE  AdmissionInv'
<1>1. /\ ~Live /\ life' = life + 1 /\ life < MaxLife /\ phase' = "fresh" /\ todo' = <<>>
      /\ ring' = EmptyRing /\ head' = 0 /\ nextId' = 0 /\ previous' = None /\ lastGen' = 0
      /\ inFlight' = FALSE /\ queued' = FALSE /\ pending' = None /\ seq' = 0
      /\ push' = None /\ actions' = <<>> /\ notified' = FALSE /\ results' = <<>>
      /\ UNCHANGED <<tip, unannounced, cache, vqueue, thread, sealing, credited>>
  BY DEF Connect, Session_new, Live, tipVars, verifyVars
<1>2. life' \in 1..MaxLife /\ life \in Nat
  BY <1>1, SharesConstants DEF AdmissionInv, SharesTypes
<1>3. SharesTypes'
  <2>1. /\ todo' \in Turns /\ actions' \in Seq(Share) /\ results' \in Seq([share : Share, verdict : Verdict])
    BY <1>1, TurnGoes
  <2>2. /\ ring' \in [0..(JobSlots - 1) -> Job \cup {None}] /\ head' \in 0..(JobSlots - 1)
        /\ lastGen' \in 0..MaxTip /\ seq' \in 0..MaxSeq
    BY <1>1, SharesConstants DEF EmptyRing
  <2>3. life' \in 0..MaxLife
    BY <1>2, SharesConstants
  <2> QED
    BY <1>1, <2>1, <2>2, <2>3 DEF AdmissionInv, SharesTypes
<1>4. PushHasTemplate' /\ Closed'
  BY <1>1 DEF PushHasTemplate, Closed, Live
<1>5. Owned'
  <2>1. \A i \in 1..Len(vqueue) : vqueue[i] # Other => vqueue[i].life <= life'
    <3>1. ASSUME NEW i \in 1..Len(vqueue), vqueue[i] # Other PROVE vqueue[i].life <= life'
      <4>1. vqueue[i] \in Share /\ vqueue[i].life <= life
        BY <3>1, ElementOfSeq DEF AdmissionInv, SharesTypes, Owned
      <4> QED
        BY <1>1, <1>2, <4>1 DEF Share
    <3> QED
      BY <3>1
  <2>2. thread # None => thread.share.life <= life'
    BY <1>1, <1>2 DEF AdmissionInv, SharesTypes, Owned, Share
  <2>3. \A k \in credited : k[1] <= life'
    BY <1>1, <1>2 DEF AdmissionInv, SharesTypes, Owned
  <2> QED
    BY <1>1, <1>2, <2>1, <2>2, <2>3 DEF Owned
<1>6. OnePlace'
  <2>1. Waiting' = {}
    <3>1. ASSUME NEW i \in 1..Len(vqueue), vqueue[i] # Other PROVE vqueue[i].life # life'
      <4>1. vqueue[i] \in Share /\ vqueue[i].life <= life
        BY <3>1, ElementOfSeq DEF AdmissionInv, SharesTypes, Owned
      <4> QED
        BY <1>1, <1>2, <4>1 DEF Share
    <3> QED
      BY <1>1, <3>1 DEF Waiting, Mine
  <2>2. ~InThread'
    BY <1>1, <1>2 DEF AdmissionInv, SharesTypes, Owned, Share, InThread, Mine
  <2>3. Completions' = {}
    BY <1>1 DEF Completions
  <2> QED
    BY <1>1, <2>1, <2>2, <2>3 DEF OnePlace, InActions, InQueue, InResults, InAnswer
<1> QED
  BY <1>3, <1>4, <1>5, <1>6 DEF AdmissionInv

\* The connection goes: nothing of it is left but what the pool still has.
LEMMA DropStep ==
    ASSUME AdmissionInv, Session_new, phase' = "closed", todo' = <<>>,
           vqueue' \in Seq(Share \cup {Other}),
           \A i \in 1..Len(vqueue') : vqueue'[i] # Other => vqueue'[i].life <= life,
           UNCHANGED <<tipVars, cache, life, thread, sealing, credited>>
    PROVE  AdmissionInv'
<1>1. /\ ring' = EmptyRing /\ head' = 0 /\ nextId' = 0 /\ previous' = None /\ lastGen' = 0
      /\ inFlight' = FALSE /\ queued' = FALSE /\ pending' = None /\ seq' = 0
      /\ push' = None /\ actions' = <<>> /\ notified' = FALSE /\ results' = <<>>
      /\ UNCHANGED <<tip, unannounced>>
  BY DEF Session_new, tipVars
<1>2. ~Live'
  BY DEF Live
<1>3. SharesTypes'
  <2>1. /\ todo' \in Turns /\ actions' \in Seq(Share) /\ results' \in Seq([share : Share, verdict : Verdict])
    BY <1>1, TurnGoes
  <2>2. /\ ring' \in [0..(JobSlots - 1) -> Job \cup {None}] /\ head' \in 0..(JobSlots - 1)
        /\ lastGen' \in 0..MaxTip /\ seq' \in 0..MaxSeq
    BY <1>1, SharesConstants DEF EmptyRing
  <2> QED
    BY <1>1, <2>1, <2>2 DEF AdmissionInv, SharesTypes
<1> QED
  BY <1>1, <1>2, <1>3 DEF AdmissionInv, PushHasTemplate, Closed, Owned

\* What JobSlots holds of a job is a job, and recording a nonce keeps it one.
LEMMA JobOfIs ==
    ASSUME SharesTypes, NEW j, Lookup(j) \in {"live", "credited"}
    PROVE  /\ JobOf(j) \in Job
           /\ Lookup(j) = "live" => \E i \in Slots(j) : JobOf(j) = ring[i]
           /\ Lookup(j) = "credited" => Slots(j) = {} /\ previous # None /\ previous.id = j
                                        /\ JobOf(j) = previous
<1>1. CASE Lookup(j) = "live"
  <2>1. Slots(j) # {}
    BY <1>1 DEF Lookup
  <2>2. JobOf(j) = ring[CHOOSE i \in Slots(j) : TRUE] /\ (CHOOSE i \in Slots(j) : TRUE) \in Slots(j)
    BY <1>1, <2>1 DEF JobOf
  <2>3. \A i \in Slots(j) : ring[i] \in Job
    BY DEF Slots, SharesTypes
  <2> QED
    BY <1>1, <2>2, <2>3
<1>2. CASE Lookup(j) = "credited"
  <2>1. Slots(j) = {} /\ previous # None /\ previous.id = j
    BY <1>2 DEF Lookup
  <2>2. JobOf(j) = previous
    BY <1>2 DEF JobOf
  <2> QED
    BY <1>2, <2>1, <2>2 DEF SharesTypes
<1> QED
  BY <1>1, <1>2

LEMMA RecordedIs ==
    ASSUME NEW job \in Job, NEW n \in Nonce
    PROVE  Recorded(job, n) \in Job /\ Recorded(job, n).id = job.id /\ Recorded(job, n).tmpl = job.tmpl
BY DEF Recorded, Job

LEMMA RecordTypes ==
    ASSUME SharesTypes, NEW j, Lookup(j) \in {"live", "credited"}, NEW n \in Nonce, Record(j, n)
    PROVE  /\ ring' \in [0..(JobSlots - 1) -> Job \cup {None}]
           /\ previous' \in Job \cup {None}
<1>1. CASE Lookup(j) = "live"
  <2>1. /\ ring' = [i \in DOMAIN ring |-> IF i \in Slots(j) THEN Recorded(ring[i], n) ELSE ring[i]]
        /\ previous' = previous
    BY <1>1 DEF Record
  <2>2. \A i \in Slots(j) : Recorded(ring[i], n) \in Job
    <3>1. \A i \in Slots(j) : ring[i] \in Job
      BY DEF Slots, SharesTypes
    <3> QED
      BY <3>1, RecordedIs
  <2> QED
    BY <2>1, <2>2 DEF SharesTypes
<1>2. CASE Lookup(j) = "credited"
  <2>1. ring' = ring /\ previous' = Recorded(previous, n)
    BY <1>2 DEF Record
  <2>2. previous \in Job
    BY <1>2, JobOfIs
  <2> QED
    BY <2>1, <2>2, RecordedIs DEF SharesTypes
<1> QED
  BY <1>1, <1>2

LEMMA One ==
    ASSUME NEW S, NEW s \in S
    PROVE  <<s>> \in Seq(S) /\ Len(<<s>>) = 1 /\ <<s>>[1] = s /\ <<s>> # <<>>
OBVIOUS

\* on_submit: an admitted share goes to the actions or waits.
LEMMA SubmitStep ==
    ASSUME AdmissionInv, NEW j \in Nat, NEW n \in Nonce, on_submit(j, n)
    PROVE  AdmissionInv'
<1>1. /\ Lines /\ phase = "authorized" /\ seq < MaxSeq
      /\ UNCHANGED <<tip, unannounced, cache, life, phase, head, nextId, lastGen, push, notified,
                     results, vqueue, thread, sealing, credited>>
  BY DEF on_submit, tipVars, verifyVars
<1>2. Live /\ Live' /\ ~Answering(todo) /\ life \in 1..MaxLife
  <2>1. Live /\ Live' /\ (todo = <<>> \/ (todo # <<>> /\ todo[1] = "lines"))
    <3>1. phase' = "authorized" /\ phase = "authorized"
      BY <1>1
    <3>2. Live /\ Live'
      BY <3>1 DEF Live
    <3>3. todo = <<>> \/ (todo # <<>> /\ todo[1] = "lines")
      BY <1>1 DEF Lines, Idle
    <3> QED
      BY <3>2, <3>3
  <2>2. todo = <<>> \/ todo = <<"lines">>
    BY <2>1, TurnStage DEF AdmissionInv, SharesTypes
  <2>3. ~Answering(todo)
    BY <2>2, TurnGoes
  <2> QED
    BY <2>1, <2>3 DEF AdmissionInv, Owned
<1>3. CASE Answered(<<"lines">>) /\ UNCHANGED <<ring, previous, admitVars, actions>>
  <2>1. todo' \in {<<"lines">>, <<"close">>}
    BY <1>3 DEF Answered
  <2>2. todo' \in Turns /\ ~Answering(todo') /\ (todo' # <<>> => todo'[1] \notin {"build", "gen"})
    BY <2>1, TurnGoes
  <2>3. phase' \in {"fresh", "subscribed", "authorized"}
    BY <1>1
  <2> QED
    BY <1>1, <1>3, <2>2, <2>3, LinesStep DEF tipVars, jobVars, verifyVars
<1> DEFINE s == [life |-> life, job |-> j, nonce |-> n, tmpl |-> JobOf(j).tmpl,
                 eligible |-> Lookup(j) = "live"]
<1>4. CASE /\ Lookup(j) \in {"live", "credited"} /\ Record(j, n) /\ seq' = seq + 1 /\ Admit(s)
           /\ todo' = <<"lines">>
  <2>1. s \in Share /\ s # None
    <3>1. JobOf(j).tmpl \in Template
      BY <1>4, JobOfIs DEF Job, AdmissionInv
    <3>2. (Lookup(j) = "live") \in BOOLEAN
      OBVIOUS
    <3>3. s \in Share
      BY <1>2, <3>1, <3>2 DEF Share
    <3> QED
      BY <3>3, NotNone
  <2>2. /\ ring' \in [0..(JobSlots - 1) -> Job \cup {None}] /\ previous' \in Job \cup {None}
    BY <1>4, RecordTypes DEF AdmissionInv
  <2>3. todo' \in Turns /\ ~Answering(todo') /\ PushHasTemplate'
    BY <1>4, TurnGoes DEF PushHasTemplate
  <2>4. s.life = life
    OBVIOUS
  <2> HIDE DEF s
  <2>5. \/ /\ ~inFlight /\ inFlight' = TRUE /\ actions' = Append(actions, s)
           /\ UNCHANGED <<queued, pending>>
        \/ /\ inFlight /\ ~queued /\ queued' = TRUE /\ pending' = s
           /\ UNCHANGED <<inFlight, actions>>
        \/ UNCHANGED <<inFlight, queued, pending, actions>>
    BY <1>4 DEF Admit
  <2>6. actions' \in Seq(Share) /\ seq' \in 0..MaxSeq /\ pending' \in Share \cup {None}
        /\ inFlight' \in BOOLEAN /\ queued' \in BOOLEAN
    <3>1. actions \in Seq(Share) /\ Append(actions, s) \in Seq(Share)
      BY <2>1, AppendProperties DEF AdmissionInv, SharesTypes
    <3>2. seq' \in 0..MaxSeq
      BY <1>1, <1>4, SharesConstants DEF AdmissionInv, SharesTypes
    <3>3. pending' \in Share \cup {None} /\ inFlight' \in BOOLEAN /\ queued' \in BOOLEAN
      BY <2>1, <2>5 DEF AdmissionInv, SharesTypes
    <3>4. actions' \in Seq(Share)
      BY <2>5, <3>1
    <3> QED
      BY <3>2, <3>3, <3>4
  <2>7. SharesTypes'
    BY <1>1, <2>2, <2>3, <2>6 DEF AdmissionInv, SharesTypes
  <2>8. Closed' /\ Waiting' = Waiting /\ (InThread' <=> InThread) /\ (InResults' <=> InResults)
    BY <1>1, <1>2 DEF Closed, Waiting, Mine, InThread, InResults
  <2>9. ~InAnswer /\ ~InAnswer' /\ \A h, i \in Completions' : h = i
    <3>1. /\ InAnswer' <=> Answering(todo')
          /\ \A h, i \in Completions' : h = i
      BY <2>3, TurnShape DEF InAnswer, Completions, Answering
    <3> QED
      BY <1>2, <2>3, <3>1, AnswerIs DEF AdmissionInv, SharesTypes
  <2>10. OnePlace /\ Owned
    BY <1>2 DEF AdmissionInv
  <2>11. CASE ~inFlight /\ inFlight' = TRUE /\ actions' = Append(actions, s) /\ UNCHANGED <<queued, pending>>
    <3>1. actions = <<>> /\ ~InQueue /\ ~InThread /\ ~InResults
      BY <2>10, <2>11 DEF OnePlace, InActions
    <3>2. actions' = <<s>> /\ Len(actions') = 1 /\ actions'[1] = s /\ InActions'
      <4>1. Append(<<>>, s) = <<s>>
        OBVIOUS
      <4> QED
        BY <2>1, <2>11, <3>1, <4>1, One DEF InActions
    <3>3. OnePlace'
      BY <1>1, <2>8, <2>9, <2>10, <2>11, <3>1, <3>2 DEF OnePlace, InQueue, InActions
    <3>4. Owned'
      BY <1>1, <1>2, <2>4, <2>10, <2>11, <3>2 DEF Owned
    <3> QED
      BY <2>3, <2>7, <2>8, <3>3, <3>4 DEF AdmissionInv
  <2>12. CASE inFlight /\ ~queued /\ queued' = TRUE /\ pending' = s /\ UNCHANGED <<inFlight, actions>>
    <3>1. OnePlace'
      BY <1>1, <2>1, <2>8, <2>9, <2>10, <2>12 DEF OnePlace, InQueue, InActions
    <3>2. Owned'
      BY <1>1, <1>2, <2>4, <2>10, <2>12 DEF Owned
    <3> QED
      BY <2>3, <2>7, <2>8, <3>1, <3>2 DEF AdmissionInv
  <2>13. CASE UNCHANGED <<inFlight, queued, pending, actions>>
    <3>1. OnePlace'
      BY <1>1, <2>8, <2>9, <2>10, <2>13 DEF OnePlace, InQueue, InActions
    <3>2. Owned'
      BY <1>1, <1>2, <2>10, <2>13 DEF Owned
    <3> QED
      BY <2>3, <2>7, <2>8, <3>1, <3>2 DEF AdmissionInv
  <2> QED
    BY <2>5, <2>11, <2>12, <2>13
<1> QED
  BY <1>3, <1>4 DEF on_submit

\* The answer comes back: on_verify_result up to Admission::complete.
LEMMA ResultStep ==
    ASSUME AdmissionInv, on_verify_result
    PROVE  AdmissionInv'
<1>1. /\ Live /\ Live' /\ todo = <<>> /\ results # <<>> /\ results' = Tail(results)
      /\ todo' \in {<<"complete", "actions">>, <<"push", "complete", "actions">>, <<"complete", "close">>}
      /\ credited' = IF Head(results).verdict = "accepted"
                     THEN credited \cup {Key(Head(results).share)} ELSE credited
      /\ UNCHANGED <<tip, unannounced, cache, life, phase, jobVars, admitVars, push, actions,
                     notified, vqueue, thread, sealing>>
  BY DEF on_verify_result, Idle, Live, tipVars, verifyVars
<1>2. OnePlace /\ Owned /\ SharesTypes
  BY <1>1 DEF AdmissionInv
<1>3. /\ Len(results) = 1 /\ Head(results) = results[1]
      /\ results[1] \in [share : Share, verdict : Verdict] /\ results[1].share.life = life
      /\ results' = <<>>
  <2>1. Len(results) \in Nat \ {0} /\ Len(results) <= 1
    BY <1>1, <1>2, EmptySeq DEF OnePlace, SharesTypes
  <2>2. Len(results) = 1 /\ 1 \in 1..Len(results)
    <3>1. \A n \in Nat \ {0} : n <= 1 => n = 1 /\ 1 \in 1..n
      OBVIOUS
    <3> QED
      BY <2>1, <3>1
  <2>3. results' \in Seq([share : Share, verdict : Verdict]) /\ Len(results') = 0
    BY <1>1, <1>2, <2>2, HeadTailProperties DEF SharesTypes
  <2>4. results' = <<>>
    BY <2>3, EmptySeq
  <2>5. results[1] \in [share : Share, verdict : Verdict]
    BY <1>2, <2>2, ElementOfSeq DEF SharesTypes
  <2>6. results[1].share.life = life
    BY <1>2, <2>2 DEF Owned
  <2> QED
    BY <1>1, <2>2, <2>4, <2>5, <2>6
<1>4. Key(results[1].share) \in (1..MaxLife) \X Nat \X Nonce /\ Key(results[1].share)[1] = life
  BY <1>3 DEF Key, Share
<1>5. /\ todo' \in Turns /\ Answering(todo') /\ todo' # <<>>
      /\ todo'[1] \notin {"build", "gen"} /\ ~Answering(todo)
  <2>1. todo' \in Turns /\ todo' # <<>> /\ todo'[1] \notin {"build", "gen"}
    <3>1. \A t \in {<<"complete", "actions">>, <<"push", "complete", "actions">>, <<"complete", "close">>} :
             t \in Turns /\ t # <<>> /\ t[1] \notin {"build", "gen"}
      BY DEF Turns, Pushing
    <3> QED
      BY <1>1, <3>1
  <2>2. Answering(todo')
    BY <1>1, <2>1, TurnShape DEF Pushing
  <2>3. ~Answering(todo)
    BY <1>1, TurnGoes
  <2> QED
    BY <2>1, <2>2, <2>3
<1>6. SharesTypes'
  <2>1. credited' \subseteq (1..MaxLife) \X Nat \X Nonce
    BY <1>1, <1>2, <1>3, <1>4 DEF SharesTypes
  <2>2. results' \in Seq([share : Share, verdict : Verdict])
    BY <1>3
  <2> QED
    BY <1>1, <1>2, <1>5, <2>1, <2>2 DEF SharesTypes, jobVars, admitVars
<1>7. PushHasTemplate' /\ Closed'
  BY <1>1, <1>5 DEF PushHasTemplate, Closed
<1>8. Owned'
  <2>1. \A k \in credited' : k[1] <= life
    <3>1. life \in Nat /\ \A k \in credited : k[1] <= life
      BY <1>2, SharesConstants DEF SharesTypes, Owned
    <3> QED
      BY <1>1, <1>3, <1>4, <3>1
  <2>2. \A i \in 1..Len(results') : results'[i].share.life = life
    <3>1. Len(<<>>) = 0
      BY EmptySeq
    <3> QED
      BY <1>3, <3>1
  <2> QED
    BY <1>1, <1>2, <2>1, <2>2 DEF Owned, admitVars
<1>9. OnePlace'
  <2>1. /\ InAnswer' /\ ~InAnswer
        /\ \A i, j \in Completions' : i = j
    <3>1. /\ InAnswer' <=> Answering(todo')
          /\ \A h, i \in Completions' : h = i
      BY <1>5, TurnShape DEF InAnswer, Completions, Answering
    <3> QED
      BY <1>2, <1>5, <3>1, AnswerIs DEF SharesTypes
  <2>2. Waiting' = Waiting /\ (InThread' <=> InThread) /\ ~InResults' /\ InResults
    BY <1>1, <1>3 DEF Waiting, Mine, InThread, InResults
  <2> QED
    BY <1>1, <1>2, <1>3, <2>1, <2>2 DEF OnePlace, InActions, InQueue, admitVars
<1> QED
  BY <1>6, <1>7, <1>8, <1>9 DEF AdmissionInv

\* Admission::complete: what is in flight afterwards is the share that waited.
LEMMA CompletedIs ==
    ASSUME SharesTypes, Owned, NEW acts, acts = <<>>, Completed(acts), queued <=> pending # None
    PROVE  /\ inFlight' = queued /\ queued' = FALSE /\ pending' = None
           /\ actions' \in Seq(Share) /\ Len(actions') <= 1
           /\ actions' # <<>> <=> inFlight'
           /\ \A i \in 1..Len(actions') : actions'[i] = pending /\ pending # None
<1>1. /\ inFlight' = queued /\ queued' = FALSE /\ pending' = None
      /\ actions' = IF queued THEN Append(<<>>, pending) ELSE <<>>
  BY DEF Completed
<1>2. CASE queued
  <2>1. pending \in Share
    BY <1>2 DEF SharesTypes
  <2>2. Append(<<>>, pending) = <<pending>>
    OBVIOUS
  <2>3. actions' = <<pending>> /\ inFlight'
    BY <1>1, <1>2, <2>2
  <2> QED
    BY <1>1, <1>2, <2>1, <2>3, One
<1>3. CASE ~queued
  <2>1. actions' = <<>> /\ ~inFlight'
    BY <1>1, <1>3
  <2> QED
    BY <1>1, <2>1, EmptySeq
<1> QED
  BY <1>2, <1>3 DEF SharesTypes

LEMMA CompleteStep ==
    ASSUME AdmissionInv, Complete
    PROVE  AdmissionInv'
<1>1. /\ Live /\ Live' /\ todo # <<>> /\ todo[1] = "complete" /\ todo' = Tail(todo)
      /\ Completed(actions)
      /\ UNCHANGED <<tip, unannounced, cache, life, phase, jobVars, seq, push, notified, results,
                     vqueue, thread, sealing, credited>>
  BY DEF Complete, Live, tipVars, verifyVars, Rest
<1>2. OnePlace /\ Owned /\ SharesTypes
  BY <1>1 DEF AdmissionInv
<1>3. todo \in {<<"complete", "actions">>, <<"complete", "close">>}
  BY <1>1, <1>2, TurnStage DEF SharesTypes
<1>4. Answering(todo) /\ todo' \in {<<"actions">>, <<"close">>}
  <2>1. Answering(todo)
    BY <1>2, <1>3, TurnShape DEF SharesTypes
  <2>2. "complete" \in Stage /\ "actions" \in Stage /\ "close" \in Stage
    BY DEF Stage
  <2>3. Tail(<<"complete", "actions">>) = <<"actions">> /\ Tail(<<"complete", "close">>) = <<"close">>
    BY <2>2, Tuples
  <2> QED
    BY <1>1, <1>3, <2>1, <2>3
<1>5. /\ todo' \in Turns /\ ~Answering(todo') /\ todo' # <<>> /\ todo'[1] \notin {"build", "gen"}
  BY <1>4, TurnGoes
<1>6. InAnswer /\ ~InAnswer' /\ \A i, j \in Completions' : i = j
  <2>1. /\ InAnswer' <=> Answering(todo')
        /\ \A h, i \in Completions' : h = i
    BY <1>5, TurnShape DEF InAnswer, Completions, Answering
  <2> QED
    BY <1>2, <1>4, <1>5, <2>1, AnswerIs DEF SharesTypes
<1>7. ~InActions /\ ~InQueue /\ ~InThread /\ ~InResults /\ (queued <=> pending # None)
  BY <1>2, <1>6 DEF OnePlace
<1>8. /\ inFlight' = queued /\ queued' = FALSE /\ pending' = None
      /\ actions' \in Seq(Share) /\ Len(actions') <= 1
      /\ actions' # <<>> <=> inFlight'
      /\ \A i \in 1..Len(actions') : actions'[i] = pending /\ pending # None
  BY <1>1, <1>2, <1>7, CompletedIs DEF InActions
<1>9. Waiting' = Waiting /\ (InThread' <=> InThread) /\ (InResults' <=> InResults)
  BY <1>1 DEF Waiting, Mine, InThread, InResults
<1>10. OnePlace'
  BY <1>1, <1>2, <1>6, <1>7, <1>8, <1>9 DEF OnePlace, InActions, InQueue
<1>11. Owned'
  BY <1>1, <1>2, <1>8 DEF Owned
<1>12. SharesTypes'
  BY <1>1, <1>2, <1>5, <1>8 DEF SharesTypes, jobVars
<1>13. PushHasTemplate' /\ Closed'
  BY <1>1, <1>5 DEF PushHasTemplate, Closed
<1> QED
  BY <1>10, <1>11, <1>12, <1>13 DEF AdmissionInv

\* The pool's queue grows by what is appended.
LEMMA Joined ==
    ASSUME NEW S, NEW q \in Seq(S), NEW s \in Seq(S)
    PROVE  /\ q \o s \in Seq(S) /\ Len(q \o s) = Len(q) + Len(s)
           /\ \A i \in 1..Len(q) : (q \o s)[i] = q[i]
           /\ \A i \in 1..Len(s) : (q \o s)[Len(q) + i] = s[i]
           /\ \A i \in 1..Len(q \o s) : i \in 1..Len(q) \/ (i - Len(q) \in 1..Len(s) /\ i = Len(q) + (i - Len(q)))
<1>1. /\ q \o s \in Seq(S) /\ Len(q \o s) = Len(q) + Len(s)
      /\ \A i \in 1..Len(q) + Len(s) : (q \o s)[i] = IF i <= Len(q) THEN q[i] ELSE s[i - Len(q)]
  BY ConcatProperties
<1>2. Len(q) \in Nat /\ Len(s) \in Nat
  BY LenProperties
<1>3. ASSUME NEW i \in 1..Len(s) PROVE (q \o s)[Len(q) + i] = s[i]
  <2>1. Len(q) + i \in 1..Len(q) + Len(s) /\ ~(Len(q) + i <= Len(q)) /\ Len(q) + i - Len(q) = i
    BY <1>2
  <2> QED
    BY <1>1, <2>1
<1>4. \A i \in 1..Len(q) : (q \o s)[i] = q[i]
  BY <1>1, <1>2
<1>5. \A i \in 1..Len(q) + Len(s) :
          i \in 1..Len(q) \/ (i - Len(q) \in 1..Len(s) /\ i = Len(q) + (i - Len(q)))
  BY <1>2
<1> QED
  BY <1>1, <1>3, <1>4, <1>5

\* ThreadPoolVerifier::enqueue with room: the share moves to the queue.
LEMMA EnqueueMoves ==
    ASSUME AdmissionInv, Live, vqueue' = vqueue \o actions, life' = life
    PROVE  /\ vqueue' \in Seq(Share \cup {Other})
           /\ \A i \in 1..Len(vqueue') : vqueue'[i] # Other => vqueue'[i].life <= life
           /\ \A i, j \in Waiting' : i = j
           /\ Waiting' # {} <=> InActions \/ InQueue
<1>1. OnePlace /\ Owned /\ SharesTypes
  BY DEF AdmissionInv
<1> DEFINE S == Share \cup {Other}
           m == Len(vqueue)
<1>2. vqueue \in Seq(S) /\ actions \in Seq(S)
  <2>1. actions \in Seq(Share) /\ Share \subseteq S
    BY <1>1 DEF SharesTypes
  <2> QED
    BY <1>1, <2>1, SeqMonotonic DEF SharesTypes
<1>3. /\ vqueue' \in Seq(S) /\ Len(vqueue') = m + Len(actions)
      /\ \A i \in 1..m : vqueue'[i] = vqueue[i]
      /\ \A i \in 1..Len(actions) : vqueue'[m + i] = actions[i]
      /\ \A i \in 1..Len(vqueue') : i \in 1..m \/ (i - m \in 1..Len(actions) /\ i = m + (i - m))
  BY <1>2, Joined
<1>4. m \in Nat /\ Len(actions) \in Nat /\ Len(actions) <= 1
  BY <1>1, <1>2, LenProperties DEF OnePlace
<1>5. \A i \in 1..Len(actions) : actions[i] \in Share /\ actions[i].life = life /\ actions[i] # Other
  BY <1>1, ElementOfSeq, NotNone DEF SharesTypes, Owned
<1>6. life \in Nat
  BY <1>1, SharesConstants DEF SharesTypes
<1>7. Waiting' = Waiting \cup {m + i : i \in 1..Len(actions)}
  <2>1. \A i \in 1..Len(actions) : m + i \in 1..Len(vqueue')
    BY <1>3, <1>4
  <2>2. \A i \in 1..m : i \in 1..Len(vqueue')
    BY <1>3, <1>4
  <2> HIDE DEF m
  <2>3. ASSUME NEW i \in Waiting' PROVE i \in Waiting \cup {m + k : k \in 1..Len(actions)}
    BY <1>3 DEF Waiting, Mine, m
  <2>4. Waiting \subseteq Waiting'
    BY <1>3, <2>2 DEF Waiting, Mine, m
  <2>5. \A i \in 1..Len(actions) : m + i \in Waiting'
    BY <1>3, <1>5, <2>1 DEF Waiting, Mine
  <2> QED
    BY <2>3, <2>4, <2>5
<1>8. \A i \in 1..Len(vqueue') : vqueue'[i] # Other => vqueue'[i].life <= life
  <2> HIDE DEF m, S
  <2>1. \A i \in 1..m : vqueue[i] # Other => vqueue[i].life <= life
    BY <1>1 DEF Owned, m
  <2>2. ASSUME NEW i \in 1..Len(actions) PROVE vqueue'[m + i].life <= life
    <3>1. vqueue'[m + i].life = life
      BY <1>3, <1>5
    <3>2. life <= life
      BY <1>6
    <3> QED
      BY <3>1, <3>2, Zenon
  <2> SUFFICES ASSUME NEW i \in 1..Len(vqueue') PROVE vqueue'[i] # Other => vqueue'[i].life <= life
    OBVIOUS
  <2>3. CASE i \in 1..m
    BY <1>3, <2>1, <2>3
  <2>4. CASE i - m \in 1..Len(actions) /\ i = m + (i - m)
    BY <2>2, <2>4
  <2> QED
    BY <1>3, <2>3, <2>4
<1>9. CASE InActions
  <2>1. Len(actions) = 1 /\ Waiting = {}
    <3>1. Len(actions) # 0
      BY <1>1, <1>9, EmptySeq DEF SharesTypes, InActions
    <3>2. \A n \in Nat : n <= 1 /\ n # 0 => n = 1
      OBVIOUS
    <3>3. Waiting = {}
      BY <1>1, <1>9 DEF OnePlace, InQueue
    <3> QED
      BY <1>4, <3>1, <3>2, <3>3
  <2>2. Waiting' = {m + 1}
    <3>1. {m + i : i \in 1..1} = {m + 1}
      OBVIOUS
    <3> QED
      BY <1>7, <2>1, <3>1, Zenon
  <2> QED
    BY <1>3, <1>8, <1>9, <2>2
<1>10. CASE ~InActions
  <2>1. Waiting' = Waiting
    <3>1. Len(actions) = 0
      BY <1>10, EmptySeq DEF InActions
    <3> QED
      BY <1>7, <3>1
  <2> QED
    BY <1>1, <1>3, <1>8, <1>10, <2>1 DEF OnePlace, InQueue
<1> QED
  BY <1>9, <1>10

LEMMA EmptiedTurn ==
    ASSUME todo' = <<>>
    PROVE  todo' \in Turns /\ ~InAnswer' /\ (\A i, j \in Completions' : i = j) /\ PushHasTemplate'
<1>1. todo' \in Turns /\ ~Answering(todo')
  BY TurnGoes
<1>2. /\ InAnswer' <=> Answering(todo')
      /\ \A i, j \in Completions' : i = j
  BY <1>1, TurnShape DEF InAnswer, Completions, Answering
<1> QED
  BY <1>1, <1>2 DEF PushHasTemplate

\* The end of a turn: enqueued, refused, or nothing to do.
LEMMA ActionsStep ==
    ASSUME AdmissionInv, TakeActions
    PROVE  AdmissionInv'
<1>1. /\ Live /\ Live' /\ todo # <<>> /\ todo[1] = "actions" /\ todo' = <<>>
      /\ UNCHANGED <<tip, unannounced, cache, life, phase, jobVars, seq, push, notified, results,
                     thread, sealing, credited>>
  BY DEF TakeActions, Live, tipVars
<1>2. OnePlace /\ Owned /\ SharesTypes
  BY <1>1 DEF AdmissionInv
<1>3. ~InAnswer
  <2>1. todo = <<"actions">>
    BY <1>1, <1>2, TurnStage DEF SharesTypes
  <2> QED
    BY <1>2, <2>1, TurnGoes, AnswerIs DEF SharesTypes
<1>4. todo' \in Turns /\ ~InAnswer' /\ (\A i, j \in Completions' : i = j) /\ PushHasTemplate'
  BY <1>1, EmptiedTurn
<1>5. (InThread' <=> InThread) /\ (InResults' <=> InResults) /\ Closed'
  BY <1>1 DEF InThread, Mine, InResults, Closed
<1>6. CASE UNCHANGED <<vqueue, inFlight, queued, pending, actions>>
  <2>1. SharesTypes' /\ Owned'
    BY <1>1, <1>2, <1>4, <1>6 DEF SharesTypes, jobVars, Owned
  <2>2. Waiting' = Waiting
    BY <1>1, <1>6 DEF Waiting, Mine
  <2>3. OnePlace'
    BY <1>1, <1>2, <1>3, <1>4, <1>5, <1>6, <2>2 DEF OnePlace, InActions, InQueue
  <2> QED
    BY <1>4, <1>5, <2>1, <2>3 DEF AdmissionInv
<1>7. CASE /\ actions # <<>> /\ vqueue' = vqueue \o actions /\ actions' = <<>>
           /\ UNCHANGED <<inFlight, queued, pending>>
  <2>1. /\ vqueue' \in Seq(Share \cup {Other})
        /\ \A i \in 1..Len(vqueue') : vqueue'[i] # Other => vqueue'[i].life <= life
        /\ \A i, j \in Waiting' : i = j
        /\ Waiting' # {}
    BY <1>1, <1>7, EnqueueMoves DEF InActions
  <2>2. ~InActions' /\ InActions /\ InQueue' /\ Len(actions') = 0
    BY <1>7, <2>1, EmptySeq DEF InActions, InQueue
  <2>3. SharesTypes'
    BY <1>1, <1>2, <1>4, <1>7, <2>1, EmptySeq DEF SharesTypes, jobVars
  <2>4. Owned'
    BY <1>1, <1>2, <1>7, <2>1, <2>2 DEF Owned
  <2>5. OnePlace'
    BY <1>1, <1>2, <1>3, <1>4, <1>5, <1>7, <2>1, <2>2 DEF OnePlace
  <2> QED
    BY <1>4, <1>5, <2>3, <2>4, <2>5 DEF AdmissionInv
<1>8. CASE actions # <<>> /\ Completed(<<>>) /\ UNCHANGED vqueue
  <2>1. InActions /\ ~InQueue /\ ~InThread /\ ~InResults /\ (queued <=> pending # None)
    BY <1>2, <1>8 DEF OnePlace, InActions
  <2>2. /\ inFlight' = queued /\ queued' = FALSE /\ pending' = None
        /\ actions' \in Seq(Share) /\ Len(actions') <= 1
        /\ actions' # <<>> <=> inFlight'
        /\ \A i \in 1..Len(actions') : actions'[i] = pending /\ pending # None
    BY <1>2, <1>8, <2>1, CompletedIs
  <2>3. Waiting' = Waiting
    BY <1>1, <1>8 DEF Waiting, Mine
  <2>4. OnePlace'
    BY <1>1, <1>2, <1>4, <1>5, <2>1, <2>2, <2>3 DEF OnePlace, InActions, InQueue
  <2>5. Owned'
    BY <1>1, <1>2, <1>8, <2>2 DEF Owned
  <2>6. SharesTypes'
    BY <1>1, <1>2, <1>4, <1>8, <2>2 DEF SharesTypes, jobVars
  <2> QED
    BY <1>4, <1>5, <2>4, <2>5, <2>6 DEF AdmissionInv
<1> QED
  BY <1>6, <1>7, <1>8 DEF TakeActions

LEMMA CloseSteps ==
    ASSUME AdmissionInv, Close \/ Hangup
    PROVE  AdmissionInv'
<1>1. /\ Live /\ Session_new /\ phase' = "closed" /\ todo' = <<>>
      /\ UNCHANGED <<tipVars, cache, life, thread, sealing, credited>>
  BY DEF Close, Hangup, Drop, Idle, verifyVars
<1>2. CASE vqueue' = vqueue
  BY <1>1, <1>2, DropStep DEF AdmissionInv, Owned, SharesTypes
<1>3. CASE vqueue' = vqueue \o actions
  BY <1>1, <1>3, EnqueueMoves, DropStep
<1> QED
  BY <1>2, <1>3 DEF Close, Hangup, Drop, verifyVars

-----------------------------------------------------------------------------
\* Steps of the pool and the validator that leave the connection's task alone.
LEMMA OtherStep ==
    ASSUME AdmissionInv, OtherEnqueues
    PROVE  AdmissionInv'
<1>1. /\ vqueue' = Append(vqueue, Other)
      /\ UNCHANGED <<tipVars, cache, life, phase, jobVars, admitVars, loopVars, results, thread,
                     sealing, credited>>
  BY DEF OtherEnqueues
<1>2. vqueue \in Seq(Share \cup {Other})
  BY DEF AdmissionInv, SharesTypes
<1>3. /\ vqueue' \in Seq(Share \cup {Other})
      /\ Len(vqueue') = Len(vqueue) + 1 /\ vqueue'[Len(vqueue) + 1] = Other
      /\ \A i \in 1..Len(vqueue) : vqueue'[i] = vqueue[i]
  BY <1>1, <1>2, AppendProperties
<1>4. \A i \in 1..Len(vqueue') : i \in 1..Len(vqueue) \/ i = Len(vqueue) + 1
  BY <1>2, <1>3, LenProperties
<1>5. \A i \in 1..Len(vqueue) : i \in 1..Len(vqueue')
  BY <1>2, <1>3, LenProperties
<1>6. Waiting' = Waiting
  <2>1. Waiting' \subseteq Waiting
    BY <1>1, <1>3, <1>4 DEF Waiting, Mine
  <2>2. Waiting \subseteq Waiting'
    BY <1>1, <1>3, <1>5 DEF Waiting, Mine
  <2> QED
    BY <2>1, <2>2
<1>7. SharesTypes' /\ PushHasTemplate' /\ Closed'
  BY <1>1, <1>3 DEF AdmissionInv, SharesTypes, PushHasTemplate, Closed, Live,
     tipVars, jobVars, admitVars, loopVars
<1>8. Owned'
  BY <1>1, <1>3, <1>4 DEF AdmissionInv, Owned, Live, admitVars, loopVars
<1>9. Live' => OnePlace'
  <2>1. (InActions' <=> InActions) /\ (InQueue' <=> InQueue) /\ (InThread' <=> InThread)
        /\ (InResults' <=> InResults) /\ Completions' = Completions /\ (Live' <=> Live)
    BY <1>1, <1>6 DEF InActions, InQueue, InThread, InResults, Completions, Live, Mine, loopVars
  <2> QED
    BY <1>1, <1>6, <2>1 DEF AdmissionInv, OnePlace, InAnswer, admitVars, loopVars
<1> QED
  BY <1>7, <1>8, <1>9 DEF AdmissionInv

LEMMA TakesStep ==
    ASSUME AdmissionInv, ThreadTakes
    PROVE  AdmissionInv'
<1> DEFINE S == Share \cup {Other}
           h == Head(vqueue)
<1>1. /\ thread = None /\ vqueue # <<>> /\ vqueue' = Tail(vqueue)
      /\ thread' = IF h = Other THEN None ELSE [share |-> h, stage |-> "hash"]
      /\ UNCHANGED <<tipVars, cache, life, phase, jobVars, admitVars, loopVars, results, sealing,
                     credited>>
  BY DEF ThreadTakes
<1>2. vqueue \in Seq(S)
  BY DEF AdmissionInv, SharesTypes
<1>3. /\ vqueue' \in Seq(S) /\ Len(vqueue') = Len(vqueue) - 1 /\ h = vqueue[1] /\ h \in S
      /\ \A i \in 1..Len(vqueue') : vqueue'[i] = vqueue[i + 1]
      /\ Len(vqueue) \in Nat \ {0}
  BY <1>1, <1>2, HeadTailProperties, EmptySeq, LenProperties
<1>4. /\ \A i \in 1..Len(vqueue') : i + 1 \in 1..Len(vqueue) /\ i + 1 # 1
      /\ \A i \in 1..Len(vqueue) : i # 1 => i - 1 \in 1..Len(vqueue') /\ (i - 1) + 1 = i
      /\ 1 \in 1..Len(vqueue)
  BY <1>3
<1> HIDE DEF S, h
<1>5. /\ \A i \in Waiting' : i + 1 \in Waiting
      /\ \A i \in Waiting : i # 1 => i - 1 \in Waiting'
      /\ 1 \in Waiting <=> Mine(h)
  BY <1>1, <1>3, <1>4 DEF Waiting, Mine
<1>6. InThread' <=> Mine(h)
  <2>1. [share |-> h, stage |-> "hash"].share = h
    OBVIOUS
  <2>2. h # Other => thread' # None /\ thread'.share = h
    <3>1. ASSUME h # Other PROVE thread' = [share |-> h, stage |-> "hash"] /\ h \in Share
      BY <1>1, <1>3, <3>1 DEF S
    <3>2. [share |-> h, stage |-> "hash"] \in [share : Share, stage : {"hash", "sealing"}] \/ h = Other
      BY <3>1
    <3> QED
      BY <3>1, <3>2, NotNone
  <2>3. h = Other => thread' = None
    BY <1>1
  <2> QED
    BY <1>1, <2>2, <2>3 DEF InThread, Mine
<1>7. ~InThread
  BY <1>1 DEF InThread
<1>8. SharesTypes'
  <2>1. thread' \in [share : Share, stage : {"hash", "sealing"}] \cup {None}
    <3>1. CASE h = Other
      BY <1>1, <3>1
    <3>2. CASE h # Other
      <4>1. h \in Share /\ thread' = [share |-> h, stage |-> "hash"]
        BY <1>1, <1>3, <3>2 DEF S
      <4> QED
        BY <4>1
    <3> QED
      BY <3>1, <3>2
  <2> QED
    BY <1>1, <1>3, <2>1 DEF S, AdmissionInv, SharesTypes, tipVars, jobVars, admitVars, loopVars
<1>9. PushHasTemplate' /\ Closed'
  BY <1>1 DEF AdmissionInv, PushHasTemplate, Closed, Live, admitVars, loopVars
<1>10. Owned'
  <2>1. \A i \in 1..Len(vqueue') : vqueue'[i] # Other => vqueue'[i].life <= life
    BY <1>3, <1>4 DEF AdmissionInv, Owned
  <2>2. thread' # None => thread'.share.life <= life
    <3>1. ASSUME thread' # None PROVE h # Other /\ thread' = [share |-> h, stage |-> "hash"]
      BY <1>1, <3>1
    <3>2. h # Other => h.life <= life
      BY <1>3, <1>4 DEF AdmissionInv, Owned
    <3> QED
      BY <3>1, <3>2
  <2> QED
    BY <1>1, <2>1, <2>2 DEF AdmissionInv, Owned, Live, admitVars, loopVars
<1>11. ASSUME Live' PROVE OnePlace'
  <2>1. Live /\ OnePlace
    BY <1>1, <1>11 DEF Live, AdmissionInv
  <2>2. \A i, j \in Waiting' : i = j
    <3>1. ASSUME NEW i \in Waiting', NEW j \in Waiting' PROVE i = j
      <4>1. i + 1 = j + 1
        BY <1>5, <2>1, <3>1 DEF OnePlace
      <4>2. i \in Int /\ j \in Int
        BY <3>1 DEF Waiting
      <4> QED
        BY <4>1, <4>2
    <3> QED
      BY <3>1
  <2>3. InThread' \/ InQueue' <=> InQueue
    <3>1. ASSUME InQueue PROVE InThread' \/ InQueue'
      BY <1>5, <1>6, <3>1 DEF InQueue
    <3>2. ASSUME InThread' PROVE InQueue
      BY <1>5, <1>6, <3>2 DEF InQueue
    <3>3. ASSUME InQueue' PROVE InQueue
      BY <1>5, <3>3 DEF InQueue
    <3> QED
      BY <3>1, <3>2, <3>3
  <2>4. ~(InThread' /\ InQueue')
    <3>1. ASSUME InThread', NEW i \in Waiting' PROVE FALSE
      <4>1. 1 \in Waiting /\ i + 1 \in Waiting /\ i \in Nat \ {0}
        BY <1>3, <1>5, <1>6, <3>1 DEF Waiting
      <4>2. 1 = i + 1
        BY <2>1, <4>1 DEF OnePlace
      <4> QED
        BY <4>1, <4>2
    <3> QED
      BY <3>1 DEF InQueue
  <2>5. (InActions' <=> InActions) /\ (InResults' <=> InResults) /\ Completions' = Completions
        /\ actions' = actions /\ results' = results /\ UNCHANGED <<inFlight, queued, pending>>
    BY <1>1 DEF InActions, InResults, Completions, admitVars, loopVars
  <2> QED
    BY <1>7, <2>1, <2>2, <2>3, <2>4, <2>5 DEF OnePlace, InAnswer
<1> QED
  BY <1>8, <1>9, <1>10, <1>11 DEF AdmissionInv

\* Router::sink: the answer to a share of this connection finds room, since
\* nothing else of the connection can be in its result channel.
LEMMA AnswerStep ==
    ASSUME AdmissionInv, thread # None, NEW v \in Verdict, sink(thread.share, v), thread' = None,
           UNCHANGED <<tipVars, cache, life, phase, jobVars, admitVars, loopVars, vqueue, sealing,
                       credited>>
    PROVE  AdmissionInv'
<1> DEFINE R == [share : Share, verdict : Verdict]
           r == [share |-> thread.share, verdict |-> v]
<1>1. /\ UNCHANGED <<tip, unannounced, cache, life, phase, jobVars, inFlight, queued, pending, seq,
                     todo, push, actions, notified, vqueue, sealing, credited>>
      /\ SharesTypes /\ (Live' <=> Live)
  BY DEF tipVars, admitVars, loopVars, AdmissionInv, Live
<1>2. thread.share \in Share /\ thread.share # Other /\ r \in R /\ results \in Seq(R)
  <2>1. thread.share \in Share
    BY <1>1 DEF SharesTypes
  <2> QED
    BY <1>1, <2>1, NotNone DEF SharesTypes
<1>3. results' = IF Live /\ thread.share.life = life /\ Len(results) < ResultDepth
                 THEN Append(results, r) ELSE results
  BY DEF sink
<1>4. r.share = thread.share
  OBVIOUS
<1> HIDE DEF r, R
<1>5. results' \in Seq(R)
  BY <1>2, <1>3, AppendProperties
<1>6. SharesTypes'
  BY <1>1, <1>5 DEF SharesTypes, jobVars, R
<1>7. ~InThread' /\ Waiting' = Waiting /\ Completions' = Completions
  BY <1>1 DEF InThread, Waiting, Mine, Completions
<1>8. CASE Live /\ thread.share.life = life
  <2>1. InThread /\ OnePlace /\ Owned
    BY <1>2, <1>8 DEF InThread, Mine, AdmissionInv
  <2>2. results = <<>> /\ ~InActions /\ ~InQueue /\ ~InAnswer
    BY <2>1 DEF OnePlace, InResults
  <2>3. results' = <<r>>
    <3>1. Len(results) < ResultDepth
      BY <2>2, EmptySeq, SharesConstants
    <3>2. Append(<<>>, r) = <<r>>
      OBVIOUS
    <3> QED
      BY <1>3, <1>8, <2>2, <3>1, <3>2
  <2>4. Len(results') = 1 /\ results'[1] = r /\ InResults'
    BY <1>2, <2>3, One DEF InResults
  <2>5. OnePlace'
    BY <1>1, <1>7, <2>1, <2>2, <2>4 DEF OnePlace, InActions, InQueue, InAnswer
  <2>6. Owned'
    <3>1. \A i \in 1..Len(results') : results'[i].share.life = life
      BY <1>4, <1>8, <2>4
    <3> QED
      BY <1>1, <2>1, <3>1 DEF Owned
  <2>7. PushHasTemplate' /\ Closed'
    BY <1>1, <1>8 DEF AdmissionInv, PushHasTemplate, Closed
  <2> QED
    BY <1>6, <2>5, <2>6, <2>7 DEF AdmissionInv
<1>9. CASE ~(Live /\ thread.share.life = life)
  <2>1. results' = results /\ (Live => ~InThread)
    BY <1>3, <1>9 DEF InThread, Mine
  <2>2. Owned' /\ PushHasTemplate' /\ Closed'
    BY <1>1, <2>1 DEF AdmissionInv, Owned, PushHasTemplate, Closed
  <2>3. ASSUME Live' PROVE OnePlace'
    BY <1>1, <1>7, <2>1, <2>3 DEF AdmissionInv, OnePlace, InActions, InQueue, InAnswer, InResults
  <2> QED
    BY <1>6, <2>2, <2>3 DEF AdmissionInv
<1> QED
  BY <1>8, <1>9

\* The thread hands the share to the validator and waits.
LEMMA SealSent ==
    ASSUME AdmissionInv, thread # None, thread' = [thread EXCEPT !.stage = "sealing"],
           sealing' = Append(sealing, thread.share),
           UNCHANGED <<tipVars, cache, life, phase, jobVars, admitVars, loopVars, results, vqueue,
                       credited>>
    PROVE  AdmissionInv'
<1>1. thread \in [share : Share, stage : {"hash", "sealing"}] /\ SharesTypes
  BY DEF AdmissionInv, SharesTypes
<1>2. /\ thread' \in [share : Share, stage : {"hash", "sealing"}] /\ thread'.share = thread.share
      /\ thread' # None
  <2>1. thread' \in [share : Share, stage : {"hash", "sealing"}] /\ thread'.share = thread.share
    BY <1>1
  <2> QED
    BY <2>1, NotNone
<1>3. sealing' \in Seq(Share)
  <2>1. thread.share \in Share /\ sealing \in Seq(Share)
    BY <1>1 DEF SharesTypes
  <2> QED
    BY <2>1, AppendProperties
<1>4. SharesTypes'
  BY <1>1, <1>2, <1>3 DEF SharesTypes, tipVars, jobVars, admitVars, loopVars
<1>5. (Live' <=> Live) /\ Waiting' = Waiting /\ (InThread' <=> InThread) /\ Completions' = Completions
  BY <1>2 DEF Live, Waiting, Mine, InThread, Completions, loopVars
<1>6. Owned' /\ PushHasTemplate' /\ Closed'
  BY <1>2, <1>5 DEF AdmissionInv, Owned, PushHasTemplate, Closed, admitVars, loopVars
<1>7. Live' => OnePlace'
  BY <1>5 DEF AdmissionInv, OnePlace, InActions, InQueue, InAnswer, InResults, admitVars, loopVars
<1> QED
  BY <1>4, <1>6, <1>7 DEF AdmissionInv

LEMMA ThreadSteps ==
    ASSUME AdmissionInv, verify_one \/ SealAnswered
    PROVE  AdmissionInv'
<1>1. /\ thread # None
      /\ UNCHANGED <<tipVars, cache, life, phase, jobVars, admitVars, loopVars, vqueue, credited>>
  BY DEF verify_one, SealAnswered
<1>2. "error" \in Verdict /\ "low" \in Verdict /\ "accepted" \in Verdict
  BY DEF Verdict
<1>3. ASSUME NEW v \in Verdict, sink(thread.share, v), thread' = None, UNCHANGED sealing
      PROVE  AdmissionInv'
  BY <1>1, <1>3, AnswerStep
<1>4. \/ \E v \in Verdict : sink(thread.share, v) /\ thread' = None /\ UNCHANGED sealing
      \/ /\ sealing' = Append(sealing, thread.share) /\ thread' = [thread EXCEPT !.stage = "sealing"]
         /\ UNCHANGED results
  BY <1>2 DEF verify_one, SealAnswered
<1>5. CASE /\ sealing' = Append(sealing, thread.share) /\ thread' = [thread EXCEPT !.stage = "sealing"]
           /\ UNCHANGED results
  BY <1>1, <1>5, SealSent
<1> QED
  BY <1>3, <1>4, <1>5

\* The validator's steps move the tip only.
LEMMA TipSteps ==
    ASSUME AdmissionInv, seal \/ publish \/ notify_generation
    PROVE  AdmissionInv'
<1>1. /\ UNCHANGED <<cache, life, phase, jobVars, admitVars, todo, push, actions, results, vqueue,
                     thread, credited>>
      /\ tip' \in 1..MaxTip /\ unannounced' \in BOOLEAN /\ notified' \in BOOLEAN
      /\ sealing' = sealing \/ (sealing # <<>> /\ sealing' = Tail(sealing))
  <2>1. tip \in 1..MaxTip /\ MaxTip \in Nat /\ unannounced \in BOOLEAN /\ notified \in BOOLEAN
    BY SharesConstants DEF AdmissionInv, SharesTypes
  <2>2. tip < MaxTip => tip + 1 \in 1..MaxTip
    BY <2>1
  <2>3. Live \in BOOLEAN
    BY DEF Live
  <2>4. CASE seal
    BY <2>1, <2>2, <2>4 DEF seal, loopVars
  <2>5. CASE publish
    BY <2>1, <2>2, <2>5 DEF publish, loopVars, verifyVars
  <2>6. CASE notify_generation
    BY <2>1, <2>3, <2>6 DEF notify_generation, verifyVars
  <2> QED
    BY <2>4, <2>5, <2>6
<1>2. sealing' \in Seq(Share)
  <2>1. sealing \in Seq(Share)
    BY DEF AdmissionInv, SharesTypes
  <2> QED
    BY <1>1, <2>1, HeadTailProperties
<1>3. SharesTypes'
  BY <1>1, <1>2 DEF AdmissionInv, SharesTypes, jobVars, admitVars
<1>4. Owned' /\ PushHasTemplate' /\ Closed'
  BY <1>1 DEF AdmissionInv, Owned, PushHasTemplate, Closed, Live, admitVars
<1>5. Live' => OnePlace'
  BY <1>1 DEF AdmissionInv, OnePlace, InActions, InQueue, InAnswer, InResults, InThread, Live, Waiting,
     Mine, Completions, admitVars
<1> QED
  BY <1>3, <1>4, <1>5 DEF AdmissionInv

LEMMA AdmissionStutter ==
    ASSUME AdmissionInv, UNCHANGED shareVars
    PROVE  AdmissionInv'
<1>1. UNCHANGED <<tipVars, cache, life, phase, jobVars, admitVars, loopVars, results, verifyVars, credited>>
  BY DEF shareVars
<1>2. SharesTypes' /\ Owned' /\ PushHasTemplate' /\ Closed'
  BY <1>1 DEF AdmissionInv, SharesTypes, Owned, PushHasTemplate, Closed, Live, tipVars, jobVars,
     admitVars, loopVars, verifyVars
<1>3. Live' => OnePlace'
  BY <1>1 DEF AdmissionInv, OnePlace, InActions, InQueue, InAnswer, InResults, InThread, Live, Waiting,
     Mine, Completions, admitVars, loopVars, verifyVars
<1> QED
  BY <1>2, <1>3 DEF AdmissionInv

LEMMA AdmissionHolds == SharesSpec => []AdmissionInv
<1>1. SharesInit => AdmissionInv
  <2> SUFFICES ASSUME SharesInit PROVE AdmissionInv
    OBVIOUS
  <2>1. ~Live
    BY DEF SharesInit, Live
  <2>2. SharesTypes
    <3>1. <<>> \in Turns
      BY TurnGoes
    <3>2. tip \in 1..MaxTip /\ lastGen \in 0..MaxTip /\ life \in 0..MaxLife /\ seq \in 0..MaxSeq
          /\ head \in 0..(JobSlots - 1)
      BY SharesConstants DEF SharesInit
    <3>3. ring \in [0..(JobSlots - 1) -> Job \cup {None}]
      BY DEF SharesInit, EmptyRing
    <3>4. nextId \in Nat /\ previous = None /\ pending = None /\ thread = None
      BY DEF SharesInit
    <3>5. /\ actions \in Seq(Share) /\ vqueue \in Seq(Share \cup {Other})
          /\ sealing \in Seq(Share) /\ results \in Seq([share : Share, verdict : Verdict])
      BY EmptySeq DEF SharesInit
    <3>6. phase \in {"closed", "fresh", "subscribed", "authorized"} /\ cache = {} /\ credited = {}
          /\ unannounced = FALSE /\ inFlight = FALSE /\ queued = FALSE /\ notified = FALSE /\ todo = <<>>
      BY DEF SharesInit
    <3> QED
      BY <3>1, <3>2, <3>3, <3>4, <3>5, <3>6 DEF SharesTypes
  <2>3. Owned
    BY <2>1, EmptySeq DEF SharesInit, Owned
  <2> QED
    BY <2>1, <2>2, <2>3 DEF SharesInit, AdmissionInv, PushHasTemplate, Closed
<1>2. AdmissionInv /\ [SharesNext]_shareVars => AdmissionInv'
  <2> SUFFICES ASSUME AdmissionInv, [SharesNext]_shareVars PROVE AdmissionInv'
    OBVIOUS
  <2>1. CASE Connect
    BY <2>1, ConnectStep
  <2>2. CASE Events
    <3>1. CASE \E j \in 0..(MaxPush + MaxTip + 1), n \in Nonce : on_submit(j, n)
      <4>1. PICK j \in 0..(MaxPush + MaxTip + 1), n \in Nonce : on_submit(j, n)
        BY <3>1
      <4> QED
        BY <4>1, SubmitStep
    <3> QED
      BY <2>2, <3>1, MessageSteps, CloseSteps DEF Events
  <2>3. CASE SessionSteps
    BY <2>3, CompleteStep, TickSteps, PushSteps, ActionsStep, CloseSteps, MessageSteps DEF SessionSteps
  <2>4. CASE build \/ on_verify_result \/ NewGeneration \/ TickEvent
    BY <2>4, PushSteps, ResultStep, MessageSteps
  <2>5. CASE ThreadTakes \/ verify_one \/ SealAnswered
    BY <2>5, TakesStep, ThreadSteps
  <2>6. CASE seal \/ notify_generation \/ Environment
    BY <2>6, TipSteps, OtherStep DEF Environment
  <2>7. CASE UNCHANGED shareVars
    BY <2>7, AdmissionStutter
  <2> QED
    BY <2>1, <2>2, <2>3, <2>4, <2>5, <2>6, <2>7 DEF SharesNext
<1> QED
  BY <1>1, <1>2, PTL DEF SharesSpec

-----------------------------------------------------------------------------
\* The places counted are the places told apart above.
LEMMA PlacesCounted ==
    ASSUME AdmissionInv, Live
    PROVE  AdmissionExact
<1>1. OnePlace /\ SharesTypes
  BY DEF AdmissionInv
<1> DEFINE A == {"actions"} \X (1..Len(actions))
           Q == {"queue"} \X Waiting
           T == {"thread"} \X WithThread
           R == {"results"} \X (1..Len(results))
           C == {"complete"} \X Completions
<1>2. Stations = A \cup Q \cup T \cup R \cup C
  BY DEF Stations
<1>3. /\ InActions => \E x : A = {x}
      /\ ~InActions => A = {}
  <2>1. actions # <<>> <=> Len(actions) # 0
    BY <1>1, EmptySeq DEF SharesTypes
  <2>2. Len(actions) \in Nat /\ Len(actions) <= 1
    BY <1>1, LenProperties DEF SharesTypes, OnePlace
  <2>3. \A n \in Nat : n <= 1 /\ n # 0 => {"actions"} \X (1..n) = {<<"actions", 1>>}
    OBVIOUS
  <2>4. \A n \in Nat : n = 0 => {"actions"} \X (1..n) = {}
    OBVIOUS
  <2> QED
    BY <2>1, <2>2, <2>3, <2>4 DEF InActions
<1>4. /\ InResults => \E x : R = {x}
      /\ ~InResults => R = {}
  <2>1. results # <<>> <=> Len(results) # 0
    BY <1>1, EmptySeq DEF SharesTypes
  <2>2. Len(results) \in Nat /\ Len(results) <= 1
    BY <1>1, LenProperties DEF SharesTypes, OnePlace
  <2>3. \A n \in Nat : n <= 1 /\ n # 0 => {"results"} \X (1..n) = {<<"results", 1>>}
    OBVIOUS
  <2>4. \A n \in Nat : n = 0 => {"results"} \X (1..n) = {}
    OBVIOUS
  <2> QED
    BY <2>1, <2>2, <2>3, <2>4 DEF InResults
<1>5. /\ InQueue => \E x : Q = {x}
      /\ ~InQueue => Q = {}
  <2>1. ASSUME InQueue PROVE \E x : Q = {x}
    <3>1. PICK i \in Waiting : TRUE
      BY <2>1 DEF InQueue
    <3>2. Waiting = {i}
      BY <1>1, <3>1 DEF OnePlace
    <3>3. {"queue"} \X {i} = {<<"queue", i>>}
      OBVIOUS
    <3> QED
      BY <3>2, <3>3, Zenon
  <2> QED
    BY <2>1 DEF InQueue
<1>6. /\ InAnswer => \E x : C = {x}
      /\ ~InAnswer => C = {}
  <2>1. ASSUME InAnswer PROVE \E x : C = {x}
    <3>1. PICK i \in Completions : TRUE
      BY <2>1 DEF InAnswer
    <3>2. Completions = {i}
      BY <1>1, <3>1 DEF OnePlace
    <3>3. {"complete"} \X {i} = {<<"complete", i>>}
      OBVIOUS
    <3> QED
      BY <3>2, <3>3, Zenon
  <2> QED
    BY <2>1 DEF InAnswer
<1>7. /\ InThread => \E x : T = {x}
      /\ ~InThread => T = {}
  <2>1. InThread => WithThread = {1}
    BY DEF InThread, WithThread
  <2>2. ~InThread => WithThread = {}
    BY DEF InThread, WithThread
  <2>3. {"thread"} \X {1} = {<<"thread", 1>>}
    OBVIOUS
  <2> QED
    BY <2>1, <2>2, <2>3
<1> HIDE DEF A, Q, T, R, C
<1>8. CASE inFlight
  <2>1. \E x : Stations = {x}
    <3>1. CASE InActions
      BY <1>1, <1>2, <1>3, <1>4, <1>5, <1>6, <1>7, <3>1 DEF OnePlace
    <3>2. CASE InQueue
      BY <1>1, <1>2, <1>3, <1>4, <1>5, <1>6, <1>7, <3>2 DEF OnePlace
    <3>3. CASE InThread
      BY <1>1, <1>2, <1>3, <1>4, <1>5, <1>6, <1>7, <3>3 DEF OnePlace
    <3>4. CASE InResults
      BY <1>1, <1>2, <1>3, <1>4, <1>5, <1>6, <1>7, <3>4 DEF OnePlace
    <3>5. CASE InAnswer
      BY <1>1, <1>2, <1>3, <1>4, <1>5, <1>6, <1>7, <3>5 DEF OnePlace
    <3> QED
      BY <1>1, <1>8, <3>1, <3>2, <3>3, <3>4, <3>5 DEF OnePlace
  <2>2. Cardinality(Stations) = 1
    BY <2>1, FS_Singleton
  <2> QED
    BY <1>1, <1>8, <2>2 DEF AdmissionExact, OnePlace
<1>9. CASE ~inFlight
  <2>1. Stations = {}
    BY <1>1, <1>2, <1>3, <1>4, <1>5, <1>6, <1>7, <1>9 DEF OnePlace
  <2>2. Cardinality(Stations) = 0
    BY <2>1, FS_EmptySet
  <2> QED
    BY <1>1, <1>9, <2>2 DEF AdmissionExact, OnePlace
<1> QED
  BY <1>8, <1>9

LEMMA TypesHold ==
    ASSUME AdmissionInv
    PROVE  SharesTypeOK
<1>1. SharesTypes
  BY DEF AdmissionInv
<1>2. \A i \in 1..Len(todo) : todo[i] \in Stage
  BY <1>1, TurnShape DEF SharesTypes
<1>3. /\ \A i \in 1..Len(actions) : actions[i] \in Share
      /\ \A i \in 1..Len(vqueue) : vqueue[i] \in Share \cup {Other}
      /\ \A i \in 1..Len(sealing) : sealing[i] \in Share
      /\ \A i \in 1..Len(results) : results[i] \in [share : Share, verdict : Verdict]
  BY <1>1, ElementOfSeq DEF SharesTypes
<1>4. head \in DOMAIN ring
  BY <1>1 DEF SharesTypes
<1>5. \A e \in cache : e.epoch \in 1..MaxTip /\ e.tmpl \in Template
  BY <1>1 DEF SharesTypes, Pushed
<1>6. thread = None \/ (thread.share \in Share /\ thread.stage \in {"hash", "sealing"})
  BY <1>1 DEF SharesTypes
<1>7. {unannounced, inFlight, queued, notified} \subseteq BOOLEAN
  BY <1>1 DEF SharesTypes
<1> QED
  BY <1>1, <1>2, <1>3, <1>4, <1>5, <1>6, <1>7 DEF SharesTypes, SharesTypeOK

\* A connection's admission always agrees with where its shares are, for every
\* queue, ring, channel and number of connections (Admission in session.rs,
\* Router::sink and ThreadPoolVerifier in verify.rs and server.rs).
THEOREM AdmissionIsSound == SharesSpec => []AdmissionSound
<1>1. AdmissionInv => AdmissionSound
  BY TypesHold, PlacesCounted DEF AdmissionSound, AdmissionExact
<1> QED
  BY <1>1, AdmissionHolds, PTL

-----------------------------------------------------------------------------
\* Every job the connection holds can still remember a nonce: DEDUP_PER_JOB
\* sits well above the shares a job can get before it is replaced (job.rs).
DedupRoom ==
    /\ \A i \in DOMAIN ring : ring[i] # None => Cardinality(ring[i].dedup) < DedupMax
    /\ previous # None => Cardinality(previous.dedup) < DedupMax

\* A step after which nothing new is in the system but the share that waited.
LEMMA PaidStep ==
    ASSUME NoncesKnown, CreditedOnce, Live, life' = life, credited' = credited,
           \A s \in InSystem' : s \in InSystem \/ (s = pending /\ pending # None),
           \/ pending' = None
           \/ pending' = pending /\ InSystem' \subseteq InSystem,
           \A j, n : Known(j, n) => Known(j, n)'
    PROVE  NoncesKnown' /\ CreditedOnce'
<1>1. ASSUME NEW s \in InSystem'
      PROVE  Known(s.job, s.nonce)' /\ Key(s) \notin credited'
  <2>1. Known(s.job, s.nonce) /\ Key(s) \notin credited
    BY <1>1 DEF NoncesKnown, CreditedOnce
  <2> QED
    BY <2>1
<1>2. ASSUME pending' # None
      PROVE  /\ pending' = pending /\ Known(pending.job, pending.nonce)'
             /\ Key(pending) \notin credited'
             /\ \A s \in InSystem' : Key(s) # Key(pending)
  BY <1>2 DEF NoncesKnown, CreditedOnce
<1>3. \A k \in credited' : k[1] = life' => Known(k[2], k[3])'
  BY DEF NoncesKnown
<1>4. NoncesKnown'
  BY <1>1, <1>2, <1>3 DEF NoncesKnown
<1>5. CreditedOnce'
  <2>1. \A s : Key(s)' = Key(s)
    BY DEF Key
  <2> QED
    BY <1>1, <1>2 DEF CreditedOnce, Key
<1> QED
  BY <1>4, <1>5

LEMMA SameJobs ==
    ASSUME JobsOK, UNCHANGED <<ring, previous, nextId, seq>>
    PROVE  JobsOK' /\ \A j, n : Known(j, n) => Known(j, n)'
BY DEF JobsOK, Bounded, Known, KnownTo

\* Steps that move no share and touch no job.
LEMMA PaidQuiet ==
    ASSUME PaidInv, UNCHANGED <<ring, previous, nextId, seq, actions, vqueue, thread, results,
                                pending, life, credited, phase>>
    PROVE  PaidInv'
<1>1. JobsOK' /\ \A j, n : Known(j, n) => Known(j, n)'
  BY SameJobs DEF PaidInv
<1>2. InSystem' = InSystem /\ (Live' <=> Live)
  BY DEF InSystem, Waiting, WithThread, Mine, Live
<1>3. CASE Live
  BY <1>1, <1>2, <1>3, PaidStep DEF PaidInv
<1>4. CASE ~Live
  BY <1>1, <1>2, <1>4 DEF PaidInv, NoncesKnown, CreditedOnce
<1> QED
  BY <1>3, <1>4

LEMMA PaidPush ==
    ASSUME AdmissionInv, PaidInv, push_job
    PROVE  PaidInv'
<1> PICK job : job = [id |-> nextId, tmpl |-> push.tmpl, dedup |-> {}]
  OBVIOUS
<1>1. /\ Live /\ Live' /\ nextId' = nextId + 1 /\ (push_clean(job) \/ push_next(job))
      /\ todo[1] = "gen" /\ todo # <<>>
      /\ UNCHANGED <<seq, actions, vqueue, thread, results, pending, life, credited>>
  BY DEF push_job, Live, admitVars, verifyVars
<1>2. /\ nextId \in Nat /\ seq \in Nat /\ ring \in [0..(JobSlots - 1) -> Job \cup {None}]
      /\ head \in 0..(JobSlots - 1) /\ previous \in Job \cup {None} /\ push \in Pushed
  BY <1>1, SharesConstants DEF AdmissionInv, SharesTypes, PushHasTemplate
<1>3. job \in Job /\ job # None /\ job.id = nextId /\ job.dedup = {}
  <2>1. job \in Job
    BY <1>2 DEF Job, Pushed
  <2> QED
    BY <2>1, NotNone
<1>4. (head + 1) % JobSlots \in 0..(JobSlots - 1) /\ 0 \in 0..(JobSlots - 1)
  <2>1. \A b \in Nat, n \in Nat \ {0} : b % n \in 0..(n - 1)
    OBVIOUS
  <2>2. head + 1 \in Nat /\ JobSlots \in Nat \ {0}
    BY <1>2, SharesConstants
  <2> QED
    BY <2>1, <2>2
<1>5. \A x \in Job \cup {None} : Bounded(x, nextId, seq) => Bounded(x, nextId', seq') /\ x # job
  BY <1>1, <1>2, <1>3 DEF Bounded, Job
<1>6. Bounded(job, nextId', seq')
  <2>1. IsFiniteSet({}) /\ Cardinality({}) = 0
    BY FS_EmptySet
  <2> QED
    BY <1>1, <1>2, <1>3, <2>1 DEF Bounded
<1>7. \A j, n : j # nextId => KnownTo(job, j, n)
  BY <1>3 DEF KnownTo
<1>8. \A x \in Job \cup {None} : Bounded(x, nextId, seq) => (x # None => x.id # nextId)
  BY <1>2 DEF Bounded, Job
<1>9. CASE push_clean(job)
  <2>1. /\ previous' = ring[head] /\ DOMAIN ring' = 0..(JobSlots - 1)
        /\ \A i \in 0..(JobSlots - 1) : ring'[i] = IF i = 0 THEN job ELSE None
    BY <1>4, <1>9 DEF push_clean, EmptyRing
  <2>2. ring[head] \in Job \cup {None} /\ Bounded(ring[head], nextId, seq)
    BY <1>2 DEF PaidInv, JobsOK
  <2>3. Bounded(None, nextId', seq')
    BY DEF Bounded
  <2>4. JobsOK'
    BY <1>3, <1>5, <1>6, <1>8, <2>1, <2>2, <2>3 DEF JobsOK
  <2>5. ASSUME NEW j, NEW n, Known(j, n) PROVE Known(j, n)'
    <3>1. j < nextId /\ KnownTo(ring[head], j, n) /\ j # nextId
      BY <1>2, <2>5 DEF Known
    <3>2. j < nextId' /\ KnownTo(None, j, n)
      BY <1>1, <1>2, <2>5 DEF KnownTo, Known
    <3> QED
      BY <1>7, <2>1, <2>5, <3>1, <3>2 DEF Known
  <2> QED
    BY <1>1, <2>4, <2>5, PaidStep DEF PaidInv, InSystem, Waiting, WithThread, Mine
<1>10. CASE push_next(job)
  <2>1. /\ previous' = previous /\ DOMAIN ring' = 0..(JobSlots - 1)
        /\ \A i \in 0..(JobSlots - 1) : ring'[i] = job \/ ring'[i] = ring[i]
    BY <1>2, <1>4, <1>10 DEF push_next
  <2>2. \A i \in 0..(JobSlots - 1) : ring[i] \in Job \cup {None} /\ Bounded(ring[i], nextId, seq)
    BY <1>2 DEF PaidInv, JobsOK
  <2>3. Bounded(previous, nextId, seq)
    BY DEF PaidInv, JobsOK
  <2>4. JobsOK'
    <3>1. \A i \in 0..(JobSlots - 1) : Bounded(ring'[i], nextId', seq')
      BY <1>5, <1>6, <2>1, <2>2
    <3>2. previous # None => previous.id # nextId
      BY <1>2, <1>8, <2>3
    <3>3. previous # None => \A i \in 0..(JobSlots - 1) : ring[i] # None => ring[i].id # previous.id
      BY <1>2 DEF PaidInv, JobsOK
    <3>4. previous' # None => \A i \in 0..(JobSlots - 1) : ring'[i] # None => ring'[i].id # previous'.id
      BY <1>3, <2>1, <3>2, <3>3
    <3> QED
      BY <1>2, <1>5, <2>1, <2>3, <3>1, <3>4 DEF JobsOK
  <2>5. ASSUME NEW j, NEW n, Known(j, n) PROVE Known(j, n)'
    <3>1. j < nextId' /\ j # nextId
      BY <1>1, <1>2, <2>5 DEF Known
    <3>2. j < nextId'
      BY <3>1
    <3>3. \A i \in 0..(JobSlots - 1) : KnownTo(ring'[i], j, n)
      BY <1>2, <1>7, <2>1, <2>5, <3>1 DEF Known
    <3> QED
      BY <2>1, <2>5, <3>2, <3>3 DEF Known
  <2> QED
    BY <1>1, <2>4, <2>5, PaidStep DEF PaidInv, InSystem, Waiting, WithThread, Mine
<1> QED
  BY <1>1, <1>9, <1>10

\* The connection goes or comes: nothing is in the system for it.
LEMMA PaidDrop ==
    ASSUME AdmissionInv, Session_new, phase' = "closed", JobSlots \in Nat \ {0}
    PROVE  PaidInv'
<1>1. ~Live' /\ ring' = EmptyRing /\ previous' = None
  BY DEF Session_new, Live
<1>2. \A i \in DOMAIN ring' : ring'[i] = None
  BY <1>1 DEF EmptyRing
<1> QED
  BY <1>1, <1>2 DEF PaidInv, JobsOK, Bounded, NoncesKnown, CreditedOnce

LEMMA PaidConnect ==
    ASSUME AdmissionInv, PaidInv, Connect
    PROVE  PaidInv'
<1>1. /\ ~Live /\ life' = life + 1 /\ ring' = EmptyRing /\ previous' = None
      /\ pending' = None /\ actions' = <<>> /\ results' = <<>>
      /\ UNCHANGED <<vqueue, thread, credited>>
  BY DEF Connect, Session_new, Live, verifyVars
<1>2. Owned /\ SharesTypes /\ life \in Nat
  BY SharesConstants DEF AdmissionInv, SharesTypes
<1>3. JobsOK'
  <2>1. \A i \in DOMAIN ring' : ring'[i] = None
    BY <1>1 DEF EmptyRing
  <2> QED
    BY <1>1, <2>1 DEF JobsOK, Bounded
<1>4. InSystem' = {}
  <2>1. \A i \in 1..Len(vqueue) : vqueue[i] # Other => vqueue[i].life # life'
    <3>1. ASSUME NEW i \in 1..Len(vqueue), vqueue[i] # Other PROVE vqueue[i].life # life'
      <4>1. vqueue[i] \in Share /\ vqueue[i].life <= life
        BY <1>2, <3>1, ElementOfSeq DEF SharesTypes, Owned
      <4> QED
        BY <1>1, <1>2, <4>1 DEF Share
    <3> QED
      BY <3>1
  <2>2. thread # None => thread.share.life # life'
    BY <1>1, <1>2 DEF SharesTypes, Owned, Share
  <2>3. Waiting' = {} /\ WithThread' = {}
    BY <1>1, <2>1, <2>2 DEF Waiting, WithThread, Mine
  <2>4. 1..Len(actions') = {} /\ 1..Len(results') = {}
    BY <1>1, EmptySeq
  <2> QED
    BY <2>3, <2>4 DEF InSystem
<1>5. \A k \in credited : k[1] # life'
  BY <1>1, <1>2 DEF SharesTypes, Owned
<1> QED
  BY <1>1, <1>3, <1>4, <1>5 DEF PaidInv, NoncesKnown, CreditedOnce

\* Admission::complete sends on the share that waited.
LEMMA PaidCompleted ==
    ASSUME AdmissionInv, PaidInv, Live, NEW acts, Completed(acts), acts \in Seq(Share),
           \A i \in 1..Len(acts) : acts[i] \in InSystem,
           UNCHANGED <<ring, previous, nextId, seq, vqueue, thread, results, life, credited>>
    PROVE  PaidInv'
<1>1. JobsOK' /\ \A j, n : Known(j, n) => Known(j, n)'
  BY SameJobs DEF PaidInv
<1>2. /\ pending' = None /\ (queued <=> pending # None)
      /\ pending \in Share \cup {None}
  BY DEF Completed, AdmissionInv, OnePlace, SharesTypes
<1>3. \A i \in 1..Len(actions') : actions'[i] \in InSystem \/ (actions'[i] = pending /\ pending # None)
  <2>1. CASE queued
    <3>1. actions' = Append(acts, pending) /\ pending \in Share
      BY <1>2, <2>1 DEF Completed
    <3>2. /\ Len(actions') = Len(acts) + 1 /\ actions'[Len(acts) + 1] = pending
          /\ \A i \in 1..Len(acts) : actions'[i] = acts[i]
      BY <3>1, AppendProperties
    <3>3. Len(acts) \in Nat
      BY LenProperties
    <3>4. \A i \in 1..Len(actions') : i \in 1..Len(acts) \/ i = Len(acts) + 1
      BY <3>2, <3>3
    <3> QED
      BY <1>2, <2>1, <3>2, <3>4
  <2>2. CASE ~queued
    BY <2>2 DEF Completed
  <2> QED
    BY <2>1, <2>2
<1>4. \A s \in InSystem' : s \in InSystem \/ (s = pending /\ pending # None)
  BY <1>3 DEF InSystem, Waiting, WithThread, Mine
<1> QED
  BY <1>1, <1>2, <1>4, PaidStep DEF PaidInv

LEMMA PaidComplete ==
    ASSUME AdmissionInv, PaidInv, Complete
    PROVE  PaidInv'
<1>1. /\ Live /\ Completed(actions) /\ actions \in Seq(Share)
      /\ UNCHANGED <<ring, previous, nextId, seq, vqueue, thread, results, life, credited>>
  BY DEF Complete, jobVars, verifyVars, AdmissionInv, SharesTypes
<1>2. \A i \in 1..Len(actions) : actions[i] \in InSystem
  BY DEF InSystem
<1> QED
  BY <1>1, <1>2, PaidCompleted

\* What the pool's queue has after an enqueue was in the actions or in it before.
LEMMA PaidActions ==
    ASSUME AdmissionInv, PaidInv, TakeActions
    PROVE  PaidInv'
<1>1. /\ Live /\ Live'
      /\ UNCHANGED <<ring, previous, nextId, seq, thread, results, life, credited, phase>>
  BY DEF TakeActions, jobVars, Live
<1>2. CASE UNCHANGED <<vqueue, inFlight, queued, pending, actions>>
  BY <1>1, <1>2, PaidQuiet
<1>3. CASE vqueue' = vqueue \o actions /\ actions' = <<>> /\ UNCHANGED <<inFlight, queued, pending>>
  <2> DEFINE S == Share \cup {Other}
  <2>1. vqueue \in Seq(S) /\ actions \in Seq(S)
    <3>1. actions \in Seq(Share) /\ Share \subseteq S /\ vqueue \in Seq(S)
      BY DEF AdmissionInv, SharesTypes
    <3> QED
      BY <3>1, SeqMonotonic
  <2>2. /\ \A i \in 1..Len(vqueue) : vqueue'[i] = vqueue[i]
        /\ \A i \in 1..Len(actions) : vqueue'[Len(vqueue) + i] = actions[i]
        /\ \A i \in 1..Len(vqueue') : \/ i \in 1..Len(vqueue)
                                      \/ (i - Len(vqueue) \in 1..Len(actions) /\ i = Len(vqueue) + (i - Len(vqueue)))
    BY <1>3, <2>1, Joined
  <2>3. ASSUME NEW i \in Waiting' PROVE vqueue'[i] \in InSystem
    <3>1. i \in 1..Len(vqueue') /\ Mine(vqueue'[i])
      BY <1>1, <2>3 DEF Waiting, Mine
    <3>2. CASE i \in 1..Len(vqueue)
      <4>1. vqueue'[i] = vqueue[i] /\ i \in Waiting
        BY <2>2, <3>1, <3>2 DEF Waiting
      <4> QED
        BY <4>1 DEF InSystem
    <3>3. CASE i - Len(vqueue) \in 1..Len(actions) /\ i = Len(vqueue) + (i - Len(vqueue))
      <4>1. vqueue'[i] = actions[i - Len(vqueue)]
        BY <2>2, <3>3
      <4> QED
        BY <3>3, <4>1 DEF InSystem
    <3> QED
      BY <2>2, <3>1, <3>2, <3>3
  <2>4. InSystem' \subseteq InSystem
    <3>1. 1..Len(actions') = {}
      BY <1>3, EmptySeq
    <3>2. WithThread' = WithThread
      BY <1>1 DEF WithThread, Mine
    <3> QED
      BY <1>1, <2>3, <3>1, <3>2 DEF InSystem
  <2>5. JobsOK' /\ \A j, n : Known(j, n) => Known(j, n)'
    BY <1>1, SameJobs DEF PaidInv
  <2> QED
    BY <1>1, <1>3, <2>4, <2>5, PaidStep DEF PaidInv
<1>4. CASE Completed(<<>>) /\ UNCHANGED vqueue
  <2>1. <<>> \in Seq(Share) /\ 1..Len(<<>>) = {}
    BY EmptySeq
  <2> QED
    BY <1>1, <1>4, <2>1, PaidCompleted
<1> QED
  BY <1>2, <1>3, <1>4 DEF TakeActions

\* The pool's own steps: what was with the connection still is, or is gone.
LEMMA PaidPool ==
    ASSUME AdmissionInv, PaidInv, OtherEnqueues \/ ThreadTakes
    PROVE  PaidInv'
<1> DEFINE S == Share \cup {Other}
<1>1. /\ UNCHANGED <<ring, previous, nextId, seq, actions, results, pending, life, credited, phase>>
      /\ vqueue \in Seq(S) /\ (Live' <=> Live)
  BY DEF OtherEnqueues, ThreadTakes, jobVars, admitVars, loopVars, Live, AdmissionInv, SharesTypes
<1>2. ASSUME NEW i \in Waiting' PROVE vqueue'[i] \in InSystem
  <2>1. i \in 1..Len(vqueue') /\ Mine(vqueue'[i]) /\ vqueue'[i] # Other
    BY <1>1, <1>2 DEF Waiting, Mine
  <2>2. CASE OtherEnqueues
    <3>1. vqueue' = Append(vqueue, Other)
      BY <2>2 DEF OtherEnqueues
    <3>2. /\ Len(vqueue') = Len(vqueue) + 1 /\ vqueue'[Len(vqueue) + 1] = Other
          /\ \A k \in 1..Len(vqueue) : vqueue'[k] = vqueue[k]
      BY <1>1, <3>1, AppendProperties
    <3>3. i \in 1..Len(vqueue) \/ i = Len(vqueue) + 1
      BY <1>1, <2>1, <3>2, LenProperties
    <3>4. i \in 1..Len(vqueue) /\ vqueue'[i] = vqueue[i]
      BY <2>1, <3>2, <3>3
    <3> QED
      BY <2>1, <3>4 DEF InSystem, Waiting
  <2>3. CASE ThreadTakes
    <3>1. vqueue # <<>> /\ vqueue' = Tail(vqueue)
      BY <2>3 DEF ThreadTakes
    <3>2. /\ Len(vqueue') = Len(vqueue) - 1 /\ Len(vqueue) \in Nat \ {0}
          /\ \A k \in 1..Len(vqueue') : vqueue'[k] = vqueue[k + 1]
      BY <1>1, <3>1, HeadTailProperties, EmptySeq, LenProperties
    <3>3. i + 1 \in 1..Len(vqueue) /\ vqueue'[i] = vqueue[i + 1]
      BY <2>1, <3>2
    <3> QED
      BY <2>1, <3>3 DEF InSystem, Waiting
  <2> QED
    BY <2>2, <2>3
<1>3. ASSUME NEW i \in WithThread' PROVE thread'.share \in InSystem
  <2>1. CASE OtherEnqueues
    <3>1. thread' = thread /\ i \in WithThread
      BY <1>1, <1>3, <2>1 DEF OtherEnqueues, WithThread, Mine
    <3> QED
      BY <3>1 DEF InSystem
  <2>2. CASE ThreadTakes
    <3>1. /\ vqueue # <<>> /\ thread' # None
          /\ thread' = IF Head(vqueue) = Other THEN None ELSE [share |-> Head(vqueue), stage |-> "hash"]
      BY <1>3, <2>2 DEF ThreadTakes, WithThread
    <3>2. thread' = [share |-> Head(vqueue), stage |-> "hash"]
      BY <3>1
    <3>3. thread'.share = Head(vqueue)
      BY <3>2
    <3>4. Head(vqueue) = vqueue[1] /\ 1 \in 1..Len(vqueue)
      BY <1>1, <3>1, HeadTailProperties, EmptySeq, LenProperties
    <3>5. Mine(thread'.share)
      BY <1>1, <1>3 DEF WithThread, Mine
    <3> QED
      BY <3>3, <3>4, <3>5 DEF InSystem, Waiting
  <2> QED
    BY <2>1, <2>2
<1>4. InSystem' \subseteq InSystem
  BY <1>1, <1>2, <1>3 DEF InSystem
<1>5. JobsOK' /\ \A j, n : Known(j, n) => Known(j, n)'
  BY <1>1, SameJobs DEF PaidInv
<1>6. CASE Live
  BY <1>1, <1>4, <1>5, <1>6, PaidStep DEF PaidInv
<1>7. CASE ~Live
  BY <1>1, <1>5, <1>7 DEF PaidInv, NoncesKnown, CreditedOnce
<1> QED
  BY <1>6, <1>7

LEMMA PaidThread ==
    ASSUME AdmissionInv, PaidInv, verify_one \/ SealAnswered
    PROVE  PaidInv'
<1>1. /\ thread # None
      /\ UNCHANGED <<ring, previous, nextId, seq, actions, vqueue, pending, life, credited, phase>>
      /\ (Live' <=> Live)
  BY DEF verify_one, SealAnswered, jobVars, admitVars, loopVars, Live
<1>2. /\ thread' = None \/ (thread' = [thread EXCEPT !.stage = "sealing"])
      /\ results' = results \/ \E v \in Verdict : sink(thread.share, v)
  BY DEF verify_one, SealAnswered, Verdict
<1>3. results \in Seq([share : Share, verdict : Verdict])
      /\ thread \in [share : Share, stage : {"hash", "sealing"}]
  BY <1>1 DEF AdmissionInv, SharesTypes
<1>4. \A i \in WithThread' : thread'.share \in InSystem
  <2>1. ASSUME NEW i \in WithThread' PROVE thread'.share \in InSystem
    <3>1. thread' # None /\ Mine(thread'.share) /\ i \in {1}
      BY <1>1, <2>1 DEF WithThread, Mine
    <3>2. thread'.share = thread.share
      BY <1>2, <1>3, <3>1
    <3> QED
      BY <1>1, <3>1, <3>2 DEF InSystem, WithThread
  <2> QED
    BY <2>1
<1>5. Live => \A i \in 1..Len(results') : results'[i].share \in InSystem
  <2>1. \A i \in 1..Len(results) : results[i].share \in InSystem
    BY DEF InSystem
  <2>2. ASSUME NEW v \in Verdict, sink(thread.share, v), results' # results
        PROVE  \A i \in 1..Len(results') : results'[i].share \in InSystem
    <3>1. PICK r : r = [share |-> thread.share, verdict |-> v]
      OBVIOUS
    <3>2. results' = Append(results, r) /\ thread.share.life = life
      BY <2>2, <3>1 DEF sink
    <3>3. r \in [share : Share, verdict : Verdict] /\ r.share = thread.share
      BY <1>3, <3>1
    <3>4. /\ Len(results') = Len(results) + 1 /\ results'[Len(results) + 1] = r
          /\ \A i \in 1..Len(results) : results'[i] = results[i]
      BY <1>3, <3>2, <3>3, AppendProperties
    <3>5. \A i \in 1..Len(results') : i \in 1..Len(results) \/ i = Len(results) + 1
      BY <1>3, <3>4, LenProperties
    <3>6. thread.share \in InSystem
      <4>1. thread.share # Other
        BY <1>3, NotNone
      <4>2. 1 \in WithThread
        BY <1>1, <3>2, <4>1 DEF WithThread, Mine
      <4> QED
        BY <4>2 DEF InSystem
    <3> QED
      BY <2>1, <3>3, <3>4, <3>5, <3>6
  <2> QED
    BY <1>2, <2>1, <2>2
<1>6. JobsOK' /\ \A j, n : Known(j, n) => Known(j, n)'
  BY <1>1, SameJobs DEF PaidInv
<1>7. CASE Live
  <2>1. InSystem' \subseteq InSystem
    BY <1>1, <1>4, <1>5, <1>7 DEF InSystem, Waiting, Mine
  <2> QED
    BY <1>1, <1>6, <1>7, <2>1, PaidStep DEF PaidInv
<1>8. CASE ~Live
  BY <1>1, <1>6, <1>8 DEF PaidInv, NoncesKnown, CreditedOnce
<1> QED
  BY <1>7, <1>8

LEMMA PaidTips ==
    ASSUME AdmissionInv, PaidInv, seal \/ publish \/ notify_generation
    PROVE  PaidInv'
<1>1. UNCHANGED <<ring, previous, nextId, seq, actions, vqueue, thread, results, pending, life,
                  credited, phase>>
  BY DEF seal, publish, notify_generation, jobVars, admitVars, loopVars, verifyVars
<1> QED
  BY <1>1, PaidQuiet

\* The turn's steps that move no share and touch no job.
LEMMA PaidTurn ==
    ASSUME AdmissionInv, PaidInv,
           on_keepalive \/ on_garbage \/ on_subscribe \/ on_authorize \/ EndLines \/ NewGeneration
             \/ TickEvent \/ on_tick_push \/ on_tick_quiet \/ CurrentCached \/ build \/ NotReady
    PROVE  PaidInv'
<1>1. /\ UNCHANGED <<ring, previous, nextId, seq, actions, vqueue, thread, results, pending, life,
                     credited>>
      /\ (Live' <=> Live) 
  <2>1. Live /\ phase \in {"closed", "fresh", "subscribed", "authorized"}
    BY DEF on_keepalive, on_garbage, on_subscribe, on_authorize, EndLines, NewGeneration, TickEvent,
       on_tick_push, on_tick_quiet, InTick, CurrentCached, build, NotReady, Lines, Idle,
       AdmissionInv, SharesTypes
  <2>2. UNCHANGED <<ring, previous, nextId, seq, actions, vqueue, thread, results, pending, life, credited>>
    BY DEF on_keepalive, on_garbage, on_subscribe, on_authorize, EndLines, NewGeneration, TickEvent,
       on_tick_push, on_tick_quiet, InTick, CurrentCached, build, NotReady,
       jobVars, admitVars, verifyVars
  <2>3. phase' = phase \/ phase' \in {"subscribed", "authorized"}
    BY DEF on_keepalive, on_garbage, on_subscribe, on_authorize, EndLines, NewGeneration, TickEvent,
       on_tick_push, on_tick_quiet, InTick, CurrentCached, build, NotReady
  <2> QED
    BY <2>1, <2>2, <2>3 DEF Live
<1>2. JobsOK' /\ \A j, n : Known(j, n) => Known(j, n)'
  BY <1>1, SameJobs DEF PaidInv
<1>3. InSystem' = InSystem
  BY <1>1 DEF InSystem, Waiting, WithThread, Mine
<1>4. CASE Live
  BY <1>1, <1>2, <1>3, <1>4, PaidStep DEF PaidInv
<1>5. CASE ~Live
  BY <1>1, <1>2, <1>5 DEF PaidInv, NoncesKnown, CreditedOnce
<1> QED
  BY <1>4, <1>5

\* The answer is paid for: nothing else of the connection is in the system, and
\* the share that waits is another one.
LEMMA PaidResult ==
    ASSUME AdmissionInv, AdmissionInv', PaidInv, on_verify_result
    PROVE  PaidInv'
<1>1. /\ Live /\ Live' /\ results # <<>> /\ results' = Tail(results)
      /\ credited' \subseteq credited \cup {Key(Head(results).share)}
      /\ UNCHANGED <<ring, previous, nextId, seq, actions, vqueue, thread, pending, life>>
      /\ todo' \in {<<"complete", "actions">>, <<"push", "complete", "actions">>, <<"complete", "close">>}
  BY DEF on_verify_result, Idle, Live, jobVars, admitVars, verifyVars
<1>2. PICK s : s = Head(results).share
  OBVIOUS
<1>3. s \in InSystem /\ s.life = life
  <2>1. Len(results) \in Nat \ {0} /\ Head(results) = results[1]
    BY <1>1, EmptySeq, LenProperties, HeadTailProperties DEF AdmissionInv, SharesTypes
  <2>2. 1 \in 1..Len(results)
    BY <2>1
  <2> QED
    BY <1>2, <2>1, <2>2 DEF InSystem, AdmissionInv, Owned
<1>4. InSystem' = {}
  <2>1. Answering(todo')
    <3>1. todo' \in Turns
      BY DEF AdmissionInv, SharesTypes
    <3> QED
      BY <1>1, <3>1, TurnShape DEF Pushing
  <2>2. InAnswer'
    BY <2>1 DEF InAnswer, Completions, Answering
  <2>3. ~InActions' /\ ~InQueue' /\ ~InThread' /\ ~InResults'
    BY <1>1, <2>2 DEF AdmissionInv, OnePlace
  <2>4. 1..Len(actions') = {} /\ 1..Len(results') = {} /\ Waiting' = {} /\ WithThread' = {}
    BY <2>3, EmptySeq DEF InActions, InQueue, InThread, InResults, WithThread
  <2> QED
    BY <2>4 DEF InSystem
<1>5. JobsOK' /\ \A j, n : Known(j, n) => Known(j, n)'
  BY <1>1, SameJobs DEF PaidInv
<1>6. Known(s.job, s.nonce) /\ Key(s) = <<s.life, s.job, s.nonce>>
  BY <1>1, <1>3 DEF PaidInv, NoncesKnown, Key
<1>7. NoncesKnown'
  <2>1. ASSUME NEW k \in credited', k[1] = life PROVE Known(k[2], k[3])'
    <3>1. CASE k \in credited
      BY <1>1, <1>5, <2>1, <3>1 DEF PaidInv, NoncesKnown
    <3>2. CASE k = Key(s)
      BY <1>5, <1>6, <3>2
    <3> QED
      BY <1>1, <1>2, <2>1, <3>1, <3>2
  <2>2. pending # None => Known(pending.job, pending.nonce)'
    BY <1>1, <1>5 DEF PaidInv, NoncesKnown
  <2> QED
    BY <1>1, <1>4, <2>1, <2>2 DEF NoncesKnown
<1>8. CreditedOnce'
  <2>1. pending # None => Key(pending) \notin credited /\ Key(s) # Key(pending)
    BY <1>1, <1>3 DEF PaidInv, CreditedOnce
  <2> QED
    BY <1>1, <1>2, <1>4, <2>1 DEF CreditedOnce, Key
<1> QED
  BY <1>5, <1>7, <1>8 DEF PaidInv

\* check_duplicate and Dedup::check_and_record: what is not a duplicate is new,
\* and once recorded it is known to all the connection holds.
LEMMA RecordKnows ==
    ASSUME AdmissionInv, JobsOK, DedupRoom, NEW j \in Nat, NEW n \in Nonce, Record(j, n),
           Lookup(j) \in {"live", "credited"}, nextId' = nextId, seq' = seq + 1
    PROVE  JobsOK' /\ Known(j, n)' /\ \A i, m : Known(i, m) => Known(i, m)'
<1>1. /\ ring \in [0..(JobSlots - 1) -> Job \cup {None}] /\ previous \in Job \cup {None}
      /\ nextId \in Nat /\ seq \in Nat /\ DedupMax \in Nat
  BY SharesConstants DEF AdmissionInv, SharesTypes
<1>2. ASSUME NEW x \in Job, Bounded(x, nextId, seq), Cardinality(x.dedup) < DedupMax
      PROVE  /\ Recorded(x, n) \in Job /\ Recorded(x, n).id = x.id
             /\ Recorded(x, n).dedup = x.dedup \cup {n}
             /\ Recorded(x, n) # None /\ Bounded(Recorded(x, n), nextId, seq + 1)
  <2>1. Recorded(x, n) \in Job /\ Recorded(x, n).id = x.id /\ Recorded(x, n).dedup = x.dedup \cup {n}
    BY <1>2 DEF Recorded, Job
  <2>2. x # None /\ Recorded(x, n) # None
    BY <2>1, NotNone
  <2>3. IsFiniteSet(x.dedup) /\ Cardinality(x.dedup) <= seq /\ x.id < nextId
    BY <1>2, <2>2 DEF Bounded
  <2>4. /\ IsFiniteSet(x.dedup \cup {n}) /\ Cardinality(x.dedup) \in Nat
        /\ \/ Cardinality(x.dedup \cup {n}) = Cardinality(x.dedup)
           \/ Cardinality(x.dedup \cup {n}) = Cardinality(x.dedup) + 1
    BY <2>3, FS_AddElement, FS_CardinalityType
  <2>5. Cardinality(x.dedup \cup {n}) <= seq + 1
    BY <1>1, <2>3, <2>4
  <2> QED
    BY <2>1, <2>2, <2>3, <2>4, <2>5 DEF Bounded
<1>3. \A x \in Job \cup {None} : Bounded(x, nextId, seq) => Bounded(x, nextId, seq + 1)
  <2>1. ASSUME NEW x \in Job \cup {None}, Bounded(x, nextId, seq), x # None
        PROVE  Cardinality(x.dedup) <= seq + 1
    <3>1. IsFiniteSet(x.dedup) /\ Cardinality(x.dedup) <= seq
      BY <2>1 DEF Bounded
    <3>2. Cardinality(x.dedup) \in Nat
      BY <3>1, FS_CardinalityType
    <3> QED
      BY <1>1, <3>1, <3>2
  <2> QED
    BY <2>1 DEF Bounded
<1>4. CASE Lookup(j) = "live"
  <2>1. /\ Slots(j) # {} /\ previous' = previous
        /\ ring' = [i \in DOMAIN ring |-> IF i \in Slots(j) THEN Recorded(ring[i], n) ELSE ring[i]]
    BY <1>4 DEF Record, Lookup
  <2>2. ASSUME NEW i \in 0..(JobSlots - 1)
        PROVE  /\ i \in Slots(j) => /\ ring[i] # None /\ ring[i].id = j /\ ring[i] \in Job
                                    /\ ring'[i] = Recorded(ring[i], n)
                                    /\ Cardinality(ring[i].dedup) < DedupMax
               /\ i \notin Slots(j) => ring'[i] = ring[i] /\ (ring[i] # None => ring[i].id # j)
               /\ Bounded(ring[i], nextId, seq) /\ ring[i] \in Job \cup {None}
    BY <1>1, <2>1, <2>2 DEF Slots, DedupRoom, JobsOK
  <2>3. \A i \in 0..(JobSlots - 1) :
           /\ Bounded(ring'[i], nextId, seq + 1)
           /\ ring'[i] # None <=> ring[i] # None
           /\ ring[i] # None => ring'[i].id = ring[i].id
           /\ KnownTo(ring'[i], j, n)
           /\ \A h, m : KnownTo(ring[i], h, m) => KnownTo(ring'[i], h, m)
    BY <1>2, <1>3, <2>2 DEF KnownTo
  <2>4. DOMAIN ring' = 0..(JobSlots - 1) /\ DOMAIN ring = 0..(JobSlots - 1)
    BY <1>1, <2>1
  <2>5. previous # None => previous.id # j
    <3>1. PICK i \in Slots(j) : TRUE
      BY <2>1
    <3> QED
      BY <3>1 DEF JobsOK, Slots
  <2>6. JobsOK'
    BY <1>1, <1>3, <2>1, <2>3, <2>4 DEF JobsOK
  <2>7. \A i, m : Known(i, m) => Known(i, m)'
    BY <2>1, <2>3, <2>4 DEF Known
  <2>8. j < nextId
    <3>1. PICK i \in Slots(j) : TRUE
      BY <2>1
    <3> QED
      BY <1>1, <2>2, <3>1 DEF Bounded, Slots
  <2>9. Known(j, n)'
    BY <2>1, <2>3, <2>4, <2>5, <2>8 DEF Known, KnownTo
  <2> QED
    BY <2>6, <2>7, <2>9
<1>5. CASE Lookup(j) = "credited"
  <2>1. /\ Slots(j) = {} /\ previous # None /\ previous.id = j /\ previous \in Job
        /\ previous' = Recorded(previous, n) /\ ring' = ring
    BY <1>5, JobOfIs DEF Record, AdmissionInv
  <2>2. Bounded(previous, nextId, seq) /\ Cardinality(previous.dedup) < DedupMax
    BY <2>1 DEF JobsOK, DedupRoom
  <2>3. /\ previous' \in Job /\ previous'.id = j /\ previous'.dedup = previous.dedup \cup {n}
        /\ previous' # None /\ Bounded(previous', nextId, seq + 1)
    BY <1>2, <2>1, <2>2
  <2>4. JobsOK'
    BY <1>1, <1>3, <2>1, <2>3 DEF JobsOK
  <2>5. \A i, m : Known(i, m) => Known(i, m)'
    BY <2>1, <2>3 DEF Known, KnownTo
  <2>6. Known(j, n)'
    <3>1. j < nextId
      BY <2>1, <2>2 DEF Bounded
    <3>2. \A i \in DOMAIN ring : ring[i] # None => ring[i].id # j
      BY <2>1 DEF Slots
    <3> QED
      BY <2>1, <2>3, <3>1, <3>2 DEF Known, KnownTo
  <2> QED
    BY <2>4, <2>5, <2>6
<1> QED
  BY <1>4, <1>5

\* on_submit: only a share that nothing of the connection knows is admitted.
LEMMA PaidSubmit ==
    ASSUME AdmissionInv, PaidInv, DedupRoom, NEW j \in Nat, NEW n \in Nonce, on_submit(j, n)
    PROVE  PaidInv'
<1>1. /\ Lines /\ phase = "authorized"
      /\ UNCHANGED <<phase, life, nextId, results, vqueue, thread, credited>>
  BY DEF on_submit, verifyVars
<1>2. Live /\ Live'
  BY <1>1 DEF Live
<1>3. CASE UNCHANGED <<ring, previous, admitVars, actions>>
  BY <1>1, <1>3, PaidQuiet DEF admitVars
<1>4. CASE /\ Lookup(j) \in {"live", "credited"} /\ ~check_duplicate(j, n) /\ Record(j, n)
           /\ seq' = seq + 1
           /\ Admit([life |-> life, job |-> j, nonce |-> n, tmpl |-> JobOf(j).tmpl,
                     eligible |-> Lookup(j) = "live"])
  <2> PICK s : s = [life |-> life, job |-> j, nonce |-> n, tmpl |-> JobOf(j).tmpl,
                    eligible |-> Lookup(j) = "live"]
    OBVIOUS
  <2>1. s.life = life /\ s.job = j /\ s.nonce = n
    OBVIOUS
  <2>2. Admit(s)
    BY <1>4
  <2> PICK p : p = pending
    OBVIOUS
  <2>3. /\ JobsOK' /\ Known(j, n)' /\ \A i, m : Known(i, m) => Known(i, m)'
    BY <1>1, <1>4, RecordKnows DEF PaidInv
  <2>4. ~Known(j, n)
    <3>1. /\ JobOf(j) \in Job /\ n \notin JobOf(j).dedup
          /\ Lookup(j) = "live" => \E i \in Slots(j) : JobOf(j) = ring[i]
          /\ Lookup(j) = "credited" => previous # None /\ previous.id = j /\ JobOf(j) = previous
      BY <1>4, JobOfIs DEF AdmissionInv, check_duplicate
    <3> QED
      BY <1>4, <3>1 DEF Known, KnownTo, Slots
  <2>5. /\ \A t \in InSystem : t.job # j \/ t.nonce # n
        /\ pending # None => pending.job # j \/ pending.nonce # n
        /\ \A k \in credited : k[1] = life => k[2] # j \/ k[3] # n
    BY <1>2, <2>4 DEF PaidInv, NoncesKnown
  <2>6. Key(s) = <<life, j, n>> /\ Key(s) \notin credited
    BY <2>1, <2>5 DEF Key
  <2> HIDE DEF Admit
  <2>7. (\A t \in InSystem : Key(t) # Key(s)) /\ (pending # None => Key(pending) # Key(s))
    BY <2>5, <2>6 DEF Key
  <2>8. CASE actions' = Append(actions, s) /\ UNCHANGED pending
    <3>1. actions \in Seq(Share) /\ s \in Share
      <4>1. life \in 1..MaxLife
        BY <1>2 DEF AdmissionInv, Owned
      <4>2. JobOf(j).tmpl \in Template
        BY <1>4, JobOfIs DEF AdmissionInv, Job
      <4>3. (Lookup(j) = "live") \in BOOLEAN
        OBVIOUS
      <4> QED
        BY <4>1, <4>2, <4>3 DEF AdmissionInv, SharesTypes, Share
    <3>2. /\ Len(actions') = Len(actions) + 1 /\ actions'[Len(actions) + 1] = s
          /\ \A i \in 1..Len(actions) : actions'[i] = actions[i]
      BY <2>8, <3>1, AppendProperties
    <3>3. \A i \in 1..Len(actions') : i \in 1..Len(actions) \/ i = Len(actions) + 1
      BY <3>1, <3>2, LenProperties
    <3>4. \A t \in InSystem' : t \in InSystem \/ t = s
      BY <1>1, <3>2, <3>3 DEF InSystem, Waiting, WithThread, Mine
    <3>5. NoncesKnown'
      <4>1. \A t \in InSystem' : Known(t.job, t.nonce)'
        BY <1>2, <2>1, <2>3, <3>4 DEF PaidInv, NoncesKnown
      <4>2. /\ p # None => Known(p.job, p.nonce)'
            /\ \A k \in credited : k[1] = life => Known(k[2], k[3])'
        BY <1>2, <2>3 DEF PaidInv, NoncesKnown
      <4>3. pending' = p
        BY <2>8
      <4> QED
        BY <1>1, <4>1, <4>2, <4>3 DEF NoncesKnown
    <3>6. CreditedOnce'
      <4>1. \A t \in InSystem' : Key(t) \notin credited
        BY <1>2, <2>6, <3>4 DEF PaidInv, CreditedOnce
      <4>2. pending # None => Key(pending) \notin credited /\ \A t \in InSystem' : Key(t) # Key(pending)
        BY <1>2, <2>7, <3>4 DEF PaidInv, CreditedOnce
      <4> QED
        BY <1>1, <2>8, <4>1, <4>2 DEF CreditedOnce, Key
    <3> QED
      BY <2>3, <3>5, <3>6 DEF PaidInv
  <2>9. CASE UNCHANGED actions /\ (pending' = s \/ pending' = pending)
    <3>1. InSystem' = InSystem
      BY <1>1, <2>9 DEF InSystem, Waiting, WithThread, Mine
    <3>2. NoncesKnown'
      <4>1. \A t \in InSystem' : Known(t.job, t.nonce)'
        BY <1>2, <2>3, <3>1 DEF PaidInv, NoncesKnown
      <4>2. /\ Known(s.job, s.nonce)' /\ (p # None => Known(p.job, p.nonce)')
            /\ pending' = s \/ pending' = p
        BY <1>2, <2>1, <2>3, <2>9 DEF PaidInv, NoncesKnown
      <4>3. \A k \in credited : k[1] = life => Known(k[2], k[3])'
        BY <1>2, <2>3 DEF PaidInv, NoncesKnown
      <4> QED
        BY <1>1, <4>1, <4>2, <4>3 DEF NoncesKnown
    <3>3. CreditedOnce'
      <4>1. \A t \in InSystem : Key(t) \notin credited
        BY <1>2 DEF PaidInv, CreditedOnce
      <4>2. pending' # None => Key(pending') \notin credited /\ \A t \in InSystem : Key(t) # Key(pending')
        BY <1>2, <2>6, <2>7, <2>9 DEF PaidInv, CreditedOnce
      <4> QED
        BY <1>1, <3>1, <4>1, <4>2 DEF CreditedOnce, Key
    <3> QED
      BY <2>3, <3>2, <3>3 DEF PaidInv
  <2>10. (actions' = Append(actions, s) /\ UNCHANGED pending)
         \/ (UNCHANGED actions /\ (pending' = s \/ pending' = pending))
    BY <2>2 DEF Admit
  <2> QED
    BY <2>8, <2>9, <2>10
<1> QED
  BY <1>3, <1>4 DEF on_submit

LEMMA PaidInit ==
    ASSUME SharesInit
    PROVE  PaidInv
<1>1. ~Live /\ previous = None /\ \A i \in DOMAIN ring : ring[i] = None
  BY DEF SharesInit, Live, EmptyRing
<1> QED
  BY <1>1 DEF PaidInv, JobsOK, Bounded, NoncesKnown, CreditedOnce

LEMMA PaidNext ==
    ASSUME AdmissionInv, AdmissionInv', PaidInv, phase = "authorized" /\ seq < MaxSeq => DedupRoom,
           [SharesNext]_shareVars
    PROVE  PaidInv'
<1>1. CASE Connect
  BY <1>1, PaidConnect
<1>2. CASE Hangup \/ Close
  <2>1. Session_new /\ phase' = "closed" /\ JobSlots \in Nat \ {0}
    BY <1>2, SharesConstants DEF Hangup, Drop, Close
  <2> QED
    BY <2>1, PaidDrop
<1>3. CASE \E j \in 0..(MaxPush + MaxTip + 1), n \in Nonce : on_submit(j, n)
  <2>1. PICK j \in 0..(MaxPush + MaxTip + 1), n \in Nonce : on_submit(j, n)
    BY <1>3
  <2>2. DedupRoom \/ UNCHANGED <<ring, previous, nextId, seq, actions, vqueue, thread, results, pending,
                                 life, credited, phase>>
    BY <2>1 DEF on_submit
  <2> QED
    BY <2>1, <2>2, PaidSubmit, PaidQuiet
<1>4. CASE SessionSteps
  BY <1>2, <1>4, PaidComplete, PaidTurn, PaidActions, PaidPush DEF SessionSteps
<1>5. CASE Events
  BY <1>2, <1>3, <1>5, PaidTurn DEF Events
<1>6. CASE build \/ on_verify_result \/ NewGeneration \/ TickEvent
  BY <1>6, PaidTurn, PaidResult
<1>7. CASE ThreadTakes \/ verify_one \/ SealAnswered
  BY <1>7, PaidPool, PaidThread
<1>8. CASE seal \/ notify_generation \/ Environment
  BY <1>8, PaidTips, PaidPool DEF Environment
<1>9. CASE UNCHANGED shareVars
  <2>1. UNCHANGED <<ring, previous, nextId, seq, actions, vqueue, thread, results, pending, life,
                    credited, phase>>
    BY <1>9 DEF shareVars, jobVars, admitVars, loopVars, verifyVars
  <2> QED
    BY <2>1, PaidQuiet
<1> QED
  BY <1>1, <1>4, <1>5, <1>6, <1>7, <1>8, <1>9 DEF SharesNext

\* A share is paid for once as long as every job a miner still holds can
\* remember another nonce, whatever is refused, resubmitted or answered late
\* (JobSlots::lookup and Dedup in job.rs, on_submit and on_verify_result in
\* session.rs).
THEOREM SharesArePaidOnce == SharesSpec /\ []DedupRoom => []CreditedOnce
<1>1. SharesInit => PaidInv
  BY PaidInit
<1>2. AdmissionInv /\ AdmissionInv' /\ PaidInv /\ DedupRoom /\ [SharesNext]_shareVars => PaidInv'
  BY PaidNext
<1>3. PaidInv => CreditedOnce
  BY DEF PaidInv
<1> QED
  BY <1>1, <1>2, <1>3, AdmissionHolds, PTL DEF SharesSpec

\* A connection that submits no more shares than one job remembers (DEDUP_PER_JOB)
\* never needs that hypothesis.
THEOREM FewSharesArePaidOnce == MaxSeq <= DedupMax /\ SharesSpec => []CreditedOnce
<1> SUFFICES ASSUME MaxSeq <= DedupMax PROVE SharesSpec => []CreditedOnce
  OBVIOUS
<1>1. ASSUME AdmissionInv, PaidInv, seq < MaxSeq PROVE DedupRoom
  <2>1. ASSUME NEW x, x # None, Bounded(x, nextId, seq) PROVE Cardinality(x.dedup) < DedupMax
    <3>1. Cardinality(x.dedup) <= seq /\ Cardinality(x.dedup) \in Nat
      BY <2>1, FS_CardinalityType DEF Bounded
    <3>2. MaxSeq \in Nat /\ DedupMax \in Nat
      BY SharesConstants
    <3>3. seq \in Nat
      BY <1>1, <3>2 DEF AdmissionInv, SharesTypes
    <3> QED
      BY <1>1, <3>1, <3>2, <3>3
  <2> QED
    BY <1>1, <2>1 DEF DedupRoom, PaidInv, JobsOK
<1>2. SharesInit => PaidInv
  BY PaidInit
<1>3. AdmissionInv /\ AdmissionInv' /\ PaidInv /\ [SharesNext]_shareVars => PaidInv'
  BY <1>1, PaidNext
<1>4. PaidInv => CreditedOnce
  BY DEF PaidInv
<1> QED
  BY <1>2, <1>3, <1>4, AdmissionHolds, PTL DEF SharesSpec
=============================================================================
