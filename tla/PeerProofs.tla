----------------------------- MODULE PeerProofs -----------------------------
(***************************************************************************)
(* Which peers a node dials and which one it fetches headers from.         *)
(*                                                                         *)
(* The header track and the sessions agree, for every set of peers, every  *)
(* bound and every attempt limit.  A tick is a chain of functions on the   *)
(* pair of track and sessions.  Each keeps Good, which says of such a pair *)
(* what TrackSound says of the state, and two things more: a peer with the *)
(* mark is connected, and a claim still believed has attempts left.        *)
(*                                                                         *)
(* The address book is sound for every set of addresses and every limit.   *)
(* Its operations work on positions, its invariant counts addresses: Whole *)
(* says that index, entries and counters agree, and View what the book     *)
(* says of each address, wherever its entry is.                            *)
(***************************************************************************)
EXTENDS HeaderSync, AddrBook, BlockTreeProofs, FiniteSetTheorems

SyncSpec == SyncInit /\ [][SyncNext]_syncVars

State == {"ColdStart", "Probing", "HeaderSync", "Tracking", "DeepRecovery", "Quarantined"}
Claim == [known : BOOLEAN, height : 0..ClaimMax, proved : Nat, failures : Nat, demoted : BOOLEAN]
Clock == [suspended : BOOLEAN, bound : BOOLEAN, refused : BOOLEAN]
Staged == [from : Peer, good : BOOLEAN]
Session == [up : BOOLEAN, role : BOOLEAN, cooling : BOOLEAN, disqualified : BOOLEAN, rate : {0, 1}]
Track ==
    [state : State, sync : Peer \cup {NoPeer}, locate : BOOLEAN, clock : Clock,
     sinkHeld : BOOLEAN, commitBound : BOOLEAN, charged : Nat, lastGroup : Nat,
     staged : Seq(Staged), verified : 0..Target, claims : [Peer -> Claim], flat : {0},
     episode : BOOLEAN, asked : SUBSET Peer, failures : Nat]

\* A claim is proved only as far as the chain is verified, and one that is
\* believed has attempts left.
ClaimOK(c, verified) ==
    /\ c.proved <= verified
    /\ c.failures <= ClaimAttempts
    /\ ~c.demoted => c.failures < ClaimAttempts

TrackOK(h) ==
    /\ h \in Track
    /\ \A p \in Peer : ClaimOK(h.claims[p], h.verified)
    /\ Len(h.staged) <= StageMax /\ h.verified + Len(h.staged) <= Target

\* Only a connected session has the mark of the sync peer.
SessOK(s) == s \in [Peer -> Session] /\ \A p \in Peer : s[p].role => s[p].up

Fits(h, s) == \A p \in Peer : s[p].role <=> h.sync = p

Good(h, s) == TrackOK(h) /\ SessOK(s) /\ Fits(h, s)

\* What a part of a tick returns: a good pair with the chain where it was.
Keeps(h, r) == Good(r[1], r[2]) /\ r[1].verified = h.verified

SyncInv == Good(ht, sess) /\ tip \in 0..ht.verified

-----------------------------------------------------------------------------
(* Least and greatest elements.                                            *)

\* A set of natural numbers has a least element, a bounded one a greatest.
LEMMA LeastIs ==
    ASSUME NEW V, V \subseteq Nat, V # {}
    PROVE  \E i \in V : \A j \in V : i <= j
<1>1. IsWellFoundedOn(OpToRel(<, Nat), Nat)
  BY NatLessThanWellFounded
<1>2. PICK i \in V : \A j \in V : ~(<<j, i>> \in OpToRel(<, Nat))
  BY <1>1, WFMin
<1>3. \A a, b \in Nat : b < a => <<b, a>> \in OpToRel(<, Nat)
  BY DEF OpToRel
<1>4. \A j \in V : ~(j < i)
  BY <1>2, <1>3
<1> QED
  BY <1>4

LEMMA HighestIs ==
    ASSUME NEW n \in Nat, NEW V, V \subseteq 0..n, V # {}
    PROVE  Highest(V) \in V /\ \A j \in V : j <= Highest(V)
<1> DEFINE W == {n - i : i \in V}
<1>1. W \subseteq Nat /\ W # {}
  <2>1. \A i \in V : n - i \in Nat
    OBVIOUS
  <2> QED
    BY <2>1, Zenon
<1>2. PICK w \in W : \A u \in W : w <= u
  BY <1>1, LeastIs
<1>3. PICK i \in V : w = n - i
  OBVIOUS
<1>4. \A j \in V : j <= i
  <2>1. \A j \in V : n - i <= n - j
    BY <1>2, <1>3
  <2> QED
    BY <2>1
<1> QED
  BY <1>4 DEF Highest

-----------------------------------------------------------------------------
(* The choice of a peer.                                                   *)

\* Heights are within the highest claim.
LEMMA HeightBounded ==
    ASSUME NEW h, TrackOK(h), NEW p \in Peer
    PROVE  effective_height(h.claims[p]) \in 0..ClaimMax
<1>1. h.claims[p] \in Claim /\ h.verified \in 0..Target
  BY DEF TrackOK, Track
<1>2. h.claims[p].proved <= h.verified
  BY DEF TrackOK, ClaimOK
<1> QED
  BY <1>1, <1>2, SyncConstants DEF Claim, effective_height

\* best_actionable_height is above the tip only if somebody may be selected:
\* the audit's notion of a usable peer is the rotation's.
LEMMA BehindHasPeer ==
    ASSUME NEW h, NEW s, TrackOK(h), tip \in Nat, best_actionable_height(h, s) > tip
    PROVE  Eligible(h, s, Ready(s)) # {}
<1> DEFINE P == {p \in Peer : sync_eligible(s, p)}
<1>1. Heights(h, P) \subseteq 0..ClaimMax /\ Heights(h, P) # {} /\ ClaimMax \in Nat
  BY HeightBounded, SyncConstants DEF Heights
<1>2. Highest(Heights(h, P)) \in Heights(h, P)
  BY <1>1, HighestIs
<1>3. PICK p \in P : effective_height(h.claims[p]) > tip
  BY <1>2 DEF Heights, best_actionable_height
<1>4. p \in Eligible(h, s, Ready(s))
  BY <1>3 DEF Eligible, Ahead, Ready, sync_eligible
<1> QED
  BY <1>4

\* Rotator::select picks one of the peers it may pick from.
LEMMA FastestIs ==
    ASSUME NEW h, NEW s, SessOK(s), NEW E, E \subseteq Peer, E # {}
    PROVE  Fastest(h, s, E) \in E
<1> DEFINE R == Rotates(h, E)
           F == {p \in R : s[p].rate = 1}
<1>1. E \subseteq Nat
  BY SyncConstants
<1>2. R # {} /\ R \subseteq E
  BY <1>1, LeastIs DEF Rotates
<1>3. \A p \in R : s[p].rate \in {0, 1}
  BY <1>2 DEF SessOK, Session
<1>4. \E p \in R : \A q \in R : s[q].rate < s[p].rate \/ (s[q].rate = s[p].rate /\ p <= q)
  <2>1. CASE F = {}
    <3>1. PICK p \in R : \A q \in R : p <= q
      BY <1>1, <1>2, LeastIs
    <3> QED
      BY <2>1, <3>1, <1>3
  <2>2. CASE F # {}
    <3>1. F \subseteq Nat
      BY <1>1, <1>2
    <3>2. PICK p \in F : \A q \in F : p <= q
      BY <2>2, <3>1, LeastIs
    <3> QED
      BY <3>2, <1>3
  <2> QED
    BY <2>1, <2>2
<1>5. Fastest(h, s, E) \in R
  BY <1>4 DEF Fastest
<1> QED
  BY <1>2, <1>5

\* A designation is of a connected peer among those offered, and there is one
\* whenever a peer is eligible.
LEMMA SelectIs ==
    ASSUME NEW h, NEW s, NEW P, NEW x, SessOK(s), P \subseteq Peer
    PROVE  /\ \A p \in select(h, s, P, x) : p \in P /\ s[p].up
           /\ Eligible(h, s, P) # {} => select(h, s, P, x) # {}
<1>1. CASE Eligible(h, s, P) # {}
  <2>1. Eligible(h, s, P) \subseteq Peer
    BY DEF Eligible, Ahead
  <2>2. Fastest(h, s, Eligible(h, s, P)) \in Eligible(h, s, P)
    BY <1>1, <2>1, FastestIs
  <2> QED
    BY <1>1, <2>2 DEF select, Eligible, Ahead, sync_eligible
<1>2. CASE Eligible(h, s, P) = {}
  BY <1>2 DEF select, Waivable, Ahead
<1> QED
  BY <1>1, <1>2


-----------------------------------------------------------------------------
(* The parts of a tick.                                                    *)

\* A track with the same claims, staging and verified height is as good.
LEMMA SameTrack ==
    ASSUME NEW h, NEW g, TrackOK(h), g \in Track,
           g.claims = h.claims, g.staged = h.staged, g.verified = h.verified
    PROVE  TrackOK(g)
BY DEF TrackOK

\* Entering another state leaves the rest as it is.
LEMMA EnterKeeps ==
    ASSUME NEW h, NEW s, NEW state \in State, Good(h, s)
    PROVE  Good(Enter(h, state), s) /\ Enter(h, state).verified = h.verified
<1> DEFINE g == Enter(h, state)
<1>1. /\ g \in Track /\ g.claims = h.claims /\ g.staged = h.staged
      /\ g.verified = h.verified /\ g.sync = h.sync
  BY DEF Enter, Good, TrackOK, Track
<1> QED
  BY <1>1, SameTrack DEF Good, Fits

\* Whatever changes in a track beside the claims, the staging, the chain and
\* the designation.
LEMMA SamePair ==
    ASSUME NEW h, NEW s, NEW g, Good(h, s), g \in Track, g.sync = h.sync,
           g.claims = h.claims, g.staged = h.staged, g.verified = h.verified
    PROVE  Good(g, s)
BY SameTrack DEF Good, Fits

\* A designation marks the designated peer and no other (designate, apply).
LEMMA DesignatedGood ==
    ASSUME NEW h, NEW s, TrackOK(h), SessOK(s), NEW p \in Peer, s[p].up
    PROVE  Keeps(h, Designated(h, s, p)) /\ Designated(h, s, p)[1].state = "HeaderSync"
<1> DEFINE g == Designated(h, s, p)[1]
           t == Designated(h, s, p)[2]
<1>1. Group[p] \in Nat /\ NewClock \in Clock
  BY SyncConstants DEF NewClock, Clock
<1>2. /\ g \in Track /\ g.claims = h.claims /\ g.staged = h.staged
      /\ g.verified = h.verified /\ g.sync = p /\ g.state = "HeaderSync"
  BY <1>1 DEF Designated, TrackOK, Track, State
<1>3. t \in [Peer -> Session] /\ \A q \in Peer : t[q].role = (q = p) /\ t[q].up = s[q].up
  <2> DEFINE u(q) == [s[q] EXCEPT !.role = (q = p),
                                  !.cooling = @ /\ ~(q = p /\ ~sync_eligible(s, p))]
  <2>1. ASSUME NEW q \in Peer
        PROVE  u(q) \in Session /\ u(q).role = (q = p) /\ u(q).up = s[q].up
    <3>1. s[q] \in Session
      BY DEF SessOK
    <3>2. (q = p) \in BOOLEAN /\ (s[q].cooling /\ ~(q = p /\ ~sync_eligible(s, p))) \in BOOLEAN
      OBVIOUS
    <3> HIDE DEF Session
    <3> QED
      BY <3>1, <3>2 DEF Session
  <2>2. t = [q \in Peer |-> u(q)]
    BY DEF Designated
  <2> HIDE DEF u, t
  <2> QED
    BY <2>1, <2>2
<1>4. TrackOK(g)
  BY <1>2, SameTrack
<1>5. SessOK(t)
  BY <1>3 DEF SessOK
<1>6. Fits(g, t)
  BY <1>2, <1>3 DEF Fits
<1> QED
  BY <1>2, <1>4, <1>5, <1>6 DEF Keeps, Good

\* A call that may designate does, or leaves things to its caller.
LEMMA DesignateGood ==
    ASSUME NEW h, NEW s, TrackOK(h), SessOK(s), NEW P, P \subseteq Peer, NEW x, NEW else,
           NEW r \in designate(h, s, P, x, else)
    PROVE  \/ Keeps(h, r) /\ r[1].state = "HeaderSync"
           \/ r = else /\ Eligible(h, s, P) = {}
<1>1. CASE select(h, s, P, x) = {}
  BY <1>1, SelectIs DEF designate
<1>2. CASE select(h, s, P, x) # {}
  <2>1. PICK p \in select(h, s, P, x) : r = Designated(h, s, p)
    BY <1>2 DEF designate
  <2>2. p \in Peer /\ s[p].up
    BY <2>1, SelectIs
  <2> QED
    BY <2>1, <2>2, DesignatedGood
<1> QED
  BY <1>1, <1>2

\* A rotation takes the mark from the peer it leaves (rotate, Undesignate).
LEMMA RotateGood ==
    ASSUME NEW h, NEW s, Good(h, s), h.sync \in Peer, NEW charged \in BOOLEAN, NEW x,
           NEW r \in rotate(h, s, h.sync, charged, x)
    PROVE  Keeps(h, r)
<1> DEFINE from == h.sync
           cleared == [h EXCEPT !.sync = NoPeer, !.locate = FALSE]
           s1 == [s EXCEPT ![from].role = FALSE, ![from].cooling = @ \/ charged]
           left == <<Enter(cleared, "Probing"), s1>>
<1>1. NoPeer \notin Peer
  BY SyncConstants DEF NoPeer
<1>2. /\ cleared \in Track /\ cleared.claims = h.claims /\ cleared.staged = h.staged
      /\ cleared.verified = h.verified /\ cleared.sync = NoPeer
  BY DEF Good, TrackOK, Track
<1>3. TrackOK(cleared)
  BY <1>2, SameTrack DEF Good
<1>4. s1 \in [Peer -> Session] /\ \A q \in Peer : ~s1[q].role
  <2>1. s \in [Peer -> Session] /\ s[from] \in Session
    BY DEF Good, SessOK
  <2> DEFINE t == [s[from] EXCEPT !.role = FALSE]
             u == [t EXCEPT !.cooling = @ \/ charged]
  <2>2. t \in Session /\ t.role = FALSE
    BY <2>1 DEF Session
  <2>3. u \in Session /\ u.role = FALSE
    BY <2>2 DEF Session
  <2>4. s1 = [s EXCEPT ![from] = u]
    BY <2>1
  <2>5. \A q \in Peer : q # from => ~s[q].role
    BY DEF Good, Fits
  <2> HIDE DEF u, s1
  <2> QED
    BY <2>1, <2>3, <2>4, <2>5
<1>5. SessOK(s1) /\ Fits(cleared, s1)
  BY <1>1, <1>2, <1>4 DEF SessOK, Fits
<1>6. Good(cleared, s1) /\ "Probing" \in State
  BY <1>3, <1>5 DEF Good, State
<1>7. Keeps(h, left)
  <2> HIDE DEF cleared, s1
  <2>1. Good(Enter(cleared, "Probing"), s1) /\ Enter(cleared, "Probing").verified = cleared.verified
    BY <1>6, EnterKeeps
  <2> QED
    BY <2>1, <1>2 DEF Keeps
<1>8. r \in {left} \cup designate(cleared, s1, Ready(s) \ {from}, x, left)
  BY <1>1 DEF rotate
<1>9. Ready(s) \ {from} \subseteq Peer
  BY DEF Ready
<1>10. ASSUME r \in designate(cleared, s1, Ready(s) \ {from}, x, left)
       PROVE  Keeps(h, r)
  <2> DEFINE others == Ready(s) \ {from}
  <2>0. r \in designate(cleared, s1, others, x, left) /\ others \subseteq Peer
    BY <1>9, <1>10
  <2> HIDE DEF cleared, s1, left, others
  <2>2. TrackOK(cleared) /\ SessOK(s1)
    BY <1>3, <1>5
  <2>1. Keeps(cleared, r) \/ r = left
    BY <2>0, <2>2, DesignateGood
  <2> QED
    BY <2>1, <1>2, <1>7 DEF Keeps
<1> QED
  BY <1>7, <1>8, <1>10


\* A charge, and the verifier's bound on the clock.
LEMMA ChargeKeeps ==
    ASSUME NEW h, NEW s, Good(h, s)
    PROVE  /\ Good(Charge(h), s) /\ Charge(h).sync = h.sync /\ Charge(h).verified = h.verified
           /\ Good(Bound(h), s) /\ Bound(h).sync = h.sync /\ Bound(h).verified = h.verified
<1>1. /\ Charge(h) \in Track /\ Charge(h).sync = h.sync /\ Charge(h).claims = h.claims
      /\ Charge(h).staged = h.staged /\ Charge(h).verified = h.verified
  <2> DEFINE n == IF h.charged < Budget THEN h.charged + 1 ELSE h.charged
  <2>1. n \in Nat /\ h \in Track
    BY DEF Good, TrackOK, Track
  <2>2. Charge(h) = [h EXCEPT !.charged = n]
    BY <2>1 DEF Charge, Track
  <2> HIDE DEF n
  <2> QED
    BY <2>1, <2>2 DEF Track
<1>2. /\ Bound(h) \in Track /\ Bound(h).sync = h.sync /\ Bound(h).claims = h.claims
      /\ Bound(h).staged = h.staged /\ Bound(h).verified = h.verified
  <2>1. [h.clock EXCEPT !.bound = h.staged # <<>> \/ h.commitBound] \in Clock
    BY DEF Good, TrackOK, Track, Clock
  <2>2. Bound(h) = [h EXCEPT !.clock = [h.clock EXCEPT !.bound = h.staged # <<>> \/ h.commitBound]]
    BY DEF Bound, Good, TrackOK, Track
  <2> QED
    BY <2>1, <2>2 DEF Good, TrackOK, Track
<1> QED
  BY <1>1, <1>2, SamePair

\* A claim that was not made good loses an attempt, and with the last one its
\* height (note_unsubstantiated).
LEMMA UnsubstantiatedKeeps ==
    ASSUME NEW h, NEW s, Good(h, s), NEW p \in Peer
    PROVE  LET g == note_unsubstantiated(h, p)
           IN  Good(g, s) /\ g.sync = h.sync /\ g.verified = h.verified
<1> DEFINE c == h.claims[p]
           d == [c EXCEPT !.failures = @ + 1, !.demoted = c.failures + 1 >= ClaimAttempts]
           g == [h EXCEPT !.claims[p] = d]
<1>1. CASE ~c.known \/ c.demoted
  BY <1>1 DEF note_unsubstantiated
<1>2. CASE ~(~c.known \/ c.demoted)
  <2>1. c \in Claim /\ ClaimOK(c, h.verified) /\ ClaimAttempts \in Nat
    BY SyncConstants DEF Good, TrackOK, Track
  <2>2. d \in Claim /\ ClaimOK(d, h.verified)
    <3> DEFINE e == [c EXCEPT !.failures = c.failures + 1]
               last == c.failures + 1 >= ClaimAttempts
    <3>1. e \in Claim /\ e.failures = c.failures + 1 /\ e.proved = c.proved
      BY <2>1 DEF Claim
    <3>2. last \in BOOLEAN /\ d = [e EXCEPT !.demoted = last]
      BY <2>1 DEF Claim
    <3> HIDE DEF e, last
    <3>3. d \in Claim /\ d.failures = e.failures /\ d.proved = e.proved /\ (d.demoted <=> last)
      <4> HIDE DEF d
      <4> QED
        BY <3>1, <3>2 DEF Claim
    <3>4. c.failures < ClaimAttempts /\ c.failures \in Nat
      BY <1>2, <2>1 DEF Claim, ClaimOK
    <3> HIDE DEF d
    <3> QED
      BY <2>1, <3>1, <3>3, <3>4 DEF ClaimOK, last
  <2>3. note_unsubstantiated(h, p) = g
    BY <1>2 DEF note_unsubstantiated
  <2> HIDE DEF d
  <2>4. /\ g \in Track /\ g.sync = h.sync /\ g.staged = h.staged /\ g.verified = h.verified
        /\ g.claims = [h.claims EXCEPT ![p] = d]
    BY <2>2 DEF Good, TrackOK, Track
  <2>5. \A q \in Peer : ClaimOK(g.claims[q], g.verified)
    BY <2>2, <2>4 DEF Good, TrackOK, Track
  <2> QED
    BY <2>3, <2>4, <2>5 DEF Good, TrackOK, Fits
<1> QED
  BY <1>1, <1>2

\* Recovery begins.
LEMMA RecoveryKeeps ==
    ASSUME NEW h, NEW s, Good(h, s)
    PROVE  /\ Good(begin_recovery(h), s)
           /\ begin_recovery(h).sync = h.sync /\ begin_recovery(h).verified = h.verified
<1> DEFINE g == begin_recovery(h)
<1>1. /\ g \in Track /\ g.sync = h.sync /\ g.claims = h.claims
      /\ g.staged = h.staged /\ g.verified = h.verified
  BY DEF begin_recovery, Enter, Good, TrackOK, Track, State
<1> QED
  BY <1>1, SamePair

-----------------------------------------------------------------------------
(* One tick of the track, by state.                                        *)

\* tick_coldstart, tick_quarantined.
LEMMA IdleTick ==
    ASSUME NEW h, NEW s, Good(h, s), NEW x,
           NEW r \in tick_coldstart(h, s) \cup tick_quarantined(h, s, x)
    PROVE  Keeps(h, r)
BY EnterKeeps DEF tick_coldstart, tick_quarantined, Keeps, State

\* tick_probing.
LEMMA ProbingTick ==
    ASSUME NEW h, NEW s, Good(h, s), NEW x, NEW r \in tick_probing(h, s, x)
    PROVE  Keeps(h, r)
<1>1. PICK else : else = <<IF best_actionable_height(h, s) <= tip THEN Enter(h, "Tracking") ELSE h, s>>
  OBVIOUS
<1>2. Keeps(h, <<h, s>>) /\ Keeps(h, else)
  BY <1>1, EnterKeeps DEF Keeps, State
<1>3. Ready(s) \subseteq Peer /\ TrackOK(h) /\ SessOK(s)
  BY DEF Ready, Good
<1>4. r = <<h, s>> \/ r \in designate(h, s, Ready(s), x, else)
  BY <1>1 DEF tick_probing
<1>5. ASSUME r \in designate(h, s, Ready(s), x, else)
      PROVE  Keeps(h, r) \/ r = else
  <2>1. PICK all : all = Ready(s)
    OBVIOUS
  <2>2. r \in designate(h, s, all, x, else) /\ all \subseteq Peer /\ TrackOK(h) /\ SessOK(s)
    BY <1>3, <1>5, <2>1
  <2>3. (Keeps(h, r) /\ r[1].state = "HeaderSync") \/ (r = else /\ Eligible(h, s, all) = {})
    BY <2>2, DesignateGood, Zenon
  <2> QED
    BY <2>3
<1> QED
  BY <1>2, <1>4, <1>5

\* tick_headersync.
LEMMA HeaderTick ==
    ASSUME NEW h0, NEW s, Good(h0, s), NEW x, NEW r \in tick_headersync(h0, s, x)
    PROVE  Keeps(h0, r)
<1> DEFINE p == h0.sync
           h == Bound(h0)
           g == Charge(note_unsubstantiated(h, p))
<1>1. NoPeer \notin Peer /\ p \in Peer \cup {NoPeer}
  BY SyncConstants DEF NoPeer, Good, TrackOK, Track
<1>2. Good(h, s) /\ h.sync = p /\ h.verified = h0.verified
  BY ChargeKeeps
<1>3. Keeps(h0, <<Enter(h0, "Probing"), s>>)
  BY EnterKeeps DEF Keeps, State
<1>4. Keeps(h0, <<IF CaughtUp(h) THEN Enter(h, "Tracking") ELSE h, s>>)
  <2> HIDE DEF h
  <2> QED
    BY <1>2, EnterKeeps DEF Keeps, State
<1>5. ASSUME p \in Peer
      PROVE  Good(g, s) /\ g.sync = p /\ g.verified = h0.verified
  <2> DEFINE f == note_unsubstantiated(h, p)
  <2> HIDE DEF h
  <2>1. Good(f, s) /\ f.sync = p /\ f.verified = h0.verified
    BY <1>2, <1>5, UnsubstantiatedKeeps
  <2> HIDE DEF f
  <2>2. Good(Charge(f), s) /\ Charge(f).sync = p /\ Charge(f).verified = h0.verified
    BY <2>1, ChargeKeeps
  <2> QED
    BY <2>2 DEF f
<1>6. \/ r \in {<<Enter(h0, "Probing"), s>>, <<IF CaughtUp(h) THEN Enter(h, "Tracking") ELSE h, s>>}
      \/ p # NoPeer /\ r \in rotate(g, s, p, TRUE, x)
      \/ p # NoPeer /\ r \in rotate(h, s, p, FALSE, x)
  <2> HIDE DEF h
  <2> QED
    BY DEF tick_headersync, h
<1> HIDE DEF g, h
<1>7. ASSUME p \in Peer, r \in rotate(g, s, g.sync, TRUE, x)
      PROVE  Keeps(h0, r)
  <2>1. Good(g, s) /\ g.sync \in Peer /\ g.verified = h0.verified /\ TRUE \in BOOLEAN
    BY <1>5, <1>7
  <2>2. Keeps(g, r)
    BY <1>7, <2>1, RotateGood, Zenon
  <2> QED
    BY <2>1, <2>2 DEF Keeps
<1>8. ASSUME p \in Peer, r \in rotate(h, s, h.sync, FALSE, x)
      PROVE  Keeps(h0, r)
  <2>1. Good(h, s) /\ h.sync \in Peer /\ h.verified = h0.verified /\ FALSE \in BOOLEAN
    BY <1>2, <1>8
  <2>2. Keeps(h, r)
    BY <1>8, <2>1, RotateGood, Zenon
  <2> QED
    BY <2>1, <2>2 DEF Keeps
<1>9. CASE p # NoPeer /\ r \in rotate(g, s, p, TRUE, x)
  <2>1. p \in Peer
    BY <1>1, <1>9
  <2>2. g.sync = p
    BY <1>5, <2>1
  <2> QED
    BY <1>7, <1>9, <2>1, <2>2, Zenon
<1>10. CASE p # NoPeer /\ r \in rotate(h, s, p, FALSE, x)
  BY <1>1, <1>2, <1>8, <1>10, Zenon
<1> QED
  BY <1>3, <1>4, <1>6, <1>9, <1>10


\* A designation offered to every connected peer, with its fallback.
LEMMA DesignateAll ==
    ASSUME NEW h, NEW s, Good(h, s), NEW x, NEW else,
           NEW r \in designate(h, s, Ready(s), x, else)
    PROVE  \/ Keeps(h, r) /\ r[1].state = "HeaderSync"
           \/ r = else /\ Eligible(h, s, Ready(s)) = {}
<1>1. PICK all : all = Ready(s)
  OBVIOUS
<1>2. r \in designate(h, s, all, x, else) /\ all \subseteq Peer /\ TrackOK(h) /\ SessOK(s)
  BY <1>1 DEF Good, Ready
<1>3. (Keeps(h, r) /\ r[1].state = "HeaderSync") \/ (r = else /\ Eligible(h, s, all) = {})
  BY <1>2, DesignateGood, Zenon
<1> QED
  BY <1>1, <1>3

\* The audit: found behind, the node has somebody to follow, so the count of
\* audits without a peer stays at zero (tick_tracking).
LEMMA AuditKeeps ==
    ASSUME NEW h, NEW s, Good(h, s), tip \in Nat, NEW x, NEW r \in Audit(h, s, x)
    PROVE  Keeps(h, r)
<1> DEFINE calm == <<[h EXCEPT !.flat = 0], s>>
           flat0(q) == <<IF q[1].state = "HeaderSync" THEN [q[1] EXCEPT !.flat = 0] ELSE q[1], q[2]>>
<1>1. Keeps(h, <<h, s>>)
  BY DEF Keeps
<1>2. Keeps(h, calm)
  <2>1. [h EXCEPT !.flat = 0] = h
    BY DEF Good, TrackOK, Track
  <2> QED
    BY <1>1, <2>1
<1>3. Keeps(h, <<begin_recovery(h), s>>)
  BY RecoveryKeeps DEF Keeps
<1>4. PICK else : else = Stranded(h, s)
  OBVIOUS
<1>5. \/ r \in designate(h, s, Ready(s), x, <<h, s>>)
      \/ r \in {calm, <<begin_recovery(h), s>>}
      \/ /\ best_actionable_height(h, s) > tip
         /\ r \in {flat0(q) : q \in designate(h, s, Ready(s), x, else)}
  BY <1>4 DEF Audit
<1>6. ASSUME r \in designate(h, s, Ready(s), x, <<h, s>>)
      PROVE  Keeps(h, r)
  <2>1. PICK same : same = <<h, s>>
    OBVIOUS
  <2>2. r \in designate(h, s, Ready(s), x, same)
    BY <1>6, <2>1
  <2>3. (Keeps(h, r) /\ r[1].state = "HeaderSync") \/ (r = same /\ Eligible(h, s, Ready(s)) = {})
    BY <2>2, DesignateAll, Zenon
  <2> QED
    BY <1>1, <2>1, <2>3
<1>7. ASSUME best_actionable_height(h, s) > tip,
             NEW q \in designate(h, s, Ready(s), x, else), r = flat0(q)
      PROVE  Keeps(h, r)
  <2>1. Eligible(h, s, Ready(s)) # {}
    BY <1>7, BehindHasPeer DEF Good
  <2>2. Keeps(h, q)
    BY <2>1, DesignateAll, Zenon
  <2>3. [q[1] EXCEPT !.flat = 0] = q[1]
    BY <2>2 DEF Keeps, Good, TrackOK, Track
  <2> QED
    BY <1>7, <2>2, <2>3 DEF Keeps
<1> QED
  BY <1>2, <1>3, <1>5, <1>6, <1>7

\* tick_tracking.
LEMMA TrackingTick ==
    ASSUME NEW h, NEW s, Good(h, s), tip \in Nat, NEW x, NEW r \in tick_tracking(h, s, x)
    PROVE  Keeps(h, r)
<1>1. PICK same : same = <<h, s>>
  OBVIOUS
<1>2. Keeps(h, same)
  BY <1>1 DEF Keeps
<1>3. \/ r \in designate(h, s, Ready(s), x, same)
      \/ r \in Audit(h, s, x)
      \/ r = same
  BY <1>1 DEF tick_tracking
<1>4. ASSUME r \in designate(h, s, Ready(s), x, same)
      PROVE  Keeps(h, r)
  <2>1. (Keeps(h, r) /\ r[1].state = "HeaderSync") \/ (r = same /\ Eligible(h, s, Ready(s)) = {})
    BY <1>4, DesignateAll, Zenon
  <2> QED
    BY <1>2, <2>1
<1>5. ASSUME r \in Audit(h, s, x)
      PROVE  Keeps(h, r)
  BY <1>5, AuditKeeps
<1> QED
  BY <1>2, <1>3, <1>4, <1>5

\* tick_deep.
LEMMA DeepTick ==
    ASSUME NEW h, NEW s, Good(h, s), NEW x, NEW r \in tick_deep(h, s, x)
    PROVE  Keeps(h, r)
<1> DEFINE given == [Enter(h, "Probing") EXCEPT !.episode = FALSE, !.asked = {}]
<1>1. Keeps(h, <<h, s>>) /\ Keeps(h, <<Enter(h, "Probing"), s>>)
  BY EnterKeeps DEF Keeps, State
<1>2. Keeps(h, <<given, s>>)
  <2>1. /\ given \in Track /\ given.sync = h.sync /\ given.claims = h.claims
        /\ given.staged = h.staged /\ given.verified = h.verified
    BY DEF Enter, Good, TrackOK, Track, State
  <2> HIDE DEF given
  <2> QED
    BY <2>1, SamePair DEF Keeps
<1>3. ASSUME NEW p \in peer_furthest_ahead(h, h.asked)
      PROVE  Keeps(h, <<[h EXCEPT !.asked = @ \cup {p}], s>>)
  <2> DEFINE g == [h EXCEPT !.asked = @ \cup {p}]
  <2>1. p \in Peer
    BY DEF peer_furthest_ahead
  <2>2. /\ g \in Track /\ g.sync = h.sync /\ g.claims = h.claims
        /\ g.staged = h.staged /\ g.verified = h.verified
    BY <2>1 DEF Good, TrackOK, Track
  <2> HIDE DEF g
  <2>3. Good(g, s) /\ g.verified = h.verified
    BY <2>2, SamePair
  <2>4. Keeps(h, <<g, s>>)
    BY <2>3 DEF Keeps
  <2> QED
    BY <2>4 DEF g
<1>4. \/ r \in {<<h, s>>, <<Enter(h, "Probing"), s>>, <<given, s>>}
      \/ r \in {<<[h EXCEPT !.asked = @ \cup {p}], s>> : p \in peer_furthest_ahead(h, h.asked)}
  BY DEF tick_deep
<1> QED
  BY <1>1, <1>2, <1>3, <1>4

\* One tick of the track (HeaderTrack::tick).
LEMMA TrackTick ==
    ASSUME NEW h0, NEW s, Good(h0, s), tip \in Nat, NEW x, NEW r \in track_tick(h0, s, x)
    PROVE  Keeps(h0, r)
<1>1. PICK h : h = IF Ready(s) = {} /\ h0.state # "ColdStart"
                   THEN [Enter(h0, "ColdStart") EXCEPT !.sync = NoPeer] ELSE h0
  OBVIOUS
<1>2. Good(h, s) /\ h.verified = h0.verified
  <2>1. CASE h = h0
    BY <2>1
  <2>2. CASE Ready(s) = {} /\ h = [Enter(h0, "ColdStart") EXCEPT !.sync = NoPeer]
    <3>1. /\ h \in Track /\ h.sync = NoPeer /\ h.claims = h0.claims
          /\ h.staged = h0.staged /\ h.verified = h0.verified
      BY <2>2 DEF Enter, Good, TrackOK, Track, State
    <3>2. \A p \in Peer : ~s[p].role /\ p # NoPeer
      BY <2>2, SyncConstants DEF Ready, Good, SessOK, NoPeer
    <3> QED
      BY <3>1, <3>2, SameTrack DEF Good, Fits
  <2> QED
    BY <1>1, <2>1, <2>2
<1>3. \/ r \in tick_coldstart(h, s) \cup tick_quarantined(h, s, x)
      \/ r \in tick_probing(h, s, x) \/ r \in tick_headersync(h, s, x)
      \/ r \in tick_tracking(h, s, x) \/ r \in tick_deep(h, s, x)
  <2>1. h.state \in State
    BY <1>2 DEF Good, TrackOK, Track
  <2>2. r \in CASE h.state = "ColdStart" -> tick_coldstart(h, s)
         [] h.state = "Probing" -> tick_probing(h, s, x)
         [] h.state = "HeaderSync" -> tick_headersync(h, s, x)
         [] h.state = "Tracking" -> tick_tracking(h, s, x)
         [] h.state = "DeepRecovery" -> tick_deep(h, s, x)
         [] h.state = "Quarantined" -> tick_quarantined(h, s, x)
    BY <1>1 DEF track_tick
  <2> QED
    BY <2>1, <2>2 DEF State
<1>4. Keeps(h, r)
  BY <1>2, <1>3, IdleTick, ProbingTick, HeaderTick, TrackingTick, DeepTick
<1> QED
  BY <1>2, <1>4 DEF Keeps


-----------------------------------------------------------------------------
(* Verification, and what apply does to a peer.                            *)

\* request_more only asks.
LEMMA RequestKeeps ==
    ASSUME NEW h, NEW s, Good(h, s)
    PROVE  Good(request_more(h), s) /\ request_more(h).verified = h.verified
<1> DEFINE g == [h EXCEPT !.locate = TRUE]
<1>1. /\ g \in Track /\ g.sync = h.sync /\ g.claims = h.claims
      /\ g.staged = h.staged /\ g.verified = h.verified
  BY DEF Good, TrackOK, Track
<1>2. request_more(h) \in {h, g}
  BY DEF request_more
<1> HIDE DEF g
<1>3. Good(g, s)
  BY <1>1, SamePair
<1> QED
  BY <1>1, <1>2, <1>3

\* The suspension of the clock while the sink is full (set_sink_blocked).
LEMMA SinkKeeps ==
    ASSUME NEW h, NEW s, Good(h, s), NEW blocked \in BOOLEAN
    PROVE  Good(set_sink_blocked(h, blocked), s) /\ set_sink_blocked(h, blocked).verified = h.verified
<1> DEFINE b == [h EXCEPT !.commitBound = blocked]
<1>1. /\ b \in Track /\ b.sync = h.sync /\ b.claims = h.claims
      /\ b.staged = h.staged /\ b.verified = h.verified
  BY DEF Good, TrackOK, Track
<1> HIDE DEF b
<1>2. Good(b, s)
  BY <1>1, SamePair
<1>3. ASSUME NEW on \in BOOLEAN
      PROVE  Good(Suspend(b, on), s) /\ Suspend(b, on).verified = h.verified
  <2> DEFINE c == [b.clock EXCEPT !.suspended = on]
             g == [b EXCEPT !.clock = c, !.sinkHeld = on]
  <2>1. c \in Clock
    BY <1>1 DEF Track, Clock
  <2>2. Suspend(b, on) = g
    BY <1>1 DEF Suspend, Track
  <2> HIDE DEF c
  <2>3. /\ g \in Track /\ g.sync = h.sync /\ g.claims = h.claims
        /\ g.staged = h.staged /\ g.verified = h.verified
    BY <1>1, <2>1 DEF Track
  <2> HIDE DEF g
  <2>4. Good(g, s)
    BY <1>1, <1>2, <2>3, SamePair
  <2> QED
    BY <2>2, <2>3, <2>4
<1>4. set_sink_blocked(h, blocked) \in {b, Suspend(b, TRUE), Suspend(b, FALSE)}
  BY DEF set_sink_blocked, b
<1> QED
  BY <1>1, <1>2, <1>3, <1>4

\* Headers verified that a peer sent prove its claim up to the last of them
\* (note_substantiated).
LEMMA SubstantiatedClaim ==
    ASSUME NEW h, TrackOK(h), NEW p \in Peer, NEW n \in 0..h.verified
    PROVE  /\ note_substantiated(h, p, n).claims[p] \in Claim
           /\ ClaimOK(note_substantiated(h, p, n).claims[p], h.verified)
<1> DEFINE c == h.claims[p]
           m == Highest({c.proved, n})
           d == [c EXCEPT !.proved = m, !.failures = 0]
<1>1. c \in Claim /\ ClaimOK(c, h.verified) /\ h.verified \in Nat
  BY DEF TrackOK, Track
<1>2. m \in {c.proved, n} /\ m \in Nat /\ m <= h.verified
  <2>1. {c.proved, n} \subseteq 0..h.verified
    BY <1>1 DEF Claim, ClaimOK
  <2> QED
    BY <1>1, <2>1, HighestIs
<1>3. CASE ~c.known
  BY <1>1, <1>3 DEF note_substantiated
<1>4. CASE c.known
  <2>1. note_substantiated(h, p, n).claims[p] = d
    <3> DEFINE g == [h EXCEPT !.claims[p] = d]
    <3>1. note_substantiated(h, p, n) = g
      BY <1>4 DEF note_substantiated
    <3> HIDE DEF d
    <3>2. g.claims[p] = d
      BY DEF TrackOK, Track
    <3> QED
      BY <3>1, <3>2
  <2> HIDE DEF m
  <2>2. d \in Claim /\ d.proved = m /\ d.failures = 0
    BY <1>1, <1>2 DEF Claim
  <2> HIDE DEF d
  <2> QED
    BY <1>2, <2>1, <2>2, SyncConstants DEF ClaimOK
<1> QED
  BY <1>3, <1>4

\* The first k staged headers leave the staging for the chain (commit_front).
LEMMA CommittedKeeps ==
    ASSUME NEW h, NEW s, Good(h, s), NEW k \in 0..Len(h.staged)
    PROVE  Good(Committed(h, k), s) /\ Committed(h, k).verified = h.verified + k
<1> DEFINE rest == SubSeq(h.staged, k + 1, Len(h.staged))
           clock == [h.clock EXCEPT !.refused = @ /\ k = 0]
           h1 == [h EXCEPT !.staged = rest, !.verified = @ + k, !.locate = @ /\ k = 0,
                           !.clock = clock]
           credited(p) == {h.verified + i : i \in {j \in 1..k : h.staged[j].from = p}}
           claim(p) == IF credited(p) = {} THEN h1.claims[p]
                       ELSE note_substantiated(h1, p, Highest(credited(p))).claims[p]
           g == [h1 EXCEPT !.claims = [p \in Peer |-> claim(p)]]
<1>1. /\ h \in Track /\ h.staged \in Seq(Staged) /\ Len(h.staged) \in Nat
      /\ Len(h.staged) <= StageMax /\ h.verified + Len(h.staged) <= Target
      /\ h.verified \in Nat /\ Target \in Nat /\ StageMax \in Nat
  BY SyncConstants DEF Good, TrackOK, Track
<1>2. rest \in Seq(Staged) /\ Len(rest) = Len(h.staged) - k
  BY <1>1
<1>3. clock \in Clock
  BY <1>1 DEF Track, Clock
<1>4. /\ h1 \in Track /\ h1.sync = h.sync /\ h1.claims = h.claims
      /\ h1.staged = rest /\ h1.verified = h.verified + k
  <2>1. h.verified + k \in 0..Target /\ (h.locate /\ k = 0) \in BOOLEAN
    BY <1>1
  <2> HIDE DEF rest, clock
  <2> QED
    BY <1>1, <1>2, <1>3, <2>1 DEF Track
<1>5. Committed(h, k) = g
  <2>1. h1 = [h EXCEPT !.staged = SubSeq(@, k + 1, Len(@)), !.verified = @ + k,
                       !.locate = @ /\ k = 0, !.clock.refused = @ /\ k = 0]
    BY <1>1 DEF Track
  <2> QED
    BY <2>1 DEF Committed
<1> HIDE DEF h1
<1>6. TrackOK(h1)
  <2>1. \A p \in Peer : ClaimOK(h.claims[p], h.verified) /\ h.claims[p] \in Claim
    BY DEF Good, TrackOK, Track
  <2>2. \A p \in Peer : ClaimOK(h1.claims[p], h1.verified)
    BY <1>1, <1>4, <2>1, SMTT(30) DEF ClaimOK, Claim
  <2> QED
    BY <1>1, <1>2, <1>4, <2>2 DEF TrackOK
<1>7. ASSUME NEW p \in Peer
      PROVE  claim(p) \in Claim /\ ClaimOK(claim(p), h1.verified)
  <2>1. CASE credited(p) = {}
    BY <1>6, <2>1 DEF TrackOK, Track
  <2>2. CASE credited(p) # {}
    <3>1. credited(p) \subseteq 0..h1.verified
      BY <1>1, <1>4
    <3>2. Highest(credited(p)) \in 0..h1.verified
      <4> HIDE DEF credited
      <4> QED
        BY <1>1, <1>4, <2>2, <3>1, HighestIs, SMTT(30)
    <3> QED
      BY <1>6, <2>2, <3>2, SubstantiatedClaim
  <2> QED
    BY <2>1, <2>2
<1> HIDE DEF claim
<1>8. [p \in Peer |-> claim(p)] \in [Peer -> Claim]
  BY <1>7
<1>9. /\ g \in Track /\ g.sync = h.sync /\ g.claims = [p \in Peer |-> claim(p)]
      /\ g.staged = rest /\ g.verified = h.verified + k
  BY <1>4, <1>8 DEF Track
<1>10. \A p \in Peer : ClaimOK(g.claims[p], g.verified)
  BY <1>4, <1>7, <1>9
<1> HIDE DEF g
<1>11. TrackOK(g)
  BY <1>1, <1>2, <1>9, <1>10 DEF TrackOK
<1> QED
  BY <1>5, <1>9, <1>11 DEF Good, Fits

\* What the verifier stops at is dropped with everything behind it.
LEMMA TruncatedKeeps ==
    ASSUME NEW h, NEW s, Good(h, s)
    PROVE  /\ Good(Truncated(h, 1), s) /\ Truncated(h, 1).verified = h.verified
           /\ Good([Truncated(h, 1) EXCEPT !.clock.refused = TRUE], s)
           /\ [Truncated(h, 1) EXCEPT !.clock.refused = TRUE].verified = h.verified
<1> DEFINE g == [h EXCEPT !.staged = SubSeq(h.staged, 1, 0)]
           c == [g.clock EXCEPT !.refused = TRUE]
           f == [g EXCEPT !.clock = c]
<1>1. SubSeq(h.staged, 1, 0) \in Seq(Staged) /\ Len(SubSeq(h.staged, 1, 0)) = 0
  BY DEF Good, TrackOK, Track
<1>2. Truncated(h, 1) = g
  BY DEF Truncated, Good, TrackOK, Track
<1>3. /\ g \in Track /\ g.sync = h.sync /\ g.claims = h.claims
      /\ Len(g.staged) = 0 /\ g.verified = h.verified
  BY <1>1 DEF Good, TrackOK, Track
<1> HIDE DEF g
<1>4. Good(g, s)
  BY <1>3, SyncConstants, SMTT(30) DEF Good, TrackOK, Track, Fits
<1>5. c \in Clock
  BY <1>3 DEF Track, Clock
<1>6. f = [g EXCEPT !.clock.refused = TRUE]
  BY <1>3 DEF Track
<1> HIDE DEF c
<1>7. /\ f \in Track /\ f.sync = g.sync /\ f.claims = g.claims
      /\ f.staged = g.staged /\ f.verified = g.verified
  BY <1>3, <1>5 DEF Track
<1> HIDE DEF f
<1>8. Good(f, s)
  BY <1>4, <1>7, SamePair
<1> QED
  BY <1>2, <1>3, <1>4, <1>6, <1>7, <1>8


\* A claim that grows is believed, and a demoted one starts over (note_claim).
LEMMA ClaimKeeps ==
    ASSUME NEW h, NEW s, Good(h, s), NEW p \in Peer, NEW n \in 0..ClaimMax,
           NEW rearmed \in BOOLEAN
    PROVE  /\ Good(note_claim(h, p, n, rearmed), s)
           /\ note_claim(h, p, n, rearmed).sync = h.sync
           /\ note_claim(h, p, n, rearmed).staged = h.staged
           /\ note_claim(h, p, n, rearmed).verified = h.verified
<1> DEFINE c == h.claims[p]
           attempts == IF c.demoted THEN 0 ELSE c.failures
           b == [c EXCEPT !.known = TRUE, !.height = n]
           d == [b EXCEPT !.demoted = FALSE, !.failures = attempts]
           g == [h EXCEPT !.claims[p] = d]
<1>1. c \in Claim /\ ClaimOK(c, h.verified) /\ ClaimAttempts \in Nat \ {0}
  BY SyncConstants DEF Good, TrackOK, Track
<1>2. attempts \in Nat /\ attempts < ClaimAttempts
  BY <1>1 DEF Claim, ClaimOK
<1>3. note_claim(h, p, n, rearmed) \in {h, g}
  <2>1. d = [c EXCEPT !.known = TRUE, !.height = n, !.demoted = FALSE,
                      !.failures = IF c.demoted THEN 0 ELSE @]
    BY <1>1 DEF Claim
  <2> HIDE DEF d
  <2> QED
    BY <2>1 DEF note_claim
<1> HIDE DEF attempts
<1>4. b \in Claim /\ b.proved = c.proved
  BY <1>1 DEF Claim
<1> HIDE DEF b
<1>5. d \in Claim /\ d.proved = c.proved /\ d.failures = attempts /\ ~d.demoted
  BY <1>2, <1>4 DEF Claim
<1> HIDE DEF d
<1>6. ClaimOK(d, h.verified)
  BY <1>1, <1>2, <1>5 DEF ClaimOK
<1>7. /\ g \in Track /\ g.sync = h.sync /\ g.staged = h.staged /\ g.verified = h.verified
      /\ g.claims = [h.claims EXCEPT ![p] = d]
  BY <1>5 DEF Good, TrackOK, Track
<1>8. \A q \in Peer : ClaimOK(g.claims[q], g.verified)
  BY <1>6, <1>7 DEF Good, TrackOK, Track
<1> HIDE DEF g
<1> QED
  BY <1>3, <1>7, <1>8 DEF Good, TrackOK, Fits

\* The sessions of peers whose headers were verified show a rate.
LEMMA CreditedKeeps ==
    ASSUME NEW h, NEW s, NEW g, Good(g, s), NEW k
    PROVE  Good(g, Credited(h, s, k))
<1> DEFINE t == Credited(h, s, k)
           u(p) == IF s[p].up /\ \E j \in 1..k : h.staged[j].from = p
                   THEN [s[p] EXCEPT !.rate = 1] ELSE s[p]
<1>1. ASSUME NEW p \in Peer
      PROVE  u(p) \in Session /\ u(p).role = s[p].role /\ u(p).up = s[p].up
  <2>1. s[p] \in Session
    BY DEF Good, SessOK
  <2>2. /\ [s[p] EXCEPT !.rate = 1] \in Session
        /\ [s[p] EXCEPT !.rate = 1].role = s[p].role /\ [s[p] EXCEPT !.rate = 1].up = s[p].up
    BY <2>1 DEF Session
  <2> QED
    BY <2>1, <2>2
<1>2. t = [p \in Peer |-> u(p)]
  BY DEF Credited
<1> HIDE DEF u, t
<1>3. t \in [Peer -> Session] /\ \A p \in Peer : t[p].role = s[p].role /\ t[p].up = s[p].up
  BY <1>1, <1>2
<1> QED
  BY <1>3 DEF Good, SessOK, Fits, t

\* A verification pass, however it ends (verify_pass).
LEMMA VerifyKeeps ==
    ASSUME NEW h, NEW s, Good(h, s), NEW k \in 0..Len(h.staged), NEW end
    PROVE  LET v == verify_pass(h, s, k, end)
           IN  Good(v[1], v[2]) /\ v[1].verified = h.verified + k
<1> DEFINE h1 == Committed(h, k)
           h2 == CASE end = "invalid" -> [Truncated(h1, 1) EXCEPT !.clock.refused = TRUE]
                   [] end = "bad" -> Truncated(h1, 1)
                   [] OTHER -> h1
           full == end = "full"
<1>1. Good(h1, s) /\ h1.verified = h.verified + k
  BY CommittedKeeps
<1>2. Good(h2, s) /\ h2.verified = h.verified + k
  <2> HIDE DEF h1
  <2> QED
    BY <1>1, TruncatedKeeps
<1>3. verify_pass(h, s, k, end) = <<set_sink_blocked(h2, full), Credited(h, s, k)>>
  BY DEF verify_pass
<1>4. full \in BOOLEAN
  OBVIOUS
<1> HIDE DEF h1, h2, full
<1>5. Good(set_sink_blocked(h2, full), s) /\ set_sink_blocked(h2, full).verified = h.verified + k
  BY <1>2, <1>4, SinkKeeps
<1>6. Good(set_sink_blocked(h2, full), Credited(h, s, k))
  BY <1>5, CreditedKeeps
<1> QED
  BY <1>3, <1>5, <1>6

\* Peers that are banned or cut off lose their claim, their session and the
\* designation together (apply).
LEMMA BannedKeeps ==
    ASSUME NEW h, NEW s, Good(h, s), NEW P
    PROVE  LET r == Banned(<<h, s>>, P)
           IN  Good(r[1], r[2]) /\ r[1].verified = h.verified
<1> DEFINE claims == [p \in Peer |-> IF p \in P THEN Nobody ELSE h.claims[p]]
           sync == IF h.sync \in P THEN NoPeer ELSE h.sync
           g == [h EXCEPT !.claims = claims, !.sync = sync]
           t == [p \in Peer |-> IF p \in P THEN Gone ELSE s[p]]
<1>1. Banned(<<h, s>>, P) = <<g, t>>
  BY DEF Banned
<1>2. Nobody \in Claim /\ ClaimOK(Nobody, h.verified) /\ Gone \in Session /\ ~Gone.role
  BY SyncConstants DEF Nobody, Claim, ClaimOK, Gone, Session, Good, TrackOK, Track
<1>3. claims \in [Peer -> Claim] /\ \A p \in Peer : ClaimOK(claims[p], h.verified)
  <2> HIDE DEF Nobody
  <2> QED
    BY <1>2 DEF Good, TrackOK, Track
<1>4. sync \in Peer \cup {NoPeer}
  BY DEF Good, TrackOK, Track
<1> HIDE DEF claims
<1>5. /\ g \in Track /\ g.sync = sync /\ g.claims = claims
      /\ g.staged = h.staged /\ g.verified = h.verified
  <2> HIDE DEF sync
  <2> QED
    BY <1>3, <1>4 DEF Good, TrackOK, Track
<1>6. t \in [Peer -> Session] /\ \A p \in Peer : t[p] = IF p \in P THEN Gone ELSE s[p]
  BY <1>2 DEF Good, SessOK
<1> HIDE DEF g, t
<1>7. TrackOK(g)
  BY <1>3, <1>5 DEF Good, TrackOK
<1>8. SessOK(t)
  BY <1>2, <1>6 DEF Good, SessOK
<1>9. Fits(g, t)
  <2>1. NoPeer \notin Peer
    BY SyncConstants DEF NoPeer
  <2>2. \A p \in Peer : t[p].role <=> (p \notin P /\ s[p].role)
    BY <1>2, <1>6
  <2>3. \A p \in Peer : (g.sync = p) <=> (p \notin P /\ h.sync = p)
    BY <1>5, <2>1
  <2> QED
    BY <2>2, <2>3 DEF Good, Fits
<1> QED
  BY <1>1, <1>5, <1>7, <1>8, <1>9 DEF Good


-----------------------------------------------------------------------------
(* The steps.                                                              *)

LEMMA InitSync == SyncInit => SyncInv
<1> SUFFICES ASSUME SyncInit PROVE SyncInv
  OBVIOUS
<1>1. NoPeer \notin Peer /\ Target \in Nat /\ StageMax \in Nat /\ ClaimAttempts \in Nat \ {0}
  BY SyncConstants DEF NoPeer
<1>2. NewClock \in Clock /\ Nobody \in Claim /\ ClaimOK(Nobody, 0)
  BY <1>1, SyncConstants DEF NewClock, Clock, Nobody, Claim, ClaimOK
<1>3. /\ ht \in Track /\ ht.sync = NoPeer /\ ht.staged = <<>> /\ ht.verified = 0
      /\ ht.claims = [p \in Peer |-> Nobody]
  <2> HIDE DEF NewClock, Nobody
  <2>1. <<>> \in Seq(Staged)
    OBVIOUS
  <2> QED
    BY <1>1, <1>2, <2>1 DEF SyncInit, HeaderTrack_new, Track, State
<1>4. TrackOK(ht)
  BY <1>1, <1>2, <1>3 DEF TrackOK
<1>5. Gone \in Session /\ ~Gone.role
  BY DEF Gone, Session
<1>6. SessOK(sess) /\ Fits(ht, sess)
  BY <1>1, <1>3, <1>5 DEF SyncInit, SessOK, Fits
<1> QED
  BY <1>3, <1>4, <1>6 DEF SyncInv, Good, SyncInit

\* A tick: verification, one state of the track, a request, a ban
\* (SyncEngine::on_tick).
LEMMA TickSync ==
    ASSUME SyncInv, on_tick
    PROVE  SyncInv'
<1>1. PICK k, end, x : k \in Passes(ht) /\ TickWith(k, end, x)
  BY DEF on_tick
<1>2. k \in 0..Len(ht.staged)
  BY <1>1 DEF Passes
<1>3. PICK h, s : h = ht /\ s = sess
  OBVIOUS
<1>4. Good(h, s) /\ tip \in 0..h.verified /\ h.verified \in Nat /\ k \in 0..Len(h.staged)
  BY <1>2, <1>3 DEF SyncInv, Good, TrackOK, Track
<1>5. PICK v : v = verify_pass(h, s, k, end)
  OBVIOUS
<1>6. Good(v[1], v[2]) /\ v[1].verified = h.verified + k
  BY <1>4, <1>5, VerifyKeeps
<1>7b. PICK bad : bad = IF end = "bad" THEN {ht.staged[k + 1].from} ELSE {}
  OBVIOUS
<1>7. PICK r \in track_tick(v[1], v[2], x) :
          /\ ht' = Banned(<<request_more(r[1]), r[2]>>, bad)[1]
          /\ sess' = Banned(<<request_more(r[1]), r[2]>>, bad)[2]
          /\ tip' = tip
  BY <1>1, <1>3, <1>5, <1>7b DEF TickWith
<1>8. Good(r[1], r[2]) /\ r[1].verified = h.verified + k
  <2>1. PICK h1, s1 : h1 = v[1] /\ s1 = v[2]
    OBVIOUS
  <2>2. Good(h1, s1) /\ tip \in Nat /\ r \in track_tick(h1, s1, x)
    BY <1>4, <1>6, <1>7, <2>1
  <2>3. Keeps(h1, r)
    BY <2>2, TrackTick
  <2> QED
    BY <1>6, <2>1, <2>3 DEF Keeps
<1>9. PICK g, t : g = request_more(r[1]) /\ t = r[2]
  OBVIOUS
<1>10. Good(g, t) /\ g.verified = h.verified + k
  BY <1>8, <1>9, RequestKeeps
<1>11. Good(ht', sess') /\ ht'.verified = h.verified + k
  BY <1>7, <1>9, <1>10, BannedKeeps
<1> QED
  BY <1>4, <1>7, <1>11 DEF SyncInv

\* A peer comes.
LEMMA ReadySync ==
    ASSUME SyncInv, NEW p \in Peer, NEW n, PeerReady(p, n)
    PROVE  SyncInv'
<1>1. n \in 0..ClaimMax
  BY SyncConstants DEF PeerReady
<1>2. PICK rearmed \in BOOLEAN : ht' = note_claim(ht, p, n, rearmed)
  <2>1. ht.claims[p].demoted \in BOOLEAN
    BY DEF SyncInv, Good, TrackOK, Track, Claim
  <2> QED
    BY <2>1 DEF PeerReady
<1>3. PICK h, s : h = ht /\ s = sess
  OBVIOUS
<1>4. Good(h, s)
  BY <1>3 DEF SyncInv
<1>5. PICK g : g = note_claim(h, p, n, rearmed)
  OBVIOUS
<1>6. Good(g, s) /\ g.verified = h.verified
  BY <1>1, <1>4, <1>5, ClaimKeeps
<1>7. Session_ready \in Session /\ ~Session_ready.role /\ Session_ready.up
  BY DEF Session_ready, Gone, Session
<1>8. sess' = [s EXCEPT ![p] = Session_ready] /\ ~s[p].up /\ ht' = g /\ tip' = tip
  BY <1>2, <1>3, <1>5 DEF PeerReady
<1>9. SessOK(sess') /\ Fits(g, sess')
  <2>1. ~s[p].role
    BY <1>4, <1>8 DEF Good, SessOK
  <2> HIDE DEF Session_ready
  <2> QED
    BY <1>6, <1>7, <1>8, <2>1 DEF Good, SessOK, Fits
<1> QED
  BY <1>3, <1>6, <1>8, <1>9 DEF SyncInv, Good

\* A peer goes (forget).
LEMMA GoneSync ==
    ASSUME SyncInv, NEW p \in Peer, PeerGone(p)
    PROVE  SyncInv'
<1>1. PICK h, s, r : h = ht /\ s = sess /\ r = Banned(<<h, s>>, {p})
  OBVIOUS
<1>2. Good(h, s)
  BY <1>1 DEF SyncInv
<1>3. Good(r[1], r[2]) /\ r[1].verified = h.verified
  BY <1>1, <1>2, BannedKeeps
<1>4. s = [q \in Peer |-> s[q]] /\ h.claims = [q \in Peer |-> h.claims[q]] /\ h \in Track
  BY <1>2 DEF Good, SessOK, TrackOK, Track
<1>5. [h.claims EXCEPT ![p] = Nobody] = [q \in Peer |-> IF q \in {p} THEN Nobody ELSE h.claims[q]]
  <2> HIDE DEF Nobody
  <2> QED
    BY <1>4
<1>6. forget(h, p) = r[1]
  <2> HIDE DEF Nobody
  <2>1. forget(h, p) = [h EXCEPT !.claims = [h.claims EXCEPT ![p] = Nobody],
                                 !.sync = IF h.sync = p THEN NoPeer ELSE h.sync]
    BY <1>4 DEF forget, Track
  <2> QED
    BY <1>1, <1>5, <2>1, ZenonT(40) DEF Banned
<1>7. [s EXCEPT ![p] = Gone] = r[2]
  <2> HIDE DEF Gone
  <2> QED
    BY <1>1, <1>4 DEF Banned
<1>8. ht' = r[1] /\ sess' = r[2] /\ tip' = tip
  BY <1>1, <1>6, <1>7 DEF PeerGone
<1> QED
  BY <1>1, <1>3, <1>8 DEF SyncInv

\* A batch of the designated peer is staged (on_headers).
LEMMA HeadersSync ==
    ASSUME SyncInv, NEW p \in Peer, NEW n \in Nat, NEW good \in BOOLEAN, on_headers(p, n, good)
    PROVE  SyncInv'
<1>1. PICK h0, s : h0 = ht /\ s = sess
  OBVIOUS
<1>2. Good(h0, s)
  BY <1>1 DEF SyncInv
<1>3. /\ h0.verified \in Nat /\ h0.staged \in Seq(Staged) /\ Len(h0.staged) \in Nat
      /\ h0.claims[p].demoted \in BOOLEAN
      /\ StageMax \in Nat /\ Target \in Nat /\ ClaimMax \in Nat /\ ClaimMax >= Target
  <2>1. h0 \in Track /\ h0.claims[p] \in Claim
    BY <1>2 DEF Good, TrackOK, Track
  <2>2. h0.claims[p].demoted \in BOOLEAN
    BY <2>1 DEF Claim
  <2>3. h0.verified \in Nat /\ h0.staged \in Seq(Staged) /\ Len(h0.staged) \in Nat
    BY <2>1 DEF Track
  <2> QED
    BY <2>2, <2>3, SyncConstants
<1>4. n \in 0..(StageMax - Len(h0.staged)) /\ h0.verified + Len(h0.staged) + n <= Target
  BY <1>1 DEF on_headers, StagedTip
<1>5b. PICK rearmed \in {TRUE, ~h0.claims[p].demoted} :
          LET h == IF n = 0 THEN h0 ELSE note_claim(h0, p, StagedTip(h0) + n, rearmed)
          IN  ht' = [h EXCEPT !.staged = @ \o Batch(p, n, good), !.locate = FALSE,
                              !.clock.refused = @ /\ n = 0]
  BY <1>1 DEF on_headers
<1>5c. rearmed \in BOOLEAN
  BY <1>3
<1>5d. PICK h : h = IF n = 0 THEN h0 ELSE note_claim(h0, p, StagedTip(h0) + n, rearmed)
  OBVIOUS
<1>5. ht' = [h EXCEPT !.staged = @ \o Batch(p, n, good), !.locate = FALSE,
                      !.clock.refused = @ /\ n = 0]
  BY <1>5b, <1>5d
<1>6. Good(h, s) /\ h.staged = h0.staged /\ h.verified = h0.verified
  <2>1. StagedTip(h0) + n \in 0..ClaimMax
    BY <1>3, <1>4 DEF StagedTip
  <2> QED
    BY <1>2, <1>5c, <1>5d, <2>1, ClaimKeeps
<1> DEFINE more == h.staged \o Batch(p, n, good)
           clock == [h.clock EXCEPT !.refused = @ /\ n = 0]
           g == [h EXCEPT !.staged = more, !.locate = FALSE, !.clock = clock]
<1>7. more \in Seq(Staged) /\ Len(more) = Len(h0.staged) + n
  <2>1. Batch(p, n, good) \in Seq(Staged) /\ Len(Batch(p, n, good)) = n
    <3>1. [from |-> p, good |-> good] \in Staged
      BY DEF Staged
    <3> QED
      BY <3>1 DEF Batch
  <2> QED
    BY <1>3, <1>6, <2>1, SMTT(30)
<1>8. clock \in Clock /\ h \in Track
  BY <1>6 DEF Good, TrackOK, Track, Clock
<1>9. ht' = g
  BY <1>5, <1>8 DEF Track
<1> HIDE DEF more, clock
<1>10. /\ g \in Track /\ g.sync = h.sync /\ g.claims = h.claims
       /\ g.staged = more /\ g.verified = h.verified
  BY <1>7, <1>8 DEF Track
<1> HIDE DEF g
<1>11. Good(g, s)
  BY <1>3, <1>4, <1>6, <1>7, <1>10, SMTT(30) DEF Good, TrackOK, Fits
<1>12. sess' = s /\ tip' = tip
  BY <1>1 DEF on_headers
<1> QED
  BY <1>1, <1>6, <1>9, <1>10, <1>11, <1>12 DEF SyncInv


\* A change of the track that leaves the claims, the staging, the chain, the
\* designation and the sessions alone.
LEMMA AsideSync ==
    ASSUME SyncInv, NEW g, ht' = g, g \in Track, g.sync = ht.sync, g.claims = ht.claims,
           g.staged = ht.staged, g.verified = ht.verified, sess' = sess, tip' = tip
    PROVE  SyncInv'
<1>1. PICK h, s : h = ht /\ s = sess
  OBVIOUS
<1>2. Good(g, s)
  BY <1>1, SamePair DEF SyncInv
<1> QED
  BY <1>1, <1>2 DEF SyncInv

\* Reads are paused and resumed, and a batch is refused for want of room.
LEMMA ClockSync ==
    ASSUME SyncInv, Paused \/ Unpaused \/ \E p \in Peer : on_headers_refused(p)
    PROVE  SyncInv'
<1>1. PICK h : h = ht
  OBVIOUS
<1>2. h \in Track
  BY <1>1 DEF SyncInv, Good, TrackOK
<1>3. ASSUME NEW c \in Clock, NEW held \in BOOLEAN,
             ht' = [h EXCEPT !.clock = c, !.sinkHeld = held], sess' = sess, tip' = tip
      PROVE  SyncInv'
  <2>1. PICK g : g = [h EXCEPT !.clock = c, !.sinkHeld = held]
    OBVIOUS
  <2>2. /\ g \in Track /\ g.sync = h.sync /\ g.claims = h.claims
        /\ g.staged = h.staged /\ g.verified = h.verified
    BY <1>2, <2>1 DEF Track
  <2> QED
    BY <1>1, <1>3, <2>1, <2>2, AsideSync
<1>4. h.clock \in Clock /\ h.sinkHeld \in BOOLEAN
  BY <1>2 DEF Track
<1>5. /\ [h.clock EXCEPT !.suspended = TRUE] \in Clock
      /\ [h.clock EXCEPT !.suspended = FALSE] \in Clock
      /\ [h.clock EXCEPT !.refused = TRUE] \in Clock
  BY <1>4 DEF Clock
<1>6. CASE Paused
  <2>1. ht' = [h EXCEPT !.clock = [h.clock EXCEPT !.suspended = TRUE], !.sinkHeld = h.sinkHeld]
    BY <1>1, <1>2, <1>6 DEF Paused, Track
  <2> QED
    BY <1>3, <1>4, <1>5, <1>6, <2>1 DEF Paused
<1>7. CASE Unpaused
  <2>1. ht' = [h EXCEPT !.clock = [h.clock EXCEPT !.suspended = FALSE], !.sinkHeld = FALSE]
    BY <1>1, <1>2, <1>7 DEF Unpaused, Suspend, Track
  <2> QED
    BY <1>3, <1>5, <1>7, <2>1 DEF Unpaused
<1>8. CASE \E p \in Peer : on_headers_refused(p)
  <2>1. ht' = [h EXCEPT !.clock = [h.clock EXCEPT !.refused = TRUE], !.sinkHeld = h.sinkHeld]
    BY <1>1, <1>2, <1>8 DEF on_headers_refused, Track
  <2> QED
    BY <1>3, <1>4, <1>5, <1>8, <2>1 DEF on_headers_refused
<1> QED
  BY <1>6, <1>7, <1>8

\* Recovery, quarantine and the way out of them (begin_recovery).
LEMMA RecoverySync ==
    ASSUME SyncInv, ReorgTooDeep \/ AnchorContradiction \/ AnchorAdvanced \/ WindowEnds
    PROVE  SyncInv'
<1>1. PICK h : h = ht
  OBVIOUS
<1>2. h \in Track
  BY <1>1 DEF SyncInv, Good, TrackOK
<1>3. PICK g : g = ht'
  OBVIOUS
<1>4. /\ g \in Track /\ g.sync = h.sync /\ g.claims = h.claims
      /\ g.staged = h.staged /\ g.verified = h.verified
  <2>1. CASE ReorgTooDeep
    <3> DEFINE r == begin_recovery(h)
               n == r.failures + 1
               d == [r EXCEPT !.failures = n, !.locate = FALSE]
    <3>1. /\ r \in Track /\ r.sync = h.sync /\ r.claims = h.claims
          /\ r.staged = h.staged /\ r.verified = h.verified
      BY <1>2 DEF begin_recovery, Enter, Track, State
    <3> HIDE DEF r
    <3>2. n \in Nat /\ d = [r EXCEPT !.failures = @ + 1, !.locate = FALSE]
      BY <3>1 DEF Track
    <3>3. g \in {d, [Enter(d, "Quarantined") EXCEPT !.episode = FALSE]}
      BY <1>1, <1>3, <2>1, <3>2 DEF ReorgTooDeep, r
    <3> HIDE DEF n
    <3>4. /\ d \in Track /\ d.sync = h.sync /\ d.claims = h.claims
          /\ d.staged = h.staged /\ d.verified = h.verified
      BY <3>2, <3>1 DEF Track
    <3> HIDE DEF d
    <3> QED
      BY <3>4, <3>3 DEF Enter, Track, State
  <2>2. CASE AnchorContradiction
    BY <1>1, <1>2, <1>3, <2>2 DEF AnchorContradiction, begin_recovery, Enter, Track, State
  <2>3. CASE AnchorAdvanced
    BY <1>1, <1>2, <1>3, <2>3 DEF AnchorAdvanced, Track
  <2>4. CASE WindowEnds
    BY <1>1, <1>2, <1>3, <2>4 DEF WindowEnds, Track
  <2> QED
    BY <2>1, <2>2, <2>3, <2>4
<1>5. sess' = sess /\ tip' = tip
  BY DEF ReorgTooDeep, AnchorContradiction, AnchorAdvanced, WindowEnds
<1> QED
  BY <1>1, <1>3, <1>4, <1>5, AsideSync

\* A malformed batch costs the peer its place; an announcement raises a claim;
\* bodies arrive; a cooldown ends.
LEMMA PeerSync ==
    ASSUME SyncInv, NEW p \in Peer,
           \/ on_headers_malformed(p) \/ CooldownEnds(p) \/ BodiesApplied
           \/ \E n \in 1..Target : admit_announced(p, n)
    PROVE  SyncInv'
<1>1. PICK h, s : h = ht /\ s = sess
  OBVIOUS
<1>2. Good(h, s) /\ h.verified \in Nat /\ tip \in 0..h.verified
  BY <1>1 DEF SyncInv, Good, TrackOK, Track
<1>3. CASE on_headers_malformed(p)
  <2>1. Good(Banned(<<h, s>>, {p})[1], Banned(<<h, s>>, {p})[2])
        /\ Banned(<<h, s>>, {p})[1].verified = h.verified
    BY <1>2, BannedKeeps
  <2>2. /\ ht' = Banned(<<h, s>>, {p})[1] /\ sess' = Banned(<<h, s>>, {p})[2]
        /\ tip' = tip
    BY <1>1, <1>3 DEF on_headers_malformed
  <2> QED
    BY <1>1, <2>1, <2>2 DEF SyncInv
<1>4. CASE CooldownEnds(p)
  <2> DEFINE r == [s[p] EXCEPT !.cooling = FALSE]
             t == [s EXCEPT ![p] = r]
  <2>1. r \in Session /\ r.role = s[p].role /\ r.up = s[p].up
    BY <1>2 DEF Good, SessOK, Session
  <2>2. t = [s EXCEPT ![p].cooling = FALSE]
    OBVIOUS
  <2> HIDE DEF r
  <2>3. t \in [Peer -> Session] /\ \A q \in Peer : t[q].role = s[q].role /\ t[q].up = s[q].up
    BY <1>2, <2>1 DEF Good, SessOK
  <2> HIDE DEF t
  <2>4. Good(h, t)
    BY <1>2, <2>3 DEF Good, SessOK, Fits
  <2>5. ht' = h /\ sess' = t /\ tip' = tip
    BY <1>1, <1>4, <2>2 DEF CooldownEnds
  <2> QED
    BY <1>2, <2>4, <2>5 DEF SyncInv
<1>5. CASE BodiesApplied
  BY <1>1, <1>2, <1>5 DEF BodiesApplied, SyncInv
<1>6. ASSUME NEW n \in 1..Target, admit_announced(p, n)
      PROVE  SyncInv'
  <2>1. n \in 0..ClaimMax
    BY SyncConstants
  <2>2. ht.claims[p].demoted \in BOOLEAN
    BY DEF SyncInv, Good, TrackOK, Track, Claim
  <2>3. PICK rearmed \in BOOLEAN : ht' = note_claim(h, p, n, rearmed)
    BY <1>1, <1>6, <2>2 DEF admit_announced
  <2>4. Good(note_claim(h, p, n, rearmed), s) /\ note_claim(h, p, n, rearmed).verified = h.verified
    BY <1>2, <2>1, ClaimKeeps
  <2>5. sess' = s /\ tip' = tip
    BY <1>1, <1>6 DEF admit_announced
  <2> QED
    BY <1>2, <2>3, <2>4, <2>5 DEF SyncInv
<1> QED
  BY <1>3, <1>4, <1>5, <1>6

LEMMA NextSync ==
    ASSUME SyncInv, [SyncNext]_syncVars
    PROVE  SyncInv'
<1>1. ASSUME NEW p \in Peer, PeerEvents(p)
      PROVE  SyncInv'
  <2>1. CASE \E n \in {Target, ClaimMax} : PeerReady(p, n)
    BY <2>1, ReadySync
  <2>2. CASE PeerGone(p)
    BY <2>2, GoneSync
  <2>3. CASE on_headers_refused(p)
    BY <2>3, ClockSync
  <2>4. CASE CooldownEnds(p) \/ on_headers_malformed(p) \/ \E n \in 1..Target : admit_announced(p, n)
    BY <2>4, PeerSync
  <2>5. CASE \E n \in 0..StageMax, good \in BOOLEAN : on_headers(p, n, good)
    <3>1. \A n \in 0..StageMax : n \in Nat
      OBVIOUS
    <3> QED
      BY <2>5, <3>1, HeadersSync
  <2> QED
    BY <1>1, <2>1, <2>2, <2>3, <2>4, <2>5 DEF PeerEvents
<1>2. CASE on_tick
  BY <1>2, TickSync
<1>3. CASE ReorgTooDeep \/ AnchorContradiction \/ AnchorAdvanced \/ WindowEnds
  BY <1>3, RecoverySync
<1>4. CASE Paused \/ Unpaused
  BY <1>4, ClockSync
<1>5. CASE BodiesApplied
  BY <1>5 DEF BodiesApplied, SyncInv, Good, TrackOK, Track
<1>6. CASE UNCHANGED syncVars
  BY <1>6 DEF syncVars, SyncInv
<1> QED
  BY <1>1, <1>2, <1>3, <1>4, <1>5, <1>6 DEF SyncNext

\* The track is sound in every reachable state: types and limits hold, just
\* the designated peer has the mark of the sync peer, and an audit that finds
\* the node behind finds a peer to follow (HeaderTrack, Rotator::select,
\* best_actionable_height).
THEOREM TrackIsSound == SyncSpec => []TrackSound
<1>1. SyncInit => SyncInv
  BY InitSync
<1>2. SyncInv /\ [SyncNext]_syncVars => SyncInv'
  BY NextSync
<1>3. SyncInv => TrackSound
  <2> SUFFICES ASSUME SyncInv PROVE TrackSound
    OBVIOUS
  <2>1. ht \in Track /\ Fits(ht, sess) /\ tip \in 0..ht.verified
    BY DEF SyncInv, Good, TrackOK
  <2>2. \A p \in Peer : ht.claims[p].proved <= ht.verified /\ ht.claims[p].failures <= ClaimAttempts
    BY DEF SyncInv, Good, TrackOK, ClaimOK
  <2>3. Len(ht.staged) <= StageMax /\ ht.verified + Len(ht.staged) <= Target
    BY DEF SyncInv, Good, TrackOK
  <2>4. SyncTypeOK
    BY <2>1, <2>2, <2>3 DEF SyncTypeOK, Track, State
  <2>5. DesignationExact /\ AuditFindsPeer
    BY <2>1 DEF DesignationExact, Fits, AuditFindsPeer, Track
  <2> QED
    BY <2>4, <2>5 DEF TrackSound
<1> QED
  BY <1>1, <1>2, <1>3, PTL DEF SyncSpec

-----------------------------------------------------------------------------
(* The address book.                                                       *)

\* A book: entries, the index, and counters.
Sources == Source \cup {0}
Tables == {"New", "Tried"}
Rows == [addr : Addr, table : Tables, fail : Nat, dead : Nat, seed : BOOLEAN, src : Sources, old : BOOLEAN]
Indexes == UNION {[d -> Nat] : d \in SUBSET Addr}
Books == [entries : Seq(Rows), index : Indexes, bySource : [Sources -> Nat], new : Nat, tried : Nat]

\* The index leads from each address to its entry.
Indexed(b) ==
    /\ \A a \in DOMAIN b.index : b.index[a] \in 1..Len(b.entries) /\ b.entries[b.index[a]].addr = a
    /\ \A i \in 1..Len(b.entries) :
          b.entries[i].addr \in DOMAIN b.index /\ b.index[b.entries[i].addr] = i

\* What the book says of each address, and the addresses of a table and of a source.
View(b) == [a \in DOMAIN b.index |-> b.entries[b.index[a]]]
InView(v, t) == {a \in DOMAIN v : v[a].table = t}
NewFrom(v, s) == {a \in DOMAIN v : v[a].table = "New" /\ v[a].src = s}

\* The counters count them.
Counts(b, v) ==
    /\ b.new = Cardinality(InView(v, "New")) /\ b.tried = Cardinality(InView(v, "Tried"))
    /\ \A s \in Sources : b.bySource[s] = Cardinality(NewFrom(v, s))
    /\ Len(b.entries) = b.new + b.tried

Whole(b) == b \in Books /\ Indexed(b) /\ Counts(b, View(b))

\* The parts of a book.
LEMMA BookParts ==
    ASSUME NEW b, Whole(b)
    PROVE  /\ b.entries \in Seq(Rows) /\ Len(b.entries) \in Nat /\ b.new \in Nat /\ b.tried \in Nat
           /\ b.bySource \in [Sources -> Nat] /\ DOMAIN b.index \subseteq Addr
           /\ b.index \in [DOMAIN b.index -> Nat] /\ DOMAIN View(b) = DOMAIN b.index
           /\ View(b) \in [DOMAIN b.index -> Rows]
           /\ \A a \in DOMAIN b.index : View(b)[a] \in Rows /\ View(b)[a] = At(b, a) /\ View(b)[a].addr = a
<1>1. /\ b.entries \in Seq(Rows) /\ b.new \in Nat /\ b.tried \in Nat
      /\ b.bySource \in [Sources -> Nat] /\ b.index \in Indexes
  BY DEF Whole, Books
<1>2. PICK d \in SUBSET Addr : b.index \in [d -> Nat]
  BY <1>1 DEF Indexes
<1>3. PICK n : n = Len(b.entries) /\ n \in Nat
  BY <1>1
<1>4. \A i \in 1..n : b.entries[i] \in Rows
  BY <1>1, <1>3
<1>5. \A a \in DOMAIN b.index : View(b)[a] \in Rows /\ View(b)[a] = At(b, a) /\ View(b)[a].addr = a
  BY <1>3, <1>4 DEF Whole, Indexed, View, At
<1>6. DOMAIN View(b) = DOMAIN b.index
  BY DEF View
<1>7. View(b) \in [DOMAIN b.index -> Rows]
  BY <1>5 DEF View
<1> QED
  BY <1>1, <1>2, <1>3, <1>5, <1>6, <1>7

\* An address more.
LEMMA GainInView ==
    ASSUME NEW u, DOMAIN u \subseteq Addr, NEW a \in Addr, a \notin DOMAIN u,
           NEW v, DOMAIN v = DOMAIN u \cup {a}, \A x \in DOMAIN u : v[x] = u[x], NEW t
    PROVE  /\ Cardinality(InView(u, t)) \in Nat
           /\ Cardinality(InView(v, t)) =
                 Cardinality(InView(u, t)) + (IF v[a].table = t THEN 1 ELSE 0)
<1>1. IsFiniteSet(DOMAIN u)
  BY BookConstants, FS_Subset
<1>2. PICK m : m = InView(u, t)
  OBVIOUS
<1>3. m \in SUBSET DOMAIN u /\ a \notin m
  BY <1>2 DEF InView
<1>4. IsFiniteSet(m) /\ Cardinality(m) \in Nat
  BY <1>1, <1>3, FS_Subset, FS_CardinalityType
<1>5. CASE v[a].table = t
  <2>1. InView(v, t) = m \cup {a}
    BY <1>2, <1>5 DEF InView
  <2> QED
    BY <1>2, <1>3, <1>4, <1>5, <2>1, FS_AddElement, SMTT(30)
<1>6. CASE v[a].table # t
  <2>1. InView(v, t) = m
    BY <1>2, <1>6 DEF InView
  <2> QED
    BY <1>2, <1>4, <1>6, <2>1
<1> QED
  BY <1>5, <1>6

\* An address more from a source.
LEMMA GainNewFrom ==
    ASSUME NEW u, DOMAIN u \subseteq Addr, NEW a \in Addr, a \notin DOMAIN u,
           NEW v, DOMAIN v = DOMAIN u \cup {a}, \A x \in DOMAIN u : v[x] = u[x], NEW s
    PROVE  /\ Cardinality(NewFrom(u, s)) \in Nat
           /\ Cardinality(NewFrom(v, s)) =
                 Cardinality(NewFrom(u, s)) + (IF v[a].table = "New" /\ v[a].src = s THEN 1 ELSE 0)
<1>1. IsFiniteSet(DOMAIN u)
  BY BookConstants, FS_Subset
<1>2. PICK m : m = NewFrom(u, s)
  OBVIOUS
<1>3. m \in SUBSET DOMAIN u /\ a \notin m
  BY <1>2 DEF NewFrom
<1>4. IsFiniteSet(m) /\ Cardinality(m) \in Nat
  BY <1>1, <1>3, FS_Subset, FS_CardinalityType
<1>5. CASE v[a].table = "New" /\ v[a].src = s
  <2>1. NewFrom(v, s) = m \cup {a}
    BY <1>2, <1>5 DEF NewFrom
  <2> QED
    BY <1>2, <1>3, <1>4, <1>5, <2>1, FS_AddElement, ZenonT(40)
<1>6. CASE ~(v[a].table = "New" /\ v[a].src = s)
  <2>1. NewFrom(v, s) = m
    BY <1>2, <1>6 DEF NewFrom
  <2> QED
    BY <1>2, <1>4, <1>6, <2>1
<1> QED
  BY <1>5, <1>6

\* An address more, in each of the three counts.
LEMMA Gain ==
    ASSUME NEW u, DOMAIN u \subseteq Addr, NEW a \in Addr, a \notin DOMAIN u,
           NEW v, DOMAIN v = DOMAIN u \cup {a}, \A x \in DOMAIN u : v[x] = u[x]
    PROVE  /\ Cardinality(InView(u, "New")) \in Nat /\ Cardinality(InView(u, "Tried")) \in Nat
           /\ Cardinality(InView(v, "New")) = Cardinality(InView(u, "New")) + (IF v[a].table = "New" THEN 1 ELSE 0)
           /\ Cardinality(InView(v, "Tried")) = Cardinality(InView(u, "Tried")) + (IF v[a].table = "Tried" THEN 1 ELSE 0)
           /\ \A s \in Sources : /\ Cardinality(NewFrom(u, s)) \in Nat
                                 /\ Cardinality(NewFrom(v, s)) = Cardinality(NewFrom(u, s))
                                       + (IF v[a].table = "New" /\ v[a].src = s THEN 1 ELSE 0)
<1>1. /\ Cardinality(InView(u, "New")) \in Nat
      /\ Cardinality(InView(v, "New")) = Cardinality(InView(u, "New")) + (IF v[a].table = "New" THEN 1 ELSE 0)
  BY GainInView
<1>2. /\ Cardinality(InView(u, "Tried")) \in Nat
      /\ Cardinality(InView(v, "Tried")) = Cardinality(InView(u, "Tried")) + (IF v[a].table = "Tried" THEN 1 ELSE 0)
  BY GainInView
<1>3. ASSUME NEW s \in Sources
      PROVE  /\ Cardinality(NewFrom(u, s)) \in Nat
             /\ Cardinality(NewFrom(v, s)) = Cardinality(NewFrom(u, s))
                   + (IF v[a].table = "New" /\ v[a].src = s THEN 1 ELSE 0)
  BY GainNewFrom
<1> QED
  BY <1>1, <1>2, <1>3

\* An entry is added at the end.
LEMMA PushIs ==
    ASSUME NEW b, Whole(b), NEW e \in Rows, ~Has(b, e.addr)
    PROVE  LET c == push(b, e) IN
           /\ Whole(c) /\ c.entries = Append(b.entries, e)
           /\ DOMAIN c.index = DOMAIN b.index \cup {e.addr} /\ At(c, e.addr) = e
           /\ \A x \in DOMAIN b.index : At(c, x) = At(b, x)
           /\ c.new = b.new + (IF e.table = "New" THEN 1 ELSE 0)
           /\ c.tried = b.tried + (IF e.table = "Tried" THEN 1 ELSE 0)
<1>1. PICK n, q, a, c : n = Len(b.entries) /\ q = Append(b.entries, e) /\ a = e.addr /\ c = push(b, e)
  OBVIOUS
<1>2. /\ b.entries \in Seq(Rows) /\ n \in Nat /\ b.new \in Nat /\ b.tried \in Nat
      /\ b.bySource \in [Sources -> Nat] /\ DOMAIN b.index \subseteq Addr
      /\ b.index \in [DOMAIN b.index -> Nat] /\ DOMAIN View(b) = DOMAIN b.index
  BY <1>1, BookParts
<1>3. /\ a \in Addr /\ a \notin DOMAIN b.index /\ e.table \in Tables /\ e.src \in Sources
  BY <1>1 DEF Rows, Has
<1>4. /\ q \in Seq(Rows) /\ Len(q) = n + 1 /\ q[n + 1] = e /\ \A i \in 1..n : q[i] = b.entries[i]
  BY <1>1, <1>2
<1>5. PICK d : d = [b EXCEPT !.entries = q]
  OBVIOUS
<1>6. /\ b \in Books /\ d \in Books /\ d.entries = q /\ d.index = b.index /\ d.bySource = b.bySource
      /\ d.new = b.new /\ d.tried = b.tried
  <2>1. b \in Books
    BY DEF Whole
  <2> QED
    BY <1>4, <1>5, <2>1 DEF Books
<1>7. PICK ix, bs, nw, tr :
         /\ ix = [x \in DOMAIN b.index \cup {a} |-> IF x = a THEN n + 1 ELSE b.index[x]]
         /\ bs = IF e.table = "New" THEN [b.bySource EXCEPT ![e.src] = @ + 1] ELSE b.bySource
         /\ nw = IF e.table = "New" THEN b.new + 1 ELSE b.new
         /\ tr = IF e.table = "Tried" THEN b.tried + 1 ELSE b.tried
  OBVIOUS
<1>8. c = [d EXCEPT !.index = ix, !.new = nw, !.bySource = bs, !.tried = tr]
  <2>1. c = note_added(d, n + 1)
    BY <1>1, <1>5 DEF push
  <2>2. d.entries[n + 1] = e
    BY <1>4, <1>6
  <2>3. /\ ix = [x \in DOMAIN d.index \cup {e.addr} |-> IF x = e.addr THEN n + 1 ELSE d.index[x]]
        /\ bs = IF e.table = "New" THEN [d.bySource EXCEPT ![e.src] = @ + 1] ELSE d.bySource
        /\ nw = IF e.table = "New" THEN d.new + 1 ELSE d.new
        /\ tr = IF e.table = "Tried" THEN d.tried + 1 ELSE d.tried
    BY <1>1, <1>6, <1>7
  <2>4. note_added(d, n + 1) =
           [d EXCEPT !.index = [x \in DOMAIN d.index \cup {d.entries[n + 1].addr} |->
                                   IF x = d.entries[n + 1].addr THEN n + 1 ELSE d.index[x]],
                     !.new = IF d.entries[n + 1].table = "New" THEN d.new + 1 ELSE d.new,
                     !.bySource = IF d.entries[n + 1].table = "New"
                                  THEN [d.bySource EXCEPT ![d.entries[n + 1].src] = @ + 1] ELSE d.bySource,
                     !.tried = IF d.entries[n + 1].table = "Tried" THEN d.tried + 1 ELSE d.tried]
    BY DEF note_added
  <2> QED
    BY <2>1, <2>2, <2>3, <2>4
<1>9. ix \in Indexes /\ bs \in [Sources -> Nat] /\ nw \in Nat /\ tr \in Nat
  <2>1. ix \in [DOMAIN b.index \cup {a} -> Nat] /\ DOMAIN b.index \cup {a} \in SUBSET Addr
    BY <1>2, <1>3, <1>7
  <2>2. bs \in [Sources -> Nat]
    BY <1>2, <1>3, <1>7
  <2>3. ix \in Indexes
    BY <2>1 DEF Indexes
  <2>4. nw \in Nat /\ tr \in Nat
    BY <1>2, <1>7
  <2> QED
    BY <2>2, <2>3, <2>4
<1>10. c \in Books /\ c.entries = q /\ c.index = ix /\ c.bySource = bs /\ c.new = nw /\ c.tried = tr
  BY <1>6, <1>8, <1>9 DEF Books
<1>11. DOMAIN ix = DOMAIN b.index \cup {a} /\ ix[a] = n + 1 /\ \A x \in DOMAIN b.index : ix[x] = b.index[x]
  BY <1>3, <1>7
<1>12. /\ \A x \in DOMAIN b.index : b.index[x] \in 1..n /\ b.entries[b.index[x]].addr = x
       /\ \A i \in 1..n : b.entries[i].addr \in DOMAIN b.index /\ b.index[b.entries[i].addr] = i
  BY <1>1 DEF Whole, Indexed
<1>13. Indexed(c)
  <2>1. \A x \in DOMAIN ix : ix[x] \in 1..(n + 1) /\ q[ix[x]].addr = x
    BY <1>1, <1>2, <1>4, <1>11, <1>12
  <2>2. \A i \in 1..(n + 1) : q[i].addr \in DOMAIN ix /\ ix[q[i].addr] = i
    BY <1>1, <1>2, <1>4, <1>11, <1>12
  <2> QED
    BY <1>4, <1>10, <2>1, <2>2 DEF Indexed
<1>14. At(c, a) = e /\ \A x \in DOMAIN b.index : At(c, x) = At(b, x)
  BY <1>4, <1>10, <1>11, <1>12 DEF At
<1>15. PICK u, v : u = View(b) /\ v = View(c)
  OBVIOUS
<1>16. /\ DOMAIN u = DOMAIN b.index /\ DOMAIN v = DOMAIN u \cup {a} /\ v[a] = e
       /\ \A x \in DOMAIN u : v[x] = u[x]
  BY <1>10, <1>11, <1>14, <1>15 DEF View, At
<1>17. /\ Cardinality(InView(u, "New")) \in Nat /\ Cardinality(InView(u, "Tried")) \in Nat
       /\ Cardinality(InView(v, "New")) = Cardinality(InView(u, "New")) + (IF e.table = "New" THEN 1 ELSE 0)
       /\ Cardinality(InView(v, "Tried")) = Cardinality(InView(u, "Tried")) + (IF e.table = "Tried" THEN 1 ELSE 0)
       /\ \A s \in Sources : /\ Cardinality(NewFrom(u, s)) \in Nat
                             /\ Cardinality(NewFrom(v, s)) = Cardinality(NewFrom(u, s))
                                   + (IF e.table = "New" /\ e.src = s THEN 1 ELSE 0)
  <2>1. DOMAIN u \subseteq Addr /\ a \in Addr /\ a \notin DOMAIN u
    BY <1>2, <1>3, <1>16
  <2>2. /\ Cardinality(InView(u, "New")) \in Nat /\ Cardinality(InView(u, "Tried")) \in Nat
        /\ Cardinality(InView(v, "New")) = Cardinality(InView(u, "New")) + (IF v[a].table = "New" THEN 1 ELSE 0)
        /\ Cardinality(InView(v, "Tried")) = Cardinality(InView(u, "Tried")) + (IF v[a].table = "Tried" THEN 1 ELSE 0)
        /\ \A s \in Sources : /\ Cardinality(NewFrom(u, s)) \in Nat
                              /\ Cardinality(NewFrom(v, s)) = Cardinality(NewFrom(u, s))
                                    + (IF v[a].table = "New" /\ v[a].src = s THEN 1 ELSE 0)
    BY <1>16, <2>1, Gain
  <2> QED
    BY <1>16, <2>2
<1>18. Counts(b, u)
  BY <1>15 DEF Whole
<1>19. nw = Cardinality(InView(v, "New")) /\ tr = Cardinality(InView(v, "Tried"))
  BY <1>7, <1>17, <1>18 DEF Counts
<1>20. \A s \in Sources : bs[s] = Cardinality(NewFrom(v, s))
  <2> TAKE s \in Sources
  <2>1. b.bySource[s] = Cardinality(NewFrom(u, s))
    BY <1>18 DEF Counts
  <2>2. bs[s] = b.bySource[s] + (IF e.table = "New" /\ e.src = s THEN 1 ELSE 0)
    BY <1>2, <1>3, <1>7
  <2> QED
    BY <1>17, <2>1, <2>2
<1>21. Len(q) = nw + tr
  <2>1. n = b.new + b.tried
    BY <1>1, <1>18 DEF Counts
  <2>2. e.table = "New" \/ e.table = "Tried"
    BY <1>3 DEF Tables
  <2>3. nw + tr = (b.new + b.tried) + 1
    BY <1>2, <1>7, <2>2
  <2> QED
    BY <1>4, <2>1, <2>3
<1>22. Whole(c)
  BY <1>10, <1>13, <1>15, <1>19, <1>20, <1>21 DEF Whole, Counts
<1> QED
  BY <1>1, <1>2, <1>7, <1>10, <1>11, <1>14, <1>22

\* The facts of an index.
LEMMA IndexParts ==
    ASSUME NEW b, Whole(b), NEW n, n = Len(b.entries)
    PROVE  /\ \A x \in DOMAIN b.index : b.index[x] \in 1..n /\ b.entries[b.index[x]].addr = x
           /\ \A i \in 1..n : b.entries[i].addr \in DOMAIN b.index /\ b.index[b.entries[i].addr] = i
           /\ \A i \in 1..n : b.entries[i] \in Rows
  BY BookParts, SMTT(30) DEF Whole, Indexed

\* An entry is removed: the last one takes its place.
LEMMA RemoveIs ==
    ASSUME NEW b, Whole(b), NEW i \in 1..Len(b.entries)
    PROVE  LET c == remove_at(b, i)
               e == b.entries[i]
           IN  /\ Whole(c) /\ Len(c.entries) = Len(b.entries) - 1
               /\ DOMAIN c.index = DOMAIN b.index \ {e.addr}
               /\ \A x \in DOMAIN c.index : At(c, x) = At(b, x)
               /\ b.new = c.new + (IF e.table = "New" THEN 1 ELSE 0)
               /\ b.tried = c.tried + (IF e.table = "Tried" THEN 1 ELSE 0)
               /\ \A k \in 1..(i - 1) : c.entries[k] = b.entries[k]
<1>1. PICK n, q, e, a, last, c :
          /\ n = Len(b.entries) /\ q = [k \in 1..(n - 1) |-> IF k = i THEN b.entries[n] ELSE b.entries[k]]
          /\ e = b.entries[i] /\ a = e.addr /\ last = b.entries[n] /\ c = remove_at(b, i)
  OBVIOUS
<1>2. /\ b.entries \in Seq(Rows) /\ n \in Nat /\ b.new \in Nat /\ b.tried \in Nat
      /\ b.bySource \in [Sources -> Nat] /\ DOMAIN b.index \subseteq Addr
      /\ b.index \in [DOMAIN b.index -> Nat] /\ DOMAIN View(b) = DOMAIN b.index
      /\ i \in 1..n
  BY <1>1, BookParts
<1>3. /\ \A x \in DOMAIN b.index : b.index[x] \in 1..n /\ b.entries[b.index[x]].addr = x
      /\ \A k \in 1..n : b.entries[k].addr \in DOMAIN b.index /\ b.index[b.entries[k].addr] = k
      /\ \A k \in 1..n : b.entries[k] \in Rows
  BY <1>1, IndexParts
<1>4. e \in Rows /\ a \in Addr /\ a \in DOMAIN b.index /\ b.index[a] = i /\ e.table \in Tables /\ e.src \in Sources
  BY <1>1, <1>2, <1>3 DEF Rows
<1>5. /\ q \in Seq(Rows) /\ Len(q) = n - 1
      /\ \A k \in 1..(n - 1) : q[k] = IF k = i THEN last ELSE b.entries[k]
  BY <1>1, <1>2, <1>3
<1>6. PICK d : d = [b EXCEPT !.entries = q]
  OBVIOUS
<1>7. /\ b \in Books /\ d \in Books /\ d.entries = q /\ d.index = b.index /\ d.bySource = b.bySource
      /\ d.new = b.new /\ d.tried = b.tried
  <2>1. b \in Books
    BY DEF Whole
  <2> QED
    BY <1>5, <1>6, <2>1 DEF Books
<1>8. PICK ix, bs, nw, tr :
         /\ ix = [x \in DOMAIN b.index \ {a} |-> b.index[x]]
         /\ bs = IF e.table = "New" THEN [b.bySource EXCEPT ![e.src] = Less(@)] ELSE b.bySource
         /\ nw = IF e.table = "New" THEN Less(b.new) ELSE b.new
         /\ tr = IF e.table = "Tried" THEN Less(b.tried) ELSE b.tried
  OBVIOUS
<1>9. PICK r : r = SwapRemoved(b, i)
  OBVIOUS
<1>10. r = [d EXCEPT !.index = ix, !.new = nw, !.bySource = bs, !.tried = tr]
  <2>1. r = note_removed(d, e)
    BY <1>1, <1>6, <1>9 DEF SwapRemoved
  <2> QED
    BY <1>1, <1>7, <1>8, <2>1 DEF note_removed
<1>11. nw \in Nat /\ tr \in Nat /\ bs \in [Sources -> Nat] /\ ix \in Indexes
  <2>1. nw \in Nat /\ tr \in Nat
    BY <1>2, <1>8 DEF Less
  <2>2. bs \in [Sources -> Nat]
    <3>1. b.bySource[e.src] \in Nat
      BY <1>2, <1>4
    <3>2. Less(b.bySource[e.src]) \in Nat
      BY <3>1 DEF Less
    <3> QED
      BY <1>2, <1>4, <1>8, <3>2
  <2>3. ix \in [DOMAIN b.index \ {a} -> Nat] /\ DOMAIN b.index \ {a} \in SUBSET Addr
    BY <1>2, <1>8
  <2>4. ix \in Indexes
    BY <2>3 DEF Indexes
  <2> QED
    BY <2>1, <2>2, <2>4
<1>12. r \in Books /\ r.entries = q /\ r.index = ix /\ r.bySource = bs /\ r.new = nw /\ r.tried = tr
  BY <1>7, <1>10, <1>11 DEF Books
<1>13. PICK jx : jx = IF i <= n - 1 THEN [ix EXCEPT ![last.addr] = i] ELSE ix
  OBVIOUS
<1>14. DOMAIN ix = DOMAIN b.index \ {a} /\ \A x \in DOMAIN b.index \ {a} : ix[x] = b.index[x]
  BY <1>8
<1>15. /\ DOMAIN jx = DOMAIN b.index \ {a}
       /\ \A x \in DOMAIN b.index \ {a} : jx[x] = IF x = last.addr THEN i ELSE b.index[x]
  <2>1. CASE i <= n - 1
    BY <1>13, <1>14, <2>1
  <2>2. CASE ~(i <= n - 1)
    <3>1. i = n /\ last = e
      BY <1>1, <1>2, <2>2
    <3> QED
      BY <1>1, <1>13, <1>14, <2>2, <3>1
  <2> QED
    BY <2>1, <2>2
<1>16. jx \in Indexes
  <2>1. \A x \in DOMAIN b.index \ {a} : jx[x] \in Nat
    BY <1>2, <1>15
  <2>2. jx = [x \in DOMAIN jx |-> jx[x]]
    BY <1>8, <1>13
  <2>3. jx \in [DOMAIN b.index \ {a} -> Nat] /\ DOMAIN b.index \ {a} \in SUBSET Addr
    BY <1>2, <1>15, <2>1, <2>2
  <2> QED
    BY <2>3 DEF Indexes
<1>17. c \in Books /\ c.entries = q /\ c.index = jx /\ c.bySource = bs /\ c.new = nw /\ c.tried = tr
  <2>1. c = IF i <= Len(r.entries) THEN [r EXCEPT !.index = [r.index EXCEPT ![r.entries[i].addr] = i]] ELSE r
    BY <1>1, <1>9 DEF remove_at
  <2>2. CASE i <= n - 1
    <3>1. r.entries[i] = last /\ i <= Len(r.entries)
      BY <1>2, <1>5, <1>12, <2>2
    <3>2. c = [r EXCEPT !.index = jx]
      BY <1>12, <1>13, <2>1, <2>2, <3>1
    <3> QED
      BY <1>12, <1>16, <3>2 DEF Books
  <2>3. CASE ~(i <= n - 1)
    <3>1. c = r /\ jx = ix
      BY <1>5, <1>12, <1>13, <2>1, <2>3
    <3> QED
      BY <1>12, <3>1
  <2> QED
    BY <2>2, <2>3
<1>18. /\ \A x \in DOMAIN jx : jx[x] \in 1..(n - 1) /\ q[jx[x]] = b.entries[b.index[x]]
       /\ \A k \in 1..(n - 1) : q[k].addr \in DOMAIN jx /\ jx[q[k].addr] = k
  <2>1. ASSUME NEW x \in DOMAIN jx
        PROVE  jx[x] \in 1..(n - 1) /\ q[jx[x]] = b.entries[b.index[x]]
    <3>1. x \in DOMAIN b.index /\ x # a /\ b.index[x] \in 1..n /\ b.entries[b.index[x]].addr = x
      BY <1>3, <1>15
    <3>2. b.index[x] # i
      BY <1>1, <3>1
    <3>3. CASE x = last.addr
      <4>1. b.index[x] = n
        <5>1. n \in 1..n
          BY <1>2
        <5> QED
          BY <1>1, <1>3, <3>3, <5>1
      <4>2. jx[x] = i /\ i \in 1..(n - 1)
        BY <1>2, <1>15, <3>2, <3>3, <4>1
      <4> QED
        BY <1>1, <1>5, <4>1, <4>2
    <3>4. CASE x # last.addr
      <4>1. b.index[x] # n
        BY <1>1, <3>1, <3>4
      <4>2. jx[x] = b.index[x] /\ b.index[x] \in 1..(n - 1)
        BY <1>2, <1>15, <3>1, <3>4, <4>1
      <4> QED
        BY <1>5, <3>2, <4>2
    <3> QED
      BY <3>3, <3>4
  <2>2. ASSUME NEW k \in 1..(n - 1)
        PROVE  q[k].addr \in DOMAIN jx /\ jx[q[k].addr] = k
    <3>1. n \in 1..n /\ k \in 1..n /\ n # k
      BY <1>2
    <3>2. CASE k = i
      <4>1. q[k] = last /\ last.addr \in DOMAIN b.index /\ b.index[last.addr] = n
        BY <1>1, <1>3, <1>5, <3>1, <3>2
      <4>2. last.addr # a
        BY <1>4, <3>1, <3>2, <4>1
      <4> QED
        BY <1>15, <3>2, <4>1, <4>2
    <3>3. CASE k # i
      <4>1. q[k] = b.entries[k] /\ q[k].addr \in DOMAIN b.index /\ b.index[q[k].addr] = k
        BY <1>3, <1>5, <3>1, <3>3
      <4>2. b.index[last.addr] = n
        BY <1>1, <1>3, <3>1
      <4>3. q[k].addr # a /\ q[k].addr # last.addr
        BY <1>4, <3>1, <3>3, <4>1, <4>2
      <4> QED
        BY <1>15, <4>1, <4>3
    <3> QED
      BY <3>2, <3>3
  <2> QED
    BY <2>1, <2>2
<1>19. Indexed(c)
  <2>1. \A x \in DOMAIN jx : q[jx[x]].addr = x
    BY <1>3, <1>15, <1>18
  <2> QED
    BY <1>5, <1>17, <1>18, <2>1 DEF Indexed
<1>20. \A x \in DOMAIN b.index \ {a} : At(c, x) = At(b, x)
  BY <1>15, <1>17, <1>18 DEF At
<1>21. PICK u, v : u = View(c) /\ v = View(b)
  OBVIOUS
<1>22. /\ DOMAIN u = DOMAIN b.index \ {a} /\ DOMAIN v = DOMAIN u \cup {a} /\ v[a] = e
       /\ \A x \in DOMAIN u : v[x] = u[x]
  <2>1. DOMAIN u = DOMAIN b.index \ {a} /\ DOMAIN v = DOMAIN b.index
    BY <1>15, <1>17, <1>21 DEF View
  <2>2. \A x \in DOMAIN b.index : v[x] = At(b, x)
    BY <1>21 DEF View, At
  <2>3. \A x \in DOMAIN b.index \ {a} : u[x] = At(c, x)
    BY <1>15, <1>17, <1>21 DEF View, At
  <2>4. v[a] = e
    BY <1>1, <1>4, <2>2 DEF At
  <2> QED
    BY <1>4, <1>20, <2>1, <2>2, <2>3, <2>4
<1>23. /\ Cardinality(InView(u, "New")) \in Nat /\ Cardinality(InView(u, "Tried")) \in Nat
       /\ Cardinality(InView(v, "New")) = Cardinality(InView(u, "New")) + (IF e.table = "New" THEN 1 ELSE 0)
       /\ Cardinality(InView(v, "Tried")) = Cardinality(InView(u, "Tried")) + (IF e.table = "Tried" THEN 1 ELSE 0)
       /\ \A s \in Sources : /\ Cardinality(NewFrom(u, s)) \in Nat
                             /\ Cardinality(NewFrom(v, s)) = Cardinality(NewFrom(u, s))
                                   + (IF e.table = "New" /\ e.src = s THEN 1 ELSE 0)
  <2>1. /\ DOMAIN u \subseteq Addr /\ a \in Addr /\ a \notin DOMAIN u
        /\ DOMAIN v = DOMAIN u \cup {a} /\ \A x \in DOMAIN u : v[x] = u[x]
    BY <1>2, <1>4, <1>22
  <2>2. /\ Cardinality(InView(u, "New")) \in Nat /\ Cardinality(InView(u, "Tried")) \in Nat
        /\ Cardinality(InView(v, "New")) = Cardinality(InView(u, "New")) + (IF v[a].table = "New" THEN 1 ELSE 0)
        /\ Cardinality(InView(v, "Tried")) = Cardinality(InView(u, "Tried")) + (IF v[a].table = "Tried" THEN 1 ELSE 0)
        /\ \A s \in Sources : /\ Cardinality(NewFrom(u, s)) \in Nat
                              /\ Cardinality(NewFrom(v, s)) = Cardinality(NewFrom(u, s))
                                    + (IF v[a].table = "New" /\ v[a].src = s THEN 1 ELSE 0)
    BY <2>1, Gain, ZenonT(40)
  <2>3. v[a].table = e.table /\ v[a].src = e.src
    BY <1>22
  <2>4. \A s \in Sources : /\ Cardinality(NewFrom(u, s)) \in Nat
                           /\ Cardinality(NewFrom(v, s)) = Cardinality(NewFrom(u, s))
                                 + (IF e.table = "New" /\ e.src = s THEN 1 ELSE 0)
    BY <2>2, <2>3
  <2> QED
    BY <2>2, <2>3, <2>4
<1>24. Counts(b, v)
  BY <1>21 DEF Whole
<1>25. /\ nw = Cardinality(InView(u, "New")) /\ tr = Cardinality(InView(u, "Tried"))
       /\ b.new = nw + (IF e.table = "New" THEN 1 ELSE 0)
       /\ b.tried = tr + (IF e.table = "Tried" THEN 1 ELSE 0)
  <2>1. b.new = Cardinality(InView(v, "New")) /\ b.tried = Cardinality(InView(v, "Tried"))
    BY <1>24 DEF Counts
  <2> QED
    BY <1>8, <1>23, <2>1 DEF Less
<1>26. \A s \in Sources : bs[s] = Cardinality(NewFrom(u, s))
  <2> TAKE s \in Sources
  <2>1. b.bySource[s] = Cardinality(NewFrom(v, s))
    BY <1>24 DEF Counts
  <2>2. bs[s] = IF e.table = "New" /\ e.src = s THEN Less(b.bySource[s]) ELSE b.bySource[s]
    BY <1>2, <1>4, <1>8
  <2> QED
    BY <1>23, <2>1, <2>2 DEF Less
<1>27. Len(q) = nw + tr
  <2>1. n = b.new + b.tried
    BY <1>1, <1>24 DEF Counts
  <2>2. e.table = "New" \/ e.table = "Tried"
    BY <1>4 DEF Tables
  <2>3. b.new + b.tried = (nw + tr) + 1
    BY <1>2, <1>11, <1>25, <2>2
  <2> QED
    BY <1>5, <1>11, <2>1, <2>3
<1>28. Whole(c)
  BY <1>17, <1>19, <1>21, <1>25, <1>26, <1>27 DEF Whole, Counts
<1>29. \A k \in 1..(i - 1) : q[k] = b.entries[k]
  BY <1>2, <1>5
<1> QED
  BY <1>1, <1>5, <1>15, <1>17, <1>20, <1>25, <1>28, <1>29

\* The book is the same but for the i-th entry.
Rewrites(b, c, i) ==
    /\ Len(c.entries) = Len(b.entries) /\ c.index = b.index
    /\ \A k \in 1..Len(b.entries) : k # i => c.entries[k] = b.entries[k]

InTried(e) == IF e.table = "Tried" THEN 1 ELSE 0

\* An entry is written back, whatever its table.
LEMMA WroteParts ==
    ASSUME NEW b, Whole(b), NEW i \in 1..Len(b.entries), NEW e \in Rows, e.addr = b.entries[i].addr
    PROVE  LET c == Wrote(b, i, e) IN
           /\ c \in Books /\ Indexed(c) /\ Rewrites(b, c, i)
           /\ c.new = b.new /\ c.tried = b.tried /\ c.bySource = b.bySource /\ c.entries[i] = e
           /\ DOMAIN View(c) = DOMAIN b.index /\ e.addr \in DOMAIN b.index /\ View(c)[e.addr] = e
           /\ \A x \in DOMAIN b.index : x # e.addr => View(c)[x] = View(b)[x]
<1>1. PICK n, q, a, c : n = Len(b.entries) /\ q = [b.entries EXCEPT ![i] = e] /\ a = e.addr /\ c = Wrote(b, i, e)
  OBVIOUS
<1>2. /\ b.entries \in Seq(Rows) /\ n \in Nat /\ b.new \in Nat /\ b.tried \in Nat
      /\ b.bySource \in [Sources -> Nat] /\ DOMAIN b.index \subseteq Addr /\ i \in 1..n
      /\ b.index \in Indexes /\ b \in Books
  BY <1>1, BookParts DEF Whole, Books
<1>3. /\ \A x \in DOMAIN b.index : b.index[x] \in 1..n /\ b.entries[b.index[x]].addr = x
      /\ \A k \in 1..n : b.entries[k].addr \in DOMAIN b.index /\ b.index[b.entries[k].addr] = k
  BY <1>1, IndexParts
<1>4. q \in Seq(Rows) /\ Len(q) = n /\ q[i] = e /\ \A k \in 1..n : k # i => q[k] = b.entries[k]
  BY <1>1, <1>2
<1>5. /\ c \in Books /\ c.entries = q /\ c.index = b.index /\ c.new = b.new /\ c.tried = b.tried
      /\ c.bySource = b.bySource
  <2>1. c = [b EXCEPT !.entries = q]
    BY <1>1 DEF Wrote
  <2> QED
    BY <1>2, <1>4, <2>1 DEF Books
<1>6. \A k \in 1..n : q[k].addr = b.entries[k].addr
  BY <1>1, <1>4
<1>7. Indexed(c)
  <2>1. ASSUME NEW x \in DOMAIN b.index
        PROVE  b.index[x] \in 1..n /\ q[b.index[x]].addr = x
    BY <1>3, <1>6
  <2>2. ASSUME NEW k \in 1..n
        PROVE  q[k].addr \in DOMAIN b.index /\ b.index[q[k].addr] = k
    BY <1>3, <1>6
  <2> QED
    BY <1>4, <1>5, <2>1, <2>2 DEF Indexed
<1>8. a \in DOMAIN b.index /\ b.index[a] = i /\ \A x \in DOMAIN b.index : x # a => b.index[x] # i
  BY <1>1, <1>2, <1>3
<1>9. DOMAIN View(c) = DOMAIN b.index /\ View(c)[a] = e
  BY <1>4, <1>5, <1>8 DEF View
<1>10. \A x \in DOMAIN b.index : x # a => View(c)[x] = View(b)[x]
  BY <1>3, <1>4, <1>5, <1>8, SMTT(30) DEF View
<1>11. Rewrites(b, c, i)
  BY <1>1, <1>4, <1>5 DEF Rewrites
<1> QED
  BY <1>1, <1>4, <1>5, <1>7, <1>8, <1>9, <1>10, <1>11

\* An entry is written back to its table.
LEMMA WroteIs ==
    ASSUME NEW b, Whole(b), NEW i \in 1..Len(b.entries), NEW e \in Rows, e.addr = b.entries[i].addr,
           e.table = b.entries[i].table, e.src = b.entries[i].src
    PROVE  LET c == Wrote(b, i, e) IN
           /\ Whole(c) /\ Rewrites(b, c, i) /\ c.entries[i] = e
           /\ c.new = b.new /\ c.tried = b.tried
<1>1. PICK a, c, u, v : a = e.addr /\ c = Wrote(b, i, e) /\ u = View(b) /\ v = View(c)
  OBVIOUS
<1>2. /\ c \in Books /\ Indexed(c) /\ Rewrites(b, c, i)
      /\ c.new = b.new /\ c.tried = b.tried /\ c.bySource = b.bySource /\ c.entries[i] = e
      /\ DOMAIN v = DOMAIN b.index /\ a \in DOMAIN b.index /\ v[a] = e
      /\ \A x \in DOMAIN b.index : x # a => v[x] = u[x]
  BY <1>1, WroteParts
<1>3. u[a] = b.entries[i] /\ DOMAIN u = DOMAIN b.index
  <2>1. b.index[a] = i
    BY <1>1, IndexParts
  <2> QED
    BY <1>1, <1>2, <2>1 DEF View
<1>4. \A x \in DOMAIN b.index : v[x].table = u[x].table /\ v[x].src = u[x].src
  BY <1>2, <1>3
<1>5. InView(v, "New") = InView(u, "New") /\ InView(v, "Tried") = InView(u, "Tried")
  BY <1>2, <1>3, <1>4 DEF InView
<1>6. \A s \in Sources : NewFrom(v, s) = NewFrom(u, s)
  BY <1>2, <1>3, <1>4 DEF NewFrom
<1>7. Counts(b, u)
  BY <1>1 DEF Whole
<1>8. Counts(c, v)
  <2>1. Len(c.entries) = c.new + c.tried
    BY <1>2, <1>7 DEF Counts, Rewrites
  <2> QED
    BY <1>2, <1>5, <1>6, <1>7, <2>1 DEF Counts
<1> QED
  BY <1>1, <1>2, <1>8 DEF Whole

\* An entry changes its table.
LEMMA SetTableIs ==
    ASSUME NEW b, Whole(b), NEW i \in 1..Len(b.entries), NEW table \in Tables
    PROVE  LET c == set_table(b, i, table) IN
           /\ Whole(c) /\ Rewrites(b, c, i)
           /\ c.entries[i] = [b.entries[i] EXCEPT !.table = table] /\ c.entries[i] \in Rows
           /\ c.tried + InTried(b.entries[i]) = b.tried + InTried(c.entries[i])
<1>1. PICK e, f, n, w, c : /\ e = b.entries[i] /\ f = [e EXCEPT !.table = table] /\ n = Len(b.entries)
                           /\ w = Wrote(b, i, f) /\ c = set_table(b, i, table)
  OBVIOUS
<1>2. /\ e \in Rows /\ e.table \in Tables /\ e.src \in Sources /\ e.addr \in Addr
      /\ e.addr \in DOMAIN b.index /\ b.index[e.addr] = i
  BY <1>1, IndexParts DEF Rows
<1>3. /\ b.new \in Nat /\ b.tried \in Nat /\ b.bySource \in [Sources -> Nat] /\ DOMAIN b.index \subseteq Addr
      /\ DOMAIN View(b) = DOMAIN b.index /\ n \in Nat
  BY <1>1, BookParts
<1>4. CASE e.table = table
  <2>1. c = b
    BY <1>1, <1>4 DEF set_table
  <2>2. e = [e EXCEPT !.table = table]
    BY <1>2, <1>4 DEF Rows
  <2>3. Rewrites(b, b, i)
    BY DEF Rewrites
  <2> QED
    BY <1>1, <1>2, <2>1, <2>2, <2>3
<1>5. CASE e.table # table
  <2>1. f \in Rows /\ f.addr = e.addr /\ f.table = table /\ f.src = e.src
    BY <1>1, <1>2 DEF Rows
  <2>2. PICK a, u, v, m : /\ a = e.addr /\ v = View(b) /\ m = View(w)
                          /\ u = [x \in DOMAIN b.index \ {a} |-> View(b)[x]]
    OBVIOUS
  <2>3. /\ w \in Books /\ Indexed(w) /\ Rewrites(b, w, i)
        /\ w.new = b.new /\ w.tried = b.tried /\ w.bySource = b.bySource /\ w.entries[i] = f
        /\ DOMAIN m = DOMAIN b.index /\ a \in DOMAIN b.index /\ m[a] = f
        /\ \A x \in DOMAIN b.index : x # a => m[x] = v[x]
    <3>1. Whole(b) /\ i \in 1..Len(b.entries) /\ f \in Rows /\ f.addr = b.entries[i].addr /\ w = Wrote(b, i, f)
      BY <1>1, <2>1
    <3>2. /\ w \in Books /\ Indexed(w) /\ Rewrites(b, w, i)
          /\ w.new = b.new /\ w.tried = b.tried /\ w.bySource = b.bySource /\ w.entries[i] = f
          /\ DOMAIN View(w) = DOMAIN b.index /\ f.addr \in DOMAIN b.index /\ View(w)[f.addr] = f
          /\ \A x \in DOMAIN b.index : x # f.addr => View(w)[x] = View(b)[x]
      BY <3>1, WroteParts
    <3> QED
      BY <2>1, <2>2, <3>2
  <2>4. v[a] = e /\ DOMAIN v = DOMAIN b.index
    BY <1>1, <1>2, <2>2 DEF View
  <2>5. /\ DOMAIN u \subseteq Addr /\ a \in Addr /\ a \notin DOMAIN u
        /\ DOMAIN v = DOMAIN u \cup {a} /\ \A x \in DOMAIN u : v[x] = u[x]
    BY <1>2, <1>3, <2>2
  <2>6. DOMAIN m = DOMAIN u \cup {a} /\ \A x \in DOMAIN u : m[x] = u[x]
    BY <2>2, <2>3, <2>5
  <2>7. /\ Cardinality(InView(u, "New")) \in Nat /\ Cardinality(InView(u, "Tried")) \in Nat
        /\ Cardinality(InView(v, "New")) = Cardinality(InView(u, "New")) + (IF v[a].table = "New" THEN 1 ELSE 0)
        /\ Cardinality(InView(v, "Tried")) = Cardinality(InView(u, "Tried")) + (IF v[a].table = "Tried" THEN 1 ELSE 0)
        /\ \A s \in Sources : /\ Cardinality(NewFrom(u, s)) \in Nat
                              /\ Cardinality(NewFrom(v, s)) = Cardinality(NewFrom(u, s))
                                    + (IF v[a].table = "New" /\ v[a].src = s THEN 1 ELSE 0)
    BY <2>5, Gain, ZenonT(40)
  <2>8. /\ Cardinality(InView(m, "New")) = Cardinality(InView(u, "New")) + (IF m[a].table = "New" THEN 1 ELSE 0)
        /\ Cardinality(InView(m, "Tried")) = Cardinality(InView(u, "Tried")) + (IF m[a].table = "Tried" THEN 1 ELSE 0)
        /\ \A s \in Sources : Cardinality(NewFrom(m, s)) = Cardinality(NewFrom(u, s))
                                 + (IF m[a].table = "New" /\ m[a].src = s THEN 1 ELSE 0)
    <3>1. /\ DOMAIN u \subseteq Addr /\ a \in Addr /\ a \notin DOMAIN u
          /\ DOMAIN m = DOMAIN u \cup {a} /\ \A x \in DOMAIN u : m[x] = u[x]
      BY <2>5, <2>6
    <3> QED
      BY <3>1, Gain, SMTT(30)
  <2>9. /\ b.new = Cardinality(InView(v, "New")) /\ b.tried = Cardinality(InView(v, "Tried"))
        /\ \A s \in Sources : b.bySource[s] = Cardinality(NewFrom(v, s))
        /\ n = b.new + b.tried
    BY <1>1, <2>2 DEF Whole, Counts
  <2>10. v[a].table = e.table /\ m[a].table = table /\ v[a].src = e.src /\ m[a].src = e.src
    BY <2>1, <2>3, <2>4
  <2>11. PICK bs, nw, tr :
            /\ bs = [b.bySource EXCEPT ![e.src] = IF table = "Tried" THEN Less(b.bySource[e.src])
                                                  ELSE b.bySource[e.src] + 1]
            /\ nw = IF table = "Tried" THEN Less(b.new) ELSE b.new + 1
            /\ tr = IF table = "Tried" THEN b.tried + 1 ELSE Less(b.tried)
    OBVIOUS
  <2>12. c = [w EXCEPT !.new = nw, !.tried = tr, !.bySource = bs]
    <3>1. CASE table = "Tried"
      <4>1. c = [w EXCEPT !.new = Less(w.new), !.tried = w.tried + 1,
                          !.bySource = [w.bySource EXCEPT ![e.src] = Less(w.bySource[e.src])]]
        BY <1>1, <1>5, <3>1 DEF set_table
      <4> QED
        BY <2>3, <2>11, <3>1, <4>1
    <3>2. CASE table # "Tried"
      <4>1. c = [w EXCEPT !.new = w.new + 1, !.tried = Less(w.tried),
                          !.bySource = [w.bySource EXCEPT ![e.src] = w.bySource[e.src] + 1]]
        BY <1>1, <1>5, <3>2 DEF set_table
      <4> QED
        BY <2>3, <2>11, <3>2, <4>1
    <3> QED
      BY <3>1, <3>2
  <2>13. nw \in Nat /\ tr \in Nat /\ bs \in [Sources -> Nat]
    <3>1. b.bySource[e.src] \in Nat
      BY <1>2, <1>3
    <3>2. Less(b.bySource[e.src]) \in Nat /\ b.bySource[e.src] + 1 \in Nat
      BY <3>1 DEF Less
    <3>3. bs \in [Sources -> Nat]
      BY <1>2, <1>3, <2>11, <3>2
    <3> QED
      BY <1>3, <2>11, <3>3 DEF Less
  <2>14. /\ c \in Books /\ c.entries = w.entries /\ c.index = b.index /\ c.new = nw /\ c.tried = tr
         /\ c.bySource = bs
    <3>1. w \in Books
      BY <2>3
    <3>2. /\ c \in Books /\ c.entries = w.entries /\ c.index = w.index /\ c.new = nw /\ c.tried = tr
          /\ c.bySource = bs
      BY <2>12, <2>13, <3>1 DEF Books
    <3> QED
      BY <2>3, <3>2 DEF Rewrites
  <2>15. (e.table = "New" /\ table = "Tried") \/ (e.table = "Tried" /\ table = "New")
    <3>1. e.table = "New" \/ e.table = "Tried"
      BY <1>2 DEF Tables
    <3>2. table = "New" \/ table = "Tried"
      BY DEF Tables
    <3> QED
      BY <1>5, <3>1, <3>2
  <2>16. nw = Cardinality(InView(m, "New"))
    BY <1>3, <2>7, <2>8, <2>9, <2>10, <2>11, <2>15, SMTT(30) DEF Less
  <2>17. tr = Cardinality(InView(m, "Tried"))
    BY <1>3, <2>7, <2>8, <2>9, <2>10, <2>11, <2>15, SMTT(30) DEF Less
  <2>18. /\ n = nw + tr
         /\ tr + (IF e.table = "Tried" THEN 1 ELSE 0) = b.tried + (IF table = "Tried" THEN 1 ELSE 0)
    <3>1. CASE e.table = "New" /\ table = "Tried"
      <4>1. b.new = Cardinality(InView(u, "New")) + 1 /\ b.tried = Cardinality(InView(u, "Tried"))
        BY <2>7, <2>9, <2>10, <3>1
      <4>2. nw = Cardinality(InView(u, "New")) /\ tr = Cardinality(InView(u, "Tried")) + 1
        BY <1>3, <2>7, <2>11, <3>1, <4>1 DEF Less
      <4>3. n = b.new + b.tried
        BY <2>9
      <4>4. Cardinality(InView(u, "New")) \in Nat /\ Cardinality(InView(u, "Tried")) \in Nat
        BY <2>7
      <4> QED
        BY <3>1, <4>1, <4>2, <4>3, <4>4
    <3>2. CASE e.table = "Tried" /\ table = "New"
      <4>1. b.new = Cardinality(InView(u, "New")) /\ b.tried = Cardinality(InView(u, "Tried")) + 1
        BY <2>7, <2>9, <2>10, <3>2
      <4>2. nw = Cardinality(InView(u, "New")) + 1 /\ tr = Cardinality(InView(u, "Tried"))
        BY <1>3, <2>7, <2>11, <3>2, <4>1 DEF Less
      <4>3. n = b.new + b.tried
        BY <2>9
      <4>4. Cardinality(InView(u, "New")) \in Nat /\ Cardinality(InView(u, "Tried")) \in Nat
        BY <2>7
      <4> QED
        BY <3>2, <4>1, <4>2, <4>3, <4>4
    <3> QED
      BY <2>15, <3>1, <3>2
  <2>19. \A s \in Sources : bs[s] = Cardinality(NewFrom(m, s))
    <3> TAKE s \in Sources
    <3>1. bs[s] = IF e.src # s THEN b.bySource[s]
                  ELSE IF table = "Tried" THEN Less(b.bySource[s]) ELSE b.bySource[s] + 1
      BY <1>2, <1>3, <2>11
    <3> QED
      BY <2>7, <2>8, <2>9, <2>10, <2>15, <3>1, SMTT(30) DEF Less
  <2>20. View(c) = m /\ Indexed(c) /\ Rewrites(b, c, i)
    BY <2>2, <2>3, <2>14 DEF View, Indexed, Rewrites
  <2>21. Whole(c)
    <3>1. Len(c.entries) = n
      BY <1>1, <2>20 DEF Rewrites
    <3>2. Counts(c, m)
      BY <2>14, <2>16, <2>17, <2>18, <2>19, <3>1 DEF Counts
    <3> QED
      BY <2>14, <2>20, <3>2 DEF Whole
  <2>22. c.entries[i] = f
    BY <2>3, <2>14
  <2> QED
    BY <1>1, <2>1, <2>14, <2>18, <2>20, <2>21, <2>22 DEF InTried
<1> QED
  BY <1>4, <1>5

\* The same, and its failures are forgotten.
LEMMA SettledIs ==
    ASSUME NEW b, Whole(b), NEW i \in 1..Len(b.entries), NEW table \in Tables, NEW dead
    PROVE  LET c == Settled(b, i, table, dead) IN
           /\ Whole(c) /\ Rewrites(b, c, i)
           /\ c.entries[i].addr = b.entries[i].addr
           /\ c.entries[i].table = table /\ c.entries[i].src = b.entries[i].src
           /\ c.entries[i].old = b.entries[i].old
           /\ c.tried + InTried(b.entries[i]) = b.tried + InTried(c.entries[i])
<1>1. PICK s, d, e, z : /\ s = set_table(b, i, table) /\ d = b.entries[i] /\ e = s.entries[i]
                        /\ z = IF dead THEN 0 ELSE e.dead
  OBVIOUS
<1>2. /\ Whole(s) /\ Rewrites(b, s, i) /\ e = [d EXCEPT !.table = table] /\ e \in Rows
      /\ s.tried + InTried(d) = b.tried + InTried(e)
  BY <1>1, SetTableIs
<1>3. PICK f, c : f = [e EXCEPT !.fail = 0, !.dead = z] /\ c = Wrote(s, i, f)
  OBVIOUS
<1>4. d \in Rows
  BY <1>1, IndexParts
<1>5. e.addr = d.addr /\ e.table = table /\ e.src = d.src /\ e.old = d.old
  BY <1>2, <1>4 DEF Rows
<1>6. f \in Rows /\ f.addr = e.addr /\ f.table = e.table /\ f.src = e.src /\ f.old = e.old
  <2>1. z \in Nat
    BY <1>1, <1>2 DEF Rows
  <2> QED
    BY <1>2, <1>3, <2>1 DEF Rows
<1>7. i \in 1..Len(s.entries)
  BY <1>2 DEF Rewrites
<1>8. Whole(c) /\ Rewrites(s, c, i) /\ c.entries[i] = f /\ c.new = s.new /\ c.tried = s.tried
  <2>1. Whole(s) /\ f.addr = s.entries[i].addr /\ f.table = s.entries[i].table /\ f.src = s.entries[i].src
    BY <1>1, <1>2, <1>6
  <2>2. f \in Rows
    BY <1>6
  <2>3. Whole(Wrote(s, i, f)) /\ Rewrites(s, Wrote(s, i, f), i) /\ Wrote(s, i, f).entries[i] = f
        /\ Wrote(s, i, f).new = s.new /\ Wrote(s, i, f).tried = s.tried
    BY <1>7, <2>1, <2>2, WroteIs
  <2> QED
    BY <1>3, <2>3
<1>9. c = Settled(b, i, table, dead)
  BY <1>1, <1>3 DEF Settled
<1>10. Rewrites(b, c, i)
  BY <1>2, <1>8 DEF Rewrites
<1> QED
  BY <1>1, <1>2, <1>5, <1>6, <1>8, <1>9, <1>10 DEF InTried

\* One of bounded values is the greatest.
LEMMA GreatestExists ==
    ASSUME NEW S, S # {}, NEW f, NEW B \in Nat, \A i \in S : f[i] \in 0..B
    PROVE  \E i \in S : \A j \in S : f[j] <= f[i]
<1> DEFINE V == {B - f[i] : i \in S}
<1>1. V \subseteq Nat /\ V # {}
  OBVIOUS
<1>2. PICK v \in V : \A w \in V : v <= w
  <2> HIDE DEF V
  <2> QED
    BY <1>1, LeastExists
<1>3. PICK i \in S : v = B - f[i]
  BY <1>2
<1>4. ASSUME NEW j \in S
      PROVE  f[j] <= f[i]
  <2>1. B - f[i] <= B - f[j]
    BY <1>2, <1>3
  <2>2. f[i] \in 0..B /\ f[j] \in 0..B
    OBVIOUS
  <2> QED
    BY <2>1, <2>2
<1> QED
  BY <1>4

\* What it means for a key to be above another.
LEMMA AboveIs ==
    ASSUME NEW x, NEW y, Above(x, y)
    PROVE  \/ x[1] > y[1]
           \/ x[1] = y[1] /\ x[2] > y[2]
           \/ x[1] = y[1] /\ x[2] = y[2] /\ x[3] > y[3]
<1>1. PICK n \in 1..3 : x[n] > y[n] /\ \A m \in 1..n - 1 : x[m] = y[m]
  BY DEF Above
<1>2. CASE n = 1
  BY <1>1, <1>2
<1>3. CASE n = 2
  BY <1>1, <1>3
<1>4. CASE n = 3
  BY <1>1, <1>4
<1> QED
  BY <1>2, <1>3, <1>4

\* There is a first entry whose key none exceeds.
LEMMA VictimExists ==
    ASSUME NEW S, S # {}, S \subseteq Nat, NEW k, NEW B \in Nat,
           \A i \in S : k[i][1] \in 0..B /\ k[i][2] \in 0..B /\ k[i][3] \in 0..B
    PROVE  \E i \in S : /\ \A j \in S : ~Above(k[j], k[i]) /\ (j < i => k[j] # k[i])
                        /\ \A j \in S : k[j][1] <= k[i][1]
<1>1. PICK f, g, h : /\ f = [i \in S |-> k[i][1]] /\ g = [i \in S |-> k[i][2]] /\ h = [i \in S |-> k[i][3]]
  OBVIOUS
<1>2. \A i \in S : f[i] = k[i][1] /\ g[i] = k[i][2] /\ h[i] = k[i][3]
  BY <1>1
<1>3. \A i \in S : f[i] \in 0..B /\ g[i] \in 0..B /\ h[i] \in 0..B
  BY <1>2
<1>4. PICK S1 : S1 = {i \in S : \A j \in S : f[j] <= f[i]}
  OBVIOUS
<1>5. S1 # {} /\ S1 \subseteq S
  <2>1. \A i \in S : f[i] \in 0..B
    BY <1>3
  <2>2. \E i \in S : \A j \in S : f[j] <= f[i]
    BY <2>1, GreatestExists
  <2> QED
    BY <1>4, <2>2
<1>6. PICK S2 : S2 = {i \in S1 : \A j \in S1 : g[j] <= g[i]}
  OBVIOUS
<1>7. S2 # {} /\ S2 \subseteq S1
  <2>1. \A i \in S1 : g[i] \in 0..B
    BY <1>3, <1>5
  <2>2. \E i \in S1 : \A j \in S1 : g[j] <= g[i]
    BY <1>5, <2>1, GreatestExists
  <2> QED
    BY <1>6, <2>2
<1>8. PICK S3 : S3 = {i \in S2 : \A j \in S2 : h[j] <= h[i]}
  OBVIOUS
<1>9. S3 # {} /\ S3 \subseteq S2
  <2>1. \A i \in S2 : h[i] \in 0..B
    BY <1>3, <1>5, <1>7
  <2>2. \E i \in S2 : \A j \in S2 : h[j] <= h[i]
    BY <1>7, <2>1, GreatestExists
  <2> QED
    BY <1>8, <2>2
<1>10. PICK i \in S3 : \A j \in S3 : i <= j
  <2>1. S3 \subseteq Nat
    BY <1>5, <1>7, <1>9
  <2> QED
    BY <1>9, <2>1, LeastExists
<1>11. i \in S2 /\ i \in S1 /\ i \in S /\ i \in Nat
  BY <1>5, <1>7, <1>9, <1>10
<1>12. ASSUME NEW j \in S
       PROVE  /\ f[j] <= f[i] /\ (f[j] = f[i] => g[j] <= g[i])
              /\ (f[j] = f[i] /\ g[j] = g[i] => h[j] <= h[i])
              /\ (f[j] = f[i] /\ g[j] = g[i] /\ h[j] = h[i] => i <= j)
  <2>1. f[j] <= f[i]
    BY <1>4, <1>11
  <2>2. ASSUME f[j] = f[i]
        PROVE  j \in S1
    BY <1>4, <1>11, <2>2
  <2>3. ASSUME f[j] = f[i], g[j] = g[i]
        PROVE  j \in S2
    BY <1>6, <1>11, <2>2, <2>3
  <2>4. ASSUME f[j] = f[i], g[j] = g[i], h[j] = h[i]
        PROVE  j \in S3
    BY <1>8, <1>10, <2>3, <2>4
  <2>5. j \in S1 => g[j] <= g[i]
    BY <1>6, <1>11
  <2>6. j \in S2 => h[j] <= h[i]
    BY <1>8, <1>10
  <2>7. j \in S3 => i <= j
    BY <1>10
  <2> QED
    BY <2>1, <2>2, <2>3, <2>4, <2>5, <2>6, <2>7
<1>13. ASSUME NEW j \in S
       PROVE  ~Above(k[j], k[i]) /\ (j < i => k[j] # k[i]) /\ k[j][1] <= k[i][1]
  <2>1. /\ f[j] = k[j][1] /\ g[j] = k[j][2] /\ h[j] = k[j][3] /\ f[i] = k[i][1] /\ g[i] = k[i][2] /\ h[i] = k[i][3]
        /\ f[j] \in 0..B /\ g[j] \in 0..B /\ h[j] \in 0..B /\ f[i] \in 0..B /\ g[i] \in 0..B /\ h[i] \in 0..B
        /\ j \in Nat
    BY <1>2, <1>3, <1>11
  <2>2. ASSUME Above(k[j], k[i])
        PROVE  FALSE
    <3>1. \/ k[j][1] > k[i][1]
          \/ k[j][1] = k[i][1] /\ k[j][2] > k[i][2]
          \/ k[j][1] = k[i][1] /\ k[j][2] = k[i][2] /\ k[j][3] > k[i][3]
      BY <2>2, AboveIs
    <3>2. \/ f[j] > f[i]
          \/ f[j] = f[i] /\ g[j] > g[i]
          \/ f[j] = f[i] /\ g[j] = g[i] /\ h[j] > h[i]
      BY <2>1, <3>1
    <3> QED
      BY <1>12, <2>1, <3>2
  <2>3. ASSUME j < i, k[j] = k[i]
        PROVE  FALSE
    BY <1>11, <1>12, <2>1, <2>3
  <2>4. k[j][1] <= k[i][1]
    BY <1>12, <2>1
  <2> QED
    BY <2>2, <2>3, <2>4
<1> QED
  BY <1>11, <1>13

\* A table that holds something by its counter has an entry.
LEMMA TableHas ==
    ASSUME NEW b, Whole(b), NEW t \in Tables, Cardinality(InView(View(b), t)) > 0
    PROVE  InTable(b, t) # {}
<1>1. InView(View(b), t) # {}
  BY FS_EmptySet
<1>2. PICK a \in DOMAIN b.index : View(b)[a].table = t
  BY <1>1, BookParts DEF InView
<1>3. b.entries[b.index[a]].table = t /\ b.index[a] \in 1..Len(b.entries)
  BY <1>2, IndexParts DEF View
<1>4. DOMAIN b.entries = 1..Len(b.entries)
  BY BookParts
<1> QED
  BY <1>3, <1>4 DEF InTable

\* What a key is made of.
LEMMA KeyIs ==
    ASSUME NEW b, Whole(b), NEW i \in 1..Len(b.entries), NEW B, B = Cardinality(Addr) + Len(b.entries) + 1
    PROVE  LET key == EvictKey(b, b.entries[i]) IN
           /\ B \in Nat /\ key[1] \in 0..B /\ key[2] \in 0..B /\ key[3] \in 0..B
           /\ key[1] = IF b.entries[i].src # 0 THEN 1 ELSE 0
<1>1. PICK e, n, g, m, v :
         /\ e = b.entries[i] /\ n = Len(b.entries) /\ v = View(b)
         /\ g = {k \in InTable(b, "New") : AddrGroup[b.entries[k].addr] = AddrGroup[e.addr]}
         /\ m = NewFrom(v, e.src)
  OBVIOUS
<1>2. e \in Rows /\ e.src \in Sources
  BY <1>1, IndexParts DEF Rows
<1>3. n \in Nat /\ DOMAIN b.entries = 1..n /\ DOMAIN v = DOMAIN b.index /\ DOMAIN b.index \subseteq Addr
  BY <1>1, BookParts
<1>4. IsFiniteSet(Addr) /\ Cardinality(Addr) \in Nat
  BY BookConstants, FS_CardinalityType
<1>5. Cardinality(g) \in 0..n
  <2>1. g \subseteq 1..n
    BY <1>1, <1>3 DEF InTable
  <2>2. IsFiniteSet(1..n) /\ Cardinality(1..n) = n
    BY <1>3, FS_Interval
  <2>3. Cardinality(g) \in Nat /\ Cardinality(g) <= n
    BY <2>1, <2>2, FS_Subset, FS_CardinalityType
  <2> QED
    BY <1>3, <2>3
<1>6. b.bySource[e.src] \in Nat /\ b.bySource[e.src] <= Cardinality(Addr)
  <2>1. b.bySource[e.src] = Cardinality(m)
    BY <1>1, <1>2 DEF Whole, Counts
  <2>2. m \subseteq Addr
    BY <1>1, <1>3 DEF NewFrom
  <2>3. Cardinality(m) \in Nat /\ Cardinality(m) <= Cardinality(Addr)
    BY <1>4, <2>2, FS_Subset, FS_CardinalityType
  <2> QED
    BY <2>1, <2>3
<1>7. PICK key : key = EvictKey(b, e)
  OBVIOUS
<1>8. key = <<IF e.src # 0 THEN 1 ELSE 0, b.bySource[e.src], Cardinality(g)>>
  BY <1>1, <1>7 DEF EvictKey
<1>9. key[1] = (IF e.src # 0 THEN 1 ELSE 0) /\ key[2] = b.bySource[e.src] /\ key[3] = Cardinality(g)
  BY <1>8
<1>10. B \in Nat
  BY <1>1, <1>3, <1>4
<1>11. key[1] \in 0..B
  BY <1>1, <1>3, <1>4, <1>9
<1>12. key[2] \in 0..B
  BY <1>1, <1>3, <1>4, <1>6, <1>9
<1>13. key[3] \in 0..B
  BY <1>1, <1>3, <1>4, <1>5, <1>9
<1> QED
  BY <1>1, <1>7, <1>9, <1>10, <1>11, <1>12, <1>13

\* An entry of New is evicted, one a peer told of unless there is none.
LEMMA EvictIs ==
    ASSUME NEW b, Whole(b), b.new > 0
    PROVE  \E i \in InTable(b, "New") :
              /\ i \in 1..Len(b.entries) /\ b.entries[i].table = "New" /\ evict_one_new(b) = remove_at(b, i)
              /\ b.entries[i].src = 0 => \A j \in InTable(b, "New") : b.entries[j].src = 0
<1>1. PICK new, n, B, k : /\ new = InTable(b, "New") /\ n = Len(b.entries) /\ B = Cardinality(Addr) + n + 1
                          /\ k = [i \in new |-> EvictKey(b, b.entries[i])]
  OBVIOUS
<1>2. n \in Nat /\ new \subseteq 1..n /\ \A i \in new : b.entries[i].table = "New"
  BY <1>1, BookParts DEF InTable
<1>3. new # {}
  <2>1. "New" \in Tables
    BY DEF Tables
  <2>2. Cardinality(InView(View(b), "New")) > 0
    BY DEF Whole, Counts
  <2> QED
    BY <1>1, <2>1, <2>2, TableHas
<1>4. \A i \in new : /\ B \in Nat /\ k[i][1] \in 0..B /\ k[i][2] \in 0..B /\ k[i][3] \in 0..B
                     /\ k[i][1] = IF b.entries[i].src # 0 THEN 1 ELSE 0
  <2> TAKE i \in new
  <2>1. i \in 1..Len(b.entries) /\ B = Cardinality(Addr) + Len(b.entries) + 1 /\ k[i] = EvictKey(b, b.entries[i])
    BY <1>1, <1>2
  <2>2. LET key == EvictKey(b, b.entries[i]) IN
        /\ B \in Nat /\ key[1] \in 0..B /\ key[2] \in 0..B /\ key[3] \in 0..B
        /\ key[1] = IF b.entries[i].src # 0 THEN 1 ELSE 0
    BY <2>1, KeyIs
  <2> QED
    BY <2>1, <2>2
<1>5. PICK victims : victims = {i \in new : \A j \in new : ~Above(k[j], k[i]) /\ (j < i => k[j] # k[i])}
  OBVIOUS
<1>6. \E i \in new : /\ \A j \in new : ~Above(k[j], k[i]) /\ (j < i => k[j] # k[i])
                     /\ \A j \in new : k[j][1] <= k[i][1]
  <2>1. B \in Nat
    BY <1>3, <1>4
  <2>3. new \subseteq Nat
    BY <1>2
  <2>2. \A i \in new : k[i][1] \in 0..B /\ k[i][2] \in 0..B /\ k[i][3] \in 0..B
    BY <1>4
  <2> QED
    BY <1>3, <2>1, <2>2, <2>3, VictimExists
<1>7. PICK i : i = CHOOSE x \in victims : TRUE
  OBVIOUS
<1>8. i \in victims
  BY <1>5, <1>6, <1>7
<1>9. evict_one_new(b) = remove_at(b, i)
  <2>1. victims = {x \in new : \A j \in new : ~Above(EvictKey(b, b.entries[j]), EvictKey(b, b.entries[x]))
                                 /\ (j < x => EvictKey(b, b.entries[j]) # EvictKey(b, b.entries[x]))}
    BY <1>1, <1>5
  <2> QED
    BY <1>1, <1>3, <1>7, <2>1 DEF evict_one_new
<1>10. i \in new /\ \A j \in new : ~Above(k[j], k[i])
  BY <1>5, <1>8
<1>11. ASSUME b.entries[i].src = 0, NEW j \in new
       PROVE  b.entries[j].src = 0
  <2> SUFFICES ASSUME b.entries[j].src # 0
               PROVE  FALSE
    OBVIOUS
  <2>1. k[j][1] = 1 /\ k[i][1] = 0
    BY <1>4, <1>10, <1>11
  <2>2. Above(k[j], k[i])
    BY <2>1 DEF Above
  <2> QED
    BY <1>10, <2>2
<1> QED
  BY <1>1, <1>2, <1>9, <1>10, <1>11

\* The two tables within the file's limit.
Sized(b) == Len(b.entries) <= NewMax + TriedMax /\ b.tried <= TriedMax

RankedTries == DOMAIN tries \subseteq Addr /\ \A a \in DOMAIN tries : tries[a] \in Nat

BookInv == Whole(book) /\ Sized(book) /\ RankedTries

\* The limits are positive.
LEMMA Limits ==
    /\ NewMax \in Nat \ {0} /\ TriedMax \in Nat \ {0} /\ PerSource \in Nat \ {0} /\ PerGroup \in Nat \ {0}
    /\ DemoteAfter \in Nat \ {0} /\ DemoteAfterDeaths \in Nat \ {0} /\ MaxSample \in Nat \ {0}
  BY BookConstants

\* The table tried is brought back to its cap.
LEMMA EnforceIs ==
    ASSUME RankedTries, NEW b, Whole(b), b.tried <= TriedMax + 1
    PROVE  LET c == enforce_tried_cap(b) IN
           /\ Whole(c) /\ c.tried <= TriedMax /\ Len(c.entries) = Len(b.entries) /\ c.index = b.index
<1>1. b.tried \in Nat /\ TriedMax \in Nat /\ Len(b.entries) \in Nat /\ DOMAIN b.entries = 1..Len(b.entries)
  BY BookParts, Limits
<1>2. CASE b.tried <= TriedMax
  <2>1. enforce_tried_cap(b) = b
    <3>1. ~(b.tried > TriedMax)
      BY <1>1, <1>2
    <3> QED
      BY <3>1, Zenon DEF enforce_tried_cap
  <2> QED
    BY <1>2, <2>1
<1>3. CASE b.tried > TriedMax
  <2>1. PICK tried, at : /\ tried = InTable(b, "Tried")
                         /\ at = [i \in tried |-> Attempt(b.entries[i].addr)]
    OBVIOUS
  <2>2. tried \subseteq 1..Len(b.entries) /\ tried \subseteq Nat /\ \A i \in tried : b.entries[i].table = "Tried"
    BY <1>1, <2>1 DEF InTable
  <2>3. tried # {}
    <3>1. "Tried" \in Tables
      BY DEF Tables
    <3>2. Cardinality(InView(View(b), "Tried")) > 0
      BY <1>1, <1>3 DEF Whole, Counts
    <3> QED
      BY <2>1, <3>1, <3>2, TableHas
  <2>4. \A i \in tried : at[i] \in Nat
    BY <2>1 DEF RankedTries, Attempt
  <2>5. \E i \in tried : \A j \in tried : at[i] < at[j] \/ (at[i] = at[j] /\ i <= j)
    <3>1. PICK V : V = {at[i] : i \in tried}
      OBVIOUS
    <3>2. V # {} /\ V \subseteq Nat
      BY <2>3, <2>4, <3>1
    <3>3. PICK v \in V : \A w \in V : v <= w
      BY <3>2, LeastExists
    <3>4. PICK first : first = {i \in tried : at[i] = v}
      OBVIOUS
    <3>5. first # {} /\ first \subseteq Nat
      BY <2>2, <3>1, <3>4
    <3>6. PICK i \in first : \A j \in first : i <= j
      BY <3>5, LeastExists
    <3>7. ASSUME NEW j \in tried
          PROVE  at[i] < at[j] \/ (at[i] = at[j] /\ i <= j)
      <4>1. i \in tried /\ at[i] = v /\ at[j] \in V /\ at[i] \in Nat /\ at[j] \in Nat
        BY <2>4, <3>1, <3>4, <3>6
      <4>2. at[i] <= at[j]
        BY <3>3, <4>1
      <4>3. at[i] = at[j] => j \in first
        BY <3>4, <4>1
      <4> QED
        BY <3>6, <4>1, <4>2, <4>3
    <3> QED
      BY <3>4, <3>6, <3>7
  <2>6. PICK oldest : oldest = CHOOSE i \in tried : \A j \in tried :
            \/ Attempt(b.entries[i].addr) < Attempt(b.entries[j].addr)
            \/ Attempt(b.entries[i].addr) = Attempt(b.entries[j].addr) /\ i <= j
    OBVIOUS
  <2>7. oldest \in tried
    <3>1. \E i \in tried : \A j \in tried :
            \/ Attempt(b.entries[i].addr) < Attempt(b.entries[j].addr)
            \/ Attempt(b.entries[i].addr) = Attempt(b.entries[j].addr) /\ i <= j
      BY <2>1, <2>5
    <3> QED
      BY <2>6, <3>1
  <2>8. enforce_tried_cap(b) = Settled(b, oldest, "New", FALSE)
    BY <1>3, <2>1, <2>6 DEF enforce_tried_cap
  <2>9. oldest \in 1..Len(b.entries) /\ "New" \in Tables
    BY <2>2, <2>7 DEF Tables
  <2>10. PICK c, dead : dead = FALSE /\ c = Settled(b, oldest, "New", dead)
    OBVIOUS
  <2>11. /\ Whole(c) /\ Rewrites(b, c, oldest) /\ c.entries[oldest].table = "New"
         /\ c.tried + InTried(b.entries[oldest]) = b.tried + InTried(c.entries[oldest])
    <3>1. Whole(b) /\ oldest \in 1..Len(b.entries) /\ "New" \in Tables /\ c = Settled(b, oldest, "New", dead)
      BY <2>9, <2>10
    <3> QED
      BY <3>1, SettledIs
  <2>12. c.tried \in Nat
    BY <2>11, BookParts
  <2>13. c.tried <= TriedMax
    BY <1>1, <2>2, <2>7, <2>11, <2>12 DEF InTried
  <2> QED
    <3>1. enforce_tried_cap(b) = c
      BY <2>8, <2>10
    <3> QED
      BY <2>11, <2>13, <3>1 DEF Rewrites
<1> QED
  BY <1>1, <1>2, <1>3

\* One turn of reap_expired.
LEMMA ReapOneIs ==
    ASSUME NEW s, Whole(s.b), s.i \in 1..Len(s.b.entries)
    PROVE  LET t == ReapOne(s) IN
           /\ Whole(t.b) /\ t.i \in Nat \ {0} /\ t.b.tried = s.b.tried
           /\ DOMAIN t.b.index \subseteq DOMAIN s.b.index
           /\ Len(t.b.entries) - t.i = Len(s.b.entries) - s.i - 1
           /\ Len(t.b.entries) <= Len(s.b.entries)
<1>1. PICK b, i, e : b = s.b /\ i = s.i /\ e = s.b.entries[s.i]
  OBVIOUS
<1>2. i \in 1..Len(b.entries) /\ Whole(b) /\ Len(b.entries) \in Nat
  BY <1>1, BookParts
<1>3. CASE e.table = "New" /\ ~e.seed /\ e.old
  <2>1. ReapOne(s) = [b |-> remove_at(b, i), i |-> i]
    BY <1>1, <1>3 DEF ReapOne
  <2>2. PICK c : c = remove_at(b, i)
    OBVIOUS
  <2>3. /\ Whole(c) /\ Len(c.entries) = Len(b.entries) - 1
        /\ DOMAIN c.index = DOMAIN b.index \ {b.entries[i].addr}
        /\ b.tried = c.tried + (IF b.entries[i].table = "Tried" THEN 1 ELSE 0)
    BY <1>2, <2>2, RemoveIs
  <2>4. c.tried \in Nat
    BY <2>3, BookParts
  <2>5. b.tried = c.tried
    BY <1>1, <1>3, <2>3, <2>4
  <2> QED
    BY <1>1, <1>2, <2>1, <2>2, <2>3, <2>5, SMTT(30)
<1>4. CASE ~(e.table = "New" /\ ~e.seed /\ e.old)
  <2>1. ReapOne(s) = [b |-> b, i |-> i + 1]
    BY <1>1, <1>4 DEF ReapOne
  <2> QED
    BY <1>1, <1>2, <2>1
<1> QED
  BY <1>3, <1>4

Scans == [b : Books, i : Nat]


\* What has been reaped is a book without some of its new addresses.
LEMMA ReapedIs ==
    ASSUME NEW b, Whole(b)
    PROVE  LET c == Reaped(b) IN
           /\ Whole(c) /\ c.tried = b.tried /\ DOMAIN c.index \subseteq DOMAIN b.index
           /\ Len(c.entries) <= Len(b.entries)
<1> DEFINE n == Len(b.entries)
           x == [b |-> b, i |-> 1]
           G == [p \in (1..n) \X Scans |-> IF ReapOne(p[2]) \in Scans THEN ReapOne(p[2]) ELSE x]
           scan[k \in 0..Len(b.entries)] == IF k = 0 THEN [b |-> b, i |-> 1] ELSE ReapOne(scan[k - 1])
           OK(s, k) == /\ Whole(s.b) /\ s.i \in Nat \ {0} /\ s.b.tried = b.tried
                       /\ DOMAIN s.b.index \subseteq DOMAIN b.index
                       /\ Len(s.b.entries) + 1 - s.i = n - k /\ Len(s.b.entries) <= n
<1>1. n \in Nat
  BY BookParts
<1>2. x \in Scans /\ OK(x, 0)
  <2>1. x \in Scans
    BY DEF Whole, Scans
  <2> QED
    BY <1>1, <2>1
<1>3. G \in [(1..n) \X Scans -> Scans]
  <2>1. x \in Scans
    BY <1>2
  <2> HIDE DEF x, n
  <2> QED
    BY <2>1
<1>4. ASSUME NEW k \in 1..n, NEW s \in Scans, OK(s, k - 1)
      PROVE  ReapOne(s) \in Scans /\ OK(ReapOne(s), k)
  <2>1. /\ Whole(s.b) /\ s.i \in Nat \ {0} /\ s.b.tried = b.tried
        /\ DOMAIN s.b.index \subseteq DOMAIN b.index
        /\ Len(s.b.entries) + 1 - s.i = n - (k - 1) /\ Len(s.b.entries) <= n
    BY <1>4
  <2>2. Len(s.b.entries) \in Nat
    BY <2>1, BookParts
  <2>3. s.i \in 1..Len(s.b.entries)
    <3> HIDE DEF n, OK, x
    <3>1. PICK m, u, v : m = n /\ u = Len(s.b.entries) /\ v = s.i
      OBVIOUS
    <3>2. m \in Int /\ u \in Nat /\ v \in Nat \ {0} /\ k \in 1..m /\ u + 1 - v = m - (k - 1)
      BY <1>1, <2>1, <2>2, <3>1
    <3>3. v \in 1..u
      BY <3>2
    <3> QED
      BY <3>1, <3>3
  <2>4. PICK t : t = ReapOne(s)
    OBVIOUS
  <2>5. /\ Whole(t.b) /\ t.i \in Nat \ {0} /\ t.b.tried = s.b.tried
        /\ DOMAIN t.b.index \subseteq DOMAIN s.b.index
        /\ Len(t.b.entries) - t.i = Len(s.b.entries) - s.i - 1
        /\ Len(t.b.entries) <= Len(s.b.entries)
    BY <2>1, <2>3, <2>4, ReapOneIs
  <2>6. t = [b |-> t.b, i |-> t.i]
    BY <2>4 DEF ReapOne
  <2>7. t \in Scans
    BY <2>5, <2>6 DEF Whole, Scans
  <2>8. Len(t.b.entries) \in Nat
    BY <2>5, BookParts
  <2>9. Len(t.b.entries) + 1 - t.i = n - k /\ Len(t.b.entries) <= n
    <3> HIDE DEF n, OK, x
    <3>1. k \in Int /\ n \in Int /\ s.i \in Int /\ t.i \in Int /\ Len(s.b.entries) \in Int /\ Len(t.b.entries) \in Int
      BY <1>1, <2>1, <2>2, <2>5, <2>8
    <3>2. /\ Len(t.b.entries) - t.i = Len(s.b.entries) - s.i - 1
          /\ Len(s.b.entries) + 1 - s.i = n - (k - 1)
      BY <2>1, <2>5
    <3>3. PICK p, q, u, v : p = Len(t.b.entries) /\ q = t.i /\ u = Len(s.b.entries) /\ v = s.i
      OBVIOUS
    <3>5. p \in Int /\ q \in Int /\ u \in Int /\ v \in Int /\ p - q = u - v - 1 /\ u + 1 - v = n - (k - 1)
      BY <3>1, <3>2, <3>3
    <3>6. p + 1 - q = n - k
      BY <3>1, <3>5
    <3>4. Len(t.b.entries) <= n
      BY <2>1, <2>5, <3>1
    <3> QED
      BY <3>3, <3>4, <3>6
  <2> QED
    BY <2>1, <2>4, <2>5, <2>7, <2>9
<1>5. PICK g : Iterates(g, n, Scans, x, G)
  <2> HIDE DEF G, n, x, OK
  <2> QED
    BY <1>1, <1>2, <1>3, IterationExists
<1>6. g \in [0..n -> Scans] /\ g[0] = x /\ \A k \in 1..n : g[k] = G[<<k, g[k - 1]>>]
  <2> HIDE DEF G, n, x
  <2> QED
    BY <1>5, Zenon DEF Iterates
<1>7. \A k \in 1..n : k - 1 \in 0..n /\ k \in 0..n /\ g[k - 1] \in Scans
                      /\ (ReapOne(g[k - 1]) \in Scans => g[k] = ReapOne(g[k - 1]))
  <2> HIDE DEF x, n
  <2> TAKE k \in 1..n
  <2>1. k - 1 \in 0..n /\ k \in 0..n /\ g[k - 1] \in Scans
    BY <1>1, <1>6
  <2> QED
    BY <2>1, <1>6
<1> HIDE DEF G
<1> DEFINE S == {k \in 0..n : OK(g[k], k)}
<1>8. \A k \in 0..n : k \in S
  <2>1. 0 \in S
    <3> HIDE DEF x, OK
    <3> QED
      BY <1>1, <1>2, <1>6
  <2>2. \A k \in 1..n : k - 1 \in S => k \in S
    <3> HIDE DEF x, OK, n
    <3> QED
      BY <1>4, <1>7
  <2> HIDE DEF S, n, OK, x
  <2> QED
    BY <1>1, <2>1, <2>2, UpTo
<1>9. \A k \in 1..n : g[k] = ReapOne(g[k - 1])
  <2> HIDE DEF x, OK, n
  <2> QED
    BY <1>4, <1>7, <1>8
<1>10. g = [k \in 0..Len(b.entries) |-> IF k = 0 THEN x ELSE ReapOne(g[k - 1])]
  <2> HIDE DEF x, OK, S
  <2>1. \A k \in 0..n : g[k] = IF k = 0 THEN x ELSE ReapOne(g[k - 1])
    <3> TAKE k \in 0..n
    <3>1. CASE k = 0
      BY <1>6, <3>1
    <3>2. CASE k # 0
      <4>1. k \in 1..n
        BY <1>1, <3>2
      <4> QED
        BY <4>1, <3>2, <1>9
    <3> QED
      BY <3>1, <3>2
  <2> QED
    BY <1>6, <2>1
<1>11. scan = [k \in 0..Len(b.entries) |-> IF k = 0 THEN x ELSE ReapOne(scan[k - 1])]
  <2> HIDE DEF OK, S
  <2> QED
    BY <1>10
<1>12. Reaped(b) = scan[n].b
  BY DEF Reaped, scan
<1> HIDE DEF scan
<1> DEFINE E == {k \in 0..n : scan[k] = g[k]}
<1>13. \A k \in 0..n : k \in E
  <2> HIDE DEF OK, S, x
  <2>1. 0 \in E
    BY <1>1, <1>6, <1>11
  <2>2. ASSUME NEW k \in 1..n, k - 1 \in E
        PROVE  k \in E
    <3>1. k \in 0..n /\ k # 0 /\ scan[k - 1] = g[k - 1]
      BY <1>1, <2>2
    <3>2. scan[k] = ReapOne(scan[k - 1])
      BY <1>11, <3>1
    <3> QED
      BY <1>9, <3>1, <3>2
  <2> HIDE DEF E, n
  <2> QED
    BY <1>1, <2>1, <2>2, UpTo
<1>14. PICK s : s = g[n]
  OBVIOUS
<1>15. OK(s, n) /\ Reaped(b) = s.b
  <2> HIDE DEF OK, x
  <2>1. n \in 0..n
    BY <1>1
  <2> QED
    BY <1>8, <1>12, <1>13, <1>14, <2>1
<1>16. /\ Whole(s.b) /\ s.i \in Nat \ {0} /\ s.b.tried = b.tried
       /\ DOMAIN s.b.index \subseteq DOMAIN b.index /\ Len(s.b.entries) <= n
  BY <1>15
<1> QED
  BY <1>15, <1>16

\* The book of a first start.
LEMMA EmptyIs ==
    /\ Whole(EmptyBook) /\ EmptyBook.new = 0 /\ EmptyBook.tried = 0
    /\ DOMAIN EmptyBook.index = {} /\ EmptyBook.entries = <<>>
<1>1. PICK b : b = EmptyBook
  OBVIOUS
<1>2. /\ b.entries = <<>> /\ b.index = <<>> /\ b.new = 0 /\ b.tried = 0
      /\ b.bySource = [s \in Sources |-> 0]
  BY <1>1 DEF EmptyBook, Sources
<1>3. <<>> \in Seq(Rows) /\ Len(<<>>) = 0
  OBVIOUS
<1>4. DOMAIN b.index = {} /\ b.index \in Indexes
  <2>1. PICK q : q = <<>>
    OBVIOUS
  <2>2. q \in Seq(Nat) /\ Len(q) = 0
    BY <2>1
  <2>3. DOMAIN q = {} /\ q \in [1..0 -> Nat]
    BY <2>2
  <2>4. 1..0 = {} /\ {} \in SUBSET Addr
    OBVIOUS
  <2>5. q \in [{} -> Nat]
    BY <2>3, <2>4
  <2> QED
    BY <1>2, <2>1, <2>3, <2>4, <2>5 DEF Indexes
<1>5. b.bySource \in [Sources -> Nat] /\ \A s \in Sources : b.bySource[s] = 0
  BY <1>2
<1>6. b \in Books
  <2>1. b = [entries |-> b.entries, index |-> b.index, bySource |-> b.bySource, new |-> b.new, tried |-> b.tried]
    BY <1>1 DEF EmptyBook
  <2>2. b.entries \in Seq(Rows) /\ b.new \in Nat /\ b.tried \in Nat /\ b.index \in Indexes
        /\ b.bySource \in [Sources -> Nat]
    BY <1>2, <1>3, <1>4, <1>5
  <2> QED
    BY <2>1, <2>2 DEF Books
<1>7. Indexed(b)
  BY <1>2, <1>3, <1>4 DEF Indexed
<1>8. Counts(b, View(b))
  <2>1. DOMAIN View(b) = {}
    BY <1>4 DEF View
  <2>2. /\ InView(View(b), "New") = {} /\ InView(View(b), "Tried") = {}
        /\ \A s \in Sources : NewFrom(View(b), s) = {}
    BY <2>1 DEF InView, NewFrom
  <2>3. Cardinality({}) = 0
    BY FS_EmptySet
  <2>4. /\ b.new = Cardinality(InView(View(b), "New")) /\ b.tried = Cardinality(InView(View(b), "Tried"))
        /\ \A s \in Sources : b.bySource[s] = Cardinality(NewFrom(View(b), s))
    BY <1>2, <1>5, <2>2, <2>3
  <2>5. Len(b.entries) = b.new + b.tried
    BY <1>2, <1>3
  <2> QED
    BY <2>4, <2>5 DEF Counts
<1> QED
  BY <1>1, <1>2, <1>4, <1>6, <1>7, <1>8 DEF Whole

\* What a file holds: the entries of a book, each once.
FileOf(b, recs) ==
    /\ recs \in Seq(Rows)
    /\ \A i \in 1..Len(recs) : recs[i].addr \in DOMAIN b.index /\ At(b, recs[i].addr) = recs[i]
    /\ \A i, j \in 1..Len(recs) : recs[i].addr = recs[j].addr => i = j

\* What has been loaded from the first k records of it.
Loaded(c, recs, k) ==
    /\ Whole(c) /\ c.new <= NewMax /\ c.tried <= TriedMax
    /\ \A a \in DOMAIN c.index : \E j \in 1..k : recs[j].addr = a /\ At(c, a).table = recs[j].table
    /\ \A j \in 1..k : recs[j].table = "Tried" /\ ~recs[j].old => recs[j].addr \in DOMAIN c.index

\* There is room for each tried record that has not been loaded.
LEMMA RoomForTried ==
    ASSUME NEW b, Whole(b), Sized(b), NEW recs, FileOf(b, recs), NEW k \in 1..Len(recs), NEW c,
           Loaded(c, recs, k - 1), recs[k].table = "Tried"
    PROVE  c.tried < TriedMax /\ ~Has(c, recs[k].addr)
<1>1. PICK n, a, v, w : n = Len(recs) /\ a = recs[k].addr /\ v = View(b) /\ w = View(c)
  OBVIOUS
<1>2. n \in Nat /\ k \in 1..n /\ a \in DOMAIN b.index
  BY <1>1 DEF FileOf
<1>3. ASSUME NEW x \in DOMAIN c.index
      PROVE  x # a /\ x \in DOMAIN b.index /\ At(c, x).table = At(b, x).table
  <2>1. PICK j \in 1..(k - 1) : recs[j].addr = x /\ At(c, x).table = recs[j].table
    BY DEF Loaded
  <2>2. j \in 1..n /\ j # k
    BY <1>2
  <2>3. At(b, x) = recs[j] /\ x \in DOMAIN b.index
    BY <1>1, <2>1, <2>2 DEF FileOf
  <2>4. x # a
    BY <1>1, <1>2, <2>1, <2>2 DEF FileOf
  <2> QED
    BY <2>1, <2>3, <2>4
<1>4. /\ DOMAIN v = DOMAIN b.index /\ DOMAIN w = DOMAIN c.index /\ DOMAIN b.index \subseteq Addr
      /\ \A x \in DOMAIN b.index : v[x] = At(b, x)
      /\ \A x \in DOMAIN c.index : w[x] = At(c, x)
  BY <1>1, BookParts DEF View, At, Loaded
<1>5. PICK T, U : T = InView(v, "Tried") /\ U = InView(w, "Tried")
  OBVIOUS
<1>6. a \in T /\ U \subseteq T \ {a}
  <2>1. At(b, a).table = "Tried"
    BY <1>1, <1>2 DEF FileOf
  <2>2. a \in T
    BY <1>2, <1>4, <1>5, <2>1 DEF InView
  <2>3. ASSUME NEW x \in U
        PROVE  x \in T \ {a}
    BY <1>3, <1>4, <1>5 DEF InView
  <2> QED
    BY <2>2, <2>3
<1>7. IsFiniteSet(T)
  <2>1. T \subseteq Addr
    BY <1>4, <1>5 DEF InView
  <2> QED
    BY <2>1, BookConstants, FS_Subset
<1>8. IsFiniteSet(T \ {a}) /\ Cardinality(T \ {a}) = Cardinality(T) - 1 /\ Cardinality(T) \in Nat
  BY <1>6, <1>7, FS_RemoveElement, FS_CardinalityType
<1>9. Cardinality(U) <= Cardinality(T) - 1 /\ Cardinality(U) \in Nat
  <2>1. IsFiniteSet(U) /\ Cardinality(U) <= Cardinality(T \ {a})
    BY <1>6, <1>8, FS_Subset
  <2>2. Cardinality(U) \in Nat
    BY <2>1, FS_CardinalityType
  <2> QED
    BY <1>8, <2>1, <2>2
<1>10. c.tried = Cardinality(U) /\ b.tried = Cardinality(T)
  BY <1>1, <1>5 DEF Loaded, Whole, Counts
<1>11. c.tried < TriedMax
  BY <1>8, <1>9, <1>10, Limits DEF Sized
<1> QED
  BY <1>1, <1>3, <1>11 DEF Has

\* One record more.
LEMMA RestoreOneIs ==
    ASSUME NEW b, Whole(b), Sized(b), NEW recs, FileOf(b, recs), NEW k \in 1..Len(recs), NEW c,
           Loaded(c, recs, k - 1)
    PROVE  Loaded(RestoreOne(c, recs[k]), recs, k)
<1>1. PICK n, r, d : n = Len(recs) /\ r = recs[k] /\ d = RestoreOne(c, r)
  OBVIOUS
<1>2. n \in Nat /\ k \in 1..n /\ r \in Rows /\ k \in 1..k
  BY <1>1 DEF FileOf
<1>3. Whole(c) /\ c.new <= NewMax /\ c.tried <= TriedMax
  BY DEF Loaded
<1>4. \A a \in DOMAIN c.index : \E j \in 1..k : recs[j].addr = a /\ At(c, a).table = recs[j].table
  <2> TAKE a \in DOMAIN c.index
  <2>1. PICK j \in 1..(k - 1) : recs[j].addr = a /\ At(c, a).table = recs[j].table
    BY DEF Loaded
  <2>2. j \in 1..k
    BY <1>2
  <2> QED
    BY <2>1, <2>2
<1>5. \A j \in 1..(k - 1) : recs[j].table = "Tried" /\ ~recs[j].old => recs[j].addr \in DOMAIN c.index
  BY DEF Loaded
<1>6. \A j \in 1..k : j # k => j \in 1..(k - 1)
  BY <1>2
<1>7. c.new \in Nat /\ c.tried \in Nat
  BY <1>3, BookParts
<1>8. CASE ~r.old /\ ~Has(c, r.addr) /\ Loads(c, r)
  <2>1. PICK e : e = AddrEntry(r.addr, FALSE, r.src, r.table)
    OBVIOUS
  <2>2. e \in Rows /\ e.addr = r.addr /\ e.table = r.table
    BY <1>2, <2>1 DEF Rows, AddrEntry
  <2>3. d = push(c, e)
    BY <1>1, <1>8, <2>1 DEF RestoreOne
  <2>4. /\ Whole(d) /\ DOMAIN d.index = DOMAIN c.index \cup {e.addr} /\ At(d, e.addr) = e
        /\ \A x \in DOMAIN c.index : At(d, x) = At(c, x)
        /\ d.new = c.new + (IF e.table = "New" THEN 1 ELSE 0)
        /\ d.tried = c.tried + (IF e.table = "Tried" THEN 1 ELSE 0)
    <3>1. Whole(c) /\ e \in Rows /\ ~Has(c, e.addr)
      BY <1>3, <1>8, <2>2
    <3> QED
      BY <2>3, <3>1, PushIs
  <2>5. r.table = "New" \/ r.table = "Tried"
    BY <1>2 DEF Rows, Tables
  <2>6. d.new <= NewMax /\ d.tried <= TriedMax
    <3>1. CASE r.table = "Tried"
      <4>1. c.tried < TriedMax
        BY <1>8, <3>1 DEF Loads
      <4> QED
        BY <1>3, <1>7, <2>2, <2>4, <3>1, <4>1, Limits
    <3>2. CASE r.table = "New"
      <4>1. c.new < NewMax
        BY <1>8, <3>2 DEF Loads
      <4> QED
        BY <1>3, <1>7, <2>2, <2>4, <3>2, <4>1, Limits
    <3> QED
      BY <2>5, <3>1, <3>2
  <2>7. \A a \in DOMAIN d.index : \E j \in 1..k : recs[j].addr = a /\ At(d, a).table = recs[j].table
    <3> TAKE a \in DOMAIN d.index
    <3>1. CASE a \in DOMAIN c.index
      BY <1>4, <2>4, <3>1
    <3>2. CASE a = e.addr
      BY <1>1, <1>2, <2>2, <2>4, <3>2
    <3> QED
      BY <2>4, <3>1, <3>2
  <2>8. \A j \in 1..k : recs[j].table = "Tried" /\ ~recs[j].old => recs[j].addr \in DOMAIN d.index
    BY <1>1, <1>5, <1>6, <2>2, <2>4
  <2> QED
    BY <1>1, <2>4, <2>6, <2>7, <2>8 DEF Loaded
<1>9. CASE ~(~r.old /\ ~Has(c, r.addr) /\ Loads(c, r))
  <2>1. d = c
    BY <1>1, <1>9 DEF RestoreOne
  <2>2. ASSUME r.table = "Tried", ~r.old
        PROVE  FALSE
    <3>1. c.tried < TriedMax /\ ~Has(c, r.addr)
      BY <1>1, <2>2, RoomForTried
    <3>2. Loads(c, r)
      BY <2>2, <3>1 DEF Loads
    <3> QED
      BY <1>9, <2>2, <3>1, <3>2
  <2>3. \A j \in 1..k : recs[j].table = "Tried" /\ ~recs[j].old => recs[j].addr \in DOMAIN c.index
    BY <1>1, <1>5, <1>6, <2>2
  <2> QED
    BY <1>1, <1>3, <1>4, <2>1, <2>3 DEF Loaded
<1> QED
  BY <1>8, <1>9

\* What a start loads from the file.
LEMMA RestoredIs ==
    ASSUME NEW b, Whole(b), Sized(b), NEW recs, FileOf(b, recs)
    PROVE  Loaded(Restored(recs), recs, Len(recs))
<1> DEFINE n == Len(recs)
           x == EmptyBook
           G == [p \in (1..n) \X Books |->
                    IF RestoreOne(p[2], recs[p[1]]) \in Books THEN RestoreOne(p[2], recs[p[1]]) ELSE x]
           load[k \in 0..Len(recs)] == IF k = 0 THEN EmptyBook ELSE RestoreOne(load[k - 1], recs[k])
<1>1. n \in Nat
  BY DEF FileOf
<1>2. x \in Books /\ Loaded(x, recs, 0)
  <2>1. Whole(x) /\ x.new = 0 /\ x.tried = 0 /\ DOMAIN x.index = {}
    BY EmptyIs
  <2>2. 1..0 = {} /\ x \in Books
    BY <2>1 DEF Whole
  <2> HIDE DEF x
  <2> QED
    BY <2>1, <2>2, Limits DEF Loaded
<1>3. G \in [(1..n) \X Books -> Books]
  <2> HIDE DEF x, n
  <2> QED
    BY <1>2
<1>4. ASSUME NEW k \in 1..n, NEW c \in Books, Loaded(c, recs, k - 1)
      PROVE  RestoreOne(c, recs[k]) \in Books /\ Loaded(RestoreOne(c, recs[k]), recs, k)
  <2>1. Loaded(RestoreOne(c, recs[k]), recs, k)
    BY <1>4, RestoreOneIs
  <2> QED
    BY <2>1 DEF Loaded, Whole
<1>5. PICK g : Iterates(g, n, Books, x, G)
  <2> HIDE DEF G, n, x
  <2> QED
    BY <1>1, <1>2, <1>3, IterationExists
<1>6. g \in [0..n -> Books] /\ g[0] = x /\ \A k \in 1..n : g[k] = G[<<k, g[k - 1]>>]
  <2> HIDE DEF G, n, x
  <2> QED
    BY <1>5, Zenon DEF Iterates
<1>7. \A k \in 1..n : k - 1 \in 0..n /\ k \in 0..n /\ g[k - 1] \in Books
                      /\ (RestoreOne(g[k - 1], recs[k]) \in Books => g[k] = RestoreOne(g[k - 1], recs[k]))
  <2> HIDE DEF x, n
  <2> TAKE k \in 1..n
  <2>1. k - 1 \in 0..n /\ k \in 0..n /\ g[k - 1] \in Books
    BY <1>1, <1>6
  <2> QED
    BY <2>1, <1>6
<1> HIDE DEF G
<1> DEFINE S == {k \in 0..n : Loaded(g[k], recs, k)}
<1>8. \A k \in 0..n : k \in S
  <2>1. 0 \in S
    <3> HIDE DEF x
    <3> QED
      BY <1>1, <1>2, <1>6
  <2>2. \A k \in 1..n : k - 1 \in S => k \in S
    <3> HIDE DEF x, n
    <3> QED
      BY <1>4, <1>7
  <2> HIDE DEF S, n, x
  <2> QED
    BY <1>1, <2>1, <2>2, UpTo
<1>9. \A k \in 1..n : g[k] = RestoreOne(g[k - 1], recs[k])
  <2> HIDE DEF x, n
  <2> QED
    BY <1>4, <1>7, <1>8
<1>10. g = [k \in 0..Len(recs) |-> IF k = 0 THEN x ELSE RestoreOne(g[k - 1], recs[k])]
  <2> HIDE DEF x, S
  <2>1. \A k \in 0..n : g[k] = IF k = 0 THEN x ELSE RestoreOne(g[k - 1], recs[k])
    <3> TAKE k \in 0..n
    <3>1. CASE k = 0
      BY <1>6, <3>1
    <3>2. CASE k # 0
      <4>1. k \in 1..n
        BY <1>1, <3>2
      <4> QED
        BY <4>1, <3>2, <1>9
    <3> QED
      BY <3>1, <3>2
  <2> QED
    BY <1>6, <2>1
<1>11. load = [k \in 0..Len(recs) |-> IF k = 0 THEN x ELSE RestoreOne(load[k - 1], recs[k])]
  <2> HIDE DEF S
  <2> QED
    BY <1>10
<1>12. Restored(recs) = load[n]
  BY DEF Restored, load
<1> HIDE DEF load
<1> DEFINE E == {k \in 0..n : load[k] = g[k]}
<1>13. \A k \in 0..n : k \in E
  <2> HIDE DEF S, x
  <2>1. 0 \in E
    BY <1>1, <1>6, <1>11
  <2>2. ASSUME NEW k \in 1..n, k - 1 \in E
        PROVE  k \in E
    <3>1. k \in 0..n /\ k # 0 /\ load[k - 1] = g[k - 1]
      BY <1>1, <2>2
    <3>2. load[k] = RestoreOne(load[k - 1], recs[k])
      BY <1>11, <3>1
    <3> QED
      BY <1>9, <3>1, <3>2
  <2> HIDE DEF E, n
  <2> QED
    BY <1>1, <2>1, <2>2, UpTo
<1> QED
  <2> HIDE DEF x
  <2>1. n \in 0..n
    BY <1>1
  <2> QED
    BY <1>8, <1>12, <1>13, <2>1

\* The file of a book within its limits, read in any order, is a file of it,
\* and holds each of its entries.
LEMMA AnyOrder ==
    ASSUME NEW b, Whole(b), NEW order \in SetToSeqs(1..Len(b.entries))
    PROVE  LET recs == [k \in 1..Len(b.entries) |-> b.entries[order[k]]] IN
           /\ FileOf(b, recs) /\ Len(recs) = Len(b.entries)
           /\ \A a \in DOMAIN b.index :
                 \E j \in 1..Len(b.entries) : recs[j] = At(b, a) /\ recs[j].addr = a
<1>0. PICK n, recs : n = Len(b.entries) /\ recs = [k \in 1..n |-> b.entries[order[k]]]
  OBVIOUS
<1>1. n \in Nat
  BY <1>0, BookParts
<1>2. IsFiniteSet(1..n) /\ Cardinality(1..n) = n
  BY <1>1, FS_Interval
<1>3. order \in [1..n -> 1..n] /\ \A i, j \in 1..n : i # j => order[i] # order[j]
  BY <1>0, <1>2 DEF SetToSeqs
<1>4. /\ \A x \in DOMAIN b.index : b.index[x] \in 1..n /\ b.entries[b.index[x]].addr = x
      /\ \A i \in 1..n : b.entries[i].addr \in DOMAIN b.index /\ b.index[b.entries[i].addr] = i
      /\ \A i \in 1..n : b.entries[i] \in Rows
  BY <1>0, IndexParts
<1>5. recs \in Seq(Rows) /\ Len(recs) = n /\ \A k \in 1..n : recs[k] = b.entries[order[k]] /\ order[k] \in 1..n
  <2>1. \A k \in 1..n : order[k] \in 1..n
    BY <1>3
  <2>2. \A k \in 1..n : recs[k] = b.entries[order[k]] /\ recs[k] \in Rows
    BY <1>0, <1>4, <2>1
  <2>3. recs \in [1..n -> Rows]
    BY <1>0, <2>2
  <2>4. recs \in Seq(Rows) /\ Len(recs) = n
    BY <1>1, <2>3
  <2> QED
    BY <2>1, <2>2, <2>4
<1>6. FileOf(b, recs)
  <2>1. ASSUME NEW i \in 1..n
        PROVE  recs[i].addr \in DOMAIN b.index /\ At(b, recs[i].addr) = recs[i]
    <3>1. recs[i] = b.entries[order[i]] /\ order[i] \in 1..n
      BY <1>5
    <3>2. b.entries[order[i]].addr \in DOMAIN b.index /\ b.index[b.entries[order[i]].addr] = order[i]
      BY <1>4, <3>1
    <3> QED
      BY <3>1, <3>2 DEF At
  <2>2. ASSUME NEW i \in 1..n, NEW j \in 1..n, recs[i].addr = recs[j].addr
        PROVE  i = j
    <3>1. b.index[recs[i].addr] = order[i] /\ b.index[recs[j].addr] = order[j]
      BY <1>4, <1>5
    <3>2. order[i] = order[j]
      BY <2>2, <3>1
    <3> QED
      BY <1>3, <3>2
  <2> QED
    BY <1>5, <2>1, <2>2 DEF FileOf
<1>7. \A i \in 1..n : \E j \in 1..n : order[j] = i
  <2>1. order \in Injection(1..n, 1..n)
    BY <1>3 DEF Injection, IsInjective
  <2>2. order \in Surjection(1..n, 1..n)
    BY <1>2, <2>1, FS_Injection
  <2> QED
    BY <2>2 DEF Surjection
<1>8. ASSUME NEW a \in DOMAIN b.index
      PROVE  \E j \in 1..n : recs[j] = At(b, a) /\ recs[j].addr = a
  <2>1. PICK j \in 1..n : order[j] = b.index[a]
    BY <1>4, <1>7
  <2> QED
    <3>1. recs[j] = b.entries[b.index[a]] /\ b.entries[b.index[a]].addr = a
      BY <1>4, <1>5, <2>1
    <3> QED
      BY <3>1 DEF At
<1> QED
  BY <1>0, <1>5, <1>6, <1>8

\* An address the operator gave is dropped for another only if no peer told of any in New.
Spares(b, c) ==
    \A x, y \in Addr :
        Has(b, x) /\ ~Has(c, x) /\ ~Has(b, y) /\ Has(c, y) /\ At(b, x).src = 0
        => \A i \in InTable(b, "New") : b.entries[i].src = 0

\* The attempts that are kept keep their ranks.
LEMMA RanksAre ==
    ASSUME NEW t, NEW s, s \subseteq Addr
    PROVE  DOMAIN Ranks(t, s) = s /\ \A a \in s : Ranks(t, s)[a] \in Nat
<1>1. DOMAIN Ranks(t, s) = s /\ \A a \in s : Ranks(t, s)[a] = Cardinality({x \in s : t[x] <= t[a]})
  BY DEF Ranks
<1>2. ASSUME NEW m, m \subseteq s
      PROVE  Cardinality(m) \in Nat
  <2>1. IsFiniteSet(m)
    BY <1>2, BookConstants, FS_Subset
  <2> QED
    BY <2>1, FS_CardinalityType
<1> QED
  BY <1>1, <1>2

\* A book that keeps the invariant, with the attempts at the addresses it still has.
LEMMA BecomesIs ==
    ASSUME BookInv, NEW b, Whole(b), Sized(b), Becomes(b)
    PROVE  BookInv' /\ book' = b
<1>1. book' = b /\ tries' = Ranks(tries, DOMAIN tries \cap DOMAIN b.index)
  BY DEF Becomes
<1>2. PICK s, t : s = DOMAIN tries \cap DOMAIN b.index /\ t = Ranks(tries, s)
  OBVIOUS
<1>3. s \subseteq Addr
  BY <1>2 DEF BookInv, RankedTries
<1>4. DOMAIN t = s /\ \A a \in s : t[a] \in Nat
  BY <1>2, <1>3, RanksAre
<1>5. RankedTries'
  BY <1>1, <1>2, <1>3, <1>4 DEF RankedTries
<1>6. Whole(book)'
  <2>1. (b = book)' /\ Whole(b)'
    BY <1>1 DEF Whole
  <2> QED
    BY <2>1
<1>7. Sized(book)'
  BY <1>1 DEF Sized
<1> QED
  BY <1>1, <1>5, <1>6, <1>7 DEF BookInv

\* A book with no address more spares them all.
LEMMA FewerSpares ==
    ASSUME NEW b, NEW c, DOMAIN c.index \subseteq DOMAIN b.index
    PROVE  Spares(b, c)
  BY DEF Spares, Has

\* What the entry of an address is.
LEMMA EntryIs ==
    ASSUME NEW b, Whole(b), NEW a, Has(b, a)
    PROVE  /\ b.index[a] \in 1..Len(b.entries) /\ At(b, a) = b.entries[b.index[a]]
           /\ At(b, a) \in Rows /\ At(b, a).addr = a
  BY IndexParts DEF Has, At

\* An entry is written back, and nothing else.
LEMMA WrittenBack ==
    ASSUME BookInv, NEW a, Has(book, a), NEW e \in Rows, e.addr = a,
           e.table = At(book, a).table, e.src = At(book, a).src
    PROVE  LET c == Wrote(book, book.index[a], e) IN
           /\ Whole(c) /\ Sized(c) /\ c.index = book.index /\ At(c, a) = e
           /\ c.entries[book.index[a]] = e /\ Len(c.entries) = Len(book.entries) /\ c.tried = book.tried
<1>1. PICK b, i, c : b = book /\ i = b.index[a] /\ c = Wrote(b, i, e)
  OBVIOUS
<1>2. Whole(b) /\ Sized(b) /\ Has(b, a)
  BY <1>1 DEF BookInv
<1>3. i \in 1..Len(b.entries) /\ At(b, a) = b.entries[i] /\ At(b, a) \in Rows /\ At(b, a).addr = a
  BY <1>1, <1>2, EntryIs
<1>4. Whole(c) /\ Rewrites(b, c, i) /\ c.entries[i] = e /\ c.new = b.new /\ c.tried = b.tried
  <2>1. /\ Whole(b) /\ i \in 1..Len(b.entries) /\ e \in Rows /\ e.addr = b.entries[i].addr
        /\ e.table = b.entries[i].table /\ e.src = b.entries[i].src /\ c = Wrote(b, i, e)
    BY <1>1, <1>2, <1>3
  <2> QED
    BY <2>1, WroteIs
<1>5. Sized(c) /\ c.index = b.index /\ At(c, a) = e /\ Len(c.entries) = Len(b.entries)
  BY <1>1, <1>2, <1>4 DEF Sized, Rewrites, At
<1> QED
  BY <1>1, <1>4, <1>5

\* AddrMan::add keeps the invariant.
LEMMA AddKeeps ==
    ASSUME BookInv, NEW a \in Addr, NEW seed \in BOOLEAN, Add(a, seed)
    PROVE  BookInv' /\ Spares(book, book')
<1>1. PICK b : b = book
  OBVIOUS
<1>2. Whole(b) /\ Sized(b)
  BY <1>1 DEF BookInv
<1>3. CASE Has(b, a)
  <2>1. PICK e, c : e = [At(b, a) EXCEPT !.old = FALSE, !.seed = @ \/ seed] /\ c = Wrote(b, b.index[a], e)
    OBVIOUS
  <2>2. Becomes(c)
    BY <1>1, <1>3, <2>1 DEF Add
  <2>3. At(b, a) \in Rows /\ At(b, a).addr = a
    BY <1>2, <1>3, EntryIs
  <2>4. e \in Rows /\ e.addr = a /\ e.table = At(b, a).table /\ e.src = At(b, a).src
    <3>1. PICK o : o = At(b, a) /\ o \in Rows
      BY <2>3
    <3>2. PICK z : z = (o.seed \/ seed)
      OBVIOUS
    <3>3. z \in BOOLEAN
      BY <3>2
    <3>4. e = [o EXCEPT !.old = FALSE, !.seed = z]
      BY <2>1, <3>1, <3>2
    <3> QED
      BY <2>3, <3>1, <3>3, <3>4 DEF Rows
  <2>5. Whole(c) /\ Sized(c) /\ c.index = b.index
    <3>1. /\ BookInv /\ Has(book, a) /\ e \in Rows /\ e.addr = a
          /\ e.table = At(book, a).table /\ e.src = At(book, a).src /\ c = Wrote(book, book.index[a], e)
      BY <1>1, <1>3, <2>1, <2>4
    <3>2. Whole(c) /\ Sized(c) /\ c.index = book.index
      BY <3>1, WrittenBack
    <3> QED
      BY <1>1, <3>2
  <2>6. BookInv' /\ book' = c
    BY <2>2, <2>5, BecomesIs
  <2>7. Spares(b, c)
    BY <2>5, FewerSpares
  <2> QED
    BY <1>1, <2>6, <2>7
<1>4. CASE ~Has(b, a)
  <2>1. PICK c, e, d : /\ c = IF b.new >= NewMax THEN evict_one_new(b) ELSE b
                       /\ e = AddrEntry(a, seed, 0, "New") /\ d = push(c, e)
    OBVIOUS
  <2>2. Becomes(d)
    BY <1>1, <1>4, <2>1 DEF Add
  <2>3. e \in Rows /\ e.addr = a /\ e.table = "New"
    BY <2>1 DEF AddrEntry, Rows, Tables, Sources
  <2>4. b.new \in Nat /\ b.tried \in Nat /\ Len(b.entries) = b.new + b.tried
    BY <1>2, BookParts DEF Whole, Counts
  <2>5. /\ Whole(c) /\ c.tried = b.tried /\ Len(c.entries) + 1 <= NewMax + TriedMax
        /\ DOMAIN c.index \subseteq DOMAIN b.index
        /\ \A x \in DOMAIN b.index : x \notin DOMAIN c.index /\ At(b, x).src = 0
              => \A j \in InTable(b, "New") : b.entries[j].src = 0
    <3>1. CASE b.new >= NewMax
      <4>1. b.new > 0
        BY <2>4, <3>1, Limits
      <4>2. PICK i \in InTable(b, "New") :
               /\ i \in 1..Len(b.entries) /\ b.entries[i].table = "New" /\ evict_one_new(b) = remove_at(b, i)
               /\ b.entries[i].src = 0 => \A j \in InTable(b, "New") : b.entries[j].src = 0
        BY <1>2, <4>1, EvictIs
      <4>3. c = remove_at(b, i)
        BY <2>1, <3>1, <4>2
      <4>4. /\ Whole(c) /\ Len(c.entries) = Len(b.entries) - 1
            /\ DOMAIN c.index = DOMAIN b.index \ {b.entries[i].addr}
            /\ b.tried = c.tried + (IF b.entries[i].table = "Tried" THEN 1 ELSE 0)
        BY <1>2, <4>2, <4>3, RemoveIs
      <4>5. c.tried \in Nat /\ Len(c.entries) \in Nat
        BY <4>4, BookParts
      <4>6. c.tried = b.tried /\ Len(c.entries) + 1 <= NewMax + TriedMax
        BY <1>2, <2>4, <4>2, <4>4, <4>5, Limits DEF Sized
      <4>7. ASSUME NEW x \in DOMAIN b.index, x \notin DOMAIN c.index, At(b, x).src = 0
            PROVE  \A j \in InTable(b, "New") : b.entries[j].src = 0
        <5>1. x = b.entries[i].addr
          BY <4>4, <4>7
        <5>2. At(b, x) = b.entries[i]
          BY <1>2, <4>2, <5>1, IndexParts DEF At
        <5> QED
          BY <4>2, <4>7, <5>2
      <4> QED
        BY <4>4, <4>6, <4>7
    <3>2. CASE ~(b.new >= NewMax)
      <4>1. c = b
        BY <2>1, <3>2
      <4>2. Len(b.entries) + 1 <= NewMax + TriedMax
        BY <1>2, <2>4, <3>2, Limits DEF Sized
      <4> QED
        BY <1>2, <4>1, <4>2
    <3> QED
      BY <3>1, <3>2
  <2>6. /\ Whole(d) /\ d.entries = Append(c.entries, e) /\ DOMAIN d.index = DOMAIN c.index \cup {e.addr}
        /\ d.tried = c.tried + (IF e.table = "Tried" THEN 1 ELSE 0)
    <3>1. Whole(c) /\ e \in Rows /\ ~Has(c, e.addr)
      BY <1>4, <2>3, <2>5 DEF Has
    <3> QED
      BY <2>1, <3>1, PushIs
  <2>7. Sized(d)
    <3>1. c.entries \in Seq(Rows) /\ c.tried \in Nat
      BY <2>5, BookParts
    <3>2. Len(d.entries) = Len(c.entries) + 1
      BY <2>3, <2>6, <3>1
    <3>3. d.tried = b.tried
      BY <2>3, <2>5, <2>6, <3>1
    <3> QED
      BY <1>2, <2>5, <3>2, <3>3 DEF Sized
  <2>8. BookInv' /\ book' = d
    BY <2>2, <2>6, <2>7, BecomesIs
  <2>9. Spares(b, d)
    <3> SUFFICES ASSUME NEW x \in Addr, Has(b, x), ~Has(d, x), At(b, x).src = 0
                 PROVE  \A i \in InTable(b, "New") : b.entries[i].src = 0
      BY DEF Spares
    <3>1. x \in DOMAIN b.index /\ x \notin DOMAIN c.index
      BY <2>6 DEF Has
    <3> QED
      BY <2>5, <3>1
  <2> QED
    BY <1>1, <2>8, <2>9
<1> QED
  BY <1>3, <1>4

\* AddrMan::add_from_peer keeps the invariant.
LEMMA FromPeerKeeps ==
    ASSUME BookInv, NEW a \in Addr, NEW src \in Source, AddFromPeer(a, src)
    PROVE  BookInv' /\ Spares(book, book')
<1>1. PICK b : b = book
  OBVIOUS
<1>2. Whole(b) /\ Sized(b)
  BY <1>1 DEF BookInv
<1>3. CASE Has(b, a) /\ Becomes(Wrote(b, b.index[a], [At(b, a) EXCEPT !.old = FALSE]))
  <2>1. PICK e, c : e = [At(b, a) EXCEPT !.old = FALSE] /\ c = Wrote(b, b.index[a], e)
    OBVIOUS
  <2>2. At(b, a) \in Rows /\ At(b, a).addr = a
    BY <1>2, <1>3, EntryIs
  <2>3. e \in Rows /\ e.addr = a /\ e.table = At(b, a).table /\ e.src = At(b, a).src
    BY <2>1, <2>2 DEF Rows
  <2>4. Whole(c) /\ Sized(c) /\ c.index = b.index
    <3>1. /\ BookInv /\ Has(book, a) /\ e \in Rows /\ e.addr = a
          /\ e.table = At(book, a).table /\ e.src = At(book, a).src /\ c = Wrote(book, book.index[a], e)
      BY <1>1, <1>3, <2>1, <2>3
    <3>2. Whole(c) /\ Sized(c) /\ c.index = book.index
      BY <3>1, WrittenBack
    <3> QED
      BY <1>1, <3>2
  <2>5. BookInv' /\ book' = c
    BY <1>3, <2>1, <2>4, BecomesIs
  <2>6. Spares(b, c)
    BY <2>4, FewerSpares
  <2> QED
    BY <1>1, <2>5, <2>6
<1>4. CASE /\ ~Has(b, a) /\ b.new < NewMax
           /\ Becomes(push(b, AddrEntry(a, FALSE, src, "New")))
  <2>1. PICK e, d : e = AddrEntry(a, FALSE, src, "New") /\ d = push(b, e)
    OBVIOUS
  <2>2. e \in Rows /\ e.addr = a /\ e.table = "New"
    BY <2>1 DEF AddrEntry, Rows, Tables, Sources
  <2>3. b.new \in Nat /\ b.tried \in Nat /\ Len(b.entries) = b.new + b.tried /\ b.entries \in Seq(Rows)
    BY <1>2, BookParts DEF Whole, Counts
  <2>4. /\ Whole(d) /\ d.entries = Append(b.entries, e) /\ DOMAIN d.index = DOMAIN b.index \cup {e.addr}
        /\ d.tried = b.tried + (IF e.table = "Tried" THEN 1 ELSE 0)
    <3>1. Whole(b) /\ e \in Rows /\ ~Has(b, e.addr)
      BY <1>2, <1>4, <2>2
    <3> QED
      BY <2>1, <3>1, PushIs
  <2>5. Sized(d)
    <3>1. Len(d.entries) = Len(b.entries) + 1 /\ d.tried = b.tried
      BY <2>2, <2>3, <2>4
    <3> QED
      BY <1>2, <1>4, <2>3, <3>1, Limits DEF Sized
  <2>6. BookInv' /\ book' = d
    BY <1>4, <2>1, <2>4, <2>5, BecomesIs
  <2>7. Spares(b, d)
    BY <2>4 DEF Spares, Has
  <2> QED
    BY <1>1, <2>6, <2>7
<1> QED
  BY <1>1, <1>3, <1>4 DEF AddFromPeer

\* The passing of time keeps the invariant.
LEMMA AgesKeeps ==
    ASSUME BookInv, NEW a \in Addr, AddrAges(a)
    PROVE  BookInv' /\ Spares(book, book')
<1>1. PICK b, e, c : b = book /\ e = [At(b, a) EXCEPT !.old = TRUE] /\ c = Wrote(b, b.index[a], e)
  OBVIOUS
<1>2. Whole(b) /\ Has(b, a) /\ Becomes(c)
  BY <1>1 DEF BookInv, AddrAges
<1>3. At(b, a) \in Rows /\ At(b, a).addr = a
  BY <1>2, EntryIs
<1>4. e \in Rows /\ e.addr = a /\ e.table = At(b, a).table /\ e.src = At(b, a).src
  BY <1>1, <1>3 DEF Rows
<1>5. Whole(c) /\ Sized(c) /\ c.index = b.index
  <2>1. /\ BookInv /\ Has(book, a) /\ e \in Rows /\ e.addr = a
        /\ e.table = At(book, a).table /\ e.src = At(book, a).src /\ c = Wrote(book, book.index[a], e)
    BY <1>1, <1>2, <1>4
  <2>2. Whole(c) /\ Sized(c) /\ c.index = book.index
    BY <2>1, WrittenBack
  <2> QED
    BY <1>1, <2>2
<1>6. BookInv' /\ book' = c
  BY <1>2, <1>5, BecomesIs
<1>7. Spares(b, c)
  BY <1>5, FewerSpares
<1> QED
  BY <1>1, <1>6, <1>7

\* AddrMan::reap_expired keeps the invariant.
LEMMA ReapKeeps ==
    ASSUME BookInv, reap_expired
    PROVE  BookInv' /\ Spares(book, book')
<1>1. PICK b, c : b = book /\ c = Reaped(b)
  OBVIOUS
<1>2. Whole(b) /\ Sized(b) /\ Becomes(c)
  BY <1>1 DEF BookInv, reap_expired
<1>3. /\ Whole(c) /\ c.tried = b.tried /\ DOMAIN c.index \subseteq DOMAIN b.index
      /\ Len(c.entries) <= Len(b.entries)
  BY <1>1, <1>2, ReapedIs
<1>4. Sized(c)
  <2>1. Len(c.entries) \in Nat /\ Len(b.entries) \in Nat
    BY <1>2, <1>3, BookParts
  <2> QED
    BY <1>2, <1>3, <2>1, Limits DEF Sized
<1>5. BookInv' /\ book' = c
  BY <1>2, <1>3, <1>4, BecomesIs
<1>6. Spares(b, c)
  BY <1>3, FewerSpares
<1> QED
  BY <1>1, <1>5, <1>6

\* AddrMan::on_handshake_ok keeps the invariant.
LEMMA HandshakeKeeps ==
    ASSUME BookInv, NEW a \in Addr, on_handshake_ok(a)
    PROVE  BookInv' /\ Spares(book, book')
<1>1. PICK b, i, dead, c, d : /\ b = book /\ i = b.index[a] /\ dead = FALSE
                              /\ c = Settled(b, i, "Tried", dead) /\ d = enforce_tried_cap(c)
  OBVIOUS
<1>2. Whole(b) /\ Sized(b) /\ Has(b, a) /\ Becomes(d) /\ RankedTries
  BY <1>1 DEF BookInv, on_handshake_ok
<1>3. i \in 1..Len(b.entries) /\ "Tried" \in Tables
  <2>1. b.index[a] \in 1..Len(b.entries)
    BY <1>2, EntryIs
  <2> QED
    BY <1>1, <2>1 DEF Tables
<1>4. /\ Whole(c) /\ Rewrites(b, c, i) /\ c.entries[i].table = "Tried"
      /\ c.tried + InTried(b.entries[i]) = b.tried + InTried(c.entries[i])
  <2>1. Whole(b) /\ i \in 1..Len(b.entries) /\ "Tried" \in Tables /\ c = Settled(b, i, "Tried", dead)
    BY <1>1, <1>2, <1>3
  <2> QED
    BY <2>1, SettledIs
<1>5. b.tried \in Nat /\ c.tried \in Nat /\ c.tried <= TriedMax + 1
  <2>1. b.tried \in Nat /\ c.tried \in Nat
    BY <1>2, <1>4, BookParts
  <2>2. InTried(b.entries[i]) \in 0..1 /\ InTried(c.entries[i]) = 1
    BY <1>4 DEF InTried
  <2>3. b.tried <= TriedMax
    BY <1>2 DEF Sized
  <2> QED
    BY <1>4, <2>1, <2>2, <2>3, Limits
<1>6. Whole(d) /\ d.tried <= TriedMax /\ Len(d.entries) = Len(c.entries) /\ d.index = c.index
  <2>1. RankedTries /\ Whole(c) /\ c.tried <= TriedMax + 1
    BY <1>2, <1>4, <1>5
  <2> QED
    BY <1>1, <2>1, EnforceIs
<1>7. Sized(d) /\ d.index = b.index
  BY <1>2, <1>4, <1>6 DEF Sized, Rewrites
<1>8. BookInv' /\ book' = d
  BY <1>2, <1>6, <1>7, BecomesIs
<1>9. Spares(b, d)
  BY <1>7, FewerSpares
<1> QED
  BY <1>1, <1>8, <1>9

\* AddrMan::on_failure keeps the invariant.
LEMMA FailureKeeps ==
    ASSUME BookInv, NEW a \in Addr, NEW protocol \in BOOLEAN, on_failure(a, protocol)
    PROVE  BookInv' /\ Spares(book, book')
<1>1. PICK b, i, o, f, dd : /\ b = book /\ i = b.index[a] /\ o = At(b, a)
                            /\ f = (IF o.fail = DemoteAfter THEN o.fail ELSE o.fail + 1)
                            /\ dd = (IF protocol /\ o.dead < DemoteAfterDeaths THEN o.dead + 1 ELSE o.dead)
  OBVIOUS
<1>2. PICK e, c, dead : e = [o EXCEPT !.fail = f, !.dead = dd] /\ c = Wrote(b, i, e) /\ dead = TRUE
  OBVIOUS
<1>3. Whole(b) /\ Sized(b) /\ Has(b, a)
  BY <1>1 DEF BookInv, on_failure
<1>4. o \in Rows /\ o.addr = a /\ i \in 1..Len(b.entries) /\ o = b.entries[i]
  BY <1>1, <1>3, EntryIs
<1>5. o.fail \in Nat /\ o.dead \in Nat
  BY <1>4 DEF Rows
<1>6. f \in Nat /\ dd \in Nat
  BY <1>1, <1>5
<1>7. e \in Rows /\ e.addr = a /\ e.table = o.table /\ e.src = o.src
  BY <1>2, <1>4, <1>6 DEF Rows
<1>8. /\ Whole(c) /\ Sized(c) /\ c.index = b.index
      /\ c.entries[i] = e /\ Len(c.entries) = Len(b.entries) /\ c.tried = b.tried
  <2>1. /\ BookInv /\ Has(book, a) /\ e \in Rows /\ e.addr = a
        /\ e.table = At(book, a).table /\ e.src = At(book, a).src /\ c = Wrote(book, book.index[a], e)
    BY <1>1, <1>2, <1>3, <1>7
  <2>2. /\ Whole(c) /\ Sized(c) /\ c.index = book.index
        /\ c.entries[book.index[a]] = e /\ Len(c.entries) = Len(book.entries) /\ c.tried = book.tried
    BY <2>1, WrittenBack
  <2> QED
    BY <1>1, <2>2
<1>9. Becomes(IF e.table = "Tried" /\ (e.fail >= DemoteAfter \/ e.dead >= DemoteAfterDeaths)
              THEN Settled(c, i, "New", dead) ELSE c)
  <2>1. e = [At(book, a) EXCEPT !.fail = IF @ = DemoteAfter THEN @ ELSE @ + 1,
                                !.dead = IF protocol /\ @ < DemoteAfterDeaths THEN @ + 1 ELSE @]
    BY <1>1, <1>2
  <2> QED
    BY <1>1, <1>2, <2>1 DEF on_failure
<1>10. CASE e.table = "Tried" /\ (e.fail >= DemoteAfter \/ e.dead >= DemoteAfterDeaths)
  <2>1. PICK d : d = Settled(c, i, "New", dead)
    OBVIOUS
  <2>2. /\ Whole(d) /\ Rewrites(c, d, i) /\ d.entries[i].table = "New"
        /\ d.tried + InTried(c.entries[i]) = c.tried + InTried(d.entries[i])
    <3>1. Whole(c) /\ i \in 1..Len(c.entries) /\ "New" \in Tables /\ d = Settled(c, i, "New", dead)
      BY <1>4, <1>8, <2>1 DEF Tables
    <3> QED
      BY <3>1, SettledIs
  <2>3. d.tried \in Nat /\ c.tried \in Nat
    BY <1>8, <2>2, BookParts
  <2>4. d.tried <= TriedMax
    <3>1. InTried(c.entries[i]) = 1 /\ InTried(d.entries[i]) = 0
      BY <1>8, <1>10, <2>2 DEF InTried
    <3>2. c.tried <= TriedMax
      BY <1>8 DEF Sized
    <3> QED
      BY <2>2, <2>3, <3>1, <3>2, Limits
  <2>5. Sized(d) /\ d.index = b.index
    BY <1>8, <2>2, <2>4 DEF Sized, Rewrites
  <2>6. Becomes(d)
    BY <1>9, <1>10, <2>1
  <2>7. BookInv' /\ book' = d
    BY <2>2, <2>5, <2>6, BecomesIs
  <2>8. Spares(b, d)
    BY <2>5, FewerSpares
  <2> QED
    BY <1>1, <2>7, <2>8
<1>11. CASE ~(e.table = "Tried" /\ (e.fail >= DemoteAfter \/ e.dead >= DemoteAfterDeaths))
  <2>1. Becomes(c)
    BY <1>9, <1>11
  <2>2. BookInv' /\ book' = c
    BY <1>8, <2>1, BecomesIs
  <2>3. Spares(b, c)
    BY <1>8, FewerSpares
  <2> QED
    BY <1>1, <2>2, <2>3
<1> QED
  BY <1>10, <1>11

\* AddrMan::note_attempt keeps the invariant.
LEMMA AttemptKeeps ==
    ASSUME BookInv, NEW a \in Addr, note_attempt(a)
    PROVE  BookInv' /\ Spares(book, book')
<1>1. PICK s, t : /\ s = DOMAIN tries \cup {a}
                  /\ t = [x \in s |-> IF x = a THEN Cardinality(s) + 1 ELSE tries[x]]
  OBVIOUS
<1>2. book' = book /\ tries' = Ranks(t, s)
  BY <1>1 DEF note_attempt
<1>3. s \subseteq Addr
  BY <1>1 DEF BookInv, RankedTries
<1>4. DOMAIN Ranks(t, s) = s /\ \A x \in s : Ranks(t, s)[x] \in Nat
  BY <1>3, RanksAre
<1>5. RankedTries'
  BY <1>2, <1>3, <1>4 DEF RankedTries
<1>6. PICK b : b = book
  OBVIOUS
<1>7. Whole(b) /\ Sized(b)
  BY <1>6 DEF BookInv
<1>8. Whole(book)' /\ Sized(book)'
  <2>1. (b = book)' /\ Whole(b) /\ Sized(b)
    BY <1>2, <1>6, <1>7
  <2> QED
    BY <2>1
<1>9. Spares(b, b)
  BY FewerSpares
<1> QED
  BY <1>2, <1>5, <1>6, <1>8, <1>9 DEF BookInv

\* A restart keeps every tried address heard of lately.
LEMMA RestartKeeps ==
    ASSUME BookInv, Restart
    PROVE  /\ BookInv' /\ Spares(book, book')
           /\ \A a \in Addr : Has(book, a) /\ At(book, a).table = "Tried" /\ ~At(book, a).old
                              => Has(book', a) /\ At(book', a).table = "Tried"
<1>1. PICK b, n : b = book /\ n = Len(b.entries)
  OBVIOUS
<1>2. Whole(b) /\ Sized(b) /\ n \in Nat /\ n <= NewMax + TriedMax
  <2>1. Whole(b) /\ Sized(b)
    BY <1>1 DEF BookInv
  <2> QED
    BY <1>1, <2>1, BookParts DEF Sized
<1>3. PICK order \in SetToSeqs(1..n) : /\ book' = Restored([k \in 1..n |-> b.entries[order[k]]])
                                       /\ tries' = <<>>
  <2>1. ~(n > NewMax + TriedMax)
    BY <1>2, Limits
  <2> QED
    BY <1>1, <2>1, Zenon DEF Restart
<1>4. PICK recs, c : recs = [k \in 1..n |-> b.entries[order[k]]] /\ c = Restored(recs)
  OBVIOUS
<1>5. /\ FileOf(b, recs) /\ Len(recs) = n
      /\ \A a \in DOMAIN b.index : \E j \in 1..n : recs[j] = At(b, a) /\ recs[j].addr = a
  <2>1. /\ Whole(b) /\ order \in SetToSeqs(1..Len(b.entries))
        /\ recs = [k \in 1..Len(b.entries) |-> b.entries[order[k]]]
    BY <1>1, <1>2, <1>3, <1>4
  <2>2. /\ FileOf(b, recs) /\ Len(recs) = Len(b.entries)
        /\ \A a \in DOMAIN b.index : \E j \in 1..Len(b.entries) : recs[j] = At(b, a) /\ recs[j].addr = a
    BY <2>1, AnyOrder
  <2> QED
    BY <1>1, <2>2
<1>6. Loaded(c, recs, n)
  BY <1>2, <1>4, <1>5, RestoredIs
<1>7. Whole(c) /\ Sized(c)
  <2>1. Whole(c) /\ c.new <= NewMax /\ c.tried <= TriedMax
    BY <1>6 DEF Loaded
  <2>2. c.new \in Nat /\ c.tried \in Nat /\ Len(c.entries) = c.new + c.tried
    BY <2>1, BookParts DEF Whole, Counts
  <2> QED
    BY <2>1, <2>2, Limits DEF Sized
<1>8. Whole(book)' /\ Sized(book)'
  <2>1. (c = book)' /\ Whole(c) /\ Sized(c)
    BY <1>3, <1>4, <1>7
  <2> QED
    BY <2>1
<1>9. RankedTries'
  <2>1. DOMAIN <<>> = {}
    OBVIOUS
  <2> QED
    BY <1>3, <2>1 DEF RankedTries
<1>10. DOMAIN c.index \subseteq DOMAIN b.index
  <2> SUFFICES ASSUME NEW a \in DOMAIN c.index
               PROVE  a \in DOMAIN b.index
    OBVIOUS
  <2>1. PICK j \in 1..n : recs[j].addr = a
    BY <1>6 DEF Loaded
  <2> QED
    BY <1>5, <2>1 DEF FileOf
<1>11. Spares(b, c)
  BY <1>10, FewerSpares
<1>12. ASSUME NEW a \in Addr, Has(b, a), At(b, a).table = "Tried", ~At(b, a).old
       PROVE  Has(c, a) /\ At(c, a).table = "Tried"
  <2>1. PICK j \in 1..n : recs[j] = At(b, a) /\ recs[j].addr = a
    BY <1>5, <1>12 DEF Has
  <2>2. a \in DOMAIN c.index
    BY <1>6, <1>12, <2>1 DEF Loaded
  <2>3. PICK k \in 1..n : recs[k].addr = a /\ At(c, a).table = recs[k].table
    BY <1>6, <2>2 DEF Loaded
  <2>4. k = j
    BY <1>5, <2>1, <2>3 DEF FileOf
  <2> QED
    BY <1>12, <2>1, <2>2, <2>3, <2>4 DEF Has
<1> QED
  BY <1>1, <1>3, <1>4, <1>8, <1>9, <1>11, <1>12 DEF BookInv

BookSpec == BookInit /\ [][BookNext]_bookVars

\* An empty book satisfies the invariant.
LEMMA BookStarts == BookInit => BookInv
<1> SUFFICES ASSUME BookInit
             PROVE  BookInv
  OBVIOUS
<1>1. PICK b : b = EmptyBook
  OBVIOUS
<1>2. book = b /\ tries = <<>>
  BY <1>1 DEF BookInit
<1>3. Whole(b) /\ b.tried = 0 /\ b.entries = <<>>
  BY <1>1, EmptyIs
<1>4. Sized(b)
  <2>1. Len(<<>>) = 0
    OBVIOUS
  <2> QED
    BY <1>3, <2>1, Limits DEF Sized
<1>5. RankedTries
  <2>1. DOMAIN <<>> = {}
    OBVIOUS
  <2> QED
    BY <1>2, <2>1 DEF RankedTries
<1> QED
  BY <1>2, <1>3, <1>4, <1>5 DEF BookInv

\* Every operation keeps the invariant.
LEMMA BookStepIs ==
    ASSUME BookInv, BookNext
    PROVE  BookInv' /\ Spares(book, book')
<1>1. CASE \E a \in Addr, seed \in BOOLEAN : Add(a, seed) \/ on_failure(a, seed)
  BY <1>1, AddKeeps, FailureKeeps
<1>2. CASE \E a \in Addr, src \in Source : AddFromPeer(a, src)
  BY <1>2, FromPeerKeeps
<1>3. CASE \E a \in Addr : AddrAges(a)
  BY <1>3, AgesKeeps
<1>4. CASE \E a \in Addr : on_handshake_ok(a)
  BY <1>4, HandshakeKeeps
<1>5. CASE \E a \in Addr : note_attempt(a)
  BY <1>5, AttemptKeeps
<1>6. CASE reap_expired
  BY <1>6, ReapKeeps
<1>7. CASE Restart
  BY <1>7, RestartKeeps
<1> QED
  BY <1>1, <1>2, <1>3, <1>4, <1>5, <1>6, <1>7 DEF BookNext

\* The invariant reads the book and the attempts alone.
LEMMA BookQuiet == BookInv /\ UNCHANGED bookVars => BookInv'
<1> SUFFICES ASSUME BookInv, UNCHANGED bookVars
             PROVE  BookInv'
  OBVIOUS
<1>1. book' = book /\ tries' = tries
  BY DEF bookVars
<1>2. PICK b : b = book
  OBVIOUS
<1>3. Whole(book)' /\ Sized(book)'
  <2>1. (b = book)' /\ Whole(b) /\ Sized(b)
    BY <1>1, <1>2 DEF BookInv
  <2> QED
    BY <2>1
<1>4. RankedTries'
  BY <1>1 DEF BookInv, RankedTries
<1> QED
  BY <1>3, <1>4 DEF BookInv

\* The invariant of the address book.
LEMMA BookInvariance == BookSpec => []BookInv
<1>1. BookInv /\ [BookNext]_bookVars => BookInv'
  BY BookStepIs, BookQuiet
<1> QED
  BY <1>1, BookStarts, PTL DEF BookSpec

\* THEOREM: evict_one_new takes an address of the operator for another only when New holds none
\* a peer told of, and a restart (restore) keeps every tried address heard of lately.
THEOREM BookStepsSafe == BookSpec => BookSteps
<1>1. BookInv /\ [BookNext]_bookVars
      => [\A x, y \in Addr :
             /\ Has(book, x) /\ ~Has(book', x) /\ ~Has(book, y) /\ Has(book', y)
             /\ At(book, x).src = 0
             => \A i \in InTable(book, "New") : book.entries[i].src = 0]_bookVars
  <2> SUFFICES ASSUME BookInv, BookNext
               PROVE  \A x, y \in Addr :
                         /\ Has(book, x) /\ ~Has(book', x) /\ ~Has(book, y) /\ Has(book', y)
                         /\ At(book, x).src = 0
                         => \A i \in InTable(book, "New") : book.entries[i].src = 0
    OBVIOUS
  <2>1. Spares(book, book')
    BY BookStepIs
  <2> QED
    BY <2>1 DEF Spares
<1>2. BookInv /\ [BookNext]_bookVars
      => [Restart => \A a \in Addr :
             Has(book, a) /\ At(book, a).table = "Tried" /\ ~At(book, a).old
             => Has(book', a) /\ At(book', a).table = "Tried"]_bookVars
  <2> SUFFICES ASSUME BookInv, Restart
               PROVE  \A a \in Addr : Has(book, a) /\ At(book, a).table = "Tried" /\ ~At(book, a).old
                         => Has(book', a) /\ At(book', a).table = "Tried"
    OBVIOUS
  <2> QED
    BY RestartKeeps
<1>3. BookSpec => EvictionSpares
  BY <1>1, BookInvariance, PTL DEF BookSpec, EvictionSpares
<1>4. BookSpec => RestartKeepsTried
  BY <1>2, BookInvariance, PTL DEF BookSpec, RestartKeepsTried
<1> QED
  BY <1>3, <1>4 DEF BookSteps

\* As many addresses as positions.
LEMMA Positions ==
    ASSUME NEW b, Whole(b), NEW P, P \subseteq 1..Len(b.entries), NEW A, A = {b.entries[i].addr : i \in P}
    PROVE  Cardinality(P) = Cardinality(A)
<1>1. PICK f : f = [i \in P |-> b.entries[i].addr]
  OBVIOUS
<1>2. \A i \in 1..Len(b.entries) : b.index[b.entries[i].addr] = i
  BY IndexParts
<1>3. \A i, j \in P : f[i] = f[j] => i = j
  <2> SUFFICES ASSUME NEW i \in P, NEW j \in P, f[i] = f[j]
               PROVE  i = j
    OBVIOUS
  <2>1. b.entries[i].addr = b.entries[j].addr
    BY <1>1
  <2>2. b.index[b.entries[i].addr] = i /\ b.index[b.entries[j].addr] = j
    BY <1>2
  <2> QED
    BY <2>1, <2>2
<1>4. f \in [P -> A] /\ \A a \in A : \E i \in P : f[i] = a
  BY <1>1
<1>5. f \in Bijection(P, A)
  BY <1>3, <1>4 DEF Bijection, Injection, Surjection, IsInjective
<1>6. IsFiniteSet(P)
  <2>1. Len(b.entries) \in Nat
    BY BookParts
  <2>2. IsFiniteSet(1..Len(b.entries))
    BY <2>1, FS_Interval
  <2> QED
    BY <2>2, FS_Subset
<1>7. ExistsBijection(P, A)
  BY <1>5 DEF ExistsBijection
<1> QED
  BY <1>6, <1>7, FS_Bijection

\* The counters count positions too.
LEMMA ConsistentWhole == BookInv => BookConsistent
<1> SUFFICES ASSUME BookInv
             PROVE  BookConsistent
  OBVIOUS
<1>1. PICK b, n, v : b = book /\ n = Len(b.entries) /\ v = View(b)
  OBVIOUS
<1>2. Whole(b)
  BY <1>1 DEF BookInv
<1>3. DOMAIN b.entries = 1..n /\ n \in Nat /\ DOMAIN v = DOMAIN b.index
  BY <1>1, <1>2, BookParts
<1>4. /\ \A x \in DOMAIN b.index : b.index[x] \in 1..n /\ b.entries[b.index[x]].addr = x
      /\ \A i \in 1..n : b.entries[i].addr \in DOMAIN b.index /\ b.index[b.entries[i].addr] = i
  BY <1>1, <1>2, IndexParts
<1>5. \A x \in DOMAIN b.index : v[x] = b.entries[b.index[x]]
  BY <1>1 DEF View
<1>6. ASSUME NEW t
      PROVE  InView(v, t) = {b.entries[i].addr : i \in InTable(b, t)}
  <2>1. ASSUME NEW a \in InView(v, t)
        PROVE  a \in {b.entries[i].addr : i \in InTable(b, t)}
    <3>1. a \in DOMAIN b.index /\ b.entries[b.index[a]].table = t
      BY <1>3, <1>5 DEF InView
    <3>2. b.index[a] \in InTable(b, t) /\ b.entries[b.index[a]].addr = a
      BY <1>3, <1>4, <3>1 DEF InTable
    <3> QED
      BY <3>2
  <2>2. ASSUME NEW i \in InTable(b, t)
        PROVE  b.entries[i].addr \in InView(v, t)
    BY <1>3, <1>4, <1>5 DEF InView, InTable
  <2> QED
    BY <2>1, <2>2
<1>7. ASSUME NEW t
      PROVE  Cardinality(InTable(b, t)) = Cardinality(InView(v, t))
  <2>1. InTable(b, t) \subseteq 1..Len(b.entries)
    BY <1>1, <1>3 DEF InTable
  <2> QED
    BY <1>2, <1>6, <2>1, Positions
<1>8. ASSUME NEW s
      PROVE  Cardinality({i \in InTable(b, "New") : b.entries[i].src = s}) = Cardinality(NewFrom(v, s))
  <2>1. PICK P : P = {i \in InTable(b, "New") : b.entries[i].src = s}
    OBVIOUS
  <2>2. P \subseteq 1..Len(b.entries)
    BY <1>1, <1>3, <2>1 DEF InTable
  <2>3. NewFrom(v, s) = {b.entries[i].addr : i \in P}
    <3>1. ASSUME NEW a \in NewFrom(v, s)
          PROVE  a \in {b.entries[i].addr : i \in P}
      <4>1. a \in DOMAIN b.index /\ b.entries[b.index[a]].table = "New" /\ b.entries[b.index[a]].src = s
        BY <1>3, <1>5 DEF NewFrom
      <4>2. b.index[a] \in P /\ b.entries[b.index[a]].addr = a
        BY <1>3, <1>4, <2>1, <4>1 DEF InTable
      <4> QED
        BY <4>2
    <3>2. ASSUME NEW i \in P
          PROVE  b.entries[i].addr \in NewFrom(v, s)
      BY <1>3, <1>4, <1>5, <2>1 DEF NewFrom, InTable
    <3> QED
      BY <3>1, <3>2
  <2> QED
    BY <1>2, <2>1, <2>2, <2>3, Positions
<1>9. Counts(b, v)
  BY <1>1, <1>2 DEF Whole
<1>10. /\ b.new = Cardinality(InTable(b, "New")) /\ b.tried = Cardinality(InTable(b, "Tried"))
       /\ \A s \in Sources : b.bySource[s] = Cardinality({i \in InTable(b, "New") : b.entries[i].src = s})
  BY <1>7, <1>8, <1>9 DEF Counts
<1>11. DOMAIN b.index = {b.entries[i].addr : i \in DOMAIN b.entries}
  <2>1. \A x \in DOMAIN b.index : \E i \in 1..n : x = b.entries[i].addr
    BY <1>4
  <2>2. \A i \in 1..n : b.entries[i].addr \in DOMAIN b.index
    BY <1>4
  <2> QED
    BY <1>3, <2>1, <2>2
<1> QED
  BY <1>1, <1>3, <1>4, <1>10, <1>11 DEF BookConsistent, Sources

\* The book keeps within the limits of its file.
LEMMA BoundedWhole == BookInv => BookBounded
  BY DEF BookInv, Sized, BookBounded

\* The state of a dial list: what it has used of each group, and the list.
Picks == [used : [Range(AddrGroup) -> Nat], out : Seq(Addr)]

\* The positions that have been looked at after k turns.
SeenBy(b, k) ==
    {i \in 1..Len(b.entries) : \/ b.entries[i].table = "Tried" /\ i <= k
                               \/ b.entries[i].table = "New" /\ i + Len(b.entries) <= k}

\* A list never takes an address twice, keeps to the shares, and is complete so far.
Picked(b, s, k, want, connected, expired) ==
    /\ s \in Picks /\ Len(s.out) <= want
    /\ \A g \in Range(AddrGroup) : s.used[g] = Cardinality(Grouped(connected \cup Range(s.out), g))
    /\ \A a \in Range(s.out) : /\ s.used[AddrGroup[a]] <= PerGroup
                               /\ \E i \in SeenBy(b, k) : b.entries[i].addr = a
    /\ Len(s.out) < want =>
          \A i \in SeenBy(b, k) :
             b.entries[i].addr \notin Range(s.out) /\ Eligible_dial(b.entries[i], connected, expired)
             => s.used[AddrGroup[b.entries[i].addr]] >= PerGroup
    /\ (\E a \in Range(s.out) : At(b, a).table = "New") =>
          \A i \in 1..Len(b.entries) :
             /\ b.entries[i].table = "Tried" /\ b.entries[i].addr \notin Range(s.out)
             /\ Eligible_dial(b.entries[i], connected, expired)
             => s.used[AddrGroup[b.entries[i].addr]] >= PerGroup

\* The entry and the table of a turn.
PosOf(b, k) == IF k <= Len(b.entries) THEN k ELSE k - Len(b.entries)
TurnTable(b, k) == IF k <= Len(b.entries) THEN "Tried" ELSE "New"

\* What a turn looks at.
LEMMA SeenNext ==
    ASSUME NEW b, Whole(b), NEW k \in 1..(2 * Len(b.entries))
    PROVE  LET i == PosOf(b, k)
               t == TurnTable(b, k)
           IN  /\ i \in 1..Len(b.entries) /\ t \in Tables
               /\ b.entries[i].table = t => i \notin SeenBy(b, k - 1)
               /\ SeenBy(b, k) = SeenBy(b, k - 1) \cup (IF b.entries[i].table = t THEN {i} ELSE {})
               /\ t = "New" => \A j \in 1..Len(b.entries) : b.entries[j].table = "Tried" => j \in SeenBy(b, k - 1)
               /\ t = "Tried" => \A j \in SeenBy(b, k) : b.entries[j].table = "Tried"
<1>1. PICK n, i, t : n = Len(b.entries) /\ i = PosOf(b, k) /\ t = TurnTable(b, k)
  OBVIOUS
<1>2. n \in Nat /\ k \in 1..(2 * n) /\ k \in Int
  BY <1>1, BookParts
<1>3. PICK tab : tab = [j \in 1..n |-> b.entries[j].table]
  OBVIOUS
<1>4. PICK X, Y : X = SeenBy(b, k - 1) /\ Y = SeenBy(b, k)
  OBVIOUS
<1>5. /\ X = {j \in 1..n : (tab[j] = "Tried" /\ j <= k - 1) \/ (tab[j] = "New" /\ j + n <= k - 1)}
      /\ Y = {j \in 1..n : (tab[j] = "Tried" /\ j <= k) \/ (tab[j] = "New" /\ j + n <= k)}
  BY <1>1, <1>3, <1>4 DEF SeenBy
<1>6. CASE k <= n
  <2>1. i = k /\ t = "Tried" /\ k \in 1..n
    BY <1>1, <1>2, <1>6 DEF PosOf, TurnTable
  <2>2. k \notin X
    BY <1>2, <1>5, <1>6
  <2>3. Y = X \cup (IF tab[k] = "Tried" THEN {k} ELSE {})
    <3>1. ASSUME NEW j \in Y, j \notin X
          PROVE  j = k /\ tab[k] = "Tried"
      BY <1>2, <1>5, <1>6, <3>1
    <3>2. ASSUME NEW j \in X
          PROVE  j \in Y
      BY <1>2, <1>5
    <3>3. tab[k] = "Tried" => k \in Y
      BY <1>5, <2>1
    <3> QED
      BY <3>1, <3>2, <3>3
  <2>4. \A j \in Y : tab[j] = "Tried"
    BY <1>2, <1>5, <1>6
  <2>5. Y \subseteq 1..n /\ \A j \in 1..n : tab[j] = b.entries[j].table
    BY <1>3, <1>5
  <2> QED
    BY <1>1, <1>4, <2>1, <2>2, <2>3, <2>4, <2>5 DEF Tables
<1>7. CASE ~(k <= n)
  <2>1. i \in 1..n /\ i + n = k /\ t = "New" /\ i \in Int
    BY <1>1, <1>2, <1>7 DEF PosOf, TurnTable
  <2>2. tab[i] = "New" => i \notin X
    BY <1>2, <1>5, <2>1
  <2>3. Y = X \cup (IF tab[i] = "New" THEN {i} ELSE {})
    <3>1. ASSUME NEW j \in Y, j \notin X
          PROVE  j = i /\ tab[i] = "New"
      <4>1. j \in 1..n /\ j \in Int
        BY <1>2, <1>5
      <4>2. ~(tab[j] = "Tried")
        BY <1>2, <1>5, <1>7, <3>1, <4>1
      <4>3. tab[j] = "New" /\ j + n <= k /\ ~(j + n <= k - 1)
        BY <1>5, <3>1, <4>1, <4>2
      <4> QED
        BY <1>2, <2>1, <4>1, <4>3
    <3>2. ASSUME NEW j \in X
          PROVE  j \in Y
      BY <1>2, <1>5
    <3>3. tab[i] = "New" => i \in Y
      BY <1>2, <1>5, <2>1
    <3> QED
      BY <3>1, <3>2, <3>3
  <2>4. \A j \in 1..n : tab[j] = "Tried" => j \in X
    BY <1>2, <1>5, <1>7
  <2>5. \A j \in 1..n : tab[j] = b.entries[j].table
    BY <1>3
  <2> QED
    BY <1>1, <1>4, <2>1, <2>2, <2>3, <2>4, <2>5 DEF Tables
<1> QED
  BY <1>6, <1>7

\* A peer more in a group.
LEMMA OneMore ==
    ASSUME NEW s, s \subseteq Addr, NEW a \in Addr, a \notin s, NEW g
    PROVE  /\ Cardinality(Grouped(s, g)) \in Nat
           /\ Cardinality(Grouped(s \cup {a}, g)) = Cardinality(Grouped(s, g)) + (IF AddrGroup[a] = g THEN 1 ELSE 0)
<1>1. PICK m : m = Grouped(s, g)
  OBVIOUS
<1>2. m \subseteq Addr /\ a \notin m
  BY <1>1 DEF Grouped
<1>3. IsFiniteSet(m) /\ Cardinality(m) \in Nat
  BY <1>2, BookConstants, FS_Subset, FS_CardinalityType
<1>4. CASE AddrGroup[a] = g
  <2>1. Grouped(s \cup {a}, g) = m \cup {a}
    BY <1>1, <1>4 DEF Grouped
  <2> QED
    BY <1>1, <1>2, <1>3, <1>4, <2>1, FS_AddElement
<1>5. CASE AddrGroup[a] # g
  <2>1. Grouped(s \cup {a}, g) = m
    BY <1>1, <1>5 DEF Grouped
  <2> QED
    BY <1>1, <1>3, <1>5, <2>1
<1> QED
  BY <1>4, <1>5

\* An address more at the end of a list.
LEMMA AppendedRange ==
    ASSUME NEW S, NEW q \in Seq(S), NEW a \in S
    PROVE  Append(q, a) \in Seq(S) /\ Len(Append(q, a)) = Len(q) + 1 /\ Range(Append(q, a)) = Range(q) \cup {a}
<1>1. PICK n, p : n = Len(q) /\ p = Append(q, a)
  OBVIOUS
<1>2. /\ n \in Nat /\ p \in Seq(S) /\ Len(p) = n + 1 /\ DOMAIN p = 1..(n + 1) /\ DOMAIN q = 1..n
      /\ p[n + 1] = a /\ \A i \in 1..n : p[i] = q[i]
  BY <1>1
<1>3. ASSUME NEW x \in Range(p)
      PROVE  x \in Range(q) \cup {a}
  <2>1. PICK i \in 1..(n + 1) : p[i] = x
    BY <1>2 DEF Range
  <2>2. CASE i = n + 1
    BY <1>2, <2>1, <2>2
  <2>3. CASE i # n + 1
    <3>1. i \in 1..n
      BY <1>2, <2>3
    <3> QED
      BY <1>2, <2>1, <3>1 DEF Range
  <2> QED
    BY <2>2, <2>3
<1>4. ASSUME NEW x \in Range(q)
      PROVE  x \in Range(p)
  <2>1. PICK i \in 1..n : q[i] = x
    BY <1>2 DEF Range
  <2>2. p[i] = x /\ i \in 1..(n + 1)
    BY <1>2, <2>1
  <2> QED
    BY <1>2, <2>2 DEF Range
<1>5. a \in Range(p)
  <2>1. n + 1 \in 1..(n + 1)
    BY <1>2
  <2> QED
    BY <1>2, <2>1 DEF Range
<1> QED
  BY <1>1, <1>2, <1>3, <1>4, <1>5

\* What a pick is.
LEMMA PickIs ==
    ASSUME NEW s \in Picks, NEW e \in Rows, NEW t, NEW want, NEW connected, NEW expired,
           NEW d, d = DialOne(s, e, t, want, connected, expired)
    PROVE  \/ /\ d = s
              /\ e.table # t \/ Len(s.out) >= want \/ ~Eligible_dial(e, connected, expired)
                 \/ s.used[AddrGroup[e.addr]] >= PerGroup
           \/ /\ e.table = t /\ ~(Len(s.out) >= want) /\ Eligible_dial(e, connected, expired)
              /\ ~(s.used[AddrGroup[e.addr]] >= PerGroup)
              /\ d \in Picks /\ d.out = Append(s.out, e.addr)
              /\ \A g \in Range(AddrGroup) :
                    d.used[g] = s.used[g] + (IF g = AddrGroup[e.addr] THEN 1 ELSE 0)
<1>1. PICK full : full = (e.table # t \/ Len(s.out) >= want \/ ~Eligible_dial(e, connected, expired)
                          \/ s.used[AddrGroup[e.addr]] >= PerGroup)
  OBVIOUS
<1>2. CASE full
  <2>1. d = s
    BY <1>1, <1>2, Zenon DEF DialOne, GroupFull
  <2> QED
    BY <1>1, <1>2, <2>1
<1>3. CASE ~full
  <2>1. PICK h, u : h = AddrGroup[e.addr] /\ u = [s.used EXCEPT ![h] = s.used[h] + 1]
    OBVIOUS
  <2>2. d = [used |-> u, out |-> Append(s.out, e.addr)]
    <3>1. d = [used |-> [s.used EXCEPT ![AddrGroup[e.addr]] = @ + 1], out |-> Append(s.out, e.addr)]
      BY <1>1, <1>3, Zenon DEF DialOne, GroupFull
    <3> QED
      BY <2>1, <3>1
  <2>3. h \in Range(AddrGroup) /\ e.addr \in Addr
    BY <2>1, BookConstants DEF Range, Rows
  <2>4. s.used \in [Range(AddrGroup) -> Nat] /\ s.out \in Seq(Addr)
    BY DEF Picks
  <2>5. u \in [Range(AddrGroup) -> Nat] /\ \A g \in Range(AddrGroup) : u[g] = s.used[g] + (IF g = h THEN 1 ELSE 0)
    <3> HIDE DEF Range
    <3>1. PICK D : D = Range(AddrGroup)
      OBVIOUS
    <3>2. s.used \in [D -> Nat] /\ h \in D
      BY <2>3, <2>4, <3>1
    <3>3. u \in [D -> Nat] /\ \A g \in D : u[g] = s.used[g] + (IF g = h THEN 1 ELSE 0)
      BY <2>1, <3>2
    <3> QED
      BY <3>1, <3>3
  <2>6. Append(s.out, e.addr) \in Seq(Addr)
    BY <2>3, <2>4
  <2>7. d \in Picks /\ d.out = Append(s.out, e.addr) /\ d.used = u
    BY <2>2, <2>5, <2>6 DEF Picks
  <2> QED
    BY <1>1, <1>3, <2>1, <2>5, <2>7
<1> QED
  BY <1>1, <1>2, <1>3

\* Each turn of select_dial_filtered keeps what a list is.
LEMMA TurnKeeps ==
    ASSUME NEW b, Whole(b), NEW connected \in SUBSET Addr, NEW expired, NEW want \in Nat,
           NEW k \in 1..(2 * Len(b.entries)), NEW s, Picked(b, s, k - 1, want, connected, expired)
    PROVE  Picked(b, DialOne(s, b.entries[PosOf(b, k)], TurnTable(b, k), want, connected, expired),
                  k, want, connected, expired)
<1>1. PICK n, i, t, e, d : /\ n = Len(b.entries) /\ i = PosOf(b, k) /\ t = TurnTable(b, k) /\ e = b.entries[i]
                           /\ d = DialOne(s, e, t, want, connected, expired)
  OBVIOUS
<1>2. PICK X, Y : X = SeenBy(b, k - 1) /\ Y = SeenBy(b, k)
  OBVIOUS
<1>3. /\ i \in 1..n /\ t \in Tables /\ (e.table = t => i \notin X)
      /\ Y = X \cup (IF e.table = t THEN {i} ELSE {})
      /\ (t = "New" => \A j \in 1..n : b.entries[j].table = "Tried" => j \in X)
      /\ (t = "Tried" => \A j \in Y : b.entries[j].table = "Tried")
      /\ X \subseteq 1..n
  <2>1. LET l == PosOf(b, k)
            u == TurnTable(b, k)
        IN  /\ l \in 1..Len(b.entries) /\ u \in Tables
            /\ b.entries[l].table = u => l \notin SeenBy(b, k - 1)
            /\ SeenBy(b, k) = SeenBy(b, k - 1) \cup (IF b.entries[l].table = u THEN {l} ELSE {})
            /\ u = "New" => \A j \in 1..Len(b.entries) : b.entries[j].table = "Tried" => j \in SeenBy(b, k - 1)
            /\ u = "Tried" => \A j \in SeenBy(b, k) : b.entries[j].table = "Tried"
    BY SeenNext
  <2>2. SeenBy(b, k - 1) \subseteq 1..Len(b.entries)
    BY DEF SeenBy
  <2> QED
    BY <1>1, <1>2, <2>1, <2>2
<1>4. /\ e \in Rows /\ \A j \in 1..n : b.entries[j] \in Rows /\ b.index[b.entries[j].addr] = j
      /\ \A j \in 1..n : At(b, b.entries[j].addr) = b.entries[j]
  <2>1. \A j \in 1..n : b.entries[j] \in Rows /\ b.index[b.entries[j].addr] = j
    BY <1>1, IndexParts
  <2>2. \A j \in 1..n : At(b, b.entries[j].addr) = b.entries[j]
    BY <2>1 DEF At
  <2> QED
    BY <1>1, <1>3, <2>1, <2>2
<1>5. PICK used, out, q, h : used = s.used /\ out = s.out /\ q = Range(out) /\ h = AddrGroup[e.addr]
  OBVIOUS
<1> DEFINE D == Range(AddrGroup)
           Elig(j) == Eligible_dial(b.entries[j], connected, expired)
           G(j) == AddrGroup[b.entries[j].addr]
<1>6. /\ s \in Picks /\ Len(out) <= want
      /\ \A g \in D : used[g] = Cardinality(Grouped(connected \cup q, g))
      /\ \A a \in q : used[AddrGroup[a]] <= PerGroup /\ \E j \in X : b.entries[j].addr = a
      /\ Len(out) < want => \A j \in X : b.entries[j].addr \notin q /\ Elig(j) => used[G(j)] >= PerGroup
      /\ (\E a \in q : At(b, a).table = "New") =>
            \A j \in 1..n : b.entries[j].table = "Tried" /\ b.entries[j].addr \notin q /\ Elig(j)
                            => used[G(j)] >= PerGroup
  BY <1>1, <1>2, <1>5, Zenon DEF Picked
<1>7. /\ used \in [D -> Nat] /\ out \in Seq(Addr) /\ q \subseteq Addr /\ e.addr \in Addr
      /\ \A a \in Addr : AddrGroup[a] \in D
      /\ Len(out) \in Nat /\ \A j \in 1..n : G(j) \in D /\ b.entries[j].addr \in Addr
  <2>1. used \in [D -> Nat] /\ out \in Seq(Addr)
    BY <1>5, <1>6 DEF Picks
  <2>2. q \subseteq Addr
    BY <1>5, <2>1 DEF Range
  <2>3. \A a \in Addr : AddrGroup[a] \in D
    BY BookConstants DEF Range
  <2>4. e.addr \in Addr /\ \A j \in 1..n : b.entries[j].addr \in Addr
    BY <1>4 DEF Rows
  <2> QED
    BY <2>1, <2>2, <2>3, <2>4
<1>8. \/ d = s /\ (e.table # t \/ Len(out) >= want \/ ~Elig(i) \/ used[h] >= PerGroup)
      \/ /\ e.table = t /\ ~(Len(out) >= want) /\ Elig(i) /\ ~(used[h] >= PerGroup)
         /\ d \in Picks /\ d.out = Append(out, e.addr)
         /\ \A g \in D : d.used[g] = used[g] + (IF g = h THEN 1 ELSE 0)
  <2>1. s \in Picks /\ e \in Rows /\ d = DialOne(s, e, t, want, connected, expired)
    BY <1>1, <1>4, <1>6
  <2>2. \/ /\ d = s
           /\ e.table # t \/ Len(s.out) >= want \/ ~Eligible_dial(e, connected, expired)
              \/ s.used[AddrGroup[e.addr]] >= PerGroup
        \/ /\ e.table = t /\ ~(Len(s.out) >= want) /\ Eligible_dial(e, connected, expired)
           /\ ~(s.used[AddrGroup[e.addr]] >= PerGroup)
           /\ d \in Picks /\ d.out = Append(s.out, e.addr)
           /\ \A g \in Range(AddrGroup) :
                 d.used[g] = s.used[g] + (IF g = AddrGroup[e.addr] THEN 1 ELSE 0)
    BY <2>1, PickIs
  <2>3. e = b.entries[i]
    BY <1>1
  <2> QED
    BY <1>5, <2>2, <2>3
<1> HIDE DEF D
<1>9. CASE d = s /\ (e.table # t \/ Len(out) >= want \/ ~Elig(i) \/ used[h] >= PerGroup)
  <2>1. ASSUME Len(out) < want, NEW j \in Y, b.entries[j].addr \notin q, Elig(j)
        PROVE  used[G(j)] >= PerGroup
    <3>1. CASE j \in X
      BY <1>6, <2>1, <3>1
    <3>2. CASE j \notin X
      <4>1. j = i /\ e.table = t
        BY <1>3, <3>2
      <4>2. ~(Len(out) >= want)
        BY <1>7, <2>1
      <4> QED
        BY <1>1, <1>5, <1>9, <2>1, <4>1, <4>2
    <3> QED
      BY <3>1, <3>2
  <2>2. X \subseteq Y
    BY <1>3
  <2>3. Picked(b, s, k, want, connected, expired)
    <3>1. \A a \in q : used[AddrGroup[a]] <= PerGroup /\ \E j \in Y : b.entries[j].addr = a
      BY <1>6, <2>2
    <3>2. Len(out) < want => \A j \in Y : b.entries[j].addr \notin q /\ Elig(j) => used[G(j)] >= PerGroup
      BY <2>1
    <3> QED
      BY <1>1, <1>2, <1>5, <1>6, <3>1, <3>2, Zenon DEF Picked, D
  <2> QED
    BY <1>1, <1>9, <2>3
<1>10. CASE /\ e.table = t /\ ~(Len(out) >= want) /\ Elig(i) /\ ~(used[h] >= PerGroup)
            /\ d \in Picks /\ d.out = Append(out, e.addr)
            /\ \A g \in D : d.used[g] = used[g] + (IF g = h THEN 1 ELSE 0)
  <2>1. e.addr \notin connected
    BY <1>1, <1>10 DEF Eligible_dial
  <2>2. e.addr \notin q
    <3> SUFFICES ASSUME e.addr \in q
                 PROVE  FALSE
      OBVIOUS
    <3>1. PICK j \in X : b.entries[j].addr = e.addr
      BY <1>6
    <3>2. b.index[e.addr] = i /\ b.index[b.entries[j].addr] = j
      <4>1. j \in 1..n
        BY <1>3, <3>1
      <4> QED
        BY <1>1, <1>3, <1>4, <4>1
    <3>3. j = i
      BY <3>1, <3>2
    <3> QED
      BY <1>3, <1>10, <3>1, <3>3
  <2>3. PICK du, do, dq : du = d.used /\ do = d.out /\ dq = Range(do)
    OBVIOUS
  <2>4. dq = q \cup {e.addr} /\ Len(do) = Len(out) + 1
    BY <1>5, <1>7, <1>10, <2>3, AppendedRange
  <2>5. \A g \in D : du[g] = used[g] + (IF g = h THEN 1 ELSE 0)
    BY <1>10, <2>3
  <2>6. \A g \in D : used[g] \in Nat /\ du[g] \in Nat /\ du[g] >= used[g]
    BY <1>7, <2>5
  <2>7. PerGroup \in Nat /\ h \in D
    BY <1>5, <1>7, BookConstants
  <2>8. ASSUME NEW g \in D
        PROVE  du[g] = Cardinality(Grouped(connected \cup dq, g))
    <3>1. PICK m : m = connected \cup q
      OBVIOUS
    <3>2. m \subseteq Addr /\ e.addr \notin m /\ connected \cup dq = m \cup {e.addr}
      BY <1>7, <2>1, <2>2, <2>4, <3>1
    <3>3. Cardinality(Grouped(m \cup {e.addr}, g)) = Cardinality(Grouped(m, g)) + (IF AddrGroup[e.addr] = g THEN 1 ELSE 0)
      BY <1>7, <3>2, OneMore
    <3>4. used[g] = Cardinality(Grouped(m, g))
      BY <1>6, <3>1
    <3> QED
      BY <1>5, <2>5, <3>2, <3>3, <3>4
  <2>9. ASSUME NEW a \in dq
        PROVE  du[AddrGroup[a]] <= PerGroup /\ \E j \in Y : b.entries[j].addr = a
    <3>1. du[h] <= PerGroup
      <4>1. du[h] = used[h] + 1
        BY <2>5, <2>7
      <4>2. used[h] \in Nat
        BY <2>6, <2>7
      <4> QED
        BY <1>10, <2>7, <4>1, <4>2
    <3>2. CASE a = e.addr
      <4>1. i \in Y /\ b.entries[i].addr = a
        BY <1>1, <1>3, <1>10, <3>2
      <4> QED
        BY <1>5, <3>1, <3>2, <4>1
    <3>3. CASE a # e.addr
      <4>1. a \in q
        BY <2>4, <3>3
      <4>2. used[AddrGroup[a]] <= PerGroup /\ \E j \in Y : b.entries[j].addr = a
        BY <1>3, <1>6, <4>1
      <4>3. AddrGroup[a] \in D
        BY <1>7, <4>1
      <4>4. CASE AddrGroup[a] = h
        BY <3>1, <4>2, <4>4
      <4>5. CASE AddrGroup[a] # h
        <5>1. du[AddrGroup[a]] = used[AddrGroup[a]]
          BY <2>5, <2>6, <4>3, <4>5
        <5> QED
          BY <4>2, <5>1
      <4> QED
        BY <4>4, <4>5
    <3> QED
      BY <3>2, <3>3
  <2>10. ASSUME NEW g \in D, used[g] >= PerGroup
         PROVE  du[g] >= PerGroup
    BY <2>6, <2>7, <2>10
  <2>11. Len(out) < want
    BY <1>7, <1>10
  <2>12. ASSUME NEW j \in Y, b.entries[j].addr \notin dq, Elig(j)
         PROVE  du[G(j)] >= PerGroup
    <3>1. j # i
      BY <1>1, <2>4, <2>12
    <3>2. j \in X /\ b.entries[j].addr \notin q
      BY <1>3, <2>4, <2>12, <3>1
    <3>3. used[G(j)] >= PerGroup /\ G(j) \in D
      BY <1>3, <1>6, <1>7, <2>11, <2>12, <3>2
    <3> QED
      BY <2>10, <3>3
  <2>13. ASSUME NEW a \in dq, At(b, a).table = "New",
                NEW j \in 1..n, b.entries[j].table = "Tried", b.entries[j].addr \notin dq, Elig(j)
         PROVE  du[G(j)] >= PerGroup
    <3>1. PICK l \in Y : b.entries[l].addr = a
      BY <2>9
    <3>2. l \in 1..n /\ b.entries[l].table = "New"
      <4>1. l \in 1..n
        BY <1>3, <3>1
      <4>2. At(b, a) = b.entries[l]
        BY <1>4, <3>1, <4>1
      <4> QED
        BY <2>13, <4>1, <4>2
    <3>3. t = "New"
      <4>1. t # "Tried"
        BY <1>3, <3>1, <3>2
      <4> QED
        BY <1>3, <4>1 DEF Tables
    <3>4. j \in Y
      BY <1>3, <2>13, <3>3
    <3> QED
      BY <2>12, <2>13, <3>4
  <2>14. Len(do) <= want
    BY <1>7, <2>4, <2>11
  <2>15. Picked(b, d, k, want, connected, expired)
    <3>1. \A a \in dq : du[AddrGroup[a]] <= PerGroup /\ \E j \in Y : b.entries[j].addr = a
      BY <2>9
    <3>2. \A j \in Y : b.entries[j].addr \notin dq /\ Elig(j) => du[G(j)] >= PerGroup
      BY <2>12
    <3>3. (\E a \in dq : At(b, a).table = "New") =>
            \A j \in 1..n : b.entries[j].table = "Tried" /\ b.entries[j].addr \notin dq /\ Elig(j)
                            => du[G(j)] >= PerGroup
      BY <2>13
    <3>4. \A g \in D : du[g] = Cardinality(Grouped(connected \cup dq, g))
      BY <2>8
    <3>5. d \in Picks
      BY <1>10
    <3> QED
      BY <1>1, <1>2, <2>3, <2>14, <3>1, <3>2, <3>3, <3>4, <3>5, Zenon DEF Picked, D
  <2> QED
    BY <1>1, <2>15
<1> QED
  BY <1>8, <1>9, <1>10

\* The turns of a dial, one after the other.
PickTurn(b, c, k, want, connected, expired) ==
    DialOne(c, b.entries[PosOf(b, k)], TurnTable(b, k), want, connected, expired)

\* The list starts empty, with the peers that are connected.
LEMMA PicksStart ==
    ASSUME NEW b, Whole(b), NEW connected \in SUBSET Addr, NEW expired, NEW want \in Nat,
           NEW x, x = [used |-> [g \in Range(AddrGroup) |-> Cardinality(Grouped(connected, g))], out |-> <<>>]
    PROVE  Picked(b, x, 0, want, connected, expired)
<1>1. PICK D : D = Range(AddrGroup)
  OBVIOUS
<1>2. ASSUME NEW g
      PROVE  Cardinality(Grouped(connected, g)) \in Nat
  <2>1. Grouped(connected, g) \subseteq Addr
    BY DEF Grouped
  <2> QED
    BY <2>1, BookConstants, FS_Subset, FS_CardinalityType
<1>3. x.used = [g \in D |-> Cardinality(Grouped(connected, g))] /\ x.out = <<>> /\ Range(x.out) = {}
  BY <1>1 DEF Range
<1>4. x \in Picks
  <2>1. [g \in D |-> Cardinality(Grouped(connected, g))] \in [D -> Nat]
    BY <1>2
  <2>2. <<>> \in Seq(Addr)
    OBVIOUS
  <2> QED
    BY <1>1, <2>1, <2>2 DEF Picks
<1>5. SeenBy(b, 0) = {}
  BY BookParts DEF SeenBy
<1>6. Len(x.out) <= want
  BY <1>3
<1>7. connected \cup Range(x.out) = connected
  BY <1>3
<1>8. \A g \in D : x.used[g] = Cardinality(Grouped(connected \cup Range(x.out), g))
  BY <1>3, <1>7
<1> QED
  BY <1>1, <1>3, <1>4, <1>5, <1>6, <1>8, Zenon DEF Picked

\* What select_dial_filtered returns.
LEMMA DialIs ==
    ASSUME Whole(book), NEW connected \in SUBSET Addr, NEW expired, NEW want \in Nat
    PROVE  \E s \in Picks : /\ Picked(book, s, 2 * Len(book.entries), want, connected, expired)
                            /\ select_dial_filtered(want, connected, expired) = s.out
<1>0. PICK b : b = book
  OBVIOUS
<1>a. Whole(b)
  BY <1>0
<1> DEFINE n == Len(b.entries)
           N == 2 * n
           used == [g \in Range(AddrGroup) |-> Cardinality(Grouped(connected, g))]
           x == [used |-> used, out |-> <<>>]
           Turn(c, k) == PickTurn(b, c, k, want, connected, expired)
           Ok(c, k) == Picked(b, c, k, want, connected, expired)
           G == [p \in (1..N) \X Picks |-> IF Turn(p[2], p[1]) \in Picks THEN Turn(p[2], p[1]) ELSE x]
           pick[k \in 0..N] == IF k = 0 THEN x ELSE Turn(pick[k - 1], k)
<1>1. n \in Nat /\ N \in Nat
  BY <1>a, BookParts
<1>2. x \in Picks /\ Ok(x, 0)
  <2>1. Ok(x, 0)
    BY <1>a, PicksStart
  <2> QED
    BY <2>1 DEF Picked
<1>3. G \in [(1..N) \X Picks -> Picks]
  <2> HIDE DEF x, N
  <2> QED
    BY <1>2
<1>4. ASSUME NEW k \in 1..N, NEW c \in Picks, Ok(c, k - 1)
      PROVE  Turn(c, k) \in Picks /\ Ok(Turn(c, k), k)
  <2>1. Ok(Turn(c, k), k)
    BY <1>a, <1>4, TurnKeeps DEF PickTurn
  <2> QED
    BY <2>1 DEF Picked
<1> HIDE DEF Turn, Ok
<1>5. PICK g : Iterates(g, N, Picks, x, G)
  <2> HIDE DEF G, N, x
  <2> QED
    BY <1>1, <1>2, <1>3, IterationExists
<1>6. g \in [0..N -> Picks] /\ g[0] = x /\ \A k \in 1..N : g[k] = G[<<k, g[k - 1]>>]
  <2> HIDE DEF G, N, x
  <2> QED
    BY <1>5, Zenon DEF Iterates
<1>7. \A k \in 1..N : k - 1 \in 0..N /\ k \in 0..N /\ g[k - 1] \in Picks
                      /\ (Turn(g[k - 1], k) \in Picks => g[k] = Turn(g[k - 1], k))
  <2> HIDE DEF x, N
  <2> TAKE k \in 1..N
  <2>1. k - 1 \in 0..N /\ k \in 0..N /\ g[k - 1] \in Picks
    BY <1>1, <1>6
  <2> QED
    BY <2>1, <1>6
<1> HIDE DEF G
<1> DEFINE S == {k \in 0..N : Ok(g[k], k)}
<1>8. \A k \in 0..N : k \in S
  <2>1. 0 \in S
    <3> HIDE DEF x, N
    <3> QED
      BY <1>1, <1>2, <1>6
  <2>2. \A k \in 1..N : k - 1 \in S => k \in S
    <3> HIDE DEF x, N
    <3> QED
      BY <1>4, <1>7
  <2> HIDE DEF S, N, x
  <2> QED
    BY <1>1, <2>1, <2>2, UpTo
<1>9. \A k \in 1..N : g[k] = Turn(g[k - 1], k)
  <2> HIDE DEF x, N
  <2> QED
    BY <1>4, <1>7, <1>8
<1>10. g = [k \in 0..N |-> IF k = 0 THEN x ELSE Turn(g[k - 1], k)]
  <2> HIDE DEF x, S, N
  <2>1. \A k \in 0..N : g[k] = IF k = 0 THEN x ELSE Turn(g[k - 1], k)
    <3> TAKE k \in 0..N
    <3>1. CASE k = 0
      BY <1>6, <3>1
    <3>2. CASE k # 0
      <4>1. k \in 1..N
        BY <1>1, <3>2
      <4> QED
        BY <4>1, <3>2, <1>9
    <3> QED
      BY <3>1, <3>2
  <2> QED
    BY <1>6, <2>1
<1>11. pick = [k \in 0..N |-> IF k = 0 THEN x ELSE Turn(pick[k - 1], k)]
  <2> HIDE DEF S
  <2> QED
    BY <1>10
<1>12. select_dial_filtered(want, connected, expired) = pick[N].out
  BY <1>0 DEF select_dial_filtered, pick, Turn, PickTurn, PosOf, TurnTable
<1> HIDE DEF pick
<1> DEFINE E == {k \in 0..N : pick[k] = g[k]}
<1>13. \A k \in 0..N : k \in E
  <2> HIDE DEF S, x
  <2>1. 0 \in E
    BY <1>1, <1>6, <1>11
  <2>2. ASSUME NEW k \in 1..N, k - 1 \in E
        PROVE  k \in E
    <3>1. k \in 0..N /\ k # 0 /\ pick[k - 1] = g[k - 1]
      BY <1>1, <2>2
    <3>2. pick[k] = Turn(pick[k - 1], k)
      BY <1>11, <3>1
    <3> QED
      BY <1>9, <3>1, <3>2
  <2> HIDE DEF E, N
  <2> QED
    BY <1>1, <2>1, <2>2, UpTo
<1> QED
  <2> HIDE DEF x
  <2>1. N \in 0..N
    BY <1>1
  <2>2. g[N] \in Picks /\ Ok(g[N], N) /\ pick[N] = g[N]
    BY <1>6, <1>8, <1>13, <2>1
  <2> QED
    BY <1>0, <1>12, <2>2 DEF Ok

\* A dial list keeps to the shares of the groups and takes the tried addresses first.
LEMMA DiverseWhole ==
    ASSUME Whole(book)
    PROVE  DialsDiverse
<1> SUFFICES ASSUME NEW connected \in SUBSET Addr, NEW expired \in {{}, DOMAIN tries}, NEW want \in 1..2
             PROVE  LET out == select_dial_filtered(want, connected, expired)
                        InGroup(a, s) == Cardinality(Grouped(s, AddrGroup[a]))
                    IN  /\ \A a \in Range(out) : InGroup(a, connected \cup Range(out)) <= PerGroup
                        /\ Len(out) < want \/ (\E a \in Range(out) : At(book, a).table = "New") =>
                               \A i \in DOMAIN book.entries :
                                   LET e == book.entries[i] IN
                                   /\ e.addr \notin Range(out) /\ Eligible_dial(e, connected, expired)
                                   /\ e.table = "Tried" \/ Len(out) < want
                                   => InGroup(e.addr, connected \cup Range(out)) >= PerGroup
  BY DEF DialsDiverse
<1>1. PICK b, n : b = book /\ n = Len(b.entries)
  OBVIOUS
<1>2. Whole(b) /\ n \in Nat /\ DOMAIN b.entries = 1..n /\ \A i \in 1..n : b.entries[i] \in Rows
  <2>1. Whole(b)
    BY <1>1
  <2> QED
    BY <1>1, <2>1, BookParts
<1>3. PICK s \in Picks : /\ Picked(b, s, 2 * n, want, connected, expired)
                         /\ select_dial_filtered(want, connected, expired) = s.out
  <2>1. want \in Nat
    OBVIOUS
  <2> QED
    BY <1>1, <2>1, DialIs
<1>4. PICK used, out, q : used = s.used /\ out = s.out /\ q = Range(out)
  OBVIOUS
<1>5. SeenBy(b, 2 * n) = 1..n
  <2>1. ASSUME NEW i \in 1..n
        PROVE  i \in SeenBy(b, 2 * n)
    <3>1. b.entries[i].table \in {"New", "Tried"}
      BY <1>2 DEF Rows, Tables
    <3>2. i <= 2 * n /\ i + n <= 2 * n
      BY <1>2
    <3> QED
      BY <1>1, <3>1, <3>2 DEF SeenBy
  <2>2. SeenBy(b, 2 * n) \subseteq 1..n
    BY <1>1 DEF SeenBy
  <2> QED
    BY <2>1, <2>2
<1> DEFINE D == Range(AddrGroup)
           Elig(j) == Eligible_dial(b.entries[j], connected, expired)
           G(j) == AddrGroup[b.entries[j].addr]
<1>6. /\ \A g \in D : used[g] = Cardinality(Grouped(connected \cup q, g))
      /\ \A a \in q : used[AddrGroup[a]] <= PerGroup
      /\ Len(out) < want => \A j \in 1..n : b.entries[j].addr \notin q /\ Elig(j) => used[G(j)] >= PerGroup
      /\ (\E a \in q : At(b, a).table = "New") =>
            \A j \in 1..n : b.entries[j].table = "Tried" /\ b.entries[j].addr \notin q /\ Elig(j)
                            => used[G(j)] >= PerGroup
  BY <1>1, <1>3, <1>4, <1>5, Zenon DEF Picked
<1>7. q \subseteq Addr /\ (\A a \in Addr : AddrGroup[a] \in D) /\ \A j \in 1..n : b.entries[j].addr \in Addr
  <2>1. out \in Seq(Addr)
    BY <1>3, <1>4 DEF Picks
  <2>2. q \subseteq Addr
    BY <1>4, <2>1 DEF Range
  <2>3. \A a \in Addr : AddrGroup[a] \in D
    BY BookConstants DEF Range
  <2>4. \A j \in 1..n : b.entries[j].addr \in Addr
    BY <1>2 DEF Rows
  <2> QED
    BY <2>2, <2>3, <2>4
<1> HIDE DEF D
<1> DEFINE C(a) == Cardinality(Grouped(connected \cup q, AddrGroup[a]))
<1>8. \A a \in Addr : used[AddrGroup[a]] = C(a)
  BY <1>6, <1>7
<1>9. \A a \in q : C(a) <= PerGroup
  BY <1>6, <1>7, <1>8
<1>10. ASSUME Len(out) < want \/ (\E a \in q : At(b, a).table = "New"), NEW j \in 1..n,
              b.entries[j].addr \notin q, Elig(j), b.entries[j].table = "Tried" \/ Len(out) < want
       PROVE  C(b.entries[j].addr) >= PerGroup
  <2>1. used[G(j)] >= PerGroup
    BY <1>6, <1>10
  <2>2. used[G(j)] = C(b.entries[j].addr)
    BY <1>7, <1>8
  <2> QED
    BY <2>1, <2>2
<1>11. select_dial_filtered(want, connected, expired) = out
  BY <1>3, <1>4
<1> QED
  BY <1>1, <1>2, <1>4, <1>9, <1>10, <1>11

\* The remainder of a division.
LEMMA Division ==
    ASSUME NEW a \in Int, NEW n \in Nat, n > 0
    PROVE  /\ a \div n \in Int /\ a % n \in Int /\ a % n >= 0 /\ a % n < n
           /\ a = n * (a \div n) + (a % n)
  OBVIOUS

\* The multiples of two numbers, added up.
Sums(a, b) == {m \in Int : \E x, y \in Int : m = x * a + y * b}

\* A step of gcd leaves the sums what they are.
LEMMA SumsKept ==
    ASSUME NEW a \in Nat, NEW b \in Nat, b > 0
    PROVE  Sums(a, b) = Sums(b, a % b) /\ a % b \in Nat /\ a % b < b
<1>1. PICK q, r : q = a \div b /\ r = a % b
  OBVIOUS
<1>2. q \in Int /\ r \in Int /\ r >= 0 /\ r < b /\ a = b * q + r /\ r \in Nat
  BY <1>1, Division
<1>3. ASSUME NEW m \in Sums(a, b)
      PROVE  m \in Sums(b, r)
  <2>1. PICK x \in Int, y \in Int : m = x * a + y * b
    BY DEF Sums
  <2>2. PICK z : z = x * q + y
    OBVIOUS
  <2>3. z \in Int
    BY <1>2, <2>2
  <2>4. x * (b * q + r) + y * b = (x * q + y) * b + x * r
    BY <1>2
  <2>5. m = z * b + x * r /\ m \in Int
    BY <1>2, <2>1, <2>2, <2>4
  <2> QED
    BY <2>3, <2>5 DEF Sums
<1>4. ASSUME NEW m \in Sums(b, r)
      PROVE  m \in Sums(a, b)
  <2>1. PICK x \in Int, y \in Int : m = x * b + y * r
    BY DEF Sums
  <2>2. PICK z : z = x - y * q
    OBVIOUS
  <2>3. z \in Int
    BY <1>2, <2>2
  <2>4. x * b + y * r = y * (b * q + r) + (x - y * q) * b
    BY <1>2
  <2>5. m = y * a + z * b /\ m \in Int
    BY <1>2, <2>1, <2>2, <2>4
  <2> QED
    BY <2>3, <2>5 DEF Sums
<1> QED
  BY <1>1, <1>2, <1>3, <1>4

\* The least of the positive ones, and none but zero when both numbers are.
Positive(a, b) == {m \in Sums(a, b) : m > 0}
LeastSum(a, b) ==
    IF Positive(a, b) = {} THEN 0 ELSE CHOOSE m \in Positive(a, b) : \A l \in Positive(a, b) : m <= l

\* The least positive multiple of a number is that number.
LEMMA LeastOfOne ==
    ASSUME NEW a \in Nat
    PROVE  LeastSum(a, 0) = a
<1>1. PICK P : P = Positive(a, 0)
  OBVIOUS
<1>2. ASSUME NEW m \in P
      PROVE  m >= a /\ m > 0 /\ a > 0
  <2>1. PICK x \in Int, y \in Int : m = x * a + y * 0 /\ m > 0
    BY <1>1 DEF Positive, Sums
  <2>2. m = x * a
    BY <2>1
  <2>3. a # 0
    BY <2>1, <2>2
  <2>4. a > 0
    BY <2>3
  <2>5. x * a >= a
    BY <2>1, <2>2, <2>4
  <2> QED
    BY <2>1, <2>2, <2>4, <2>5
<1>3. CASE a = 0
  <2>1. P = {}
    BY <1>2, <1>3
  <2> QED
    BY <1>1, <1>3, <2>1 DEF LeastSum
<1>4. CASE a # 0
  <2>1. a = 1 * a + 0 * 0 /\ a > 0
    BY <1>4
  <2>2. a \in P
    BY <1>1, <2>1 DEF Positive, Sums
  <2>3. P \subseteq Int
    BY <1>1 DEF Positive, Sums
  <2>4. \A m \in P : (\A l \in P : m <= l) => m = a
    BY <1>2, <2>2, <2>3
  <2>5. \A l \in P : a <= l
    BY <1>2, <2>3
  <2>6. (CHOOSE m \in P : \A l \in P : m <= l) = a
    <3>1. PICK c : c = CHOOSE m \in P : \A l \in P : m <= l
      OBVIOUS
    <3>2. c \in P /\ \A l \in P : c <= l
      BY <2>2, <2>5, <3>1
    <3> QED
      BY <2>4, <3>1, <3>2
  <2> QED
    BY <1>1, <2>2, <2>6 DEF LeastSum
<1> QED
  BY <1>3, <1>4

\* gcd is the function its code says.
LEMMA GcdIs ==
    gcd = [p \in Nat \X Nat |-> IF p[2] = 0 THEN p[1] ELSE gcd[<<p[2], p[1] % p[2]>>]]
<1>1. PICK G : G = [p \in Nat \X Nat |-> LeastSum(p[1], p[2])]
  OBVIOUS
<1>2. ASSUME NEW p \in Nat \X Nat
      PROVE  G[p] = IF p[2] = 0 THEN p[1] ELSE G[<<p[2], p[1] % p[2]>>]
  <2>1. PICK a, b : a = p[1] /\ b = p[2]
    OBVIOUS
  <2>2. a \in Nat /\ b \in Nat /\ G[p] = LeastSum(a, b)
    BY <1>1, <2>1
  <2>3. CASE b = 0
    BY <2>1, <2>2, <2>3, LeastOfOne
  <2>4. CASE b # 0
    <3>1. b > 0
      BY <2>2, <2>4
    <3>2. PICK r : r = a % b
      OBVIOUS
    <3>3. Sums(a, b) = Sums(b, r) /\ r \in Nat
      BY <2>2, <3>1, <3>2, SumsKept
    <3>4. Positive(a, b) = Positive(b, r)
      BY <3>3 DEF Positive
    <3>5. LeastSum(a, b) = LeastSum(b, r)
      BY <3>4 DEF LeastSum
    <3>6. G[<<b, r>>] = LeastSum(b, r)
      BY <1>1, <2>2, <3>3
    <3> QED
      BY <2>1, <2>2, <2>4, <3>2, <3>5, <3>6
  <2> QED
    BY <2>3, <2>4
<1>3. G = [p \in Nat \X Nat |-> IF p[2] = 0 THEN p[1] ELSE G[<<p[2], p[1] % p[2]>>]]
  BY <1>1, <1>2
<1> QED
  BY <1>3 DEF gcd

\* Numbers whose gcd is 1 have multiples that differ by 1.
LEMMA GcdOne ==
    ASSUME NEW a \in Nat, NEW n \in Nat, gcd[<<a, n>>] = 1
    PROVE  1 \in Sums(a, n)
<1> DEFINE Bad == {b \in Nat : \E c \in Nat : gcd[<<c, b>>] = 1 /\ 1 \notin Sums(c, b)}
<1>1. ASSUME Bad # {}
      PROVE  FALSE
  <2>1. PICK b \in Bad : \A j \in Bad : b <= j
    <3>1. Bad \subseteq Nat
      OBVIOUS
    <3> HIDE DEF Bad
    <3> QED
      BY <1>1, <3>1, LeastExists
  <2>2. b \in Nat
    OBVIOUS
  <2>3. PICK c \in Nat : gcd[<<c, b>>] = 1 /\ 1 \notin Sums(c, b)
    BY <2>1
  <2>4. gcd[<<c, b>>] = IF b = 0 THEN c ELSE gcd[<<b, c % b>>]
    <3>1. PICK p : p = <<c, b>>
      OBVIOUS
    <3>2. p \in Nat \X Nat /\ p[1] = c /\ p[2] = b
      BY <2>2, <3>1
    <3>3. gcd[p] = IF p[2] = 0 THEN p[1] ELSE gcd[<<p[2], p[1] % p[2]>>]
      BY <3>2, GcdIs
    <3> QED
      BY <3>1, <3>2, <3>3
  <2>5. CASE b = 0
    <3>1. 1 = 1 * c + 0 * b /\ 1 \in Int
      BY <2>3, <2>4, <2>5
    <3>2. 1 \in Sums(c, b)
      BY <3>1 DEF Sums
    <3> QED
      BY <2>3, <3>2
  <2>6. CASE b # 0
    <3>1. PICK r : r = c % b
      OBVIOUS
    <3>5. b > 0
      BY <2>2, <2>6
    <3>2. Sums(c, b) = Sums(b, r) /\ r \in Nat /\ r < b
      <4> HIDE DEF Bad
      <4>1. Sums(c, b) = Sums(b, c % b) /\ c % b \in Nat /\ c % b < b
        BY <2>2, <2>3, <3>5, SumsKept
      <4> QED
        BY <3>1, <4>1
    <3>3. gcd[<<b, r>>] = 1
      BY <2>3, <2>4, <2>6, <3>1
    <3>4. r \in Bad
      BY <2>2, <2>3, <3>2, <3>3
    <3> HIDE DEF Bad
    <3> QED
      BY <2>1, <2>2, <3>2, <3>4
  <2> HIDE DEF Bad
  <2> QED
    BY <2>5, <2>6
<1> QED
  BY <1>1

\* A multiple of n less than n away from zero is zero.
LEMMA NoMultiple ==
    ASSUME NEW n \in Nat, n > 0, NEW z \in Int, n * z < n, n * z > -n
    PROVE  z = 0
  OBVIOUS

\* The stride has no divisor in common with the size of the book.
LEMMA StrideIs ==
    ASSUME NEW n \in Nat, n > 0, NEW draw \in Nat
    PROVE  coprime_stride(n, draw) \in Nat /\ 1 \in Sums(coprime_stride(n, draw), n)
<1>1. 1 \in Nat /\ 1 \in Sums(1, n)
  <2>1. 1 = 1 * 1 + 0 * n
    OBVIOUS
  <2> QED
    BY <2>1 DEF Sums
<1>2. CASE n <= 2
  BY <1>1, <1>2 DEF coprime_stride
<1>3. CASE ~(n <= 2)
  <2>1. PICK good : good = {k \in 0..n - 1 : gcd[<<1 + ((draw + k) % (n - 1)), n>>] = 1}
    OBVIOUS
  <2>2. PICK c : c = CHOOSE k \in good : \A j \in good : k <= j
    OBVIOUS
  <2>3. coprime_stride(n, draw) = IF good = {} THEN 1 ELSE 1 + ((draw + c) % (n - 1))
    <3>1. coprime_stride(n, draw) =
            LET From_draw(k) == 1 + ((draw + k) % (n - 1))
                fit == {k \in 0..n - 1 : gcd[<<From_draw(k), n>>] = 1}
            IN  IF fit = {} THEN 1 ELSE From_draw(CHOOSE k \in fit : \A j \in fit : k <= j)
      BY <1>3 DEF coprime_stride
    <3> HIDE DEF gcd
    <3> QED
      BY <2>1, <2>2, <3>1
  <2>4. CASE good = {}
    BY <1>1, <2>3, <2>4
  <2>5. CASE good # {}
    <3>1. good \subseteq Nat
      BY <2>1
    <3>2. c \in good
      BY <2>2, <2>5, <3>1, LeastExists
    <3>3. PICK a : a = 1 + ((draw + c) % (n - 1))
      OBVIOUS
    <3>4. c \in 0..n - 1 /\ gcd[<<a, n>>] = 1
      BY <2>1, <3>2, <3>3
    <3>5. n - 1 \in Nat /\ n - 1 > 0 /\ draw + c \in Int
      BY <1>3, <3>4
    <3>6. a \in Nat
      BY <3>3, <3>5, Division
    <3>7. 1 \in Sums(a, n)
      BY <3>4, <3>6, GcdOne
    <3> QED
      BY <2>3, <2>5, <3>3, <3>6, <3>7
  <2> QED
    BY <2>4, <2>5
<1> QED
  BY <1>2, <1>3

\* Steps of such a stride round the book never meet.
LEMMA StepsApart ==
    ASSUME NEW n \in Nat, n > 0, NEW a \in Nat, 1 \in Sums(a, n), NEW start \in Nat,
           NEW i \in 0..n - 1, NEW j \in 0..n - 1, (start + i * a) % n = (start + j * a) % n
    PROVE  i = j
<1>1. PICK x \in Int, y \in Int : 1 = x * a + y * n
  BY DEF Sums
<1>2. PICK d : d = i - j
  OBVIOUS
<1>3. d \in Int /\ d < n /\ d > -n
  BY <1>2
<1>4. PICK z \in Int : d * a = n * z
  <2>1. PICK p, q, u, v, r : /\ p = start + i * a /\ q = start + j * a
                             /\ u = p \div n /\ v = q \div n /\ r = p % n
    OBVIOUS
  <2>2. p \in Int /\ q \in Int /\ r = q % n
    BY <2>1
  <2>3. u \in Int /\ v \in Int /\ r \in Int /\ p = n * u + r /\ q = n * v + r
    BY <2>1, <2>2, Division
  <2>4. p - q = d * a
    BY <1>2, <2>1
  <2>5. p - q = n * (u - v)
    BY <2>3
  <2>6. u - v \in Int
    BY <2>3
  <2> QED
    BY <2>4, <2>5, <2>6
<1>5. PICK w : w = x * z + y * d
  OBVIOUS
<1>6. w \in Int
  BY <1>1, <1>3, <1>4, <1>5
<1>7. d = n * w
  <2>1. d = d * (x * a + y * n)
    BY <1>1, <1>3
  <2>2. d * (x * a + y * n) = x * (d * a) + n * (y * d)
    BY <1>1, <1>3
  <2>3. x * (n * z) + n * (y * d) = n * (x * z + y * d)
    BY <1>1, <1>3, <1>4
  <2> QED
    BY <1>4, <1>5, <2>1, <2>2, <2>3
<1>8. w = 0
  BY <1>3, <1>6, <1>7, NoMultiple
<1> QED
  BY <1>2, <1>7, <1>8

\* An answer never looks at an address twice.
LEMMA SampleApart == SampleDistinct
<1> SUFFICES ASSUME NEW n \in 1..MaxSample, NEW start \in 0..n - 1, NEW draw \in 0..n - 1
             PROVE  IsInjective(Probed(n, start, draw))
  BY DEF SampleDistinct
<1>0. MaxSample \in Nat
  BY BookConstants
<1>1. n \in Nat /\ n > 0 /\ start \in Nat /\ draw \in Nat
  BY <1>0
<1>2. PICK a : a = coprime_stride(n, draw)
  OBVIOUS
<1>3. a \in Nat /\ 1 \in Sums(a, n)
  BY <1>1, <1>2, StrideIs
<1>4. PICK f : f = Probed(n, start, draw)
  OBVIOUS
<1>5. f = [k \in 0..n - 1 |-> (start + k * a) % n]
  BY <1>2, <1>4 DEF Probed
<1>6. \A i, j \in 0..n - 1 : (start + i * a) % n = (start + j * a) % n => i = j
  BY <1>1, <1>3, StepsApart
<1>7. \A i, j \in DOMAIN f : f[i] = f[j] => i = j
  BY <1>5, <1>6
<1> QED
  BY <1>4, <1>7 DEF IsInjective

\* THEOREM: after any calls of AddrMan the index and the counters say what the entries say
\* (counters_consistent), the book fits its file, a dial list (select_dial_filtered) keeps the
\* shares of the groups and takes tried addresses first, and an answer (sample) looks at no
\* address twice.
THEOREM BookIsSound == BookSpec => []BookSound
<1>1. BookInv => BookSound
  <2> SUFFICES ASSUME BookInv
               PROVE  BookSound
    OBVIOUS
  <2>1. BookConsistent /\ BookBounded
    BY ConsistentWhole, BoundedWhole
  <2>2. Whole(book)
    BY DEF BookInv
  <2>3. DialsDiverse
    BY <2>2, DiverseWhole
  <2> QED
    BY <2>1, <2>3, SampleApart DEF BookSound
<1> QED
  BY <1>1, BookInvariance, PTL
=============================================================================
