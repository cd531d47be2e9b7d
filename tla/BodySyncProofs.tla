--------------------------- MODULE BodySyncProofs ---------------------------
(***************************************************************************)
(* The download window is sound for every tree of headers, every set of    *)
(* peers and every bound: every request is with a connected peer, the      *)
(* window keeps its size, and a buffered body stays within reach of the    *)
(* watermark.                                                              *)
(*                                                                         *)
(* A tick rebuilds the window in three passes, schedule, retry and release.*)
(* Each keeps WindowOf, which says of any set of requests what the         *)
(* invariant says of inflight.                                             *)
(***************************************************************************)
EXTENDS BodySync, BlockTreeProofs, FiniteSetTheorems

\* A set of requests the window may hold.
WindowOf(reqs) ==
    /\ IsFiniteSet(DOMAIN reqs) /\ Cardinality(DOMAIN reqs) <= Window
    /\ DOMAIN reqs \subseteq Block /\ reqs \in [DOMAIN reqs -> Request]
    /\ \A b \in DOMAIN reqs : reqs[b].peer \in connected

\* The chain's part is finite, so that it has a best branch; the tick alone
\* designates a peer, and releases it before it ends.
Inv ==
    /\ TypeOK /\ WindowOf(inflight) /\ ReadyInReach
    /\ IsFiniteSet(known)
    /\ pc = "idle" => designated = NoPeer

-----------------------------------------------------------------------------
(* Least and greatest numbers.                                             *)

\* A set of natural numbers has a least element, and Min is it.
LEMMA MinIs ==
    ASSUME NEW V, V \subseteq Nat, V # {}
    PROVE  Min(V) \in V /\ \A j \in V : Min(V) <= j
<1>1. \E i \in V : \A j \in V : i <= j
  BY LeastExists
<1> QED
  BY <1>1 DEF Min

\* A bounded one has a greatest element, and Max is it.
LEMMA MaxIs ==
    ASSUME NEW n \in Nat, NEW V, V \subseteq 0..n, V # {}
    PROVE  Max(V) \in V /\ \A j \in V : j <= Max(V)
<1> DEFINE W == {n - i : i \in V}
<1>1. W \subseteq Nat /\ W # {}
  <2>1. \A i \in V : n - i \in Nat
    OBVIOUS
  <2> QED
    BY <2>1, Zenon
<1>2. Min(W) \in W /\ \A u \in W : Min(W) <= u
  BY <1>1, MinIs
<1>3. PICK i \in V : Min(W) = n - i
  BY <1>2
<1>4. \A j \in V : j <= i
  <2>1. \A j \in V : n - i <= n - j
    BY <1>2, <1>3, Zenon
  <2>2. \A j \in V : j \in Nat
    OBVIOUS
  <2> QED
    BY <2>1, <2>2
<1> QED
  BY <1>4 DEF Max

\* The lesser of two numbers.
LEMMA MinOfTwo ==
    ASSUME NEW m \in Nat, NEW n \in Nat
    PROVE  Min({m, n}) = IF m <= n THEN m ELSE n
<1>1. Min({m, n}) \in {m, n} /\ \A j \in {m, n} : Min({m, n}) <= j
  BY MinIs
<1> QED
  BY <1>1

-----------------------------------------------------------------------------
(* Finite ancestries and their best block.                                 *)

\* An ancestry has at most one block at a height.
LEMMA AncFinite ==
    ASSUME NEW b \in Block
    PROVE  IsFiniteSet(Anc[b])
<1> DEFINE f == [a \in Anc[b] |-> height[a]]
<1>1. \A a \in Anc[b] : a \in Block /\ height[a] \in Nat /\ height[a] <= height[b]
  BY AncHeight, TreeTypes
<1>2. height[b] \in Nat
  BY TreeTypes
<1>3. f \in [Anc[b] -> 0..height[b]]
  BY <1>1, <1>2
<1>4. f \in Injection(Anc[b], 0..height[b])
  BY <1>3, TreeLinear DEF Injection, IsInjective
<1>5. IsFiniteSet(0..height[b])
  BY <1>2, FS_Interval
<1> QED
  BY <1>4, <1>5, FS_Injection

\* Better is a strict total order.
LEMMA BetterOrder ==
    /\ \A a, b \in Block : a # b => Better(a, b) \/ Better(b, a)
    /\ \A a, b, c \in Block : Better(a, b) /\ Better(b, c) => Better(a, c)
<1>1. \A a \in Block : work[a] \in Nat /\ hashKey[a] \in Nat
  BY TreeTypes
<1>2. \A a, b \in Block : a # b => hashKey[a] # hashKey[b]
  BY TreeHash
<1> QED
  BY <1>1, <1>2 DEF Better

\* A finite set of blocks has a best one.
LEMMA BestExists ==
    ASSUME NEW S, S \subseteq Block, IsFiniteSet(S), S # {}
    PROVE  \E b \in S : \A c \in S \ {b} : Better(b, c)
<1> DEFINE Has(T) == \E b \in T : \A c \in T \ {b} : Better(b, c)
           sizes == {n \in Nat : \E T : /\ T \subseteq Block /\ IsFiniteSet(T) /\ T # {}
                                         /\ Cardinality(T) = n /\ ~Has(T)}
<1> SUFFICES ASSUME ~Has(S)
             PROVE  FALSE
  OBVIOUS
<1>1. Cardinality(S) \in sizes
  BY FS_CardinalityType
<1>2. Min(sizes) \in sizes /\ \A n \in sizes : Min(sizes) <= n
  <2>1. sizes \subseteq Nat /\ sizes # {}
    BY <1>1
  <2> HIDE DEF sizes
  <2> QED
    BY <2>1, MinIs
<1>3. PICK T : /\ T \subseteq Block /\ IsFiniteSet(T) /\ T # {}
               /\ Cardinality(T) = Min(sizes) /\ ~Has(T)
  BY <1>2
<1>4. PICK t \in T : TRUE
  BY <1>3
<1> DEFINE U == T \ {t}
<1>5. IsFiniteSet(U) /\ Cardinality(U) = Cardinality(T) - 1 /\ U \subseteq Block
  BY <1>3, <1>4, FS_RemoveElement
<1>6. U # {}
  BY <1>3, <1>4
<1>7. Has(U)
  <2>1. Cardinality(T) \in Nat /\ Cardinality(U) \in Nat
    BY <1>3, <1>5, FS_CardinalityType
  <2>2. Cardinality(U) \notin sizes
    <3> HIDE DEF sizes
    <3>1. Cardinality(U) < Min(sizes)
      BY <1>3, <1>5, <2>1
    <3>2. \A n \in sizes : Min(sizes) <= n
      BY <1>2
    <3>3. Min(sizes) \in Nat
      BY <1>3, <2>1
    <3> QED
      BY <3>1, <3>2, <3>3, <2>1
  <2> QED
    BY <2>1, <2>2, <1>5, <1>6
<1>8. PICK u \in U : \A c \in U \ {u} : Better(u, c)
  BY <1>7
<1>9. t \in Block /\ u \in Block /\ t # u
  BY <1>3, <1>4, <1>8
<1>10. CASE Better(u, t)
  <2>1. Has(T)
    BY <1>4, <1>8, <1>10
  <2> QED
    BY <2>1, <1>3
<1>11. CASE Better(t, u)
  <2>1. \A c \in T \ {t} : c = u \/ (c \in Block /\ Better(u, c))
    BY <1>3, <1>8
  <2>2. \A c \in T \ {t} : Better(t, c)
    BY <2>1, <1>9, <1>11, BetterOrder
  <2>3. Has(T)
    BY <1>4, <2>2
  <2> QED
    BY <2>3, <1>3
<1> QED
  BY <1>9, <1>10, <1>11, BetterOrder

-----------------------------------------------------------------------------
(* Suppliers.                                                              *)

\* The bounds are positive.
LEMMA Bounds ==
    /\ Window \in Nat /\ ReadyAhead \in Nat /\ CatchUpMax \in Nat /\ Attempts \in Nat
    /\ ForkAttempts \in Nat /\ MissLimit \in Nat /\ MaxSuppliers \in Nat /\ HolParallel \in Nat
    /\ SinkCap \in Nat /\ MaxUpsets \in Nat
    /\ MissLimit > 0 /\ Attempts > 0 /\ ForkAttempts > 0
BY BodySyncConstants

\* Those computes a sequence over the elements of both.
LEMMA ThoseIs ==
    ASSUME NEW S, NEW T, NEW s \in Seq(S)
    PROVE  Those(s, T) \in Seq(S \cap T)
<1> DEFINE n == Len(s)
           X == Seq(S \cap T)
           G == [a \in (1..n) \X X |-> IF s[a[1]] \in T THEN Append(a[2], s[a[1]]) ELSE a[2]]
           kept[i \in 0..Len(s)] ==
             IF i = 0 THEN <<>>
             ELSE IF s[i] \in T THEN Append(kept[i - 1], s[i]) ELSE kept[i - 1]
<1>1. n \in Nat /\ <<>> \in X /\ \A i \in 1..n : s[i] \in S
  OBVIOUS
<1>2. \A i \in 1..n, x \in X : s[i] \in T => Append(x, s[i]) \in X
  BY <1>1
<1>3. G \in [(1..n) \X X -> X]
  BY <1>2
<1>4. PICK f : Iterates(f, n, X, <<>>, G)
  <2> HIDE DEF n, X, G
  <2> QED
    BY <1>1, <1>3, IterationExists
<1>5. f \in [0..n -> X] /\ f[0] = <<>> /\ \A i \in 1..n : f[i] = G[<<i, f[i - 1]>>]
  <2> HIDE DEF n, X, G
  <2> QED
    BY <1>4 DEF Iterates
<1>6. \A i \in 0..n : f[i] = IF i = 0 THEN <<>>
             ELSE IF s[i] \in T THEN Append(f[i - 1], s[i]) ELSE f[i - 1]
  <2> HIDE DEF X
  <2> TAKE i \in 0..n
  <2>1. CASE i = 0
    BY <1>5, <2>1
  <2>2. CASE i # 0
    <3>1. i \in 1..n /\ i - 1 \in 0..n
      BY <2>2, <1>1
    <3>2. f[i - 1] \in X
      BY <3>1, <1>5
    <3>3. f[i] = G[<<i, f[i - 1]>>]
      BY <3>1, <1>5
    <3> QED
      BY <3>1, <3>2, <3>3, <2>2
  <2> QED
    BY <2>1, <2>2
<1>7. f = [i \in 0..Len(s) |-> IF i = 0 THEN <<>>
             ELSE IF s[i] \in T THEN Append(f[i - 1], s[i]) ELSE f[i - 1]]
  <2> HIDE DEF X
  <2>1. f = [i \in 0..Len(s) |-> f[i]]
    BY <1>5
  <2> QED
    BY <1>6, <2>1, Zenon
<1>8. kept = [i \in 0..Len(s) |-> IF i = 0 THEN <<>>
             ELSE IF s[i] \in T THEN Append(kept[i - 1], s[i]) ELSE kept[i - 1]]
  BY <1>7
<1> HIDE DEF kept
<1>9. kept[0] \in X
  BY <1>1, <1>8
<1>10. \A i \in 1..n : kept[i - 1] \in X => kept[i] \in X
  <2> HIDE DEF X
  <2> TAKE i \in 1..n
  <2>1. i # 0 /\ i \in 0..Len(s)
    BY <1>1
  <2>2. kept[i] = IF s[i] \in T THEN Append(kept[i - 1], s[i]) ELSE kept[i - 1]
    <3>1. kept[i] = [j \in 0..Len(s) |-> IF j = 0 THEN <<>>
             ELSE IF s[j] \in T THEN Append(kept[j - 1], s[j]) ELSE kept[j - 1]][i]
      BY <1>8, Zenon
    <3> QED
      BY <2>1, <3>1, Zenon
  <2> QED
    BY <2>2, <1>2
<1>11. kept[n] \in X
  <2>1. \A i \in 0..n : kept[i] \in X
    <3> HIDE DEF X, n
    <3> QED
      BY <1>1, <1>9, <1>10, IterationKeeps
  <2> QED
    BY <2>1, <1>1
<1> QED
  BY <1>11 DEF Those, kept

\* A prefix of a sequence is one over the same elements.
LEMMA PrefixIs ==
    ASSUME NEW S, NEW s \in Seq(S), NEW k \in 0..Len(s)
    PROVE  SubSeq(s, 1, k) \in Seq(S)
<1>1. \A i \in 1..k : s[i] \in S
  OBVIOUS
<1> QED
  BY <1>1

\* Whoever is left out, the suppliers are connected.
LEMMA SuppliersConnected ==
    ASSUME connected \subseteq Peer, NEW excluded
    PROVE  BodySuppliers(excluded) \in Seq(connected)
<1> DEFINE others == BodyEligible \ excluded
           tier == IF others # {} THEN others
                   ELSE IF BodyEligible # {} THEN BodyEligible ELSE connected
           ranked == Those(PeerOrder, tier)
<1>1. PICK T : T = tier
  OBVIOUS
<1>2. T \subseteq connected
  BY <1>1 DEF BodyEligible
<1>3. Those(PeerOrder, T) \in Seq(Peer \cap T)
  BY ThoseIs, BodySyncConstants
<1>4. PICK r : r = Those(PeerOrder, T)
  OBVIOUS
<1>5. r \in Seq(T)
  BY <1>3, <1>4, <1>2
<1>6. Min({Len(r), MaxSuppliers}) \in 0..Len(r)
  <2>1. Len(r) \in Nat
    BY <1>5
  <2> QED
    BY <2>1, MinOfTwo, Bounds
<1>7. SubSeq(r, 1, Min({Len(r), MaxSuppliers})) \in Seq(T)
  BY <1>5, <1>6, PrefixIs
<1>8. SubSeq(r, 1, Min({Len(r), MaxSuppliers})) \in Seq(connected)
  <2>1. PICK q : q = SubSeq(r, 1, Min({Len(r), MaxSuppliers}))
    OBVIOUS
  <2>2. q \in Seq(T)
    BY <1>7, <2>1
  <2>3. q \in Seq(connected)
    BY <2>2, <1>2
  <2> QED
    BY <2>1, <2>3
<1>9. BodySuppliers(excluded) = SubSeq(ranked, 1, Min({Len(ranked), MaxSuppliers}))
  BY Zenon DEF BodySuppliers
<1> QED
  BY <1>1, <1>4, <1>8, <1>9

\* Those whose claim reaches a height are among them, and there is one if
\* there is a supplier.
LEMMA ReachingConnected ==
    ASSUME NEW C, NEW sup \in Seq(C), NEW h
    PROVE  /\ Reaching(sup, h) \in Seq(C)
           /\ sup # <<>> => Reaching(sup, h) # <<>>
<1>1. Those(sup, {p \in Peer : Claim[p] >= h}) \in Seq(C \cap {p \in Peer : Claim[p] >= h})
  BY ThoseIs
<1>2. Those(sup, {p \in Peer : Claim[p] >= h}) \in Seq(C)
  BY <1>1
<1> QED
  BY <1>2 DEF Reaching

\* A request moves to a connected peer.
LEMMA NextConnected ==
    ASSUME NEW C, NEW sup \in Seq(C), NEW b, NEW r, r.peer \in C
    PROVE  NextPeer(b, r, sup) \in C
<1> DEFINE untried == Those(sup, Peer \ r.tried)
<1>1. untried \in Seq(C \cap (Peer \ r.tried))
  BY ThoseIs
<1>2. untried \in Seq(C)
  BY <1>1
<1>3. CASE untried = <<>>
  BY <1>3 DEF NextPeer
<1>4. CASE untried # <<>>
  <2> HIDE DEF untried
  <2>1. Reaching(untried, height[b]) \in Seq(C) /\ Reaching(untried, height[b]) # <<>>
    BY <1>2, <1>4, ReachingConnected
  <2>2. Reaching(untried, height[b])[1] \in C
    BY <2>1
  <2> QED
    BY <2>2, <1>4 DEF NextPeer, untried
<1> QED
  BY <1>3, <1>4

-----------------------------------------------------------------------------
(* Scheduling.                                                             *)

\* What a turn of schedule's loop hands to the next.
Turns == {a \in [reqs : UNION {[D -> Request] : D \in SUBSET Block}, cursor : Nat,
                 open : BOOLEAN] : WindowOf(a.reqs)}

\* One more request fits a window that is not full.
LEMMA OneMore ==
    ASSUME connected \subseteq Peer, NEW r, WindowOf(r), Cardinality(DOMAIN r) < Window,
           NEW b \in Block, b \notin DOMAIN r, NEW p \in connected
    PROVE  WindowOf(Filled(r, [c \in {b} |-> NewRequest(p)]))
<1> DEFINE f == Filled(r, [c \in {b} |-> NewRequest(p)])
<1>1. NewRequest(p) \in Request /\ NewRequest(p).peer = p
  BY Bounds DEF NewRequest, Request
<1>2. DOMAIN f = DOMAIN r \cup {b}
  BY DEF Filled
<1>3. IsFiniteSet(DOMAIN f) /\ Cardinality(DOMAIN f) = Cardinality(DOMAIN r) + 1
  <2>1. IsFiniteSet(DOMAIN r \cup {b}) /\ Cardinality(DOMAIN r \cup {b}) = Cardinality(DOMAIN r) + 1
    BY FS_AddElement DEF WindowOf
  <2> QED
    BY <1>2, <2>1, Zenon
<1>4. Cardinality(DOMAIN f) <= Window
  <2>1. Cardinality(DOMAIN r) \in Nat
    BY FS_CardinalityType DEF WindowOf
  <2> QED
    BY <2>1, <1>3, Bounds
<1>5. f \in [DOMAIN f -> Request] /\ \A c \in DOMAIN f : f[c].peer \in connected
  BY <1>1 DEF WindowOf, Filled
<1>6. DOMAIN f \subseteq Block
  BY <1>2 DEF WindowOf
<1> HIDE DEF f
<1>7. WindowOf(f)
  BY <1>3, <1>4, <1>5, <1>6 DEF WindowOf
<1> QED
  BY <1>7 DEF f

\* A turn of the loop keeps the window.
LEMMA PlaceKeeps ==
    ASSUME connected \subseteq Peer, NEW sup \in Seq(connected), NEW a \in Turns, NEW h,
           wanted'[h] \in Block
    PROVE  Place(a, h, sup) \in Turns
<1> DEFINE turn(i) == sup[((a.cursor + i - 1) % Len(sup)) + 1]
           load(p) == Cardinality({b \in DOMAIN a.reqs : a.reqs[b].peer = p})
           fits == {i \in 1..2 * Len(sup) : /\ load(turn(i)) < PerPeer
                                            /\ i <= Len(sup) => Claim[turn(i)] >= h}
           shut == [a EXCEPT !.open = FALSE]
           more == [a EXCEPT !.cursor = @ + Min(fits),
                             !.reqs = Filled(@, [b \in {wanted'[h]} |-> NewRequest(turn(Min(fits)))])]
           full == ~a.open \/ Cardinality(DOMAIN a.reqs) >= Window
           held == wanted'[h] \in DOMAIN a.reqs \/ h \in DOMAIN ready'
<1>1. Place(a, h, sup) = IF full THEN shut ELSE IF held THEN a ELSE IF fits = {} THEN shut ELSE more
  BY Zenon DEF Place
<1>2. shut \in Turns
  BY DEF Turns
<1>3. ASSUME ~full, ~held, fits # {}
      PROVE  more \in Turns
  <2>1. fits \subseteq Nat
    OBVIOUS
  <2>2. Min(fits) \in fits
    <3> HIDE DEF fits
    <3> QED
      BY <2>1, <1>3, MinIs
  <2> DEFINE k == Min(fits)
             r == a.reqs
             p == turn(k)
             g == Filled(r, [b \in {wanted'[h]} |-> NewRequest(p)])
  <2>3. k \in 1..2 * Len(sup)
    BY <2>2
  <2>4. a.cursor \in Nat /\ WindowOf(r)
    BY DEF Turns
  <2> HIDE DEF k
  <2>5. p \in connected
    <3>1. Len(sup) \in Nat /\ Len(sup) > 0 /\ a.cursor + k - 1 \in Nat
      BY <2>3, <2>4
    <3>2. ((a.cursor + k - 1) % Len(sup)) + 1 \in 1..Len(sup)
      BY <3>1
    <3> QED
      BY <3>2
  <2>6. Cardinality(DOMAIN r) < Window /\ wanted'[h] \notin DOMAIN r
    <3>1. Cardinality(DOMAIN r) \in Nat
      BY <2>4, FS_CardinalityType DEF WindowOf
    <3> QED
      BY <3>1, <1>3, Bounds
  <2>7. WindowOf(g)
    <3> HIDE DEF p, r
    <3>1. PICK b \in Block : b = wanted'[h]
      OBVIOUS
    <3>2. WindowOf(Filled(r, [c \in {b} |-> NewRequest(p)]))
      BY <3>1, <2>4, <2>5, <2>6, OneMore
    <3> QED
      BY <3>1, <3>2
  <2>8. g \in UNION {[D -> Request] : D \in SUBSET Block}
    BY <2>7 DEF WindowOf
  <2>9. more = [a EXCEPT !.cursor = @ + k, !.reqs = g]
    BY Zenon DEF k
  <2>10. a.cursor + k \in Nat
    BY <2>3, <2>4
  <2> HIDE DEF g, more
  <2> QED
    BY <2>7, <2>8, <2>9, <2>10 DEF Turns
<1> QED
  BY <1>1, <1>2, <1>3

\* schedule keeps the window.
LEMMA ScheduledKeeps ==
    ASSUME connected \subseteq Peer, NEW sup \in Seq(connected), WindowOf(inflight),
           \A h \in DOMAIN wanted' : wanted'[h] \in Block, Cardinality(DOMAIN ready') \in Nat
    PROVE  WindowOf(Scheduled(sup))
<1> DEFINE start == [reqs |-> inflight, cursor |-> 0,
                     open |-> Cardinality(DOMAIN ready') < ReadyAhead]
           next(i, a) == IF applied' + i \in DOMAIN wanted' THEN Place(a, applied' + i, sup) ELSE a
           after[i \in 0..ReadyAhead] == IF i = 0 THEN start ELSE next(i, after[i - 1])
<1>1. PICK X : X = Turns
  OBVIOUS
<1>2. \A i \in 1..ReadyAhead, a \in X : next(i, a) \in X
  <2> TAKE i \in 1..ReadyAhead, a \in X
  <2>1. PICK h : h = applied' + i
    OBVIOUS
  <2>2. CASE h \in DOMAIN wanted'
    <3>1. Place(a, h, sup) \in Turns
      BY <2>2, <1>1, PlaceKeeps
    <3> QED
      BY <3>1, <2>1, <2>2, <1>1, Zenon
  <2>3. CASE h \notin DOMAIN wanted'
    BY <2>1, <2>3, Zenon
  <2> QED
    BY <2>2, <2>3
<1>3. start \in X
  <2>1. inflight \in UNION {[D -> Request] : D \in SUBSET Block}
    BY DEF WindowOf
  <2>2. (Cardinality(DOMAIN ready') < ReadyAhead) \in BOOLEAN
    BY Bounds
  <2> QED
    BY <1>1, <2>1, <2>2 DEF Turns
<1>4. PICK G : G = [a \in (1..ReadyAhead) \X X |-> next(a[1], a[2])]
  OBVIOUS
<1>5. G \in [(1..ReadyAhead) \X X -> X] /\ \A i \in 1..ReadyAhead, a \in X : G[<<i, a>>] = next(i, a)
  <2> HIDE DEF next
  <2> QED
    BY <1>2, <1>4
<1>6. PICK x \in X : x = start
  BY <1>3
<1>7. PICK f : Iterates(f, ReadyAhead, X, x, G)
  BY <1>5, Bounds, IterationExists
<1>8. f \in [0..ReadyAhead -> X] /\ f[0] = x /\ \A i \in 1..ReadyAhead : f[i] = next(i, f[i - 1])
  <2> HIDE DEF next
  <2>1. f \in [0..ReadyAhead -> X] /\ f[0] = x /\ \A i \in 1..ReadyAhead : f[i] = G[<<i, f[i - 1]>>]
    BY <1>7, Zenon DEF Iterates
  <2>2. \A i \in 1..ReadyAhead : f[i - 1] \in X
    BY <2>1, Bounds
  <2> QED
    BY <2>1, <2>2, <1>5
<1> HIDE DEF next, start
<1>9. f = [i \in 0..ReadyAhead |-> IF i = 0 THEN start ELSE next(i, f[i - 1])]
  <2>1. f = [i \in 0..ReadyAhead |-> f[i]]
    BY <1>8
  <2>2. \A i \in 0..ReadyAhead : f[i] = IF i = 0 THEN start ELSE next(i, f[i - 1])
    BY <1>8, <1>6, Bounds
  <2> QED
    BY <2>1, <2>2, Zenon
<1>10. after = [i \in 0..ReadyAhead |-> IF i = 0 THEN start ELSE next(i, after[i - 1])]
  BY <1>9
<1>11. PICK g : g = after
  OBVIOUS
<1> HIDE DEF after
<1>12. g = [i \in 0..ReadyAhead |-> IF i = 0 THEN start ELSE next(i, g[i - 1])]
  BY <1>10, <1>11, Zenon
<1>13. g[0] \in X
  BY <1>12, <1>3, Bounds
<1>14. \A i \in 1..ReadyAhead : g[i - 1] \in X => g[i] \in X
  <2> TAKE i \in 1..ReadyAhead
  <2>1. i # 0 /\ i \in 0..ReadyAhead
    BY Bounds
  <2>2. g[i] = next(i, g[i - 1])
    <3>1. g[i] = [j \in 0..ReadyAhead |-> IF j = 0 THEN start ELSE next(j, g[j - 1])][i]
      BY <1>12, Zenon
    <3> QED
      BY <2>1, <3>1, Zenon
  <2> QED
    BY <2>2, <1>2
<1>15. g[ReadyAhead] \in X
  <2>1. \A i \in 0..ReadyAhead : g[i] \in X
    BY <1>13, <1>14, Bounds, IterationKeeps
  <2> QED
    BY <2>1, Bounds
<1>16. Scheduled(sup) = after[ReadyAhead].reqs
  BY Zenon DEF Scheduled, after, next, start
<1> QED
  BY <1>1, <1>11, <1>15, <1>16 DEF Turns

-----------------------------------------------------------------------------
(* Retrying.                                                               *)

Slots == {"held", "lost", "back soon"}

\* Some of the requests of a window, each still with a connected peer, are a
\* window.
LEMMA PartOfWindow ==
    ASSUME NEW r, WindowOf(r), NEW f, DOMAIN f \subseteq DOMAIN r, f \in [DOMAIN f -> Request],
           \A b \in DOMAIN f : f[b].peer \in connected
    PROVE  WindowOf(f)
<1>1. IsFiniteSet(DOMAIN f) /\ Cardinality(DOMAIN f) <= Cardinality(DOMAIN r)
  BY FS_Subset DEF WindowOf
<1>2. Cardinality(DOMAIN f) \in Nat /\ Cardinality(DOMAIN r) \in Nat
  BY <1>1, FS_CardinalityType DEF WindowOf
<1>3. Cardinality(DOMAIN f) <= Window
  BY <1>1, <1>2, Bounds DEF WindowOf
<1> QED
  BY <1>1, <1>3 DEF WindowOf

\* A request that moves on is a request of a connected peer.
LEMMA RetriedIs ==
    ASSUME connected \subseteq Peer, NEW sup \in Seq(connected), NEW b, NEW r \in Request,
           r.peer \in connected
    PROVE  Retried(b, r, sup) \in Request /\ Retried(b, r, sup).peer \in connected
<1>1. PICK C : C = connected
  OBVIOUS
<1>2. PICK p : p = NextPeer(b, r, sup)
  OBVIOUS
<1>3. p \in connected
  BY <1>1, <1>2, NextConnected
<1>4. Min({r.attempts + 1, Attempts}) \in 0..Attempts
  <2>1. r.attempts + 1 \in Nat
    BY DEF Request
  <2> QED
    BY <2>1, MinOfTwo, Bounds
<1>5. Retried(b, r, sup) = [r EXCEPT !.peer = p, !.tried = @ \cup {p},
                                     !.attempts = Min({@ + 1, Attempts}), !.due = "no"]
  BY <1>2, Zenon DEF Retried
<1> DEFINE n == Min({r.attempts + 1, Attempts})
<1>6. Retried(b, r, sup) = [r EXCEPT !.peer = p, !.tried = @ \cup {p}, !.attempts = n, !.due = "no"]
  BY <1>5, Zenon
<1>7. n \in 0..Attempts
  BY <1>4
<1> HIDE DEF n
<1>8. p \in Peer /\ r.tried \cup {p} \in SUBSET Peer
  BY <1>3 DEF Request
<1> DEFINE t == r.tried \cup {p}
           x == [r EXCEPT !.peer = p, !.tried = t, !.attempts = n, !.due = "no"]
<1>9. Retried(b, r, sup) = x
  BY <1>6, Zenon
<1> HIDE DEF t
<1>10. t \in SUBSET Peer
  BY <1>8 DEF t
<1>11. x \in Request /\ x.peer = p
  BY <1>7, <1>8, <1>10 DEF Request
<1> QED
  BY <1>3, <1>9, <1>11

\* The misses stay below the limit, whatever is charged.
LEMMA ChargedIs ==
    ASSUME misses \in [Peer -> 0..MissLimit - 1], NEW k \in [Peer -> Nat], NEW was \in [Peer -> Slots],
           ChargeMisses(k, was)
    PROVE  misses' \in [Peer -> 0..MissLimit - 1] /\ slot' \in [Peer -> Slots]
<1>1. \A p \in Peer : (misses[p] + k[p]) % MissLimit \in 0..MissLimit - 1
  <2> TAKE p \in Peer
  <2>1. misses[p] + k[p] \in Nat
    OBVIOUS
  <2> QED
    BY <2>1, Bounds
<1>2. misses' \in [Peer -> 0..MissLimit - 1]
  BY <1>1, Zenon DEF ChargeMisses
<1>3. slot' \in [Peer -> Slots]
  BY DEF ChargeMisses, Slots
<1> QED
  BY <1>2, <1>3

\* The retry pass keeps the window and the sessions' counts.
LEMMA RetryKeeps ==
    ASSUME connected \subseteq Peer, NEW sup \in Seq(connected), NEW reqs, WindowOf(reqs),
           misses \in [Peer -> 0..MissLimit - 1], slot \in [Peer -> Slots], Retry(reqs, sup)
    PROVE  /\ WindowOf(inflight')
           /\ misses' \in [Peer -> 0..MissLimit - 1] /\ slot' \in [Peer -> Slots]
<1> DEFINE due == {b \in DOMAIN reqs : reqs[b].due # "no"}
           gone == {b \in due : Exhausted(reqs[b], sup)}
           kept == [b \in DOMAIN reqs \ gone |->
                      IF b \in due THEN Retried(b, reqs[b], sup) ELSE reqs[b]]
           heads == {b \in DOMAIN kept : hol' = "due" /\ height[b] = applied' + 1}
           reach == Reaching(sup, applied' + 1)
           several == Range(SubSeq(reach, 1, Min({HolParallel, Len(reach)})))
           asked(first) == [b \in DOMAIN kept |->
                              IF b \in first /\ kept[b].parallel = {}
                              THEN [kept[b] EXCEPT !.parallel = several, !.due = "no"]
                              ELSE kept[b]]
           late == [p \in Peer |->
                      Cardinality({b \in due : reqs[b].due = "late" /\ reqs[b].peer = p})]
<1>1. \E first : inflight' = asked(first)
  BY Zenon DEF Retry
<1>2. ChargeMisses(late, SlotAged)
  BY Zenon DEF Retry
<1>3. \A b \in DOMAIN reqs : reqs[b] \in Request /\ reqs[b].peer \in connected
  BY DEF WindowOf
<1>4. \A b \in DOMAIN kept : kept[b] \in Request /\ kept[b].peer \in connected
  <2> TAKE b \in DOMAIN kept
  <2>1. b \in DOMAIN reqs
    OBVIOUS
  <2>2. Retried(b, reqs[b], sup) \in Request /\ Retried(b, reqs[b], sup).peer \in connected
    <3>1. PICK r : r = reqs[b]
      OBVIOUS
    <3> QED
      BY <3>1, <2>1, <1>3, RetriedIs
  <2> QED
    BY <2>1, <2>2, <1>3, Zenon
<1>5. WindowOf(kept)
  <2>1. DOMAIN kept \subseteq DOMAIN reqs
    OBVIOUS
  <2>2. kept \in [DOMAIN kept -> Request]
    BY <1>4, Zenon
  <2> HIDE DEF kept
  <2> QED
    BY <2>1, <2>2, <1>4, PartOfWindow
<1>6. several \subseteq Peer
  <2>1. PICK C : C = connected
    OBVIOUS
  <2>2. PICK h : h = applied' + 1
    OBVIOUS
  <2>3. PICK q : q = Reaching(sup, h)
    OBVIOUS
  <2>4. q \in Seq(C)
    BY <2>1, <2>3, ReachingConnected
  <2>5. Min({HolParallel, Len(q)}) \in 0..Len(q)
    <3>1. PICK n \in Nat : n = Len(q)
      BY <2>4
    <3>2. Min({HolParallel, n}) = IF HolParallel <= n THEN HolParallel ELSE n
      BY MinOfTwo, Bounds
    <3>3. Min({HolParallel, n}) \in 0..n
      BY <3>2, Bounds
    <3> QED
      BY <3>1, <3>3
  <2>6. SubSeq(q, 1, Min({HolParallel, Len(q)})) \in Seq(C)
    BY <2>4, <2>5, PrefixIs
  <2>7. Range(SubSeq(q, 1, Min({HolParallel, Len(q)}))) \subseteq C
    <3>1. PICK w : w = SubSeq(q, 1, Min({HolParallel, Len(q)}))
      OBVIOUS
    <3>2. w \in Seq(C)
      BY <2>6, <3>1
    <3>3. Range(w) \subseteq C
      BY <3>2 DEF Range
    <3> QED
      BY <3>1, <3>3
  <2> QED
    BY <2>1, <2>2, <2>3, <2>7
<1> HIDE DEF kept, several
<1>7. PICK first : inflight' = asked(first)
  BY <1>1
<1>8. \A b \in DOMAIN kept : asked(first)[b] \in Request /\ asked(first)[b].peer \in connected
  <2> TAKE b \in DOMAIN kept
  <2> DEFINE r == kept[b]
  <2>1. r \in Request /\ r.peer \in connected
    BY <1>4
  <2> HIDE DEF r
  <2>2. [r EXCEPT !.parallel = several, !.due = "no"] \in Request
    BY <2>1, <1>6 DEF Request
  <2>3. [r EXCEPT !.parallel = several, !.due = "no"].peer = r.peer
    BY <2>1 DEF Request
  <2> QED
    BY <2>1, <2>2, <2>3 DEF r
<1>9. WindowOf(inflight')
  <2>1. DOMAIN asked(first) = DOMAIN kept
    OBVIOUS
  <2>2. asked(first) \in [DOMAIN kept -> Request]
    BY <1>8, Zenon
  <2> HIDE DEF asked
  <2>3. \A b \in DOMAIN inflight' : inflight'[b].peer \in connected
    BY <2>1, <1>7, <1>8
  <2>4. PICK k, f : k = kept /\ f = inflight'
    OBVIOUS
  <2>5. WindowOf(f)
    BY <2>1, <2>2, <2>3, <2>4, <1>5, <1>7, PartOfWindow
  <2> QED
    BY <2>4, <2>5
<1>10. late \in [Peer -> Nat]
  <2>1. \A p \in Peer : Cardinality({b \in due : reqs[b].due = "late" /\ reqs[b].peer = p}) \in Nat
    <3> TAKE p \in Peer
    <3> DEFINE D == {b \in due : reqs[b].due = "late" /\ reqs[b].peer = p}
    <3>1. D \subseteq DOMAIN reqs
      OBVIOUS
    <3> HIDE DEF D
    <3>2. Cardinality(D) \in Nat
      BY <3>1, FS_Subset, FS_CardinalityType DEF WindowOf
    <3> QED
      BY <3>2 DEF D
  <2> QED
    BY <2>1, Zenon
<1>11. SlotAged \in [Peer -> Slots]
  BY DEF SlotAged, Slots
<1> HIDE DEF late
<1>12. PICK was : was = SlotAged
  OBVIOUS
<1>13. misses' \in [Peer -> 0..MissLimit - 1] /\ slot' \in [Peer -> Slots]
  BY <1>2, <1>10, <1>11, <1>12, ChargedIs
<1> QED
  BY <1>9, <1>13

-----------------------------------------------------------------------------
(* The chain and the drain.                                                *)

\* A map from heights to blocks of that height.
AtHeights(w) ==
    DOMAIN w \subseteq Heights /\ \A h \in DOMAIN w : w[h] \in Block /\ height[w[h]] = h

\* advance finds a block the chain knows.
LEMMA BestHeldKnown ==
    ASSUME known \subseteq Block, IsFiniteSet(known), tip \in known, NEW held
    PROVE  BestHeld(held) \in known
<1> DEFINE fit == {b \in known : Anc[b] \subseteq Anc[tip] \cup held}
<1>1. fit \subseteq Block /\ IsFiniteSet(fit) /\ fit # {}
  BY FS_Subset
<1>2. PICK F : F = fit
  OBVIOUS
<1>3. \E b \in F : \A c \in F \ {b} : Better(b, c)
  <2>1. F \subseteq Block /\ IsFiniteSet(F) /\ F # {}
    BY <1>1, <1>2
  <2> QED
    BY <2>1, BestExists, Zenon
<1>4. BestHeld(held) = CHOOSE b \in F : \A c \in F \ {b} : Better(b, c)
  BY <1>2, Zenon DEF BestHeld
<1> QED
  BY <1>2, <1>3, <1>4

\* Heights are natural numbers.
LEMMA HeightsNat == Heights \subseteq Nat
BY TreeTypes DEF Heights

\* refill_wanted lists blocks under their heights.
LEMMA RefilledIs ==
    ASSUME NEW w, AtHeights(w), seen \in Block, NEW mark
    PROVE  AtHeights(Refilled(w, mark))
<1> DEFINE missing == {b \in Anc[seen] \ Anc[tip] :
                         height[b] > mark /\ height[b] <= mark + WantedMax}
           g == [h \in {height[b] : b \in missing} |-> CHOOSE b \in missing : height[b] = h]
<1>1. missing \subseteq Block
  BY TreeTypes
<1>2. \A h \in DOMAIN g : g[h] \in missing /\ height[g[h]] = h
  OBVIOUS
<1>3. DOMAIN g \subseteq Heights
  BY <1>1 DEF Heights
<1>4. Refilled(w, mark) = IF Cardinality(DOMAIN w) >= Window THEN w ELSE Filled(w, g)
  BY Zenon DEF Refilled
<1>5. AtHeights(Filled(w, g))
  <2> HIDE DEF g, missing
  <2>1. DOMAIN Filled(w, g) = DOMAIN w \cup DOMAIN g
    BY DEF Filled
  <2>2. \A h \in DOMAIN Filled(w, g) : Filled(w, g)[h] = IF h \in DOMAIN w THEN w[h] ELSE g[h]
    BY DEF Filled
  <2>3. \A h \in DOMAIN Filled(w, g) : Filled(w, g)[h] \in Block /\ height[Filled(w, g)[h]] = h
    <3> TAKE h \in DOMAIN Filled(w, g)
    <3>1. CASE h \in DOMAIN w
      BY <3>1, <2>2 DEF AtHeights
    <3>2. CASE h \notin DOMAIN w
      BY <3>2, <2>1, <2>2, <1>1, <1>2
    <3> QED
      BY <3>1, <3>2
  <2> QED
    BY <2>1, <2>3, <1>3 DEF AtHeights
<1> QED
  BY <1>4, <1>5

\* The watermark only rises, and the sink has room for what it is handed.
LEMMA DrainedIs ==
    ASSUME TypeOK
    PROVE  /\ CaughtUp \in Nat /\ CaughtUp >= applied
           /\ Drained(CaughtUp) \in 0..SinkCap - Len(queue)
           /\ \A i \in 1..Drained(CaughtUp) : CaughtUp + i \in DOMAIN ready
<1>1. height[tip] \in Nat /\ applied \in Nat
  BY TreeTypes DEF TypeOK
<1>2. CaughtUp \in Nat /\ CaughtUp >= applied
  <2>1. PICK t, m \in Nat : t = height[tip] /\ m = applied + CatchUpMax
    BY <1>1, Bounds
  <2>2. Min({t, m}) = IF t <= m THEN t ELSE m
    BY MinOfTwo
  <2>3. CaughtUp = IF height[tip] > applied THEN Min({t, m}) ELSE applied
    BY <2>1, Zenon DEF CaughtUp
  <2> QED
    BY <2>1, <2>2, <2>3, <1>1, Bounds
<1>3. PICK n \in Nat : n = SinkCap - Len(queue)
  <2>1. queue \in Seq(Block) /\ Len(queue) <= SinkCap
    BY DEF TypeOK
  <2>2. Len(queue) \in Nat
    BY <2>1
  <2>3. SinkCap - Len(queue) \in Nat
    BY <2>1, <2>2, Bounds
  <2> QED
    BY <2>3
<1>4. PICK from : from = CaughtUp
  OBVIOUS
<1>5. PICK V : V = {k \in 0..n : \A i \in 1..k : from + i \in DOMAIN ready}
  OBVIOUS
<1>6. V \subseteq 0..n /\ 0 \in V
  BY <1>5
<1>7. Max(V) \in V
  BY <1>6, MaxIs
<1>8. Drained(CaughtUp) = Max(V)
  BY <1>3, <1>4, <1>5, Zenon DEF Drained
<1> QED
  BY <1>2, <1>3, <1>4, <1>5, <1>7, <1>8

\* The drain hands bodies over and keeps the rest within reach.
LEMMA DrainKeeps ==
    ASSUME Inv, Drain
    PROVE  /\ queue' \in Seq(Block) /\ Len(queue') <= SinkCap
           /\ applied' \in Nat /\ AtHeights(ready') /\ AtHeights(wanted')
           /\ hol' \in {"no", "since", "due"}
           /\ \A h \in DOMAIN ready' : h > applied' /\ h <= applied' + ReadyAhead
           /\ Cardinality(DOMAIN ready') \in Nat
<1>1. PICK from, k : from = CaughtUp /\ k = Drained(from)
  OBVIOUS
<1>2. /\ from \in Nat /\ from >= applied /\ k \in 0..SinkCap - Len(queue)
      /\ \A i \in 1..k : from + i \in DOMAIN ready
  BY <1>1, DrainedIs DEF Inv
<1> DEFINE mark == from + k
           held == {h \in DOMAIN ready : h > mark}
           above == {h \in DOMAIN wanted : h > mark}
<1>3. /\ queue' = queue \o [i \in 1..k |-> ready[from + i]]
      /\ applied' = mark
      /\ ready' = Restrict(ready, held)
      /\ hol' = HolAfter(IF k > 0 THEN "no" ELSE hol, held, mark + 1)
      /\ wanted' = Refilled(Restrict(wanted, above), mark)
  BY <1>1, Zenon DEF Drain
<1>4. /\ queue \in Seq(Block) /\ Len(queue) <= SinkCap /\ applied \in Nat /\ seen \in Block
      /\ AtHeights(ready) /\ AtHeights(wanted) /\ hol \in {"no", "since", "due"}
      /\ \A h \in DOMAIN ready : h > applied /\ h <= applied + ReadyAhead
  BY DEF Inv, TypeOK, ReadyInReach, AtHeights
<1>5. mark \in Nat /\ mark >= applied
  BY <1>2, <1>4
<1>6. queue' \in Seq(Block) /\ Len(queue') <= SinkCap
  <2>1. PICK s : s = [i \in 1..k |-> ready[from + i]]
    OBVIOUS
  <2>2. \A i \in 1..k : ready[from + i] \in Block
    BY <1>2, <1>4 DEF AtHeights
  <2>3. k \in Nat
    BY <1>2, <1>4, Bounds
  <2>4. s \in Seq(Block) /\ Len(s) = k
    BY <2>1, <2>2, <2>3
  <2>5. queue' = queue \o s
    BY <2>1, <1>3
  <2>6. Len(queue) \in Nat
    BY <1>4
  <2> QED
    BY <2>3, <2>4, <2>5, <2>6, <1>2, <1>4, Bounds
<1>7. AtHeights(ready')
  BY <1>3, <1>4 DEF AtHeights, Restrict
<1>8. AtHeights(wanted')
  <2>1. PICK w : w = Restrict(wanted, above)
    OBVIOUS
  <2>2. AtHeights(w)
    BY <2>1, <1>4 DEF AtHeights, Restrict
  <2>3. PICK m : m = mark
    OBVIOUS
  <2> QED
    BY <2>1, <2>2, <2>3, <1>3, <1>4, RefilledIs
<1>9. hol' \in {"no", "since", "due"}
  <2> HIDE DEF held, mark
  <2> QED
    BY <1>3, <1>4 DEF HolAfter
<1>10. \A h \in DOMAIN ready' : h > applied' /\ h <= applied' + ReadyAhead
  <2>1. DOMAIN ready' = held
    BY <1>3 DEF Restrict
  <2>2. \A h \in held : h \in Nat /\ h > mark /\ h <= applied + ReadyAhead
    BY <1>4, HeightsNat DEF AtHeights
  <2>3. \A h \in held : h <= mark + ReadyAhead
    BY <2>2, <1>4, <1>5, Bounds
  <2> HIDE DEF held, mark
  <2> QED
    BY <2>1, <2>2, <2>3, <1>3
<1>11. Cardinality(DOMAIN ready') \in Nat
  <2>1. PICK n \in Nat : n = applied' + ReadyAhead
    BY <1>3, <1>5, Bounds
  <2>2. \A h \in DOMAIN ready' : h \in Nat /\ h <= n
    BY <2>1, <1>7, <1>10, HeightsNat DEF AtHeights
  <2>3. DOMAIN ready' \subseteq 0..n
    BY <2>2
  <2>4. IsFiniteSet(0..n)
    BY FS_Interval
  <2>5. PICK D : D = DOMAIN ready'
    OBVIOUS
  <2> QED
    BY <2>3, <2>4, <2>5, FS_Subset, FS_CardinalityType
<1> QED
  BY <1>3, <1>5, <1>6, <1>7, <1>8, <1>9, <1>10, <1>11

-----------------------------------------------------------------------------
(* The fork list.                                                          *)

\* One map over heights filled from another.
LEMMA FilledAtHeights ==
    ASSUME NEW f, NEW g, AtHeights(f), AtHeights(g)
    PROVE  AtHeights(Filled(f, g))
<1>1. DOMAIN Filled(f, g) = DOMAIN f \cup DOMAIN g
  BY DEF Filled
<1>2. \A h \in DOMAIN Filled(f, g) : Filled(f, g)[h] = IF h \in DOMAIN f THEN f[h] ELSE g[h]
  BY DEF Filled
<1> QED
  BY <1>1, <1>2 DEF AtHeights

\* A node wants finitely many bodies.
LEMMA WantedFinite ==
    ASSUME known \subseteq Block, IsFiniteSet(known)
    PROVE  IsFiniteSet(WantedBodies) /\ WantedBodies \subseteq Block
<1> DEFINE better == {c \in known : Better(c, tip)}
           branches == {Anc[b] \ Anc[tip] : b \in better}
<1>1. IsFiniteSet(better) /\ better \subseteq Block
  BY FS_Subset
<1>2. IsFiniteSet(branches)
  <2>1. PICK B : B = better
    OBVIOUS
  <2>2. PICK A : A = Anc[tip]
    OBVIOUS
  <2> DEFINE f == [b \in B |-> Anc[b] \ A]
             R == {Anc[b] \ A : b \in B}
  <2>3. IsFiniteSet(B)
    BY <1>1, <2>1
  <2>4. f \in Surjection(B, R)
    BY DEF Surjection
  <2> HIDE DEF f, R
  <2>5. IsFiniteSet(R)
    BY <2>3, <2>4, FS_Surjection
  <2> QED
    BY <2>1, <2>2, <2>5 DEF R
<1>3. \A T \in branches : IsFiniteSet(T)
  <2> SUFFICES ASSUME NEW b \in better
               PROVE  IsFiniteSet(Anc[b] \ Anc[tip])
    OBVIOUS
  <2>1. IsFiniteSet(Anc[b])
    BY <1>1, AncFinite
  <2> QED
    BY <2>1, FS_Subset
<1>4. IsFiniteSet(UNION branches)
  <2>1. PICK T : T = branches
    OBVIOUS
  <2>2. IsFiniteSet(T) /\ \A x \in T : IsFiniteSet(x)
    BY <2>1, <1>2, <1>3, Zenon
  <2>3. IsFiniteSet(UNION T)
    BY <2>2, FS_UNION
  <2> QED
    BY <2>1, <2>3, Zenon
<1>5. UNION branches \subseteq Block
  BY <1>1, TreeTypes
<1>6. WantedBodies = (UNION branches) \ bodies
  BY Zenon DEF WantedBodies
<1> HIDE DEF branches
<1>7. WantedBodies \subseteq UNION branches
  BY <1>6
<1> QED
  BY <1>4, <1>5, <1>7, FS_Subset, Zenon

\* The fork list names finitely many blocks.
LEMMA BranchFinite ==
    ASSUME known \subseteq Block, IsFiniteSet(known), NEW w, AtHeights(w)
    PROVE  IsFiniteSet(ForkBranch(w)) /\ ForkBranch(w) \subseteq Block
<1> DEFINE below == {b \in WantedBodies : height[b] <= applied}
           start == w[Min(DOMAIN w)]
           walk == IF DOMAIN w = {} THEN {}
                   ELSE {b \in Anc[start] \ (Anc[tip] \cup {start}) :
                           height[b] >= height[start] - ForkMax}
           all == below \cup walk
           before(b, c) == height[b] < height[c] \/ (height[b] = height[c] /\ hashKey[b] < hashKey[c])
<1>1. ForkBranch(w) = {b \in all : Cardinality({c \in all : before(c, b)}) < ForkMax}
  BY Zenon DEF ForkBranch
<1>2. IsFiniteSet(below) /\ below \subseteq Block
  <2>1. IsFiniteSet(WantedBodies) /\ WantedBodies \subseteq Block /\ below \subseteq WantedBodies
    BY WantedFinite
  <2> HIDE DEF below
  <2> QED
    BY <2>1, FS_Subset
<1>3. IsFiniteSet(walk) /\ walk \subseteq Block
  <2>1. CASE DOMAIN w = {}
    BY <2>1, FS_EmptySet
  <2>2. CASE DOMAIN w # {}
    <3>1. Min(DOMAIN w) \in DOMAIN w
      BY <2>2, HeightsNat, MinIs DEF AtHeights
    <3>2. start \in Block
      BY <3>1 DEF AtHeights
    <3>3. IsFiniteSet(Anc[start]) /\ Anc[start] \subseteq Block
      BY <3>2, AncFinite, TreeTypes
    <3>4. walk \subseteq Anc[start]
      BY <2>2
    <3> HIDE DEF walk, start
    <3> QED
      BY <3>3, <3>4, FS_Subset
  <2> QED
    BY <2>1, <2>2
<1> HIDE DEF below, walk
<1>4. IsFiniteSet(all) /\ all \subseteq Block
  BY <1>2, <1>3, FS_Union
<1>5. ForkBranch(w) \subseteq all
  BY <1>1
<1> HIDE DEF all
<1> QED
  BY <1>4, <1>5, FS_Subset

\* An entry that ages is an entry.
LEMMA AgedIs ==
    ASSUME NEW w \in ForkWant
    PROVE  ForkAged(w) \in ForkWant
<1> DEFINE tries == IF w.late THEN Min({w.attempts + 1, ForkAttempts}) ELSE w.attempts
           who == IF w.late THEN NoPeer ELSE w.asked
           out == tries >= ForkAttempts
           att == IF out /\ w.back = "due" THEN 0 ELSE tries
           rest == IF ~out THEN w.back ELSE IF w.back = "no" THEN "since"
                   ELSE IF w.back = "due" THEN "no" ELSE w.back
<1>1. ForkAged(w) = [asked |-> who, late |-> FALSE, attempts |-> att, back |-> rest]
  BY Zenon DEF ForkAged
<1>2. tries \in 0..ForkAttempts
  <2>1. w.attempts \in Nat /\ w.attempts <= ForkAttempts /\ w.attempts + 1 \in Nat
    BY Bounds DEF ForkWant
  <2>2. Min({w.attempts + 1, ForkAttempts}) \in 0..ForkAttempts
    BY <2>1, MinOfTwo, Bounds
  <2> QED
    BY <2>1, <2>2, Bounds
<1>3. who \in Peer \cup {NoPeer}
  BY DEF ForkWant
<1> HIDE DEF tries, who
<1>4. att \in 0..ForkAttempts
  BY <1>2, Bounds
<1>5. rest \in {"no", "since", "due"}
  BY DEF ForkWant
<1> HIDE DEF att, rest
<1> QED
  BY <1>1, <1>3, <1>4, <1>5 DEF ForkWant

\* The entries asked for are asked of suppliers.
LEMMA AskedIs ==
    ASSUME NEW C, C \subseteq Peer, NEW sup \in Seq(C), sup # <<>>,
           NEW f, IsFiniteSet(DOMAIN f), f \in [DOMAIN f -> ForkWant]
    PROVE  ForkAsked(f, sup) \in [DOMAIN f -> ForkWant]
<1> DEFINE busy == {b \in DOMAIN f : f[b].asked # NoPeer}
           todo == {b \in DOMAIN f \ busy : f[b].attempts < ForkAttempts}
           before(b, c) == height[b] < height[c] \/ (height[b] = height[c] /\ hashKey[b] < hashKey[c])
           place(b) == Cardinality({c \in todo : before(c, b)})
           slots == ForkInflight - Cardinality(busy)
           who(b) == sup[((f[b].attempts + place(b)) % Len(sup)) + 1]
<1>1. ForkAsked(f, sup) = [b \in DOMAIN f |-> IF b \in todo /\ place(b) < slots
                                              THEN [f[b] EXCEPT !.asked = who(b)] ELSE f[b]]
  BY Zenon DEF ForkAsked
<1>2. ASSUME NEW b \in DOMAIN f
      PROVE  [f[b] EXCEPT !.asked = who(b)] \in ForkWant
  <2>1. {c \in todo : before(c, b)} \subseteq DOMAIN f
    OBVIOUS
  <2>2. place(b) \in Nat
    BY <2>1, FS_Subset, FS_CardinalityType
  <2>3. f[b] \in ForkWant /\ f[b].attempts \in Nat
    BY Bounds DEF ForkWant
  <2> HIDE DEF place
  <2>4. who(b) \in Peer
    <3>1. Len(sup) \in Nat /\ Len(sup) > 0 /\ f[b].attempts + place(b) \in Nat
      BY <2>2, <2>3
    <3>2. ((f[b].attempts + place(b)) % Len(sup)) + 1 \in 1..Len(sup)
      BY <3>1
    <3> QED
      BY <3>2
  <2> HIDE DEF who
  <2> QED
    BY <2>3, <2>4 DEF ForkWant
<1> QED
  BY <1>1, <1>2, Zenon

-----------------------------------------------------------------------------
(* The invariant is kept, action by action.                                *)

\* release_peer: what is left is a window of the other peers.
LEMMA ReleasedIs ==
    ASSUME WindowOf(inflight), NEW p
    PROVE  /\ WindowOf(Released(inflight, p))
           /\ \A b \in DOMAIN Released(inflight, p) : Released(inflight, p)[b].peer # p
<1>1. PICK r, f : r = inflight /\ f = Released(inflight, p)
  OBVIOUS
<1>2. DOMAIN f \subseteq DOMAIN r /\ \A b \in DOMAIN f : f[b] = r[b] /\ r[b].peer # p
  BY <1>1 DEF Released, Restrict
<1>3. f = [b \in DOMAIN f |-> f[b]]
  BY <1>1 DEF Released, Restrict
<1>4. WindowOf(r) /\ r \in [DOMAIN r -> Request] /\ \A b \in DOMAIN r : r[b].peer \in connected
  BY <1>1 DEF WindowOf
<1>5. f \in [DOMAIN f -> Request] /\ \A b \in DOMAIN f : f[b].peer \in connected
  BY <1>2, <1>3, <1>4
<1>6. WindowOf(f)
  BY <1>2, <1>4, <1>5, PartOfWindow
<1> QED
  BY <1>1, <1>2, <1>6

\* A node starts with an empty window.
LEMMA InitInv ==
    ASSUME Init
    PROVE  Inv
<1>1. tip \in Block /\ Anc[tip] \subseteq Block /\ tip \in Anc[tip] /\ height[tip] \in Nat
  BY TreeTypes, TreeLinear, BodySyncConstants DEF Init
<1>2. TypeOK
  BY <1>1, Bounds DEF Init, TypeOK
<1>3. WindowOf(inflight)
  <2>1. DOMAIN inflight = {} /\ inflight \in [{} -> Request]
    BY DEF Init
  <2>2. IsFiniteSet({}) /\ Cardinality({}) = 0
    BY FS_EmptySet
  <2> QED
    BY <2>1, <2>2, Bounds DEF WindowOf
<1>4. IsFiniteSet(known)
  BY <1>1, AncFinite DEF Init
<1> QED
  BY <1>2, <1>3, <1>4 DEF Init, Inv, ReadyInReach

\* The validator takes a body and may adopt another branch (Cmd::Block).
LEMMA ProcessBlockInv ==
    ASSUME Inv, ProcessBlock
    PROVE  Inv'
<1> DEFINE b == Head(queue)
           held == IF b \in known /\ ~HaveBody(b) THEN bodies \cup {b} ELSE bodies
<1>1. /\ queue # <<>> /\ queue' = Tail(queue) /\ tip' = BestHeld(held)
      /\ bodies' = held \ Anc[tip']
      /\ UNCHANGED <<known, seen, syncPeer, applied, wanted, inflight, ready, hol, fork, pc,
                     designated, links, session>>
  BY Zenon DEF ProcessBlock
<1>2. known \subseteq Block /\ tip \in known /\ bodies \subseteq known /\ IsFiniteSet(known)
  BY DEF Inv, TypeOK
<1>3. tip' \in known
  <2>1. PICK h : h = held
    OBVIOUS
  <2> QED
    BY <2>1, <1>1, <1>2, BestHeldKnown
<1>4. bodies' \subseteq known
  BY <1>1, <1>2
<1>5. queue' \in Seq(Block) /\ Len(queue') <= SinkCap
  <2>1. queue \in Seq(Block) /\ Len(queue) <= SinkCap
    BY DEF Inv, TypeOK
  <2> QED
    BY <2>1, <1>1, Bounds
<1> HIDE DEF b, held
<1>6. TypeOK'
  BY <1>1, <1>2, <1>3, <1>4, <1>5 DEF Inv, TypeOK, links, session
<1>7. WindowOf(inflight)' /\ ReadyInReach' /\ IsFiniteSet(known)' /\ (pc = "idle" => designated = NoPeer)'
  BY <1>1 DEF Inv, WindowOf, ReadyInReach, links
<1> QED
  BY <1>6, <1>7 DEF Inv

\* The validator indexes headers (Cmd::Headers).
LEMMA ConnectHeadersInv ==
    ASSUME Inv, ConnectHeaders
    PROVE  Inv'
<1>1. known' \subseteq Block /\ known \subseteq known' /\ IsFiniteSet(known')
  <2>1. seen \in Block /\ known \subseteq Block /\ IsFiniteSet(known)
    BY DEF Inv, TypeOK
  <2>2. IsFiniteSet(Anc[seen]) /\ Anc[seen] \subseteq Block
    BY <2>1, AncFinite, TreeTypes
  <2>3. IsFiniteSet(known \cup Anc[seen])
    BY <2>1, <2>2, FS_Union
  <2> QED
    BY <2>1, <2>2, <2>3 DEF ConnectHeaders
<1>2. TypeOK'
  BY <1>1 DEF ConnectHeaders, Inv, TypeOK, links, session
<1>3. WindowOf(inflight)' /\ ReadyInReach' /\ (pc = "idle" => designated = NoPeer)'
  BY DEF ConnectHeaders, Inv, WindowOf, ReadyInReach, links
<1> QED
  BY <1>1, <1>2, <1>3 DEF Inv

\* The header track moves its tip and nothing of the window.
LEMMA VerifyHeadersInv ==
    ASSUME Inv, NEW b \in Block, VerifyHeaders(b)
    PROVE  Inv'
<1>1. TypeOK'
  BY DEF VerifyHeaders, Inv, TypeOK, chain, links, session
<1>2. WindowOf(inflight)' /\ ReadyInReach' /\ IsFiniteSet(known)' /\ (pc = "idle" => designated = NoPeer)'
  BY DEF VerifyHeaders, Inv, WindowOf, ReadyInReach, chain, links
<1> QED
  BY <1>1, <1>2 DEF Inv

\* A fresh session holds no request.
LEMMA PeerReadyInv ==
    ASSUME Inv, NEW p \in Peer, PeerReady(p)
    PROVE  Inv'
<1>1. 0 \in 0..MissLimit - 1
  BY Bounds
<1>2. misses' \in [Peer -> 0..MissLimit - 1] /\ slot' \in [Peer -> {"held", "lost", "back soon"}]
  BY <1>1 DEF PeerReady, Inv, TypeOK
<1>3. TypeOK'
  BY <1>2 DEF PeerReady, Inv, TypeOK, chain
<1>4. WindowOf(inflight)' /\ ReadyInReach' /\ IsFiniteSet(known)' /\ (pc = "idle" => designated = NoPeer)'
  BY DEF PeerReady, Inv, WindowOf, ReadyInReach, chain
<1> QED
  BY <1>3, <1>4 DEF Inv

\* A session that ends takes its requests with it.
LEMMA PeerGoneInv ==
    ASSUME Inv, NEW p \in Peer, PeerGone(p)
    PROVE  Inv'
<1>1. WindowOf(inflight') /\ \A b \in DOMAIN inflight' : inflight'[b].peer # p
  <2>1. PICK f : f = Released(inflight, p)
    OBVIOUS
  <2>2. inflight' = f
    BY <2>1 DEF PeerGone
  <2> QED
    BY <2>1, <2>2, ReleasedIs DEF Inv
<1>2. WindowOf(inflight)'
  BY <1>1 DEF WindowOf, PeerGone
<1>3. DOMAIN inflight' \subseteq Block /\ \A b \in DOMAIN inflight' : inflight'[b] \in Request
  BY <1>1 DEF WindowOf
<1>4. designated = NoPeer /\ upsets' \in 0..MaxUpsets
  <2>1. pc = "idle" /\ upsets < MaxUpsets /\ upsets' = upsets + 1
    BY DEF PeerGone
  <2>2. upsets \in 0..MaxUpsets /\ (pc = "idle" => designated = NoPeer)
    BY DEF Inv, TypeOK
  <2> QED
    BY <2>1, <2>2, Bounds
<1>5. TypeOK'
  BY <1>3, <1>4 DEF PeerGone, Inv, TypeOK, chain, session
<1>6. ReadyInReach' /\ IsFiniteSet(known)' /\ (pc = "idle" => designated = NoPeer)'
  BY DEF PeerGone, Inv, ReadyInReach, chain
<1> QED
  BY <1>2, <1>5, <1>6 DEF Inv

\* The fork list as TypeOK has it.
ForkOK(f) == DOMAIN f \subseteq Block /\ \A b \in DOMAIN f : f[b] \in ForkWant

\* A body leaves the window and waits within reach, or goes to the validator.
LEMMA BodyInv ==
    ASSUME Inv, NEW p \in Peer, NEW b \in Block, Body(p, b)
    PROVE  Inv'
<1>1. /\ RecordBody(p) /\ Answers(p, b)
      /\ \/ b \in DOMAIN fork /\ OnForkBody(b) /\ UNCHANGED <<inflight, ready, wanted>>
         \/ OnBody(b) /\ UNCHANGED <<queue, fork>>
      /\ UNCHANGED <<known, tip, bodies, seen, syncPeer, applied, hol, pc, designated, connected, slot>>
  BY Zenon DEF Body
<1>2. /\ queue \in Seq(Block) /\ Len(queue) <= SinkCap /\ ForkOK(fork) /\ upsets \in 0..MaxUpsets
      /\ AtHeights(ready) /\ AtHeights(wanted) /\ WindowOf(inflight) /\ ReadyInReach
      /\ applied \in Nat /\ misses \in [Peer -> 0..MissLimit - 1]
  BY DEF Inv, TypeOK, AtHeights, ForkOK
<1>3. upsets' \in 0..MaxUpsets
  BY <1>1, <1>2, Bounds DEF Answers
<1>4. misses' \in [Peer -> 0..MissLimit - 1]
  <2>1. 0 \in 0..MissLimit - 1
    BY Bounds
  <2> QED
    BY <2>1, <1>1, <1>2 DEF RecordBody
<1>5. queue' \in Seq(Block) /\ Len(queue') <= SinkCap
  <2>1. UNCHANGED queue \/ (Len(queue) < SinkCap /\ queue' = Append(queue, b))
    BY <1>1, Zenon DEF OnForkBody
  <2>2. Len(queue) \in Nat /\ Append(queue, b) \in Seq(Block) /\ Len(Append(queue, b)) = Len(queue) + 1
    BY <1>2
  <2> QED
    BY <2>1, <2>2, <1>2, Bounds
<1>6. ForkOK(fork')
  <2>1. CASE UNCHANGED fork
    BY <2>1, <1>2
  <2>2. CASE b \in DOMAIN fork /\ fork' = Restrict(fork, DOMAIN fork \ {b})
    BY <2>2, <1>2 DEF ForkOK, Restrict
  <2>3. CASE b \in DOMAIN fork /\ fork' = [fork EXCEPT ![b].asked = NoPeer, ![b].late = FALSE]
    <3>1. fork[b] \in ForkWant
      BY <2>3, <1>2 DEF ForkOK
    <3> DEFINE e == [[fork[b] EXCEPT !.asked = NoPeer] EXCEPT !.late = FALSE]
    <3>2. e \in ForkWant
      BY <3>1 DEF ForkWant
    <3>3. DOMAIN fork' = DOMAIN fork /\ \A c \in DOMAIN fork : c # b => fork'[c] = fork[c]
      BY <2>3
    <3>4. fork'[b] = e
      BY <2>3
    <3> HIDE DEF e
    <3> QED
      BY <3>2, <3>3, <3>4, <1>2 DEF ForkOK
  <2> QED
    BY <1>1, <2>1, <2>2, <2>3, Zenon DEF OnForkBody
<1>7. WindowOf(inflight')
  <2>1. CASE UNCHANGED inflight
    BY <2>1, <1>2
  <2>2. CASE inflight' = Restrict(inflight, DOMAIN inflight \ {b})
    <3>1. PICK r, f : r = inflight /\ f = inflight'
      OBVIOUS
    <3>2. DOMAIN f \subseteq DOMAIN r /\ \A c \in DOMAIN f : f[c] = r[c]
      BY <3>1, <2>2 DEF Restrict
    <3>3. f = [c \in DOMAIN f |-> f[c]]
      BY <3>1, <2>2 DEF Restrict
    <3>4. WindowOf(r) /\ r \in [DOMAIN r -> Request] /\ \A c \in DOMAIN r : r[c].peer \in connected
      BY <3>1, <1>2 DEF WindowOf
    <3>5. f \in [DOMAIN f -> Request] /\ \A c \in DOMAIN f : f[c].peer \in connected
      BY <3>2, <3>3, <3>4
    <3> QED
      BY <3>1, <3>2, <3>4, <3>5, PartOfWindow
  <2> QED
    BY <1>1, <2>1, <2>2, Zenon DEF OnBody
<1>8. AtHeights(ready') /\ \A h \in DOMAIN ready' : h > applied /\ h <= applied + ReadyAhead
  <2>1. CASE UNCHANGED ready
    BY <2>1, <1>2 DEF ReadyInReach
  <2>2. CASE /\ ready' = Filled(ready, [h \in {height[b]} |-> b])
             /\ height[b] > applied /\ height[b] <= applied + ReadyAhead
    <3>1. height[b] \in Heights
      BY DEF Heights
    <3>2. AtHeights([h \in {height[b]} |-> b])
      BY <3>1 DEF AtHeights
    <3>3. PICK f, g : f = ready /\ g = [h \in {height[b]} |-> b]
      OBVIOUS
    <3>4. AtHeights(Filled(f, g))
      BY <3>2, <3>3, <1>2, FilledAtHeights
    <3>5. DOMAIN Filled(f, g) = DOMAIN f \cup DOMAIN g
      BY DEF Filled
    <3>6. \A h \in DOMAIN Filled(f, g) : h > applied /\ h <= applied + ReadyAhead
      BY <3>3, <3>5, <2>2, <1>2 DEF ReadyInReach
    <3> QED
      BY <3>3, <3>4, <3>6, <2>2
  <2> QED
    BY <1>1, <2>1, <2>2, Zenon DEF OnBody
<1>9. AtHeights(wanted')
  <2>1. CASE UNCHANGED wanted
    BY <2>1, <1>2
  <2>2. CASE wanted' = Restrict(wanted, {h \in DOMAIN wanted : wanted[h] # b})
    BY <2>2, <1>2 DEF AtHeights, Restrict
  <2> QED
    BY <1>1, <2>1, <2>2, Zenon DEF OnBody
<1>10. TypeOK'
  <2>1. DOMAIN inflight' \subseteq Block /\ \A c \in DOMAIN inflight' : inflight'[c] \in Request
    BY <1>7 DEF WindowOf
  <2> QED
    BY <2>1, <1>1, <1>3, <1>4, <1>5, <1>6, <1>8, <1>9 DEF Inv, TypeOK, AtHeights, ForkOK
<1>11. WindowOf(inflight)' /\ ReadyInReach' /\ IsFiniteSet(known)' /\ (pc = "idle" => designated = NoPeer)'
  BY <1>1, <1>7, <1>8 DEF Inv, WindowOf, ReadyInReach
<1> QED
  BY <1>10, <1>11 DEF Inv

\* A refusal moves a deadline and counts a miss.
LEMMA NotFoundInv ==
    ASSUME Inv, NEW p \in Peer, NEW b \in Block, NotFound(p, b)
    PROVE  Inv'
<1> DEFINE mine == b \in DOMAIN inflight /\ inflight[b].peer = p
           k == [q \in Peer |-> IF q = p /\ mine THEN 1 ELSE 0]
<1>1. /\ Answers(p, b)
      /\ fork' = IF b \in DOMAIN fork
                 THEN [fork EXCEPT ![b].asked = NoPeer, ![b].late = FALSE,
                                   ![b].attempts = Min({@ + 1, ForkAttempts})]
                 ELSE fork
      /\ inflight' = IF mine THEN [inflight EXCEPT ![b].due = "refused"] ELSE inflight
      /\ ChargeMisses(k, slot)
      /\ UNCHANGED <<chain, seen, syncPeer, applied, wanted, ready, hol, pc, designated, connected>>
  BY Zenon DEF NotFound
<1>2. /\ ForkOK(fork) /\ upsets \in 0..MaxUpsets /\ WindowOf(inflight)
      /\ misses \in [Peer -> 0..MissLimit - 1] /\ slot \in [Peer -> Slots]
  BY DEF Inv, TypeOK, ForkOK, Slots
<1>3. upsets' \in 0..MaxUpsets
  BY <1>1, <1>2, Bounds DEF Answers
<1>4. misses' \in [Peer -> 0..MissLimit - 1] /\ slot' \in [Peer -> Slots]
  <2>1. k \in [Peer -> Nat]
    OBVIOUS
  <2> HIDE DEF k
  <2>2. PICK m, was : m = k /\ was = slot
    OBVIOUS
  <2> QED
    BY <2>1, <2>2, <1>1, <1>2, ChargedIs
<1>5. ForkOK(fork')
  <2>1. CASE b \notin DOMAIN fork
    BY <2>1, <1>1, <1>2
  <2>2. CASE b \in DOMAIN fork
    <3> DEFINE n == Min({fork[b].attempts + 1, ForkAttempts})
               e == [[[fork[b] EXCEPT !.asked = NoPeer] EXCEPT !.late = FALSE] EXCEPT !.attempts = n]
    <3>1. fork[b] \in ForkWant
      BY <2>2, <1>2 DEF ForkOK
    <3>2. n \in 0..ForkAttempts
      <4>1. PICK m \in Nat : m = fork[b].attempts + 1
        BY <3>1, Bounds DEF ForkWant
      <4>2. Min({m, ForkAttempts}) \in 0..ForkAttempts
        BY MinOfTwo, Bounds
      <4> QED
        BY <4>1, <4>2
    <3>3. DOMAIN fork' = DOMAIN fork /\ \A c \in DOMAIN fork : c # b => fork'[c] = fork[c]
      BY <2>2, <1>1
    <3>4. fork'[b] = e
      <4>1. fork' = [fork EXCEPT ![b].asked = NoPeer, ![b].late = FALSE,
                                 ![b].attempts = Min({@ + 1, ForkAttempts})]
        BY <2>2, <1>1
      <4> QED
        BY <4>1, <2>2, <3>1 DEF ForkWant
    <3> HIDE DEF n
    <3>5. e \in ForkWant
      BY <3>1, <3>2 DEF ForkWant
    <3> HIDE DEF e
    <3> QED
      BY <3>3, <3>4, <3>5, <1>2 DEF ForkOK
  <2> QED
    BY <2>1, <2>2
<1>6. WindowOf(inflight')
  <2>1. CASE ~mine
    BY <2>1, <1>1, <1>2
  <2>2. CASE mine
    <3>1. PICK r, f : r = inflight /\ f = inflight'
      OBVIOUS
    <3>2. f = [r EXCEPT ![b].due = "refused"] /\ b \in DOMAIN r
      BY <3>1, <2>2, <1>1
    <3>3. WindowOf(r) /\ \A c \in DOMAIN r : r[c] \in Request /\ r[c].peer \in connected
      BY <3>1, <1>2 DEF WindowOf
    <3>4. [r[b] EXCEPT !.due = "refused"] \in Request /\ [r[b] EXCEPT !.due = "refused"].peer = r[b].peer
      BY <3>2, <3>3 DEF Request
    <3>5. DOMAIN f = DOMAIN r /\ \A c \in DOMAIN r : f[c] = IF c = b THEN [r[b] EXCEPT !.due = "refused"] ELSE r[c]
      BY <3>2
    <3>6. f = [c \in DOMAIN f |-> f[c]]
      BY <3>2
    <3>7. \A c \in DOMAIN f : f[c] \in Request /\ f[c].peer \in connected
      BY <3>3, <3>4, <3>5
    <3>8. f \in [DOMAIN f -> Request]
      BY <3>6, <3>7
    <3> QED
      BY <3>1, <3>3, <3>5, <3>7, <3>8, PartOfWindow
  <2> QED
    BY <2>1, <2>2
<1>7. TypeOK'
  <2>1. DOMAIN inflight' \subseteq Block /\ \A c \in DOMAIN inflight' : inflight'[c] \in Request
    BY <1>6 DEF WindowOf
  <2> HIDE DEF k
  <2> QED
    BY <2>1, <1>1, <1>3, <1>4, <1>5 DEF Inv, TypeOK, ForkOK, chain, Slots
<1>8. WindowOf(inflight)' /\ ReadyInReach' /\ IsFiniteSet(known)' /\ (pc = "idle" => designated = NoPeer)'
  <2> HIDE DEF k
  <2> QED
    BY <1>1, <1>6 DEF Inv, WindowOf, ReadyInReach, chain
<1> QED
  BY <1>7, <1>8 DEF Inv

\* The first half of a tick: drain, schedule, retry.
LEMMA TickWindowInv ==
    ASSUME Inv, NEW sync \in connected \cup {NoPeer}, TickWindow(sync)
    PROVE  Inv'
<1>1. /\ pc = "idle" /\ (sync # syncPeer => upsets < MaxUpsets) /\ syncPeer' = sync
      /\ designated' = IF sync # syncPeer THEN sync ELSE NoPeer
      /\ upsets' = IF sync # syncPeer THEN upsets + 1 ELSE upsets
      /\ Drain /\ pc' = "fork"
      /\ UNCHANGED <<known, tip, bodies, seen, fork, connected>>
  BY Zenon DEF TickWindow
<1>2. Retry(Scheduled(BodySuppliers({sync})), BodySuppliers({sync}))
  BY Zenon DEF TickWindow
<1>3. /\ queue' \in Seq(Block) /\ Len(queue') <= SinkCap
      /\ applied' \in Nat /\ AtHeights(ready') /\ AtHeights(wanted')
      /\ hol' \in {"no", "since", "due"}
      /\ \A h \in DOMAIN ready' : h > applied' /\ h <= applied' + ReadyAhead
      /\ Cardinality(DOMAIN ready') \in Nat
  BY <1>1, DrainKeeps
<1>4. /\ connected \subseteq Peer /\ WindowOf(inflight) /\ upsets \in 0..MaxUpsets
      /\ misses \in [Peer -> 0..MissLimit - 1] /\ slot \in [Peer -> Slots]
  BY DEF Inv, TypeOK, Slots
<1>5. upsets' \in 0..MaxUpsets
  BY <1>1, <1>4, Bounds
<1>6. PICK sup : sup = BodySuppliers({sync})
  OBVIOUS
<1>7. sup \in Seq(connected)
  BY <1>4, <1>6, SuppliersConnected
<1>8. WindowOf(Scheduled(sup))
  <2>1. \A h \in DOMAIN wanted' : wanted'[h] \in Block
    BY <1>3 DEF AtHeights
  <2> QED
    BY <2>1, <1>3, <1>4, <1>7, ScheduledKeeps
<1>9. PICK reqs : reqs = Scheduled(sup)
  OBVIOUS
<1>10. WindowOf(inflight') /\ misses' \in [Peer -> 0..MissLimit - 1] /\ slot' \in [Peer -> Slots]
  <2>1. WindowOf(reqs) /\ Retry(reqs, sup)
    BY <1>2, <1>6, <1>8, <1>9
  <2> QED
    BY <2>1, <1>4, <1>7, RetryKeeps
<1>11. TypeOK'
  <2>1. DOMAIN inflight' \subseteq Block /\ \A c \in DOMAIN inflight' : inflight'[c] \in Request
    BY <1>10 DEF WindowOf
  <2> QED
    BY <2>1, <1>1, <1>3, <1>5, <1>10 DEF Inv, TypeOK, AtHeights, Slots
<1>12. WindowOf(inflight)' /\ ReadyInReach' /\ IsFiniteSet(known)' /\ (pc = "idle" => designated = NoPeer)'
  BY <1>1, <1>3, <1>10 DEF Inv, WindowOf, ReadyInReach
<1> QED
  BY <1>11, <1>12 DEF Inv

\* The second half: the lists, and the release of the peer just designated.
LEMMA TickForkInv ==
    ASSUME Inv, TickFork
    PROVE  Inv'
<1> DEFINE above == {b \in WantedBodies : height[b] > applied /\ height[b] <= applied + WantedMax}
           listed(w) == [b \in ForkBranch(w) |-> IF b \in DOMAIN fork THEN fork[b] ELSE NewForkWant]
           aged(w) == [b \in ForkBranch(w) |-> ForkAged(listed(w)[b])]
<1>1. PICK sup : sup = BodySuppliers({})
  OBVIOUS
<1>2. PICK pick \in [{height[b] : b \in above} -> above] :
        /\ \A h \in DOMAIN pick : height[pick[h]] = h
        /\ wanted' = Filled(pick, wanted)
        /\ fork' = IF sup = <<>> THEN listed(Filled(pick, wanted))
                   ELSE ForkAsked(aged(Filled(pick, wanted)), sup)
  BY <1>1, Zenon DEF TickFork
<1>3. /\ inflight' = IF designated = NoPeer THEN inflight ELSE Released(inflight, designated)
      /\ designated' = NoPeer /\ pc' = "idle"
      /\ UNCHANGED <<chain, seen, syncPeer, applied, ready, hol, session, links>>
  BY Zenon DEF TickFork
<1>4. /\ known \subseteq Block /\ IsFiniteSet(known) /\ connected \subseteq Peer
      /\ AtHeights(wanted) /\ ForkOK(fork) /\ WindowOf(inflight)
  BY DEF Inv, TypeOK, AtHeights, ForkOK
<1>5. sup \in Seq(connected)
  BY <1>1, <1>4, SuppliersConnected
<1>6. above \subseteq Block
  BY <1>4, WantedFinite
<1>7. AtHeights(pick)
  <2>1. \A h \in DOMAIN pick : pick[h] \in Block
    BY <1>6
  <2>2. DOMAIN pick \subseteq Heights
    BY <1>6 DEF Heights
  <2> QED
    BY <2>1, <2>2, <1>2 DEF AtHeights
<1>8. PICK w : w = Filled(pick, wanted)
  OBVIOUS
<1>9. AtHeights(w)
  <2>1. PICK g : g = wanted
    OBVIOUS
  <2>2. AtHeights(Filled(pick, g))
    BY <2>1, <1>4, <1>7, FilledAtHeights
  <2> QED
    BY <2>1, <2>2, <1>8
<1>10. PICK branch : branch = ForkBranch(w)
  OBVIOUS
<1>11. IsFiniteSet(branch) /\ branch \subseteq Block
  BY <1>4, <1>9, <1>10, BranchFinite
<1> HIDE DEF above
<1>12. listed(w) \in [branch -> ForkWant]
  <2>1. NewForkWant \in ForkWant
    BY Bounds DEF NewForkWant, ForkWant
  <2> QED
    BY <2>1, <1>4, <1>10 DEF ForkOK
<1>13. aged(w) \in [branch -> ForkWant]
  <2>1. PICK l : l = listed(w)
    OBVIOUS
  <2>2. \A b \in branch : ForkAged(l[b]) \in ForkWant
    BY <2>1, <1>12, AgedIs
  <2>3. aged(w) = [b \in branch |-> ForkAged(l[b])]
    BY <2>1, <1>10, Zenon
  <2> QED
    BY <2>2, <2>3, Zenon
<1>14. ForkOK(fork')
  <2>1. CASE sup = <<>>
    <3>1. fork' = listed(w)
      BY <2>1, <1>2, <1>8
    <3> HIDE DEF listed
    <3> QED
      BY <3>1, <1>11, <1>12 DEF ForkOK
  <2>2. CASE sup # <<>>
    <3>1. PICK f : f = aged(w)
      OBVIOUS
    <3>2. fork' = ForkAsked(f, sup)
      BY <3>1, <2>2, <1>2, <1>8
    <3>3. PICK C : C = connected
      OBVIOUS
    <3> HIDE DEF aged
    <3>4. DOMAIN f = branch /\ f \in [branch -> ForkWant]
      BY <3>1, <1>13
    <3>5. ForkAsked(f, sup) \in [branch -> ForkWant]
      BY <3>3, <3>4, <2>2, <1>4, <1>5, <1>11, AskedIs
    <3>6. fork' \in [branch -> ForkWant]
      BY <3>2, <3>5
    <3> QED
      BY <3>6, <1>11 DEF ForkOK
  <2> QED
    BY <2>1, <2>2
<1>15. WindowOf(inflight')
  <2>1. PICK d : d = designated
    OBVIOUS
  <2>2. WindowOf(Released(inflight, d))
    BY <1>4, ReleasedIs
  <2> QED
    BY <2>1, <2>2, <1>3, <1>4
<1>16. TypeOK'
  <2>1. DOMAIN inflight' \subseteq Block /\ \A c \in DOMAIN inflight' : inflight'[c] \in Request
    BY <1>15 DEF WindowOf
  <2>2. AtHeights(wanted')
    BY <1>2, <1>8, <1>9
  <2> QED
    BY <2>1, <2>2, <1>3, <1>14 DEF Inv, TypeOK, AtHeights, ForkOK, chain, session, links
<1>17. WindowOf(inflight)' /\ ReadyInReach' /\ IsFiniteSet(known)' /\ (pc = "idle" => designated = NoPeer)'
  BY <1>3, <1>15 DEF Inv, WindowOf, ReadyInReach, chain, links
<1> QED
  BY <1>16, <1>17 DEF Inv

\* A clock marks a request, an entry, the head of line or a slot.
LEMMA ClockInv ==
    ASSUME Inv, Clock
    PROVE  Inv'
<1>1. ASSUME NEW b \in Block, BodyLate(b)
      PROVE  Inv'
  <2>1. PICK r, f : r = inflight /\ f = inflight'
    OBVIOUS
  <2>2. f = [r EXCEPT ![b].due = "late"] /\ b \in DOMAIN r
    BY <2>1, <1>1 DEF BodyLate
  <2>3. WindowOf(r) /\ \A c \in DOMAIN r : r[c] \in Request /\ r[c].peer \in connected
    BY <2>1 DEF Inv, WindowOf
  <2>4. [r[b] EXCEPT !.due = "late"] \in Request /\ [r[b] EXCEPT !.due = "late"].peer = r[b].peer
    BY <2>2, <2>3 DEF Request
  <2>5. DOMAIN f = DOMAIN r /\ \A c \in DOMAIN r : f[c] = IF c = b THEN [r[b] EXCEPT !.due = "late"] ELSE r[c]
    BY <2>2
  <2>6. f = [c \in DOMAIN f |-> f[c]]
    BY <2>2
  <2>7. \A c \in DOMAIN f : f[c] \in Request /\ f[c].peer \in connected
    BY <2>3, <2>4, <2>5
  <2>8. f \in [DOMAIN f -> Request]
    BY <2>6, <2>7
  <2>9. WindowOf(inflight')
    BY <2>1, <2>3, <2>5, <2>7, <2>8, PartOfWindow
  <2>10. DOMAIN inflight' \subseteq Block /\ \A c \in DOMAIN inflight' : inflight'[c] \in Request
    BY <2>9 DEF WindowOf
  <2>11. TypeOK'
    BY <2>10, <1>1 DEF BodyLate, clocksOnly, Inv, TypeOK, chain, links
  <2>12. WindowOf(inflight)' /\ ReadyInReach' /\ IsFiniteSet(known)' /\ (pc = "idle" => designated = NoPeer)'
    BY <2>9, <1>1 DEF BodyLate, clocksOnly, Inv, WindowOf, ReadyInReach, chain, links
  <2> QED
    BY <2>11, <2>12 DEF Inv
<1>2. ASSUME NEW b \in Block, ForkLate(b)
      PROVE  Inv'
  <2>1. b \in DOMAIN fork /\ ForkOK(fork)
    BY <1>2 DEF ForkLate, Inv, TypeOK, ForkOK
  <2>2. fork[b] \in ForkWant
    BY <2>1 DEF ForkOK
  <2>3. [fork[b] EXCEPT !.late = TRUE] \in ForkWant /\ [fork[b] EXCEPT !.back = "due"] \in ForkWant
    BY <2>2 DEF ForkWant
  <2>4. ForkOK(fork')
    <3>1. CASE fork' = [fork EXCEPT ![b].late = TRUE]
      <4> DEFINE e == [fork[b] EXCEPT !.late = TRUE]
      <4>1. DOMAIN fork' = DOMAIN fork /\ \A c \in DOMAIN fork : fork'[c] = IF c = b THEN e ELSE fork[c]
        BY <3>1
      <4> HIDE DEF e
      <4> QED
        BY <4>1, <2>1, <2>3 DEF ForkOK, e
    <3>2. CASE fork' = [fork EXCEPT ![b].back = "due"]
      <4> DEFINE e == [fork[b] EXCEPT !.back = "due"]
      <4>1. DOMAIN fork' = DOMAIN fork /\ \A c \in DOMAIN fork : fork'[c] = IF c = b THEN e ELSE fork[c]
        BY <3>2
      <4> HIDE DEF e
      <4> QED
        BY <4>1, <2>1, <2>3 DEF ForkOK, e
    <3> QED
      BY <3>1, <3>2, <1>2 DEF ForkLate
  <2>5. TypeOK'
    BY <2>4, <1>2 DEF ForkLate, ForkOK, clocksOnly, Inv, TypeOK, chain, links
  <2>6. WindowOf(inflight)' /\ ReadyInReach' /\ IsFiniteSet(known)' /\ (pc = "idle" => designated = NoPeer)'
    BY <1>2 DEF ForkLate, clocksOnly, Inv, WindowOf, ReadyInReach, chain, links
  <2> QED
    BY <2>5, <2>6 DEF Inv
<1>3. ASSUME HolLate
      PROVE  Inv'
  <2>1. TypeOK'
    BY <1>3 DEF HolLate, clocksOnly, Inv, TypeOK, chain, links
  <2>2. WindowOf(inflight)' /\ ReadyInReach' /\ IsFiniteSet(known)' /\ (pc = "idle" => designated = NoPeer)'
    BY <1>3 DEF HolLate, clocksOnly, Inv, WindowOf, ReadyInReach, chain, links
  <2> QED
    BY <2>1, <2>2 DEF Inv
<1>4. ASSUME NEW p \in Peer, SlotBack(p)
      PROVE  Inv'
  <2>1. TypeOK'
    BY <1>4 DEF SlotBack, clocksOnly, Inv, TypeOK, chain, links
  <2>2. WindowOf(inflight)' /\ ReadyInReach' /\ IsFiniteSet(known)' /\ (pc = "idle" => designated = NoPeer)'
    BY <1>4 DEF SlotBack, clocksOnly, Inv, WindowOf, ReadyInReach, chain, links
  <2> QED
    BY <2>1, <2>2 DEF Inv
<1> QED
  BY <1>1, <1>2, <1>3, <1>4 DEF Clock

\* Nothing changes.
LEMMA StutterInv ==
    ASSUME Inv, UNCHANGED vars
    PROVE  Inv'
<1>1. TypeOK'
  BY DEF vars, Inv, TypeOK, chain, links, session
<1>2. WindowOf(inflight)' /\ ReadyInReach' /\ IsFiniteSet(known)' /\ (pc = "idle" => designated = NoPeer)'
  BY DEF vars, Inv, WindowOf, ReadyInReach, chain, links
<1> QED
  BY <1>1, <1>2 DEF Inv

\* BodyTrack: whatever the peers do, and whatever the tree, the peers and the
\* bounds are, every request in the window is with a connected peer, the
\* window never exceeds its size, and a body kept for later is above the
\* watermark and within reach of it.
THEOREM WindowIsSound == Spec => []WindowSound
<1>1. Init => Inv
  BY InitInv
<1>2. Inv /\ [Next]_vars => Inv'
  BY ProcessBlockInv, ConnectHeadersInv, VerifyHeadersInv, PeerReadyInv, PeerGoneInv, BodyInv,
     NotFoundInv, TickWindowInv, TickForkInv, ClockInv, StutterInv
     DEF Next, Tick, Validator
<1>3. Inv => WindowSound
  BY DEF Inv, WindowSound, RequestsHeld, WindowOf
<1> QED
  BY <1>1, <1>2, <1>3, PTL DEF Spec
=============================================================================
