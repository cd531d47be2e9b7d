--------------------------- MODULE NetworkProofs ----------------------------
(****************************************************************************)
(* Proofs about what the peers of a node can cost it: every shared counter  *)
(* says what the connections say and nobody is charged for bytes that do not *)
(* wait; what the sources of headers and transactions cost all together, and *)
(* that one which waits is served; and that the transaction relay keeps its  *)
(* bounds and tells no peer what it heard from that peer.                    *)
(****************************************************************************)
EXTENDS Conns, SourceBudgets, TxRelay, BlockTreeProofs, FiniteSetTheorems

ConnsSpec == ConnInit /\ [][ConnNext]_connVars

\* What a connection is, and the counters; the pool may go below what is queued.
Places == {"none", "dialing", "shaking", "up", "gone"}
Writers == {"none", "idle", "writes", "pings", "done"}
LinkState == [at : Places, out : BOOLEAN, kill : BOOLEAN, writer : Writers, ctl : Nat, bulk : Nat,
              writing : Nat, outbox : Nat]
Account == [inbound : Int, outbound : Int, dialing : Int, pool : Int,
            ip : [DOMAIN IpGroup -> Int], inGroup : [Range(IpGroup) -> Int],
            outGroup : [Range(IpGroup) -> Int], peer : Int, shake : Int, dial : Int]

ConnTypes ==
    /\ conn \in [Link -> LinkState] /\ acct \in Account
    /\ \A c \in Link : conn[c].at = "dialing" => conn[c].out
    /\ \A c \in Link : conn[c].at \in {"none", "dialing", "shaking"} => conn[c].outbox = 0

ConnInv == ConnTypes /\ AccountsSound

\* One or nothing.
Has(P, c) == IF c \in P THEN 1 ELSE 0
Is(at, out, y) == IF y.at \in at /\ y.out = out THEN 1 ELSE 0
Diff(at, out, old, new) == Is(at, out, new) - Is(at, out, old)

-----------------------------------------------------------------------------
\* A count changes by one when one element comes or goes.
LEMMA OneMoves ==
    ASSUME NEW P, NEW Q, IsFiniteSet(P), NEW c, P \ {c} = Q \ {c}
    PROVE  /\ IsFiniteSet(Q) /\ Cardinality(P) \in Nat
           /\ Cardinality(Q) = Cardinality(P) + Has(Q, c) - Has(P, c)
<1>1. IsFiniteSet(P \ {c}) /\ Cardinality(P) \in Nat /\ Cardinality(P \ {c}) \in Nat
      /\ Cardinality(P \ {c}) = IF c \in P THEN Cardinality(P) - 1 ELSE Cardinality(P)
  BY FS_RemoveElement, FS_CardinalityType
<1>2. IsFiniteSet(Q) /\ Cardinality(Q) = IF c \in Q THEN Cardinality(P \ {c}) + 1 ELSE Cardinality(P \ {c})
  <2>1. CASE c \in Q
    <3>1. Q = (P \ {c}) \cup {c} /\ c \notin P \ {c}
      BY <2>1
    <3> QED
      BY <1>1, <2>1, <3>1, FS_AddElement
  <2>2. CASE c \notin Q
    <3>1. Q = P \ {c}
      BY <2>2
    <3> QED
      BY <1>1, <2>2, <3>1
  <2> QED
    BY <2>1, <2>2
<1> QED
  BY <1>1, <1>2 DEF Has

Moved(g, f, c, x) == g = [f EXCEPT ![c] = x]
ClassOf(f, at, out, S) == {d \in Link : f[d].at \in at /\ f[d].out = out /\ d \in S}

\* The counters of a class of connections follow the connection that moves.
LEMMA ClassMoves ==
    ASSUME NEW f \in [Link -> LinkState], NEW c \in Link, NEW x, NEW g, Moved(g, f, c, x),
           NEW at, NEW out, NEW S
    PROVE  Cardinality(ClassOf(g, at, out, S))
             = Cardinality(ClassOf(f, at, out, S)) + (IF c \in S THEN Diff(at, out, f[c], x) ELSE 0)
<1> DEFINE P == ClassOf(f, at, out, S)
           Q == ClassOf(g, at, out, S)
<1>1. IsFiniteSet(P)
  <2>1. P \subseteq Link /\ IsFiniteSet(Link)
    BY ConnConstants DEF ClassOf
  <2> QED
    BY <2>1, FS_Subset
<1>2. P \ {c} = Q \ {c}
  BY DEF ClassOf, Moved
<1>3. c \in P <=> f[c].at \in at /\ f[c].out = out /\ c \in S
  BY DEF ClassOf
<1>4. c \in Q <=> x.at \in at /\ x.out = out /\ c \in S
  BY DEF ClassOf, Moved
<1> HIDE DEF P, Q
<1>5. Cardinality(Q) = Cardinality(P) + Has(Q, c) - Has(P, c) /\ Cardinality(P) \in Nat
  BY <1>1, <1>2, OneMoves
<1>6. CASE c \in S
  <2>1. Has(Q, c) = Is(at, out, x) /\ Has(P, c) = Is(at, out, f[c])
    BY <1>3, <1>4, <1>6 DEF Has, Is
  <2>2. Is(at, out, x) \in Int /\ Is(at, out, f[c]) \in Int
    BY DEF Is
  <2>3. Cardinality(Q) = Cardinality(P) + Diff(at, out, f[c], x)
    BY <1>5, <2>1, <2>2 DEF Diff
  <2> QED
    BY <1>6, <2>3 DEF P, Q
<1>7. CASE c \notin S
  <2>1. Has(Q, c) = 0 /\ Has(P, c) = 0
    BY <1>3, <1>4, <1>7 DEF Has
  <2>2. Cardinality(Q) = Cardinality(P) + 0
    BY <1>5, <2>1
  <2> QED
    BY <1>7, <2>2 DEF P, Q
<1> QED
  BY <1>6, <1>7

\* b counts what a counts, after connection c went from old to new.
Follows(a, b, c, old, new) ==
    /\ b.inbound = a.inbound + Diff({"up"}, FALSE, old, new)
    /\ b.outbound = a.outbound + Diff({"up"}, TRUE, old, new)
    /\ b.dialing = a.dialing + Diff({"dialing"}, TRUE, old, new)
    /\ b.ip = [a.ip EXCEPT ![Ip(c)] = @ + Diff({"shaking", "up"}, FALSE, old, new)]
    /\ b.inGroup = [a.inGroup EXCEPT ![Group_of(c)] = @ + Diff({"shaking", "up"}, FALSE, old, new)]
    /\ b.outGroup = [a.outGroup EXCEPT ![Group_of(c)] = @ + Diff({"dialing", "shaking", "up"}, TRUE, old, new)]
    /\ b.peer = a.peer + Has({"up"}, new.at) - Has({"up"}, old.at)
    /\ b.shake = a.shake + Diff({"shaking"}, FALSE, old, new)
    /\ b.dial = a.dial + Diff({"dialing", "shaking"}, TRUE, old, new)

LEMMA Places_of ==
    ASSUME NEW c \in Link
    PROVE  Ip(c) \in DOMAIN IpGroup /\ Group_of(c) \in Range(IpGroup)
<1>1. LinkIp[c] \in Range(LinkIp) /\ LinkIp[c] \in DOMAIN IpGroup
  BY ConnConstants DEF Range
<1> QED
  BY <1>1 DEF Ip, Group_of, Range

Raised(h, f, p, v) == h = [f EXCEPT ![p] = @ + v]

Integral(f, D) == f \in [D -> Int]

LEMMA Bumped ==
    ASSUME NEW D, NEW f, NEW h, NEW p \in D, NEW v \in Int, Integral(f, D), Raised(h, f, p, v)
    PROVE  \A i \in D : h[i] = f[i] + (IF p = i THEN v ELSE 0)
BY DEF Raised, Integral

LEMMA DiffIsInt == \A at, out, old, new : Diff(at, out, old, new) \in Int
BY DEF Diff, Is

LEMMA AccountsMove ==
    ASSUME ConnTypes, AccountsExact, NEW c \in Link, NEW x \in LinkState,
           conn' = [conn EXCEPT ![c] = x], Follows(acct, acct', c, conn[c], x)
    PROVE  AccountsExact'
<1> PICK old \in LinkState : old = conn[c]
  BY DEF ConnTypes
<1>1. conn \in [Link -> LinkState] /\ acct \in Account
  BY DEF ConnTypes
<1>2. PICK k : k = conn'
  OBVIOUS
<1>3. Moved(k, conn, c, x)
  BY <1>2 DEF Moved
<1>4. ASSUME NEW at, NEW out, NEW S
      PROVE  Cardinality(ClassOf(k, at, out, S))
               = Cardinality(ClassOf(conn, at, out, S)) + (IF c \in S THEN Diff(at, out, old, x) ELSE 0)
  BY <1>1, <1>3, ClassMoves
<1>11. ASSUME NEW at, NEW out
      PROVE  /\ In(at, out) = ClassOf(conn, at, out, Link) /\ In(at, out)' = ClassOf(k, at, out, Link)
             /\ Cardinality(In(at, out)') = Cardinality(In(at, out)) + Diff(at, out, old, x)
  <2>1. In(at, out) = ClassOf(conn, at, out, Link) /\ In(at, out)' = ClassOf(k, at, out, Link)
    BY <1>2 DEF In, ClassOf
  <2> QED
    BY <1>4, <2>1
<1>12. ASSUME NEW at, NEW out, NEW i
      PROVE  Cardinality(OfIp(at, out, i)')
               = Cardinality(OfIp(at, out, i))
                 + (IF Ip(c) = i THEN Diff(at, out, old, x) ELSE 0)
  <2> PICK S : S = {d \in Link : Ip(d) = i}
    OBVIOUS
  <2>1. /\ ClassOf(k, at, out, S) = OfIp(at, out, i)'
        /\ ClassOf(conn, at, out, S) = OfIp(at, out, i)
        /\ c \in S <=> Ip(c) = i
    BY <1>2 DEF In, OfIp, ClassOf
  <2> QED
    BY <1>4, <2>1
<1>13. ASSUME NEW at, NEW out, NEW g
      PROVE  Cardinality(OfGroup(at, out, g)')
               = Cardinality(OfGroup(at, out, g))
                 + (IF Group_of(c) = g THEN Diff(at, out, old, x) ELSE 0)
  <2> PICK S : S = {d \in Link : Group_of(d) = g}
    OBVIOUS
  <2>1. /\ ClassOf(k, at, out, S) = OfGroup(at, out, g)'
        /\ ClassOf(conn, at, out, S) = OfGroup(at, out, g)
        /\ c \in S <=> Group_of(c) = g
    BY <1>2 DEF In, OfGroup, ClassOf
  <2> QED
    BY <1>4, <2>1
<1>5. Cardinality((In({"up"}, TRUE) \cup In({"up"}, FALSE))')
        = Cardinality(In({"up"}, TRUE) \cup In({"up"}, FALSE)) + Has({"up"}, x.at) - Has({"up"}, old.at)
  <2> DEFINE P == In({"up"}, TRUE) \cup In({"up"}, FALSE)
  <2> PICK Q : Q = P'
    OBVIOUS
  <2>1. IsFiniteSet(P)
    <3>1. P \subseteq Link /\ IsFiniteSet(Link)
      BY ConnConstants DEF In
    <3> QED
      BY <3>1, FS_Subset
  <2>2. P \ {c} = Q \ {c} /\ (c \in Q <=> x.at = "up") /\ (c \in P <=> old.at = "up")
    BY <1>1 DEF In, LinkState
  <2>3. Cardinality(Q) = Cardinality(P) + Has(Q, c) - Has(P, c)
    <3> HIDE DEF P
    <3> QED
      BY <2>1, <2>2, OneMoves
  <2> HIDE DEF P
  <2>4. Cardinality(Q) = Cardinality(P) + Has({"up"}, x.at) - Has({"up"}, old.at)
    BY <2>2, <2>3 DEF Has
  <2> QED
    BY <2>4 DEF P
<1>6. Ip(c) \in DOMAIN IpGroup /\ Group_of(c) \in Range(IpGroup)
  BY Places_of
<1>7. Follows(acct, acct', c, old, x)
  OBVIOUS
<1>14. /\ acct'.inbound = acct.inbound + Diff({"up"}, FALSE, old, x)
       /\ acct'.outbound = acct.outbound + Diff({"up"}, TRUE, old, x)
       /\ acct'.dialing = acct.dialing + Diff({"dialing"}, TRUE, old, x)
       /\ acct'.peer = acct.peer + Has({"up"}, x.at) - Has({"up"}, old.at)
       /\ acct'.shake = acct.shake + Diff({"shaking"}, FALSE, old, x)
       /\ acct'.dial = acct.dial + Diff({"dialing", "shaking"}, TRUE, old, x)
  BY <1>7 DEF Follows
<1>8. /\ acct'.inbound = Cardinality(In({"up"}, FALSE)')
      /\ acct'.outbound = Cardinality(In({"up"}, TRUE)')
      /\ acct'.dialing = Cardinality(In({"dialing"}, TRUE)')
      /\ acct'.peer = Cardinality((In({"up"}, TRUE) \cup In({"up"}, FALSE))')
      /\ acct'.shake = Cardinality(In({"shaking"}, FALSE)')
      /\ acct'.dial = Cardinality(In({"dialing", "shaking"}, TRUE)')
  <2>1. /\ Cardinality(In({"up"}, FALSE)') = Cardinality(In({"up"}, FALSE)) + Diff({"up"}, FALSE, old, x)
        /\ Cardinality(In({"up"}, TRUE)') = Cardinality(In({"up"}, TRUE)) + Diff({"up"}, TRUE, old, x)
        /\ Cardinality(In({"dialing"}, TRUE)')
             = Cardinality(In({"dialing"}, TRUE)) + Diff({"dialing"}, TRUE, old, x)
        /\ Cardinality(In({"shaking"}, FALSE)')
             = Cardinality(In({"shaking"}, FALSE)) + Diff({"shaking"}, FALSE, old, x)
        /\ Cardinality(In({"dialing", "shaking"}, TRUE)')
             = Cardinality(In({"dialing", "shaking"}, TRUE)) + Diff({"dialing", "shaking"}, TRUE, old, x)
    BY <1>11, Zenon
  <2> QED
    BY <1>5, <1>14, <2>1 DEF AccountsExact
<1>9. \A i \in DOMAIN IpGroup :
         acct'.ip[i] = Cardinality(OfIp({"shaking", "up"}, FALSE, i)')
  <2>9. PICK v : v = Diff({"shaking", "up"}, FALSE, old, x)
    OBVIOUS
  <2>1. v \in Int
    BY <2>9, DiffIsInt, Zenon
  <2>2. Integral(acct.ip, DOMAIN IpGroup) /\ Raised(acct'.ip, acct.ip, Ip(c), v)
    BY <1>1, <1>7, <2>9 DEF Follows, Account, Raised, Integral
  <2>3. ASSUME NEW i \in DOMAIN IpGroup
        PROVE  acct'.ip[i] = Cardinality(OfIp({"shaking", "up"}, FALSE, i)')
    <3>1. acct'.ip[i] = acct.ip[i] + (IF Ip(c) = i THEN v ELSE 0)
      BY <1>6, <2>1, <2>2, Bumped
    <3>2. Cardinality(OfIp({"shaking", "up"}, FALSE, i)')
            = Cardinality(OfIp({"shaking", "up"}, FALSE, i)) + (IF Ip(c) = i THEN v ELSE 0)
      BY <1>12, <2>9, Zenon
    <3>3. acct.ip[i] = Cardinality(OfIp({"shaking", "up"}, FALSE, i))
      BY DEF AccountsExact
    <3> QED
      BY <3>1, <3>2, <3>3
  <2> QED
    BY <2>3
<1>10. \A g \in Range(IpGroup) : acct'.inGroup[g] = Cardinality(OfGroup({"shaking", "up"}, FALSE, g)')
  <2>9. PICK v : v = Diff({"shaking", "up"}, FALSE, old, x)
    OBVIOUS
  <2>1. v \in Int
    BY <2>9, DiffIsInt, Zenon
  <2>2. Integral(acct.inGroup, Range(IpGroup)) /\ Raised(acct'.inGroup, acct.inGroup, Group_of(c), v)
    BY <1>1, <1>7, <2>9 DEF Follows, Account, Raised, Integral
  <2>3. ASSUME NEW g \in Range(IpGroup)
        PROVE  acct'.inGroup[g] = Cardinality(OfGroup({"shaking", "up"}, FALSE, g)')
    <3>1. acct'.inGroup[g] = acct.inGroup[g] + (IF Group_of(c) = g THEN v ELSE 0)
      BY <1>6, <2>1, <2>2, Bumped
    <3>2. Cardinality(OfGroup({"shaking", "up"}, FALSE, g)')
            = Cardinality(OfGroup({"shaking", "up"}, FALSE, g)) + (IF Group_of(c) = g THEN v ELSE 0)
      BY <1>13, <2>9, Zenon
    <3>3. acct.inGroup[g] = Cardinality(OfGroup({"shaking", "up"}, FALSE, g))
      BY DEF AccountsExact
    <3> QED
      BY <3>1, <3>2, <3>3
  <2> QED
    BY <2>3
<1>15. \A g \in Range(IpGroup) :
         acct'.outGroup[g] = Cardinality(OfGroup({"dialing", "shaking", "up"}, TRUE, g)')
  <2>9. PICK v : v = Diff({"dialing", "shaking", "up"}, TRUE, old, x)
    OBVIOUS
  <2>1. v \in Int
    BY <2>9, DiffIsInt, Zenon
  <2>2. Integral(acct.outGroup, Range(IpGroup)) /\ Raised(acct'.outGroup, acct.outGroup, Group_of(c), v)
    BY <1>1, <1>7, <2>9 DEF Follows, Account, Raised, Integral
  <2>3. ASSUME NEW g \in Range(IpGroup)
        PROVE  acct'.outGroup[g] = Cardinality(OfGroup({"dialing", "shaking", "up"}, TRUE, g)')
    <3>1. acct'.outGroup[g] = acct.outGroup[g] + (IF Group_of(c) = g THEN v ELSE 0)
      BY <1>6, <2>1, <2>2, Bumped
    <3>2. Cardinality(OfGroup({"dialing", "shaking", "up"}, TRUE, g)')
            = Cardinality(OfGroup({"dialing", "shaking", "up"}, TRUE, g)) + (IF Group_of(c) = g THEN v ELSE 0)
      BY <1>13, <2>9, Zenon
    <3>3. acct.outGroup[g] = Cardinality(OfGroup({"dialing", "shaking", "up"}, TRUE, g))
      BY DEF AccountsExact
    <3> QED
      BY <3>1, <3>2, <3>3
  <2> QED
    BY <2>3
<1> QED
  BY <1>8, <1>9, <1>10, <1>15 DEF AccountsExact

\* What the operations on the counters do, field by field.
SameCounts(a, b) == b.inbound = a.inbound /\ b.outbound = a.outbound /\ b.dialing = a.dialing /\ b.pool = a.pool
SameShares(a, b) == b.ip = a.ip /\ b.inGroup = a.inGroup /\ b.outGroup = a.outGroup
SameLeases(a, b) == b.peer = a.peer /\ b.shake = a.shake /\ b.dial = a.dial

LEMMA Admits ==
    ASSUME NEW a \in Account, NEW c \in Link
    PROVE  /\ admit_inbound(a, c) \in Account
           /\ SameCounts(a, admit_inbound(a, c)) /\ SameLeases(a, admit_inbound(a, c))
           /\ admit_inbound(a, c).ip = [a.ip EXCEPT ![Ip(c)] = @ + 1]
           /\ admit_inbound(a, c).inGroup = [a.inGroup EXCEPT ![Group_of(c)] = @ + 1]
           /\ admit_inbound(a, c).outGroup = a.outGroup
<1> DEFINE f == [a.ip EXCEPT ![Ip(c)] = @ + 1]
           g == [a.inGroup EXCEPT ![Group_of(c)] = @ + 1]
<1>1. f \in [DOMAIN IpGroup -> Int] /\ g \in [Range(IpGroup) -> Int]
  BY Places_of DEF Account
<1>2. admit_inbound(a, c) = [[a EXCEPT !.ip = f] EXCEPT !.inGroup = g]
  BY DEF admit_inbound, Account
<1> HIDE DEF f, g
<1>3. [a EXCEPT !.ip = f] \in Account
  BY <1>1 DEF Account
<1>4. [[a EXCEPT !.ip = f] EXCEPT !.inGroup = g] \in Account
  BY <1>1, <1>3 DEF Account
<1> QED
  BY <1>2, <1>4 DEF f, g, SameCounts, SameLeases, Account

LEMMA Releases ==
    ASSUME NEW a \in Account, NEW c \in Link
    PROVE  /\ release_inbound(a, c) \in Account
           /\ SameCounts(a, release_inbound(a, c)) /\ SameLeases(a, release_inbound(a, c))
           /\ release_inbound(a, c).ip = [a.ip EXCEPT ![Ip(c)] = Drop(@)]
           /\ release_inbound(a, c).inGroup = [a.inGroup EXCEPT ![Group_of(c)] = Drop(@)]
           /\ release_inbound(a, c).outGroup = a.outGroup
           /\ release_outbound(a, c) \in Account
           /\ SameCounts(a, release_outbound(a, c)) /\ SameLeases(a, release_outbound(a, c))
           /\ release_outbound(a, c).outGroup = [a.outGroup EXCEPT ![Group_of(c)] = Drop(@)]
           /\ release_outbound(a, c).ip = a.ip /\ release_outbound(a, c).inGroup = a.inGroup
<1> DEFINE f == [a.ip EXCEPT ![Ip(c)] = Drop(@)]
           g == [a.inGroup EXCEPT ![Group_of(c)] = Drop(@)]
           h == [a.outGroup EXCEPT ![Group_of(c)] = Drop(@)]
<1>1. f \in [DOMAIN IpGroup -> Int] /\ g \in [Range(IpGroup) -> Int] /\ h \in [Range(IpGroup) -> Int]
  BY Places_of DEF Account, Drop
<1>2. release_inbound(a, c) = [[a EXCEPT !.ip = f] EXCEPT !.inGroup = g]
  BY DEF release_inbound, Account
<1>3. release_outbound(a, c) = [a EXCEPT !.outGroup = h]
  BY DEF release_outbound, Account
<1> HIDE DEF f, g, h
<1>4. [a EXCEPT !.ip = f] \in Account
  BY <1>1 DEF Account
<1>5. [[a EXCEPT !.ip = f] EXCEPT !.inGroup = g] \in Account
  BY <1>1, <1>4 DEF Account
<1>6. [a EXCEPT !.outGroup = h] \in Account
  BY <1>1 DEF Account
<1> QED
  BY <1>2, <1>3, <1>5, <1>6 DEF f, g, h, SameCounts, SameLeases, Account

LEMMA LeaseDropped ==
    ASSUME NEW a \in Account, NEW c \in Link
    PROVE  /\ Dropped(a, c) \in Account /\ SameCounts(a, Dropped(a, c)) /\ SameShares(a, Dropped(a, c))
           /\ conn[c].at = "up" => /\ Dropped(a, c).peer = a.peer - 1
                                   /\ Dropped(a, c).shake = a.shake /\ Dropped(a, c).dial = a.dial
           /\ conn[c].at # "up" /\ conn[c].out =>
                 /\ Dropped(a, c).dial = a.dial - 1
                 /\ Dropped(a, c).shake = a.shake /\ Dropped(a, c).peer = a.peer
           /\ conn[c].at # "up" /\ ~conn[c].out =>
                 /\ Dropped(a, c).shake = a.shake - 1
                 /\ Dropped(a, c).dial = a.dial /\ Dropped(a, c).peer = a.peer
BY DEF Dropped, Account, SameCounts, SameShares

\* A connection that a counter counts makes it positive.
LEMMA Counted ==
    ASSUME ConnTypes, AccountsExact, NEW c \in Link
    PROVE  /\ acct.ip[Ip(c)] \in Nat /\ acct.inGroup[Group_of(c)] \in Nat
           /\ acct.outGroup[Group_of(c)] \in Nat /\ acct.dialing \in Nat
           /\ conn[c].at \in {"shaking", "up"} /\ ~conn[c].out =>
                 acct.ip[Ip(c)] # 0 /\ acct.inGroup[Group_of(c)] # 0
           /\ conn[c].at \in {"dialing", "shaking", "up"} /\ conn[c].out => acct.outGroup[Group_of(c)] # 0
           /\ conn[c].at = "dialing" => acct.dialing # 0
<1> DEFINE A == OfIp({"shaking", "up"}, FALSE, Ip(c))
           G == OfGroup({"shaking", "up"}, FALSE, Group_of(c))
           H == OfGroup({"dialing", "shaking", "up"}, TRUE, Group_of(c))
           D == In({"dialing"}, TRUE)
<1>1. A \subseteq Link /\ G \subseteq Link /\ H \subseteq Link /\ D \subseteq Link
  BY DEF OfIp, OfGroup, In
<1>2. IsFiniteSet(A) /\ IsFiniteSet(G) /\ IsFiniteSet(H) /\ IsFiniteSet(D)
  BY <1>1, ConnConstants, FS_Subset
<1>3. /\ acct.ip[Ip(c)] = Cardinality(A) /\ acct.inGroup[Group_of(c)] = Cardinality(G)
      /\ acct.outGroup[Group_of(c)] = Cardinality(H) /\ acct.dialing = Cardinality(D)
  BY Places_of DEF AccountsExact
<1>4. /\ conn[c].at \in {"shaking", "up"} /\ ~conn[c].out => c \in A /\ c \in G
      /\ conn[c].at \in {"dialing", "shaking", "up"} /\ conn[c].out => c \in H
      /\ conn[c].at = "dialing" => c \in D
  <2>1. conn[c].out \in BOOLEAN /\ (conn[c].at = "dialing" => conn[c].out)
    BY DEF ConnTypes, LinkState
  <2> QED
    BY <2>1 DEF OfIp, OfGroup, In
<1> HIDE DEF A, G, H, D
<1>5. \A S : IsFiniteSet(S) => Cardinality(S) \in Nat /\ (S # {} => Cardinality(S) # 0)
  BY FS_CardinalityType, FS_EmptySet
<1> QED
  BY <1>2, <1>3, <1>4, <1>5

\* What is charged to a connection waits for it.
Covered(x) ==
    x.at = "up" => x.outbox <= x.ctl * CtlBytes + x.bulk * BulkBytes
                               + (IF x.writer = "writes" THEN x.writing ELSE 0)

LEMMA ConnStep ==
    ASSUME ConnInv, NEW c \in Link, NEW x \in LinkState, conn' = [conn EXCEPT ![c] = x],
           acct' \in Account, Follows(acct, acct', c, conn[c], x),
           x.at = "dialing" => x.out, x.at \in {"none", "dialing", "shaking"} => x.outbox = 0,
           Covered(x)
    PROVE  ConnInv'
<1>1. AccountsExact'
  BY AccountsMove DEF ConnInv, AccountsSound
<1>2. ConnTypes'
  BY DEF ConnInv, ConnTypes
<1>3. NotOvercharged'
  BY DEF ConnInv, ConnTypes, AccountsSound, NotOvercharged, Covered
<1> QED
  BY <1>1, <1>2, <1>3 DEF ConnInv, AccountsSound

\* A step that leaves the place of the connection alone moves no counter.
LEMMA InPlace ==
    ASSUME ConnInv, NEW c \in Link, NEW x \in LinkState, conn' = [conn EXCEPT ![c] = x],
           x.at = conn[c].at, x.out = conn[c].out, NEW p \in Int, acct' = [acct EXCEPT !.pool = p],
           x.at \in {"none", "dialing", "shaking"} => x.outbox = 0,
           Covered(x)
    PROVE  ConnInv'
<1>1. acct' \in Account /\ SameShares(acct, acct') /\ SameLeases(acct, acct') /\ acct \in Account
      /\ acct'.inbound = acct.inbound /\ acct'.outbound = acct.outbound /\ acct'.dialing = acct.dialing
  BY DEF ConnInv, ConnTypes, Account, SameShares, SameLeases
<1>2. /\ Diff({"up"}, FALSE, conn[c], x) = 0 /\ Diff({"up"}, TRUE, conn[c], x) = 0
      /\ Diff({"dialing"}, TRUE, conn[c], x) = 0 /\ Diff({"shaking", "up"}, FALSE, conn[c], x) = 0
      /\ Diff({"dialing", "shaking", "up"}, TRUE, conn[c], x) = 0
      /\ Diff({"shaking"}, FALSE, conn[c], x) = 0 /\ Diff({"dialing", "shaking"}, TRUE, conn[c], x) = 0
      /\ Has({"up"}, x.at) - Has({"up"}, conn[c].at) = 0
  BY DEF Diff, Is, Has
<1>3. Follows(acct, acct', c, conn[c], x)
  <2>1. /\ acct'.ip = [acct.ip EXCEPT ![Ip(c)] = @ + 0]
        /\ acct'.inGroup = [acct.inGroup EXCEPT ![Group_of(c)] = @ + 0]
        /\ acct'.outGroup = [acct.outGroup EXCEPT ![Group_of(c)] = @ + 0]
    BY <1>1, Places_of DEF SameShares, Account
  <2>2. acct'.peer = acct.peer + Has({"up"}, x.at) - Has({"up"}, conn[c].at)
    BY <1>1, <1>2 DEF SameLeases, Account, Has
  <2>3. /\ acct'.inbound = acct.inbound + 0 /\ acct'.outbound = acct.outbound + 0
        /\ acct'.dialing = acct.dialing + 0 /\ acct'.shake = acct.shake + 0 /\ acct'.dial = acct.dial + 0
    BY <1>1 DEF SameLeases, Account
  <2> QED
    BY <1>2, <2>1, <2>2, <2>3, Zenon DEF Follows
<1>4. x.at = "dialing" => x.out
  BY DEF ConnInv, ConnTypes
<1> QED
  BY <1>1, <1>3, <1>4, ConnStep

LEMMA Multiples == \A n, m \in Nat : (n + 1) * m = n * m + m /\ (n # 0 => n * m = (n - 1) * m + m)
                                     /\ n * m \in Nat
OBVIOUS

LEMMA LinkOf ==
    ASSUME ConnInv, NEW c \in Link
    PROVE  /\ conn[c] \in LinkState /\ Covered(conn[c])
           /\ acct \in Account /\ acct = [acct EXCEPT !.pool = acct.pool] /\ acct.pool \in Int
           /\ conn = [conn EXCEPT ![c] = conn[c]]
           /\ conn[c].at = "dialing" => conn[c].out
           /\ conn[c].at \in {"none", "dialing", "shaking"} => conn[c].outbox = 0
           /\ Wrap \in Nat \ {0} /\ CtlBytes \in Nat \ {0} /\ BulkBytes \in Nat \ {0}
<1>1. conn \in [Link -> LinkState] /\ acct \in Account
  BY DEF ConnInv, ConnTypes
<1>2. Covered(conn[c])
  BY DEF ConnInv, AccountsSound, NotOvercharged, Covered
<1>3. acct = [acct EXCEPT !.pool = acct.pool] /\ acct.pool \in Int
  BY <1>1 DEF Account
<1>4. Wrap \in Nat \ {0} /\ CtlBytes \in Nat \ {0} /\ BulkBytes \in Nat \ {0}
  BY ConnConstants
<1> QED
  BY <1>1, <1>2, <1>3, <1>4 DEF ConnInv, ConnTypes

LEMMA ModInt == \A n \in Int : \A m \in Nat \ {0} : n % m \in Int
OBVIOUS

LEMMA KilledKeeps == ASSUME ConnInv, NEW c \in Link, Killed(c) PROVE ConnInv'
<1> DEFINE x == [conn[c] EXCEPT !.kill = TRUE]
<1>1. x \in LinkState /\ x.at = conn[c].at /\ x.out = conn[c].out /\ Covered(x) /\ x.outbox = conn[c].outbox
  BY LinkOf DEF LinkState, Covered
<1>2. conn' = [conn EXCEPT ![c] = x] /\ acct' = [acct EXCEPT !.pool = acct.pool]
  BY LinkOf DEF Killed, Kill
<1> HIDE DEF x
<1> QED
  BY <1>1, <1>2, LinkOf, InPlace

LEMMA WriterStopsKeeps == ASSUME ConnInv, NEW c \in Link, WriterStops(c) PROVE ConnInv'
<1> DEFINE x == [conn[c] EXCEPT !.writer = "done"]
<1>1. x \in LinkState /\ x.at = conn[c].at /\ x.out = conn[c].out /\ Covered(x) /\ x.outbox = conn[c].outbox
  BY LinkOf DEF LinkState, Covered, WriterStops, Writers
<1>2. conn' = [conn EXCEPT ![c] = x] /\ acct' = [acct EXCEPT !.pool = acct.pool]
  BY LinkOf DEF WriterStops
<1> HIDE DEF x
<1> QED
  BY <1>1, <1>2, LinkOf, InPlace

LEMMA WriterTakesKeeps == ASSUME ConnInv, NEW c \in Link, WriterTakes(c) PROVE ConnInv'
<1> DEFINE x == IF conn[c].ctl > 0
                THEN [conn[c] EXCEPT !.ctl = @ - 1, !.writing = CtlBytes, !.writer = "writes"]
                ELSE IF conn[c].bulk > 0
                THEN [conn[c] EXCEPT !.bulk = @ - 1, !.writing = BulkBytes, !.writer = "writes"]
                ELSE [conn[c] EXCEPT !.writing = CtlBytes, !.writer = "pings"]
<1>1. x \in LinkState /\ x.at = conn[c].at /\ x.out = conn[c].out /\ x.outbox = conn[c].outbox
  <2> PICK y \in LinkState : y = conn[c]
    BY LinkOf
  <2>0. CtlBytes \in Nat /\ BulkBytes \in Nat /\ "writes" \in Writers /\ "pings" \in Writers
    BY LinkOf DEF Writers
  <2>1. CASE y.ctl > 0
    <3>1. x = [y EXCEPT !.ctl = @ - 1, !.writing = CtlBytes, !.writer = "writes"] /\ y.ctl - 1 \in Nat
      BY <2>1 DEF LinkState
    <3> QED
      BY <2>0, <3>1 DEF LinkState
  <2>2. CASE ~(y.ctl > 0) /\ y.bulk > 0
    <3>1. x = [y EXCEPT !.bulk = @ - 1, !.writing = BulkBytes, !.writer = "writes"] /\ y.bulk - 1 \in Nat
      BY <2>2 DEF LinkState
    <3> QED
      BY <2>0, <3>1 DEF LinkState
  <2>3. CASE ~(y.ctl > 0) /\ ~(y.bulk > 0)
    BY <2>0, <2>3 DEF LinkState
  <2> QED
    BY <2>1, <2>2, <2>3
<1>3. Covered(x)
  <2>1. conn[c].writer = "idle" /\ Covered(conn[c]) /\ conn[c] \in LinkState
        /\ CtlBytes \in Nat /\ BulkBytes \in Nat
    BY LinkOf DEF WriterTakes
  <2>2. /\ conn[c].at = "up" => conn[c].outbox <= conn[c].ctl * CtlBytes + conn[c].bulk * BulkBytes
        /\ conn[c].ctl \in Nat /\ conn[c].bulk \in Nat /\ conn[c].outbox \in Nat
    <3>1. conn[c].ctl * CtlBytes \in Nat /\ conn[c].bulk * BulkBytes \in Nat /\ conn[c].outbox \in Nat
      BY <2>1, Multiples DEF LinkState
    <3> QED
      BY <2>1, <3>1 DEF Covered, LinkState
  <2>3. CASE conn[c].ctl > 0
    <3>1. x.ctl = conn[c].ctl - 1 /\ x.bulk = conn[c].bulk /\ x.writing = CtlBytes /\ x.writer = "writes"
          /\ x.outbox = conn[c].outbox /\ x.at = conn[c].at
      BY <2>1, <2>3 DEF LinkState
    <3>2. conn[c].ctl * CtlBytes = (conn[c].ctl - 1) * CtlBytes + CtlBytes
      BY <2>1, <2>2, <2>3, Multiples
    <3>3. (conn[c].ctl - 1) * CtlBytes \in Nat /\ conn[c].bulk * BulkBytes \in Nat
      <4>1. conn[c].ctl - 1 \in Nat
        BY <2>2, <2>3
      <4> QED
        BY <2>1, <2>2, <4>1, Multiples
    <3> QED
      BY <2>1, <2>2, <3>1, <3>2, <3>3 DEF Covered
  <2>4. CASE ~(conn[c].ctl > 0) /\ conn[c].bulk > 0
    <3>1. x.ctl = conn[c].ctl /\ x.bulk = conn[c].bulk - 1 /\ x.writing = BulkBytes /\ x.writer = "writes"
          /\ x.outbox = conn[c].outbox /\ x.at = conn[c].at
      BY <2>1, <2>4 DEF LinkState
    <3>2. conn[c].bulk * BulkBytes = (conn[c].bulk - 1) * BulkBytes + BulkBytes
      BY <2>1, <2>2, <2>4, Multiples
    <3>3. (conn[c].bulk - 1) * BulkBytes \in Nat /\ conn[c].ctl * CtlBytes \in Nat
      <4>1. conn[c].bulk - 1 \in Nat
        BY <2>2, <2>4
      <4> QED
        BY <2>1, <2>2, <4>1, Multiples
    <3> QED
      BY <2>1, <2>2, <3>1, <3>2, <3>3 DEF Covered
  <2>5. CASE ~(conn[c].ctl > 0) /\ ~(conn[c].bulk > 0)
    <3>1. x.ctl = conn[c].ctl /\ x.bulk = conn[c].bulk /\ x.writer = "pings"
          /\ x.outbox = conn[c].outbox /\ x.at = conn[c].at
      BY <2>1, <2>5 DEF LinkState
    <3>2. conn[c].ctl * CtlBytes \in Nat /\ conn[c].bulk * BulkBytes \in Nat
      BY <2>1, <2>2, Multiples
    <3> QED
      BY <2>2, <3>1, <3>2 DEF Covered
  <2> QED
    BY <2>3, <2>4, <2>5
<1>2. conn' = [conn EXCEPT ![c] = x] /\ acct' = [acct EXCEPT !.pool = acct.pool]
  BY LinkOf, ZenonT(40) DEF WriterTakes
<1> HIDE DEF x
<1> QED
  BY <1>1, <1>2, <1>3, LinkOf, InPlace

LEMMA WrittenKeeps == ASSUME ConnInv, NEW c \in Link, NEW ok \in BOOLEAN, Written(c, ok) PROVE ConnInv'
<1> PICK n : n = Least(conn[c].writing, conn[c].outbox)
  OBVIOUS
<1> PICK w : w = IF ok THEN "idle" ELSE "done"
  OBVIOUS
<1> PICK p : p = acct.pool - Least(conn[c].writing, acct.pool)
  OBVIOUS
<1> DEFINE x == [conn[c] EXCEPT !.outbox = @ - n, !.writing = 0, !.writer = w]
<1>1. n \in Nat /\ conn[c].outbox - n \in Nat /\ n <= conn[c].outbox /\ p \in Int
  BY LinkOf DEF Least, LinkState
<1>2. x \in LinkState /\ x.at = conn[c].at /\ x.out = conn[c].out /\ x.outbox = conn[c].outbox - n
      /\ x.ctl = conn[c].ctl /\ x.bulk = conn[c].bulk /\ x.writer # "writes"
  BY <1>1, LinkOf DEF LinkState, Writers
<1>3. Covered(x)
  <2>1. conn[c].ctl * CtlBytes \in Nat /\ conn[c].bulk * BulkBytes \in Nat /\ conn[c].outbox \in Nat
        /\ conn[c].writing \in Nat
    BY LinkOf, Multiples DEF LinkState
  <2> PICK q \in Nat : q = conn[c].ctl * CtlBytes + conn[c].bulk * BulkBytes
    BY <2>1
  <2>2. conn[c].at = "up" => conn[c].outbox <= q + conn[c].writing
    BY <2>1, LinkOf DEF Covered
  <2>3. conn[c].at = "up" => conn[c].outbox - n <= q
    BY <2>1, <2>2 DEF Least
  <2>4. x.at = "up" => x.outbox <= q
    BY <1>2, <2>3
  <2> QED
    BY <1>2, <2>1, <2>4 DEF Covered
<1>4. conn' = [conn EXCEPT ![c] = x] /\ acct' = [acct EXCEPT !.pool = p]
  BY LinkOf DEF Written
<1>5. x.at \in {"none", "dialing", "shaking"} => x.outbox = 0
  BY <1>1, <1>2, LinkOf
<1> HIDE DEF x
<1> QED
  BY <1>1, <1>2, <1>3, <1>4, <1>5, InPlace

LEMMA EnqueueControlKeeps == ASSUME ConnInv, NEW c \in Link, EnqueueControl(c) PROVE ConnInv'
<1>1. CASE conn[c].writer # "done" /\ conn[c].ctl < OutboxItems
  <2> DEFINE x == [conn[c] EXCEPT !.outbox = @ + CtlBytes, !.ctl = @ + 1]
  <2> PICK p : p = (acct.pool + CtlBytes) % Wrap
    OBVIOUS
  <2>1. p \in Int
    BY LinkOf, ModInt DEF Account
  <2>2. x \in LinkState /\ x.at = conn[c].at /\ x.out = conn[c].out /\ x.outbox = conn[c].outbox + CtlBytes
        /\ x.ctl = conn[c].ctl + 1 /\ x.bulk = conn[c].bulk /\ x.writer = conn[c].writer
        /\ x.writing = conn[c].writing
    <3> PICK y \in LinkState : y = conn[c]
      BY LinkOf
    <3>1. y.outbox + CtlBytes \in Nat /\ y.ctl + 1 \in Nat
      BY LinkOf DEF LinkState
    <3> QED
      BY <3>1 DEF LinkState
  <2>3. Covered(x)
    <3>1. conn[c].ctl * CtlBytes \in Nat /\ conn[c].bulk * BulkBytes \in Nat /\ conn[c].outbox \in Nat
          /\ conn[c].writing \in Nat /\ CtlBytes \in Nat
          /\ (conn[c].ctl + 1) * CtlBytes = conn[c].ctl * CtlBytes + CtlBytes
      BY LinkOf, Multiples DEF LinkState
    <3> QED
      BY <2>2, <3>1, LinkOf DEF Covered
  <2>4. conn' = [conn EXCEPT ![c] = x] /\ acct' = [acct EXCEPT !.pool = p] /\ conn[c].at = "up"
    BY <1>1, LinkOf DEF EnqueueControl
  <2> HIDE DEF x
  <2> QED
    BY <2>1, <2>2, <2>3, <2>4, InPlace
<1>2. CASE ~(conn[c].writer # "done" /\ conn[c].ctl < OutboxItems)
  <2> DEFINE x == [conn[c] EXCEPT !.kill = TRUE]
  <2>1. x \in LinkState /\ x.at = conn[c].at /\ x.out = conn[c].out /\ Covered(x) /\ x.outbox = conn[c].outbox
    BY LinkOf DEF LinkState, Covered
  <2>2. conn' = [conn EXCEPT ![c] = x] /\ acct' = [acct EXCEPT !.pool = acct.pool]
    BY <1>2, LinkOf DEF EnqueueControl, Kill
  <2> HIDE DEF x
  <2> QED
    BY <2>1, <2>2, LinkOf, InPlace
<1> QED
  BY <1>1, <1>2

LEMMA EnqueueBulkKeeps == ASSUME ConnInv, NEW c \in Link, EnqueueBulk(c) PROVE ConnInv'
<1> PICK y \in LinkState : y = conn[c]
  BY LinkOf
<1> PICK n \in Nat : n = BulkBytes
  BY LinkOf
<1>0. acct = [acct EXCEPT !.pool = acct.pool] /\ acct.pool \in Int /\ Covered(y)
      /\ conn = [conn EXCEPT ![c] = y] /\ (y.at \in {"none", "dialing", "shaking"} => y.outbox = 0)
      /\ acct.pool % Wrap \in Int /\ (acct.pool + n) % Wrap \in Int
  <2>1. acct.pool + n \in Int
    BY LinkOf
  <2> QED
    BY <2>1, LinkOf, ModInt
<1>a. y.at = "up"
  BY DEF EnqueueBulk
<1>1. CASE conn' = [conn EXCEPT ![c].kill = TRUE] /\ acct' = acct
  <2> DEFINE x == [y EXCEPT !.kill = TRUE]
  <2>1. x \in LinkState /\ x.at = conn[c].at /\ x.out = conn[c].out /\ Covered(x) /\ x.outbox = y.outbox
    BY <1>0 DEF LinkState, Covered
  <2>2. conn' = [conn EXCEPT ![c] = x] /\ acct' = [acct EXCEPT !.pool = acct.pool]
    BY <1>0, <1>1
  <2> HIDE DEF x
  <2> QED
    BY <1>0, <2>1, <2>2, InPlace
<1>2. CASE conn' = conn /\ acct' = acct
  <2>1. conn' = [conn EXCEPT ![c] = y] /\ acct' = [acct EXCEPT !.pool = acct.pool]
    BY <1>0, <1>2
  <2> QED
    BY <1>0, <2>1, InPlace
<1>3. CASE /\ conn' = [conn EXCEPT ![c].outbox = @ + n, ![c].bulk = @ + 1]
           /\ acct' = [acct EXCEPT !.pool = (@ + n) % Wrap]
  <2> DEFINE x == [y EXCEPT !.outbox = @ + n, !.bulk = @ + 1]
  <2>1. x \in LinkState /\ x.at = y.at /\ x.out = y.out /\ x.outbox = y.outbox + n
        /\ x.ctl = y.ctl /\ x.bulk = y.bulk + 1 /\ x.writer = y.writer /\ x.writing = y.writing
    <3>1. y.outbox + n \in Nat /\ y.bulk + 1 \in Nat
      BY DEF LinkState
    <3> QED
      BY <3>1 DEF LinkState
  <2>2. Covered(x)
    <3>1. y.ctl * CtlBytes \in Nat /\ y.bulk * n \in Nat /\ y.outbox \in Nat /\ y.writing \in Nat
          /\ (y.bulk + 1) * n = y.bulk * n + n
      BY LinkOf, Multiples DEF LinkState
    <3> QED
      BY <1>0, <2>1, <3>1 DEF Covered
  <2>3. conn' = [conn EXCEPT ![c] = x]
    BY <1>3
  <2>4. acct' = [acct EXCEPT !.pool = (acct.pool + n) % Wrap]
    BY <1>3
  <2> HIDE DEF x
  <2> QED
    BY <1>0, <1>a, <2>1, <2>2, <2>3, <2>4, InPlace
<1>4. CASE /\ conn' = [conn EXCEPT ![c].outbox = @ + 0]
           /\ acct' = [acct EXCEPT !.pool = (@ + 0) % Wrap]
  <2>0. y.outbox + 0 = y.outbox /\ acct.pool + 0 = acct.pool
    BY <1>0 DEF LinkState
  <2>1. conn' = [conn EXCEPT ![c] = y]
    <3>1. [y EXCEPT !.outbox = y.outbox] = y
      BY DEF LinkState
    <3>2. conn' = [conn EXCEPT ![c] = [y EXCEPT !.outbox = y.outbox + 0]]
      BY <1>4
    <3> QED
      BY <2>0, <3>1, <3>2
  <2>2. acct' = [acct EXCEPT !.pool = acct.pool % Wrap]
    BY <1>4, <2>0
  <2> QED
    BY <1>0, <2>1, <2>2, InPlace
<1> QED
  BY <1>1, <1>2, <1>3, <1>4 DEF EnqueueBulk, Kill, Unsent

\* How the counters differ, value by value: inbound, outbound, dialing, shares of inbound and of
\* outbound connections, handshakes, dials, peers.
Differs(y, x, u, v, d, p, q, s, l, w) ==
    /\ Diff({"up"}, FALSE, y, x) = u /\ Diff({"up"}, TRUE, y, x) = v /\ Diff({"dialing"}, TRUE, y, x) = d
    /\ Diff({"shaking", "up"}, FALSE, y, x) = p /\ Diff({"dialing", "shaking", "up"}, TRUE, y, x) = q
    /\ Diff({"shaking"}, FALSE, y, x) = s /\ Diff({"dialing", "shaking"}, TRUE, y, x) = l
    /\ Has({"up"}, x.at) - Has({"up"}, y.at) = w
Books(a, b, c, u, v, d, p, q, s, l, w) ==
    /\ b.inbound = a.inbound + u /\ b.outbound = a.outbound + v /\ b.dialing = a.dialing + d
    /\ Raised(b.ip, a.ip, Ip(c), p) /\ Raised(b.inGroup, a.inGroup, Group_of(c), p)
    /\ Raised(b.outGroup, a.outGroup, Group_of(c), q)
    /\ b.shake = a.shake + s /\ b.dial = a.dial + l /\ b.peer = a.peer + w

LEMMA FollowsFrom ==
    ASSUME NEW a \in Account, NEW b, NEW c, NEW y, NEW x, NEW u, NEW v, NEW d, NEW p, NEW q, NEW s, NEW l, NEW w,
           Differs(y, x, u, v, d, p, q, s, l, w), Books(a, b, c, u, v, d, p, q, s, l, w)
    PROVE  Follows(a, b, c, y, x)
<1>1. b.peer = a.peer + Has({"up"}, x.at) - Has({"up"}, y.at)
  <2>1. a.peer \in Int /\ Has({"up"}, x.at) \in Int /\ Has({"up"}, y.at) \in Int
    BY DEF Account, Has
  <2>2. b.peer = a.peer + w /\ Has({"up"}, x.at) - Has({"up"}, y.at) = w
    BY Zenon DEF Books, Differs
  <2> QED
    BY <2>1, <2>2
<1> QED
  BY <1>1, Zenon DEF Follows, Books, Differs, Raised

LEMMA StillThere ==
    ASSUME NEW D, NEW f, Integral(f, D), NEW p \in D
    PROVE  Raised(f, f, p, 0)
BY DEF Integral, Raised

LEMMA Numbers ==
    ASSUME NEW a \in Account
    PROVE  /\ a.inbound \in Int /\ a.outbound \in Int /\ a.dialing \in Int /\ a.pool \in Int
           /\ a.peer \in Int /\ a.shake \in Int /\ a.dial \in Int
           /\ Integral(a.ip, DOMAIN IpGroup) /\ Integral(a.inGroup, Range(IpGroup))
           /\ Integral(a.outGroup, Range(IpGroup))
BY DEF Account, Integral

LEMMA GoesDown ==
    ASSUME NEW f, NEW p, f[p] \in Nat, f[p] # 0
    PROVE  [f EXCEPT ![p] = Drop(@)] = [f EXCEPT ![p] = @ + (-1)]
<1>1. Drop(f[p]) = f[p] + (-1)
  BY DEF Drop
<1> QED
  BY <1>1

LEMMA UpAndDown ==
    ASSUME NEW D, NEW f, Integral(f, D), NEW p \in D, f[p] \in Nat
    PROVE  [[f EXCEPT ![p] = @ + 1] EXCEPT ![p] = Drop(@)] = f
<1>1. f \in [D -> Int]
  BY DEF Integral
<1>2. Drop(f[p] + 1) = f[p]
  BY DEF Drop
<1>3. [[f EXCEPT ![p] = @ + 1] EXCEPT ![p] = Drop(@)] = [f EXCEPT ![p] = Drop(f[p] + 1)]
  BY <1>1
<1>4. [f EXCEPT ![p] = Drop(f[p] + 1)] = f
  BY <1>1, <1>2
<1> QED
  BY <1>3, <1>4

\* A step that leaves everything as it was.
LEMMA Nothing == ASSUME ConnInv, conn' = conn, acct' = acct PROVE ConnInv'
BY DEF ConnInv, ConnTypes, AccountsSound, AccountsExact, NotOvercharged, In, OfIp, OfGroup

LEMMA FreeLink == Free \in LinkState /\ Free.at = "none" /\ Free.out = FALSE /\ Free.outbox = 0 /\ Covered(Free)
<1>1. Free \in LinkState
  BY DEF Free, LinkState, Places, Writers
<1> QED
  BY <1>1 DEF Free, Covered

LEMMA NewIn ==
    /\ [Free EXCEPT !.at = "shaking", !.out = FALSE] \in LinkState
    /\ [Free EXCEPT !.at = "shaking", !.out = FALSE].at = "shaking"
    /\ [Free EXCEPT !.at = "shaking", !.out = FALSE].out = FALSE
    /\ [Free EXCEPT !.at = "shaking", !.out = FALSE].outbox = 0
    /\ Covered([Free EXCEPT !.at = "shaking", !.out = FALSE])
<1> DEFINE x == [Free EXCEPT !.at = "shaking", !.out = FALSE]
<1>1. x \in LinkState /\ x.at = "shaking" /\ x.out = FALSE /\ x.outbox = 0
  BY DEF Free, LinkState, Places, Writers
<1> QED
  BY <1>1 DEF Covered

LEMMA NewOut ==
    /\ [Free EXCEPT !.at = "dialing", !.out = TRUE] \in LinkState
    /\ [Free EXCEPT !.at = "dialing", !.out = TRUE].at = "dialing"
    /\ [Free EXCEPT !.at = "dialing", !.out = TRUE].out = TRUE
    /\ [Free EXCEPT !.at = "dialing", !.out = TRUE].outbox = 0
    /\ Covered([Free EXCEPT !.at = "dialing", !.out = TRUE])
<1> DEFINE x == [Free EXCEPT !.at = "dialing", !.out = TRUE]
<1>1. x \in LinkState /\ x.at = "dialing" /\ x.out = TRUE /\ x.outbox = 0
  BY DEF Free, LinkState, Places, Writers
<1> QED
  BY <1>1 DEF Covered

LEMMA ConnectedKeeps == ASSUME ConnInv, NEW c \in Link, Connected(c) PROVE ConnInv'
<1> PICK y \in LinkState : y = conn[c]
  BY LinkOf
<1> DEFINE x == [y EXCEPT !.at = "shaking"]
<1>1. y.at = "dialing" /\ y.out = TRUE /\ y.outbox = 0 /\ conn' = [conn EXCEPT ![c] = x]
      /\ acct \in Account /\ acct' = [acct EXCEPT !.dialing = Drop(acct.dialing)]
  BY LinkOf DEF Connected, LinkState
<1>2. x \in LinkState /\ x.at = "shaking" /\ x.out = TRUE /\ x.outbox = 0 /\ Covered(x)
  BY <1>1 DEF LinkState, Places, Covered
<1> HIDE DEF x
<1>3. acct.dialing \in Nat /\ acct.dialing # 0
  BY <1>1, Counted DEF ConnInv, AccountsSound
<1>4. Drop(acct.dialing) = acct.dialing + (-1)
  BY <1>3 DEF Drop
<1>5. /\ acct' \in Account /\ acct'.dialing = acct.dialing + (-1)
      /\ acct'.inbound = acct.inbound /\ acct'.outbound = acct.outbound
      /\ SameShares(acct, acct') /\ SameLeases(acct, acct')
  BY <1>1, <1>3, <1>4 DEF Account, SameShares, SameLeases
<1>6. Differs(y, x, 0, 0, -1, 0, 0, 0, 0, 0)
  BY <1>1, <1>2 DEF Diff, Is, Has, Differs
<1>7. Books(acct, acct', c, 0, 0, -1, 0, 0, 0, 0, 0)
  BY <1>1, <1>5, Numbers, StillThere, Places_of DEF SameShares, SameLeases, Books
<1>8. Follows(acct, acct', c, y, x)
  BY <1>1, <1>6, <1>7, FollowsFrom
<1> QED
  BY <1>1, <1>2, <1>5, <1>8, ConnStep

LEMMA ForgottenKeeps == ASSUME ConnInv, NEW c \in Link, Forgotten(c) PROVE ConnInv'
<1> PICK y \in LinkState : y = conn[c]
  BY LinkOf
<1>1. y.at = "gone" /\ conn' = [conn EXCEPT ![c] = Free] /\ acct \in Account /\ acct' = acct
  BY LinkOf DEF Forgotten
<1>2. Free \in LinkState /\ Free.at = "none" /\ Free.out = FALSE /\ Free.outbox = 0 /\ Covered(Free)
  BY FreeLink
<1>6. Differs(y, Free, 0, 0, 0, 0, 0, 0, 0, 0)
  BY <1>1, <1>2 DEF Diff, Is, Has, Differs
<1>7. Books(acct, acct', c, 0, 0, 0, 0, 0, 0, 0, 0)
  BY <1>1, Numbers, StillThere, Places_of DEF Books
<1>8. Follows(acct, acct', c, y, Free)
  BY <1>1, <1>6, <1>7, FollowsFrom
<1> QED
  BY <1>1, <1>2, <1>8, ConnStep

LEMMA AcceptKeeps == ASSUME ConnInv, NEW c \in Link, Accept(c) PROVE ConnInv'
<1> PICK y \in LinkState : y = conn[c]
  BY LinkOf
<1> PICK a \in Account : a = acct
  BY LinkOf
<1> PICK b : b = admit_inbound(a, c)
  OBVIOUS
<1>1. /\ b \in Account /\ SameCounts(a, b) /\ SameLeases(a, b) /\ b.outGroup = a.outGroup
      /\ b.ip = [a.ip EXCEPT ![Ip(c)] = @ + 1]
      /\ b.inGroup = [a.inGroup EXCEPT ![Group_of(c)] = @ + 1]
  BY Admits
<1>2. y.at = "none"
  BY DEF Accept
<1>3. CASE acct.shake < FdShake
  <2> DEFINE x == [Free EXCEPT !.at = "shaking", !.out = FALSE]
  <2>1. acct' = [b EXCEPT !.shake = @ + 1] /\ conn' = [conn EXCEPT ![c] = x]
    BY <1>3 DEF Accept, Becomes_at
  <2>2. x \in LinkState /\ x.at = "shaking" /\ x.out = FALSE /\ x.outbox = 0 /\ Covered(x)
    BY NewIn
  <2> HIDE DEF x
  <2>3. /\ acct' \in Account /\ SameCounts(b, acct') /\ SameShares(b, acct')
        /\ acct'.shake = b.shake + 1 /\ acct'.peer = b.peer /\ acct'.dial = b.dial
    BY <1>1, <2>1 DEF Account, SameCounts, SameShares
  <2>4. Differs(y, x, 0, 0, 0, 1, 0, 1, 0, 0)
    BY <1>2, <2>2 DEF Diff, Is, Has, Differs
  <2>5. Books(a, acct', c, 0, 0, 0, 1, 0, 1, 0, 0)
    <3>1. Raised(acct'.ip, a.ip, Ip(c), 1) /\ Raised(acct'.inGroup, a.inGroup, Group_of(c), 1)
      BY <1>1, <2>3 DEF SameShares, Raised
    <3>2. Raised(acct'.outGroup, a.outGroup, Group_of(c), 0)
      BY <1>1, <2>3, Numbers, StillThere, Places_of DEF SameShares
    <3> QED
      BY <1>1, <2>3, <3>1, <3>2, Numbers DEF Books, SameCounts, SameLeases
  <2>6. Follows(acct, acct', c, y, x)
    BY <2>4, <2>5, FollowsFrom
  <2> QED
    BY <2>1, <2>2, <2>3, <2>6, ConnStep
<1>4. CASE ~(acct.shake < FdShake)
  <2> PICK e : e = release_inbound(b, c)
    OBVIOUS
  <2>1. acct' = e /\ conn' = conn
    BY <1>4 DEF Accept
  <2>2. /\ e \in Account /\ SameCounts(b, e) /\ SameLeases(b, e) /\ e.outGroup = b.outGroup
        /\ e.ip = [b.ip EXCEPT ![Ip(c)] = Drop(@)]
        /\ e.inGroup = [b.inGroup EXCEPT ![Group_of(c)] = Drop(@)]
    <3>1. b \in Account
      BY <1>1
    <3>2. /\ release_inbound(b, c) \in Account /\ SameCounts(b, release_inbound(b, c))
          /\ SameLeases(b, release_inbound(b, c)) /\ release_inbound(b, c).outGroup = b.outGroup
          /\ release_inbound(b, c).ip = [b.ip EXCEPT ![Ip(c)] = Drop(@)]
          /\ release_inbound(b, c).inGroup = [b.inGroup EXCEPT ![Group_of(c)] = Drop(@)]
      BY <3>1, Releases, ZenonT(40)
    <3> QED
      BY <3>2
  <2>3. acct.ip[Ip(c)] \in Nat /\ acct.inGroup[Group_of(c)] \in Nat
    BY Counted DEF ConnInv, AccountsSound
  <2>4. e.ip = a.ip
    BY <1>1, <2>2, <2>3, Numbers, Places_of, UpAndDown
  <2>5. e.inGroup = a.inGroup
    BY <1>1, <2>2, <2>3, Numbers, Places_of, UpAndDown
  <2>6. e = a
    BY <1>1, <2>2, <2>4, <2>5 DEF Account, SameCounts, SameLeases
  <2> QED
    BY <2>1, <2>6, Nothing
<1> QED
  BY <1>3, <1>4

LEMMA DialKeeps == ASSUME ConnInv, NEW c \in Link, Dial(c) PROVE ConnInv'
<1> PICK y \in LinkState : y = conn[c]
  BY LinkOf
<1> PICK a \in Account : a = acct
  BY LinkOf
<1>2. y.at = "none"
  BY DEF Dial
<1>3. CASE acct.dial < FdDial
  <2> DEFINE x == [Free EXCEPT !.at = "dialing", !.out = TRUE]
             g == [a.outGroup EXCEPT ![Group_of(c)] = @ + 1]
  <2>1. acct' = [a EXCEPT !.outGroup = g, !.dial = @ + 1, !.dialing = @ + 1]
        /\ conn' = [conn EXCEPT ![c] = x]
    BY <1>3 DEF Dial, Becomes_at
  <2>2. x \in LinkState /\ x.at = "dialing" /\ x.out = TRUE /\ x.outbox = 0 /\ Covered(x)
    BY NewOut
  <2>0. g \in [Range(IpGroup) -> Int] /\ Raised(g, a.outGroup, Group_of(c), 1)
    BY Places_of DEF Account, Raised
  <2> HIDE DEF x, g
  <2>3. /\ acct' \in Account /\ acct'.outGroup = g /\ acct'.ip = a.ip /\ acct'.inGroup = a.inGroup
        /\ acct'.inbound = a.inbound /\ acct'.outbound = a.outbound /\ acct'.dialing = a.dialing + 1
        /\ acct'.shake = a.shake /\ acct'.peer = a.peer /\ acct'.dial = a.dial + 1
    <3> DEFINE e == [a EXCEPT !.outGroup = g]
               h == [e EXCEPT !.dial = @ + 1]
               k == [h EXCEPT !.dialing = @ + 1]
    <3>1. acct' = k
      BY <2>1 DEF Account
    <3>2. /\ e \in Account /\ e.outGroup = g /\ e.ip = a.ip /\ e.inGroup = a.inGroup
          /\ e.inbound = a.inbound /\ e.outbound = a.outbound /\ e.dialing = a.dialing
          /\ e.shake = a.shake /\ e.peer = a.peer /\ e.dial = a.dial
      BY <2>0 DEF Account
    <3> HIDE DEF e
    <3>3. /\ h \in Account /\ h.outGroup = e.outGroup /\ h.ip = e.ip /\ h.inGroup = e.inGroup
          /\ h.inbound = e.inbound /\ h.outbound = e.outbound /\ h.dialing = e.dialing
          /\ h.shake = e.shake /\ h.peer = e.peer /\ h.dial = e.dial + 1
      BY <3>2 DEF Account
    <3> HIDE DEF h
    <3>4. /\ k \in Account /\ k.outGroup = h.outGroup /\ k.ip = h.ip /\ k.inGroup = h.inGroup
          /\ k.inbound = h.inbound /\ k.outbound = h.outbound /\ k.dialing = h.dialing + 1
          /\ k.shake = h.shake /\ k.peer = h.peer /\ k.dial = h.dial
      BY <3>3 DEF Account
    <3> HIDE DEF k
    <3> QED
      BY <3>1, <3>2, <3>3, <3>4
  <2>4. Differs(y, x, 0, 0, 1, 0, 1, 0, 1, 0)
    BY <1>2, <2>2 DEF Diff, Is, Has, Differs
  <2>5. Books(a, acct', c, 0, 0, 1, 0, 1, 0, 1, 0)
    BY <2>0, <2>3, Numbers, StillThere, Places_of DEF Books
  <2>6. Follows(acct, acct', c, y, x)
    BY <2>4, <2>5, FollowsFrom
  <2> QED
    BY <2>1, <2>2, <2>3, <2>6, ConnStep
<1>4. CASE ~(acct.dial < FdDial)
  BY <1>4, Nothing DEF Dial
<1> QED
  BY <1>3, <1>4

\* What ends a connection before the peer is known: the lease and the shares go back.
LEMMA GivenBackFrom ==
    ASSUME ConnInv, NEW c \in Link, NEW a \in Account, NEW s \in Account,
           SameShares(acct, a), SameLeases(acct, a), conn[c].at \in {"dialing", "shaking", "up"},
           s = IF conn[c].out THEN release_outbound(a, c) ELSE release_inbound(a, c)
    PROVE  /\ SameCounts(a, s) /\ SameLeases(a, s)
           /\ conn[c].out => /\ s.ip = acct.ip /\ s.inGroup = acct.inGroup
                             /\ Raised(s.outGroup, acct.outGroup, Group_of(c), -1)
           /\ ~conn[c].out => /\ Raised(s.ip, acct.ip, Ip(c), -1)
                              /\ Raised(s.inGroup, acct.inGroup, Group_of(c), -1)
                              /\ s.outGroup = acct.outGroup
<1>1. /\ acct.ip[Ip(c)] \in Nat /\ acct.inGroup[Group_of(c)] \in Nat /\ acct.outGroup[Group_of(c)] \in Nat
      /\ conn[c].at \in {"shaking", "up"} /\ ~conn[c].out =>
            acct.ip[Ip(c)] # 0 /\ acct.inGroup[Group_of(c)] # 0
      /\ conn[c].at \in {"dialing", "shaking", "up"} /\ conn[c].out => acct.outGroup[Group_of(c)] # 0
      /\ (conn[c].at = "dialing" => conn[c].out)
  BY Counted, LinkOf DEF ConnInv, AccountsSound
<1>2. a.ip = acct.ip /\ a.inGroup = acct.inGroup /\ a.outGroup = acct.outGroup
  BY DEF SameShares
<1>3. CASE conn[c].out
  <2>1. /\ SameCounts(a, release_outbound(a, c)) /\ SameLeases(a, release_outbound(a, c))
        /\ release_outbound(a, c).outGroup = [a.outGroup EXCEPT ![Group_of(c)] = Drop(@)]
        /\ release_outbound(a, c).ip = a.ip /\ release_outbound(a, c).inGroup = a.inGroup
    BY Releases
  <2>2. [acct.outGroup EXCEPT ![Group_of(c)] = Drop(@)] = [acct.outGroup EXCEPT ![Group_of(c)] = @ + (-1)]
    BY <1>1, <1>3, GoesDown
  <2>3. s = release_outbound(a, c)
    BY <1>3
  <2> QED
    BY <1>2, <1>3, <2>1, <2>2, <2>3 DEF Raised
<1>4. CASE ~conn[c].out
  <2>1. /\ SameCounts(a, release_inbound(a, c)) /\ SameLeases(a, release_inbound(a, c))
        /\ release_inbound(a, c).ip = [a.ip EXCEPT ![Ip(c)] = Drop(@)]
        /\ release_inbound(a, c).inGroup = [a.inGroup EXCEPT ![Group_of(c)] = Drop(@)]
        /\ release_inbound(a, c).outGroup = a.outGroup
    BY Releases
  <2>2. [acct.ip EXCEPT ![Ip(c)] = Drop(@)] = [acct.ip EXCEPT ![Ip(c)] = @ + (-1)]
    BY <1>1, <1>4, GoesDown
  <2>4. [acct.inGroup EXCEPT ![Group_of(c)] = Drop(@)] = [acct.inGroup EXCEPT ![Group_of(c)] = @ + (-1)]
    BY <1>1, <1>4, GoesDown
  <2>3. s = release_inbound(a, c)
    BY <1>4
  <2> QED
    BY <1>2, <1>4, <2>1, <2>2, <2>3, <2>4 DEF Raised
<1> QED
  BY <1>3, <1>4

LEMMA ConnectFailsKeeps == ASSUME ConnInv, NEW c \in Link, ConnectFails(c) PROVE ConnInv'
<1> PICK y \in LinkState : y = conn[c]
  BY LinkOf
<1> PICK a \in Account : a = acct
  BY LinkOf
<1> DEFINE b == [a EXCEPT !.dialing = Drop(@)]
           d == Dropped(b, c)
           e == release_outbound(d, c)
<1>1. y.at = "dialing" /\ y.out = TRUE /\ acct' = e /\ conn' = [conn EXCEPT ![c] = Free]
  BY LinkOf DEF ConnectFails, LinkState
<1>2. /\ b \in Account /\ b.dialing = Drop(a.dialing) /\ b.inbound = a.inbound /\ b.outbound = a.outbound
      /\ SameShares(a, b) /\ SameLeases(a, b)
  BY DEF Account, Drop, SameShares, SameLeases
<1> HIDE DEF b
<1>3. /\ d \in Account /\ SameCounts(b, d) /\ SameShares(b, d) /\ d.dial = b.dial - 1
      /\ d.shake = b.shake /\ d.peer = b.peer
  BY <1>1, <1>2, LeaseDropped
<1> HIDE DEF d
<1>4. /\ e \in Account /\ SameCounts(d, e) /\ SameLeases(d, e)
      /\ e.outGroup = [d.outGroup EXCEPT ![Group_of(c)] = Drop(@)]
      /\ e.ip = d.ip /\ e.inGroup = d.inGroup
  BY <1>3, Releases
<1> HIDE DEF e
<1>5. /\ a.outGroup[Group_of(c)] \in Nat /\ a.outGroup[Group_of(c)] # 0
      /\ a.dialing \in Nat /\ a.dialing # 0
  BY <1>1, Counted DEF ConnInv, AccountsSound
<1>6. Raised(e.outGroup, a.outGroup, Group_of(c), -1)
  <2>1. d.outGroup = a.outGroup
    BY <1>2, <1>3 DEF SameShares
  <2>2. [a.outGroup EXCEPT ![Group_of(c)] = Drop(@)] = [a.outGroup EXCEPT ![Group_of(c)] = @ + (-1)]
    BY <1>5, GoesDown
  <2> QED
    BY <1>4, <2>1, <2>2 DEF Raised
<1>7. Differs(y, Free, 0, 0, -1, 0, -1, 0, -1, 0)
  BY <1>1, FreeLink DEF Diff, Is, Has, Differs
<1>8. Books(a, e, c, 0, 0, -1, 0, -1, 0, -1, 0)
  <2>1. e.ip = a.ip /\ e.inGroup = a.inGroup
    BY <1>2, <1>3, <1>4 DEF SameShares
  <2>2. Raised(e.ip, a.ip, Ip(c), 0) /\ Raised(e.inGroup, a.inGroup, Group_of(c), 0)
    BY <2>1, Numbers, StillThere, Places_of
  <2>3. /\ e.inbound = a.inbound /\ e.outbound = a.outbound /\ e.dialing = Drop(a.dialing)
        /\ e.dial = a.dial - 1 /\ e.shake = a.shake /\ e.peer = a.peer
    BY <1>2, <1>3, <1>4 DEF SameCounts, SameLeases
  <2>4. /\ a.inbound \in Int /\ a.outbound \in Int /\ a.dialing \in Int
        /\ a.peer \in Int /\ a.shake \in Int /\ a.dial \in Int
    BY Numbers
  <2> QED
    BY <1>5, <1>6, <2>2, <2>3, <2>4 DEF Books, Drop
<1>9. Follows(acct, acct', c, y, Free)
  BY <1>1, <1>7, <1>8, FollowsFrom
<1> QED
  BY <1>1, <1>4, <1>9, FreeLink, ConnStep

\* A handshake that ends: what is given back is what was counted.
LEMMA HandshakeEnds ==
    ASSUME ConnInv, NEW c \in Link, conn[c].at = "shaking",
           acct' = GivenBack(acct, c), conn' = [conn EXCEPT ![c] = Free]
    PROVE  ConnInv'
<1> PICK y \in LinkState : y = conn[c]
  BY LinkOf
<1> PICK a \in Account : a = acct
  BY LinkOf
<1> DEFINE s == IF conn[c].out THEN release_outbound(a, c) ELSE release_inbound(a, c)
           e == Dropped(s, c)
<1>1. y.at = "shaking" /\ acct' = e /\ y.out \in BOOLEAN
  BY DEF GivenBack, LinkState
<1>2. s \in Account
  BY Releases
<1>3. SameShares(acct, a) /\ SameLeases(acct, a)
  BY DEF SameShares, SameLeases
<1>4. /\ SameCounts(a, s) /\ SameLeases(a, s)
      /\ conn[c].out => /\ s.ip = acct.ip /\ s.inGroup = acct.inGroup
                        /\ Raised(s.outGroup, acct.outGroup, Group_of(c), -1)
      /\ ~conn[c].out => /\ Raised(s.ip, acct.ip, Ip(c), -1)
                         /\ Raised(s.inGroup, acct.inGroup, Group_of(c), -1)
                         /\ s.outGroup = acct.outGroup
  BY <1>2, <1>3, GivenBackFrom
<1> HIDE DEF s
<1>5. /\ e \in Account /\ SameCounts(s, e) /\ SameShares(s, e)
      /\ conn[c].out => e.dial = s.dial - 1 /\ e.shake = s.shake /\ e.peer = s.peer
      /\ ~conn[c].out => e.shake = s.shake - 1 /\ e.dial = s.dial /\ e.peer = s.peer
  BY <1>2, LeaseDropped
<1> HIDE DEF e
<1>6. /\ a.inbound \in Int /\ a.outbound \in Int /\ a.dialing \in Int
      /\ a.peer \in Int /\ a.shake \in Int /\ a.dial \in Int
  BY Numbers
<1>7. Raised(a.ip, a.ip, Ip(c), 0) /\ Raised(a.inGroup, a.inGroup, Group_of(c), 0)
      /\ Raised(a.outGroup, a.outGroup, Group_of(c), 0)
  BY Numbers, StillThere, Places_of
<1>8. CASE y.out
  <2>1. Differs(y, Free, 0, 0, 0, 0, -1, 0, -1, 0)
    BY <1>1, <1>8, FreeLink DEF Diff, Is, Has, Differs
  <2>2. Books(a, e, c, 0, 0, 0, 0, -1, 0, -1, 0)
    BY <1>4, <1>5, <1>6, <1>7, <1>8 DEF Books, SameCounts, SameLeases, SameShares
  <2>3. Follows(acct, acct', c, y, Free)
    BY <1>1, <2>1, <2>2, FollowsFrom
  <2> QED
    BY <1>1, <1>5, <2>3, FreeLink, ConnStep
<1>9. CASE ~y.out
  <2>1. Differs(y, Free, 0, 0, 0, -1, 0, -1, 0, 0)
    BY <1>1, <1>9, FreeLink DEF Diff, Is, Has, Differs
  <2>2. Books(a, e, c, 0, 0, 0, -1, 0, -1, 0, 0)
    BY <1>4, <1>5, <1>6, <1>7, <1>9 DEF Books, SameCounts, SameLeases, SameShares
  <2>3. Follows(acct, acct', c, y, Free)
    BY <1>1, <2>1, <2>2, FollowsFrom
  <2> QED
    BY <1>1, <1>5, <2>3, FreeLink, ConnStep
<1> QED
  BY <1>8, <1>9

LEMMA HandshakeOkKeeps == ASSUME ConnInv, NEW c \in Link, HandshakeOk(c) PROVE ConnInv'
<1> PICK y \in LinkState : y = conn[c]
  BY LinkOf
<1> PICK a \in Account : a = acct
  BY LinkOf
<1>1. y.at = "shaking" /\ y.out \in BOOLEAN /\ y.outbox = 0
  BY LinkOf DEF HandshakeOk, LinkState
<1>2. CASE ~(acct.peer < FdPeer)
  <2>1. acct' = GivenBack(acct, c) /\ conn' = [conn EXCEPT ![c] = Free] /\ conn[c].at = "shaking"
    BY <1>2 DEF HandshakeOk
  <2> QED
    BY <2>1, HandshakeEnds
<1>3. CASE acct.peer < FdPeer
  <2> DEFINE x == [y EXCEPT !.at = "up", !.writer = "idle"]
             d == Dropped(a, c)
             p == [d EXCEPT !.peer = @ + 1]
             e == IF conn[c].out THEN [p EXCEPT !.outbound = @ + 1] ELSE [p EXCEPT !.inbound = @ + 1]
  <2>1. acct' = e /\ conn' = [conn EXCEPT ![c] = x]
    BY <1>3 DEF HandshakeOk
  <2>2. x \in LinkState /\ x.at = "up" /\ x.out = y.out /\ x.outbox = 0 /\ x.ctl = y.ctl /\ x.bulk = y.bulk
        /\ x.writer = "idle"
    BY <1>1 DEF LinkState, Places, Writers
  <2>3. Covered(x)
    <3>1. y.ctl * CtlBytes \in Nat /\ y.bulk * BulkBytes \in Nat
      BY LinkOf, Multiples DEF LinkState
    <3> QED
      BY <2>2, <3>1 DEF Covered
  <2> HIDE DEF x
  <2>4. /\ d \in Account /\ SameCounts(a, d) /\ SameShares(a, d) /\ d.peer = a.peer
        /\ conn[c].out => d.dial = a.dial - 1 /\ d.shake = a.shake
        /\ ~conn[c].out => d.shake = a.shake - 1 /\ d.dial = a.dial
    BY <1>1, LeaseDropped
  <2> HIDE DEF d
  <2>5. p \in Account /\ SameCounts(d, p) /\ SameShares(d, p) /\ p.peer = d.peer + 1
        /\ p.dial = d.dial /\ p.shake = d.shake
    BY <2>4 DEF Account, SameCounts, SameShares
  <2> HIDE DEF p
  <2>6. /\ e \in Account /\ SameShares(p, e) /\ SameLeases(p, e) /\ e.dialing = p.dialing
        /\ conn[c].out => e.outbound = p.outbound + 1 /\ e.inbound = p.inbound
        /\ ~conn[c].out => e.inbound = p.inbound + 1 /\ e.outbound = p.outbound
    BY <2>5 DEF Account, SameLeases, SameShares
  <2> HIDE DEF e
  <2>7. /\ a.inbound \in Int /\ a.outbound \in Int /\ a.dialing \in Int
        /\ a.peer \in Int /\ a.shake \in Int /\ a.dial \in Int
    BY Numbers
  <2>8. Raised(a.ip, a.ip, Ip(c), 0) /\ Raised(a.inGroup, a.inGroup, Group_of(c), 0)
        /\ Raised(a.outGroup, a.outGroup, Group_of(c), 0)
    BY Numbers, StillThere, Places_of
  <2>9. CASE y.out
    <3>1. Differs(y, x, 0, 1, 0, 0, 0, 0, -1, 1)
      BY <1>1, <2>2, <2>9 DEF Diff, Is, Has, Differs
    <3>2. Books(a, e, c, 0, 1, 0, 0, 0, 0, -1, 1)
      BY <2>4, <2>5, <2>6, <2>7, <2>8, <2>9 DEF Books, SameCounts, SameShares, SameLeases
    <3>3. Follows(acct, acct', c, y, x)
      BY <2>1, <3>1, <3>2, FollowsFrom
    <3> QED
      BY <2>1, <2>2, <2>3, <2>6, <3>3, ConnStep
  <2>10. CASE ~y.out
    <3>1. Differs(y, x, 1, 0, 0, 0, 0, -1, 0, 1)
      BY <1>1, <2>2, <2>10 DEF Diff, Is, Has, Differs
    <3>2. Books(a, e, c, 1, 0, 0, 0, 0, -1, 0, 1)
      BY <2>4, <2>5, <2>6, <2>7, <2>8, <2>10 DEF Books, SameCounts, SameShares, SameLeases
    <3>3. Follows(acct, acct', c, y, x)
      BY <2>1, <3>1, <3>2, FollowsFrom
    <3> QED
      BY <2>1, <2>2, <2>3, <2>6, <3>3, ConnStep
  <2> QED
    BY <2>9, <2>10
<1> QED
  BY <1>2, <1>3

LEMMA TeardownKeeps == ASSUME ConnInv, NEW c \in Link, Teardown(c) PROVE ConnInv'
<1> PICK y \in LinkState : y = conn[c]
  BY LinkOf
<1> PICK a \in Account : a = acct
  BY LinkOf
<1> PICK w : w = IF y.writer \in {"writes", "pings"} THEN y.writer ELSE "done"
  OBVIOUS
<1> DEFINE x == [y EXCEPT !.at = "gone", !.writer = w]
           b == IF conn[c].out THEN [a EXCEPT !.outbound = @ - 1] ELSE [a EXCEPT !.inbound = @ - 1]
           s == IF conn[c].out THEN release_outbound(b, c) ELSE release_inbound(b, c)
           t == [s EXCEPT !.pool = (@ - conn[c].outbox) % Wrap]
           e == Dropped(t, c)
<1>1. y.at = "up" /\ y.out \in BOOLEAN /\ acct' = e
  BY DEF Teardown, LinkState
<1>2. conn' = [conn EXCEPT ![c] = x]
  BY DEF Teardown
<1>3. x \in LinkState /\ x.at = "gone" /\ x.out = y.out /\ Covered(x)
  <2>1. w \in Writers
    BY DEF LinkState, Writers
  <2>2. x \in LinkState /\ x.at = "gone" /\ x.out = y.out
    BY <2>1 DEF LinkState, Places
  <2> QED
    BY <2>2 DEF Covered
<1> HIDE DEF x
<1>4. /\ b \in Account /\ SameShares(acct, b) /\ SameLeases(acct, b) /\ b.dialing = a.dialing
      /\ conn[c].out => b.outbound = a.outbound - 1 /\ b.inbound = a.inbound
      /\ ~conn[c].out => b.inbound = a.inbound - 1 /\ b.outbound = a.outbound
  BY DEF Account, SameShares, SameLeases
<1> HIDE DEF b
<1>5. s \in Account
  BY <1>4, Releases
<1>6. /\ SameCounts(b, s) /\ SameLeases(b, s)
      /\ conn[c].out => /\ s.ip = acct.ip /\ s.inGroup = acct.inGroup
                        /\ Raised(s.outGroup, acct.outGroup, Group_of(c), -1)
      /\ ~conn[c].out => /\ Raised(s.ip, acct.ip, Ip(c), -1)
                         /\ Raised(s.inGroup, acct.inGroup, Group_of(c), -1)
                         /\ s.outGroup = acct.outGroup
  BY <1>1, <1>4, <1>5, GivenBackFrom
<1> HIDE DEF s
<1>7. /\ t \in Account /\ SameShares(s, t) /\ SameLeases(s, t)
      /\ t.inbound = s.inbound /\ t.outbound = s.outbound /\ t.dialing = s.dialing
  <2>1. s.pool - conn[c].outbox \in Int
    BY <1>5 DEF Account, LinkState
  <2>2. (s.pool - conn[c].outbox) % Wrap \in Int
    BY <2>1, LinkOf, ModInt
  <2>3. PICK p \in Int : p = (s.pool - conn[c].outbox) % Wrap
    BY <2>2
  <2> QED
    BY <1>5, <2>3 DEF Account, SameShares, SameLeases
<1> HIDE DEF t
<1>8. /\ e \in Account /\ SameCounts(t, e) /\ SameShares(t, e)
      /\ e.peer = t.peer - 1 /\ e.shake = t.shake /\ e.dial = t.dial
  BY <1>1, <1>7, LeaseDropped
<1> HIDE DEF e
<1>9. /\ a.inbound \in Int /\ a.outbound \in Int /\ a.dialing \in Int
      /\ a.peer \in Int /\ a.shake \in Int /\ a.dial \in Int
  BY Numbers
<1>10. Raised(a.ip, a.ip, Ip(c), 0) /\ Raised(a.inGroup, a.inGroup, Group_of(c), 0)
       /\ Raised(a.outGroup, a.outGroup, Group_of(c), 0)
  BY Numbers, StillThere, Places_of
<1>11. CASE y.out
  <2>1. Differs(y, x, 0, -1, 0, 0, -1, 0, 0, -1)
    BY <1>1, <1>3, <1>11 DEF Diff, Is, Has, Differs
  <2>2. Books(a, e, c, 0, -1, 0, 0, -1, 0, 0, -1)
    BY <1>4, <1>6, <1>7, <1>8, <1>9, <1>10, <1>11 DEF Books, SameCounts, SameShares, SameLeases
  <2>3. Follows(acct, acct', c, y, x)
    BY <1>1, <2>1, <2>2, FollowsFrom
  <2> QED
    BY <1>1, <1>2, <1>3, <1>8, <2>3, ConnStep
<1>12. CASE ~y.out
  <2>1. Differs(y, x, -1, 0, 0, -1, 0, 0, 0, -1)
    BY <1>1, <1>3, <1>12 DEF Diff, Is, Has, Differs
  <2>2. Books(a, e, c, -1, 0, 0, -1, 0, 0, 0, -1)
    BY <1>4, <1>6, <1>7, <1>8, <1>9, <1>10, <1>12 DEF Books, SameCounts, SameShares, SameLeases
  <2>3. Follows(acct, acct', c, y, x)
    BY <1>1, <2>1, <2>2, FollowsFrom
  <2> QED
    BY <1>1, <1>2, <1>3, <1>8, <2>3, ConnStep
<1> QED
  BY <1>11, <1>12

LEMMA ConnStarts == ConnInit => ConnInv
<1> SUFFICES ASSUME ConnInit PROVE ConnInv
  OBVIOUS
<1>1. acct \in Account
  BY DEF ConnInit, Account
<1>2. conn \in [Link -> LinkState]
  BY FreeLink DEF ConnInit
<1>3. \A c \in Link : conn[c] = Free
  BY DEF ConnInit
<1>4. ConnTypes /\ NotOvercharged
  BY <1>1, <1>2, <1>3, FreeLink DEF ConnTypes, NotOvercharged
<1>5. ASSUME NEW at, "none" \notin at, NEW out
      PROVE  /\ Cardinality(In(at, out)) = 0 /\ In(at, out) = {}
             /\ \A i : Cardinality(OfIp(at, out, i)) = 0
             /\ \A g : Cardinality(OfGroup(at, out, g)) = 0
  <2>1. In(at, out) = {}
    BY <1>3, <1>5, FreeLink DEF In
  <2>2. (\A i : OfIp(at, out, i) = {}) /\ (\A g : OfGroup(at, out, g) = {})
    BY <2>1 DEF OfIp, OfGroup
  <2> QED
    BY <2>1, <2>2, FS_EmptySet
<1>6. AccountsExact
  <2>1. "none" \notin {"up"} /\ "none" \notin {"dialing"} /\ "none" \notin {"shaking", "up"}
        /\ "none" \notin {"dialing", "shaking", "up"} /\ "none" \notin {"shaking"}
        /\ "none" \notin {"dialing", "shaking"}
    OBVIOUS
  <2>2. /\ Cardinality(In({"up"}, FALSE)) = 0 /\ Cardinality(In({"up"}, TRUE)) = 0
        /\ Cardinality(In({"dialing"}, TRUE)) = 0 /\ In({"up"}, TRUE) = {} /\ In({"up"}, FALSE) = {}
        /\ \A i \in DOMAIN IpGroup : Cardinality(OfIp({"shaking", "up"}, FALSE, i)) = 0
        /\ \A g \in Range(IpGroup) : Cardinality(OfGroup({"shaking", "up"}, FALSE, g)) = 0
        /\ \A g \in Range(IpGroup) : Cardinality(OfGroup({"dialing", "shaking", "up"}, TRUE, g)) = 0
        /\ Cardinality(In({"shaking"}, FALSE)) = 0 /\ Cardinality(In({"dialing", "shaking"}, TRUE)) = 0
    BY <1>5, <2>1, Zenon
  <2>3. Cardinality(In({"up"}, TRUE) \cup In({"up"}, FALSE)) = 0
    BY <2>2, FS_EmptySet
  <2>4. /\ acct.inbound = 0 /\ acct.outbound = 0 /\ acct.dialing = 0 /\ acct.peer = 0
        /\ acct.shake = 0 /\ acct.dial = 0
        /\ \A i \in DOMAIN IpGroup : acct.ip[i] = 0
        /\ \A g \in Range(IpGroup) : acct.inGroup[g] = 0 /\ acct.outGroup[g] = 0
    BY DEF ConnInit
  <2> QED
    BY <2>2, <2>3, <2>4 DEF AccountsExact
<1> QED
  BY <1>4, <1>6 DEF ConnInv, AccountsSound

\* Whatever a connection goes through (refused, dialled in vain, a failed handshake, no descriptor
\* left, killed while its writer still writes), each shared counter of ConnLimits, of the slots and
\* of the descriptor budget says what the connections say, and no peer is charged for bytes that do
\* not wait for it (net/conn.rs, net/node.rs, net/limits.rs, engine/fd.rs).
THEOREM AccountsAreSound == ConnsSpec => []AccountsSound
<1>1. ConnInit => ConnInv
  BY ConnStarts
<1>2. ConnInv /\ [ConnNext]_connVars => ConnInv'
  <2> SUFFICES ASSUME ConnInv, [ConnNext]_connVars PROVE ConnInv'
    OBVIOUS
  <2>1. CASE UNCHANGED connVars
    BY <2>1, Nothing DEF connVars
  <2>2. CASE ConnNext
    <3> PICK c \in Link :
          \/ Accept(c) \/ Dial(c) \/ Connected(c) \/ ConnectFails(c) \/ HandshakeFails(c) \/ HandshakeOk(c)
          \/ EnqueueBulk(c) \/ EnqueueControl(c) \/ WriterTakes(c) \/ WriterStops(c) \/ Killed(c)
          \/ \E ok \in BOOLEAN : Written(c, ok)
          \/ Teardown(c) \/ Forgotten(c)
      BY <2>2 DEF ConnNext
    <3>1. CASE HandshakeFails(c)
      BY <3>1, HandshakeEnds DEF HandshakeFails
    <3>2. CASE \E ok \in BOOLEAN : Written(c, ok)
      BY <3>2, WrittenKeeps
    <3>3. CASE Accept(c) \/ Dial(c) \/ Connected(c) \/ ConnectFails(c) \/ HandshakeOk(c)
      BY <3>3, AcceptKeeps, DialKeeps, ConnectedKeeps, ConnectFailsKeeps, HandshakeOkKeeps
    <3>4. CASE EnqueueBulk(c) \/ EnqueueControl(c) \/ WriterTakes(c) \/ WriterStops(c) \/ Killed(c)
      BY <3>4, EnqueueBulkKeeps, EnqueueControlKeeps, WriterTakesKeeps, WriterStopsKeeps, KilledKeeps
    <3>5. CASE Teardown(c) \/ Forgotten(c)
      BY <3>5, TeardownKeeps, ForgottenKeeps
    <3> QED
      BY <3>1, <3>2, <3>3, <3>4, <3>5
  <2> QED
    BY <2>1, <2>2
<1>3. ConnInv => AccountsSound
  BY DEF ConnInv
<1> QED
  BY <1>1, <1>2, <1>3, PTL DEF ConnsSpec

-----------------------------------------------------------------------------
(* A sum over the sources, in some order of theirs.                        *)

Sources == Cardinality(Client)
Order == CHOOSE e : e \in Bijection(1..Sources, Client)

Total(f) ==
    LET sum[i \in 0..Sources] == IF i = 0 THEN 0 ELSE sum[i - 1] + f[Order[i]]
    IN  sum[Sources]

\* sum holds the partial sums of f.
Sums(sum, f) ==
    /\ sum \in [0..Sources -> Int] /\ sum[0] = 0
    /\ \A i \in 1..Sources : sum[i] = sum[i - 1] + f[Order[i]]

\* The order has every source once.
LEMMA OrderIs ==
    /\ Sources \in Nat /\ \A i \in 1..Sources : Order[i] \in Client
    /\ \A s \in Client : \E k \in 1..Sources : Order[k] = s /\ \A i \in 1..Sources : Order[i] = s => i = k
<1>1. IsFiniteSet(Client)
  BY BudgetConstants
<1>2. Sources \in Nat /\ ExistsBijection(1..Sources, Client)
  BY <1>1, FS_CardinalityType DEF Sources
<1>3. Order \in Bijection(1..Sources, Client)
  BY <1>2 DEF ExistsBijection, Order
<1> QED
  BY <1>2, <1>3 DEF Bijection, Injection, Surjection, IsInjective

LEMMA TotalIs ==
    ASSUME NEW f \in [Client -> Int]
    PROVE  \E sum : Sums(sum, f) /\ Total(f) = sum[Sources]
<1> DEFINE G == [a \in (1..Sources) \X Int |-> a[2] + f[Order[a[1]]]]
           sum[i \in 0..Sources] == IF i = 0 THEN 0 ELSE sum[i - 1] + f[Order[i]]
<1>1. \A i \in 1..Sources : f[Order[i]] \in Int
  BY OrderIs
<1>2. G \in [(1..Sources) \X Int -> Int]
  BY <1>1
<1>3. PICK g : Iterates(g, Sources, Int, 0, G)
  <2>1. PICK X, x, n : X = Int /\ x = 0 /\ n = Sources
    OBVIOUS
  <2>2. n \in Nat /\ x \in X /\ G \in [(1..n) \X X -> X]
    BY <2>1, <1>2, OrderIs
  <2> HIDE DEF G
  <2>3. \E g : Iterates(g, n, X, x, G)
    BY <2>2, IterationExists
  <2> QED
    BY <2>1, <2>3
<1>4. g \in [0..Sources -> Int] /\ g[0] = 0 /\ \A i \in 1..Sources : g[i] = G[<<i, g[i - 1]>>]
  <2> HIDE DEF G
  <2> QED
    BY <1>3, Zenon DEF Iterates
<1>5. \A i \in 1..Sources : g[i] = g[i - 1] + f[Order[i]]
  <2> TAKE i \in 1..Sources
  <2>1. i - 1 \in 0..Sources
    BY OrderIs
  <2> QED
    BY <2>1, <1>4
<1>6. g = [i \in 0..Sources |-> IF i = 0 THEN 0 ELSE g[i - 1] + f[Order[i]]]
  <2>1. g = [i \in 0..Sources |-> g[i]]
    BY <1>4
  <2>2. \A i \in 0..Sources : g[i] = IF i = 0 THEN 0 ELSE g[i - 1] + f[Order[i]]
    BY <1>4, <1>5, OrderIs
  <2> QED
    BY <2>1, <2>2, Zenon
<1>7. sum = [i \in 0..Sources |-> IF i = 0 THEN 0 ELSE sum[i - 1] + f[Order[i]]]
  BY <1>6
<1>8. Total(f) = sum[Sources]
  BY Zenon DEF Total
<1> HIDE DEF sum
<1>9. sum[0] = 0 /\ \A i \in 1..Sources : sum[i] = sum[i - 1] + f[Order[i]]
  <2>1. \A i \in 0..Sources : sum[i] = IF i = 0 THEN 0 ELSE sum[i - 1] + f[Order[i]]
    BY <1>7, Zenon
  <2> QED
    BY <2>1, OrderIs
<1>10. \A i \in 0..Sources : sum[i] \in Int
  <2>1. \A i \in 1..Sources : sum[i - 1] \in Int => sum[i] \in Int
    BY <1>1, <1>9
  <2>2. PICK X, g2 : X = Int /\ g2 = sum
    OBVIOUS
  <2>3. \A i \in 0..Sources : g2[i] \in X
    <3>1. Sources \in Nat /\ g2[0] \in X /\ \A i \in 1..Sources : g2[i - 1] \in X => g2[i] \in X
      BY <2>1, <2>2, <1>9, OrderIs
    <3> QED
      BY <3>1, IterationKeeps
  <2> QED
    BY <2>2, <2>3
<1>11. sum \in [0..Sources -> Int]
  BY <1>7, <1>10
<1> QED
  BY <1>8, <1>9, <1>11 DEF Sums

\* A sum of integers is one, and when one term grows by d and none of the
\* others falls, it grows by d.
LEMMA TotalGrows ==
    ASSUME NEW f \in [Client -> Int], NEW g \in [Client -> Int], NEW s \in Client, NEW d \in Int,
           f[s] + d <= g[s], \A c \in Client \ {s} : f[c] <= g[c]
    PROVE  Total(f) \in Int /\ Total(g) \in Int /\ Total(f) + d <= Total(g)
<1>1. PICK F : Sums(F, f) /\ Total(f) = F[Sources]
  BY TotalIs
<1>2. PICK H : Sums(H, g) /\ Total(g) = H[Sources]
  BY TotalIs
<1>3. PICK k \in 1..Sources : Order[k] = s /\ \A i \in 1..Sources : Order[i] = s => i = k
  BY OrderIs
<1> DEFINE P(i) == F[i] + (IF i < k THEN 0 ELSE d) <= H[i]
           bad == {i \in 0..Sources : ~P(i)}
<1>4. bad = {}
  <2> SUFFICES ASSUME bad # {}
               PROVE  FALSE
    OBVIOUS
  <2>1. bad \subseteq Nat
    BY OrderIs
  <2>2. PICK i \in bad : \A j \in bad : i <= j
    <3> HIDE DEF bad
    <3> QED
      BY <2>1, LeastExists
  <2>3. i \in 1..Sources
    <3>1. P(0)
      BY <1>1, <1>2, <1>3 DEF Sums
    <3> QED
      BY <3>1, <2>2, OrderIs
  <2>4. i - 1 \in 0..Sources /\ P(i - 1)
    <3>1. i - 1 \in 0..Sources /\ ~(i <= i - 1)
      BY <2>3, OrderIs
    <3>2. i - 1 \notin bad
      <4> HIDE DEF bad
      <4> QED
        BY <2>2, <3>1
    <3> QED
      BY <3>1, <3>2
  <2>5. /\ F[i] = F[i - 1] + f[Order[i]] /\ H[i] = H[i - 1] + g[Order[i]]
        /\ F[i - 1] \in Int /\ H[i - 1] \in Int /\ Order[i] \in Client
    BY <2>3, <2>4, <1>1, <1>2, OrderIs DEF Sums
  <2>6. f[Order[i]] \in Int /\ g[Order[i]] \in Int
    BY <2>5
  <2>7. f[Order[i]] + (IF i = k THEN d ELSE 0) <= g[Order[i]]
    <3>1. CASE i = k
      BY <3>1, <1>3
    <3>2. CASE i # k
      <4>1. Order[i] \in Client \ {s}
        BY <3>2, <2>3, <2>5, <1>3
      <4> QED
        BY <4>1, <3>2, <2>6
    <3> QED
      BY <3>1, <3>2
  <2>8. P(i)
    BY <2>3, <2>4, <2>5, <2>6, <2>7, OrderIs
  <2> QED
    BY <2>2, <2>8
<1>5. P(Sources)
  BY <1>4, OrderIs
<1>6. F[Sources] \in Int /\ H[Sources] \in Int
  BY <1>1, <1>2, OrderIs DEF Sums
<1> QED
  BY <1>1, <1>2, <1>3, <1>5, <1>6, OrderIs

\* A sum is where its terms are, when sums of those are there too.
LEMMA TotalIn ==
    ASSUME NEW X, X \subseteq Int, 0 \in X, \A a, b \in X : a + b \in X,
           NEW f \in [Client -> Int], \A c \in Client : f[c] \in X
    PROVE  Total(f) \in X
<1>1. PICK F : Sums(F, f) /\ Total(f) = F[Sources]
  BY TotalIs
<1>2. \A i \in 1..Sources : F[i - 1] \in X => F[i] \in X
  <2> TAKE i \in 1..Sources
  <2> HAVE F[i - 1] \in X
  <2>1. F[i] = F[i - 1] + f[Order[i]]
    BY <1>1, Zenon DEF Sums
  <2>2. f[Order[i]] \in X
    BY OrderIs, Zenon
  <2> QED
    BY <2>1, <2>2, Zenon
<1>3. \A i \in 0..Sources : F[i] \in X
  <2>1. F[0] \in X
    BY <1>1, Zenon DEF Sums
  <2> QED
    BY <2>1, <1>2, OrderIs, IterationKeeps
<1> QED
  BY <1>1, <1>3, OrderIs

\* k terms of at most b, and nothing else, come to at most k times b.
LEMMA TotalBound ==
    ASSUME NEW b \in Nat, NEW D, D \subseteq Client,
           NEW f \in [Client -> Int], \A c \in Client : f[c] <= IF c \in D THEN b ELSE 0
    PROVE  Total(f) <= Cardinality(D) * b
<1> DEFINE P(k) == \A E \in SUBSET Client, g \in [Client -> Int] :
                      /\ Cardinality(E) = k
                      /\ \A c \in Client : g[c] <= IF c \in E THEN b ELSE 0
                      => Total(g) <= k * b
           bad == {k \in Nat : ~P(k)}
<1>1. \A E \in SUBSET Client : IsFiniteSet(E) /\ Cardinality(E) \in Nat
  BY BudgetConstants, FS_Subset, FS_CardinalityType
<1>2. bad = {}
  <2> SUFFICES ASSUME bad # {}
               PROVE  FALSE
    OBVIOUS
  <2>1. PICK k \in bad : \A j \in bad : k <= j
    <3>1. bad \subseteq Nat
      OBVIOUS
    <3> HIDE DEF bad
    <3> QED
      BY <3>1, LeastExists
  <2>2. k \in Nat /\ ~P(k)
    BY <2>1
  <2>3. PICK E \in SUBSET Client, g \in [Client -> Int] :
           /\ Cardinality(E) = k
           /\ \A c \in Client : g[c] <= IF c \in E THEN b ELSE 0
           /\ ~(Total(g) <= k * b)
    BY <2>2
  <2>4. CASE k = 0
    <3>1. E = {}
      BY <2>3, <2>4, <1>1, FS_EmptySet
    <3> DEFINE X == {m \in Int : m <= 0}
    <3>2. X \subseteq Int /\ 0 \in X /\ (\A a, c \in X : a + c \in X) /\ \A c \in Client : g[c] \in X
      BY <3>1, <2>3
    <3>3. Total(g) \in X
      <4> HIDE DEF X
      <4> QED
        BY <3>2, TotalIn
    <3> QED
      BY <3>3, <2>3, <2>4
  <2>5. CASE k # 0
    <3>1. E # {}
      BY <2>3, <2>5, FS_EmptySet
    <3>2. PICK s \in E : TRUE
      BY <3>1
    <3> DEFINE h == [c \in Client |-> IF c = s THEN 0 ELSE g[c]]
               A == E \ {s}
    <3>3. h \in [Client -> Int] /\ s \in Client /\ A \in SUBSET Client
      OBVIOUS
    <3>4. Cardinality(A) = k - 1 /\ k - 1 \in Nat
      BY <2>2, <2>3, <2>5, <3>2, <1>1, FS_RemoveElement
    <3>5. \A c \in Client : h[c] <= IF c \in A THEN b ELSE 0
      BY <2>3
    <3>6. P(k - 1)
      <4>1. ~(k <= k - 1)
        BY <2>2
      <4>2. k - 1 \notin bad
        <5> HIDE DEF bad
        <5> QED
          BY <4>1, <2>1
      <4> QED
        BY <4>2, <3>4
    <3>7. Total(h) <= (k - 1) * b
      <4> HIDE DEF h, A
      <4> QED
        BY <3>3, <3>4, <3>5, <3>6
    <3>8. Total(g) \in Int /\ Total(h) \in Int /\ Total(g) + (0 - b) <= Total(h)
      <4>1. g[s] + (0 - b) <= h[s] /\ \A c \in Client \ {s} : g[c] <= h[c]
        BY <2>3, <3>3, <3>2
      <4>2. 0 - b \in Int
        OBVIOUS
      <4> HIDE DEF h
      <4> QED
        BY <4>1, <4>2, <3>3, TotalGrows
    <3>9. (k - 1) * b = k * b - b /\ k * b \in Int
      BY <2>2
    <3> QED
      BY <3>7, <3>8, <3>9, <2>3
  <2> QED
    BY <2>4, <2>5
<1>3. P(Cardinality(D))
  BY <1>1, <1>2
<1> QED
  BY <1>3

-----------------------------------------------------------------------------
(* What a bucket, a row and a table have paid for.                         *)

Rules == {OwnRule, SharedRule, ReserveRule}
Bucket == [level : Nat, last : Nat]

\* What a bucket has paid for, in parts of a unit: what it had, and what came
\* in since, less what is left.
Paid(rule, b) == rule.burst * rule.per + b.last * rule.rate - b.level * rule.per

LEMMA DivIs ==
    ASSUME NEW a \in Nat, NEW p \in Nat \ {0}
    PROVE  a \div p \in Nat /\ (a \div p) * p <= a
OBVIOUS

\* A refill never lowers what a bucket has paid for.
LEMMA RefillIs ==
    ASSUME NEW rule \in Rules, NEW b \in Bucket, NEW now \in Nat, b.last <= now
    PROVE  /\ Refill(b, rule, now) \in Bucket /\ Refill(b, rule, now).last <= now
           /\ Paid(rule, b) \in Int /\ Paid(rule, Refill(b, rule, now)) \in Int
           /\ Paid(rule, b) <= Paid(rule, Refill(b, rule, now))
<1> DEFINE a == (now - b.last) * rule.rate
           more == a \div rule.per
           level == Min({b.level + more, rule.burst})
<1>1. rule.rate \in Nat /\ rule.per \in Nat \ {0} /\ rule.burst \in Nat
  BY BudgetConstants DEF Rules
<1>2. b.level \in Nat /\ b.last \in Nat
  BY DEF Bucket
<1>3. a \in Nat
  BY <1>1, <1>2
<1>4. more \in Nat /\ more * rule.per <= a
  <2> HIDE DEF a
  <2> QED
    BY <1>1, <1>3, DivIs
<1> HIDE DEF more
<1>5. level \in Nat /\ level <= b.level + more
  <2>1. \E i \in {b.level + more, rule.burst} : \A j \in {b.level + more, rule.burst} : i <= j
    BY <1>1, <1>2, <1>4
  <2> QED
    BY <2>1, <1>1, <1>2, <1>4 DEF Min
<1>6. Refill(b, rule, now) = IF more > 0 THEN [level |-> level, last |-> now] ELSE b
  BY Zenon DEF Refill, more
<1> HIDE DEF level
<1>7. Paid(rule, b) \in Int
  BY <1>1, <1>2 DEF Paid
<1>8. CASE more > 0
  <2>1. Refill(b, rule, now) = [level |-> level, last |-> now]
    BY <1>6, <1>8
  <2>2. Paid(rule, Refill(b, rule, now)) = rule.burst * rule.per + now * rule.rate - level * rule.per
    BY <2>1 DEF Paid
  <2>3. level * rule.per <= b.level * rule.per + more * rule.per
    BY <1>1, <1>2, <1>4, <1>5
  <2>4. now * rule.rate = b.last * rule.rate + a
    BY <1>1, <1>2
  <2>5. /\ level * rule.per \in Int /\ b.level * rule.per \in Int /\ more * rule.per \in Int
        /\ now * rule.rate \in Int /\ b.last * rule.rate \in Int /\ rule.burst * rule.per \in Int
    BY <1>1, <1>2, <1>4, <1>5
  <2> HIDE DEF a
  <2>6. Paid(rule, b) <= Paid(rule, Refill(b, rule, now)) /\ Paid(rule, Refill(b, rule, now)) \in Int
    BY <2>2, <2>3, <2>4, <2>5, <1>3, <1>4 DEF Paid
  <2> QED
    BY <2>1, <2>6, <1>5, <1>7 DEF Bucket
<1>9. CASE ~(more > 0)
  <2>1. Refill(b, rule, now) = b
    BY <1>6, <1>9
  <2> QED
    BY <2>1, <1>7
<1> QED
  BY <1>8, <1>9

Row == [own : Bucket, reserve : Bucket, fails : Nat, parked : Int, asked : Nat]

\* A table of rows, none of them refilled later than now.
RowsOK(rows, now) ==
    /\ DOMAIN rows \subseteq Client /\ rows \in [DOMAIN rows -> Row] /\ Cardinality(DOMAIN rows) <= RowCap
    /\ \A c \in DOMAIN rows : rows[c].own.last <= now /\ rows[c].reserve.last <= now

\* What the reserve of each source has paid for; a source without a row owes nothing.
Owes(rows) == [c \in Client |-> IF c \in DOMAIN rows THEN Paid(ReserveRule, rows[c].reserve) ELSE 0]

LEMMA RuleTypes ==
    /\ \A r \in Rules : r.rate \in Nat \ {0} /\ r.per \in Nat \ {0} /\ r.burst \in Nat
    /\ OwnRule \in Rules /\ SharedRule \in Rules /\ ReserveRule \in Rules
    /\ RowCap \in Nat /\ CallCost \in Nat
BY BudgetConstants DEF Rules

LEMMA PaidType ==
    ASSUME NEW b \in Bucket, NEW rule \in Rules
    PROVE  Paid(rule, b) \in Int
BY RuleTypes DEF Paid, Bucket

LEMMA OwesType ==
    ASSUME NEW rows, NEW now, RowsOK(rows, now)
    PROVE  Owes(rows) \in [Client -> Int]
<1>1. \A c \in DOMAIN rows : rows[c].reserve \in Bucket
  BY DEF RowsOK, Row
<1>2. \A c \in DOMAIN rows : Paid(ReserveRule, rows[c].reserve) \in Int
  BY <1>1, PaidType, RuleTypes
<1> QED
  BY <1>2 DEF Owes

\* A refilled row is a row, and owes no less.
LEMMA RefillRowIs ==
    ASSUME NEW row \in Row, NEW now \in Nat, row.own.last <= now, row.reserve.last <= now
    PROVE  LET r == RefillRow(row, now) IN
           /\ r \in Row /\ r.own.last <= now /\ r.reserve.last <= now
           /\ Paid(ReserveRule, row.reserve) <= Paid(ReserveRule, r.reserve)
<1>1. PICK o : o = Refill(row.own, OwnRule, now)
  OBVIOUS
<1>2. PICK v : v = Refill(row.reserve, ReserveRule, now)
  OBVIOUS
<1>3. row.own \in Bucket /\ row.reserve \in Bucket
  BY DEF Row
<1>4. o \in Bucket /\ o.last <= now
  BY <1>1, <1>3, RefillIs, RuleTypes
<1>5. v \in Bucket /\ v.last <= now /\ Paid(ReserveRule, row.reserve) <= Paid(ReserveRule, v)
  BY <1>2, <1>3, RefillIs, RuleTypes
<1>6. RefillRow(row, now) = [row EXCEPT !.own = o, !.reserve = v]
  BY <1>1, <1>2 DEF RefillRow
<1>7. [row EXCEPT !.own = o, !.reserve = v] \in Row
  BY <1>4, <1>5 DEF Row
<1>8. [row EXCEPT !.own = o, !.reserve = v].own = o /\ [row EXCEPT !.own = o, !.reserve = v].reserve = v
  BY DEF Row
<1> QED
  BY <1>4, <1>5, <1>6, <1>7, <1>8

\* A fresh row owes what came in before it.
LEMMA NewRowIs ==
    ASSUME NEW now \in Nat
    PROVE  /\ NewRow(now) \in Row /\ NewRow(now).own.last <= now /\ NewRow(now).reserve.last <= now
           /\ Paid(ReserveRule, NewRow(now).reserve) = now * ReserveRule.rate
<1>1. FullBucket(OwnRule, now) \in Bucket /\ FullBucket(ReserveRule, now) \in Bucket
  BY RuleTypes DEF FullBucket, Bucket
<1>2. NewRow(now) \in Row
  BY <1>1 DEF NewRow, Row
<1>3. NewRow(now).own.last = now /\ NewRow(now).reserve = [level |-> ReserveRule.burst, last |-> now]
  BY DEF NewRow, FullBucket
<1>4. ReserveRule.burst * ReserveRule.per \in Int /\ now * ReserveRule.rate \in Int
  BY RuleTypes
<1>5. Paid(ReserveRule, NewRow(now).reserve) = now * ReserveRule.rate
  BY <1>3, <1>4 DEF Paid
<1> QED
  BY <1>2, <1>3, <1>5

\* All rows refilled.
LEMMA FreshIs ==
    ASSUME NEW rows, NEW now \in Nat, RowsOK(rows, now), Client # {},
           NEW fresh, fresh = [r \in DOMAIN rows |-> RefillRow(rows[r], now)]
    PROVE  RowsOK(fresh, now) /\ Total(Owes(rows)) <= Total(Owes(fresh))
<1>1. \A c \in DOMAIN rows : /\ fresh[c] \in Row /\ fresh[c].own.last <= now /\ fresh[c].reserve.last <= now
                             /\ Paid(ReserveRule, rows[c].reserve) <= Paid(ReserveRule, fresh[c].reserve)
  <2> TAKE c \in DOMAIN rows
  <2>1. PICK row : row = rows[c]
    OBVIOUS
  <2>2. row \in Row /\ row.own.last <= now /\ row.reserve.last <= now
    BY <2>1 DEF RowsOK
  <2>3. fresh[c] = RefillRow(row, now)
    BY <2>1
  <2> QED
    BY <2>1, <2>2, <2>3, RefillRowIs
<1>2. RowsOK(fresh, now)
  BY <1>1 DEF RowsOK
<1>3. PICK f, g : f = Owes(rows) /\ g = Owes(fresh)
  OBVIOUS
<1>4. f \in [Client -> Int] /\ g \in [Client -> Int]
  BY <1>2, <1>3, OwesType
<1>5. \A c \in Client : f[c] <= g[c]
  BY <1>1, <1>3 DEF Owes
<1>6. PICK s \in Client : TRUE
  OBVIOUS
<1>7. f[s] + 0 <= g[s] /\ \A c \in Client \ {s} : f[c] <= g[c]
  BY <1>4, <1>5
<1>8. Total(f) \in Int /\ Total(f) + 0 <= Total(g)
  BY <1>4, <1>7, TotalGrows
<1>9. Total(g) \in Int
  BY <1>4, <1>7, TotalGrows
<1> QED
  BY <1>2, <1>3, <1>8, <1>9

\* A row put in the place of none, or of one that owes no more.
LEMMA WithRowIs ==
    ASSUME NEW rows, NEW now \in Nat, RowsOK(rows, now), NEW s \in Client, NEW row \in Row,
           row.own.last <= now, row.reserve.last <= now,
           s \in DOMAIN rows \/ Cardinality(DOMAIN rows) < RowCap,
           NEW d \in Int, Owes(rows)[s] + d <= Paid(ReserveRule, row.reserve)
    PROVE  /\ RowsOK(WithRow(rows, s, row), now) /\ s \in DOMAIN WithRow(rows, s, row)
           /\ Total(Owes(rows)) + d <= Total(Owes(WithRow(rows, s, row)))
<1>1. PICK w : w = WithRow(rows, s, row)
  OBVIOUS
<1>2. /\ DOMAIN w = DOMAIN rows \cup {s} /\ w = [c \in DOMAIN w |-> w[c]] /\ w[s] = row
      /\ \A c \in DOMAIN rows : c # s => w[c] = rows[c]
  BY <1>1 DEF WithRow
<1>3. Cardinality(DOMAIN w) <= RowCap
  <2>1. CASE s \in DOMAIN rows
    <3>1. DOMAIN w = DOMAIN rows
      BY <1>2, <2>1
    <3> QED
      BY <3>1 DEF RowsOK
  <2>2. CASE s \notin DOMAIN rows
    <3>1. IsFiniteSet(DOMAIN rows)
      BY BudgetConstants, FS_Subset DEF RowsOK
    <3>2. Cardinality(DOMAIN rows \cup {s}) = Cardinality(DOMAIN rows) + 1 /\ Cardinality(DOMAIN rows) \in Nat
      BY <2>2, <3>1, FS_AddElement, FS_CardinalityType
    <3> QED
      BY <2>2, <3>2, <1>2, RuleTypes
  <2> QED
    BY <2>1, <2>2
<1>4. \A c \in DOMAIN w : w[c] \in Row /\ w[c].own.last <= now /\ w[c].reserve.last <= now
  BY <1>2 DEF RowsOK
<1>5. RowsOK(w, now)
  BY <1>2, <1>3, <1>4 DEF RowsOK
<1>6. PICK f, g : f = Owes(rows) /\ g = Owes(w)
  OBVIOUS
<1>7. f \in [Client -> Int] /\ g \in [Client -> Int]
  BY <1>5, <1>6, OwesType
<1>8. g[s] = Paid(ReserveRule, row.reserve)
  BY <1>2, <1>6 DEF Owes
<1>9. \A c \in Client \ {s} : f[c] = g[c]
  BY <1>2, <1>6 DEF Owes
<1>10. f[s] + d <= g[s] /\ \A c \in Client \ {s} : f[c] <= g[c]
  BY <1>6, <1>7, <1>8, <1>9
<1>11. Total(f) + d <= Total(g)
  BY <1>7, <1>10, TotalGrows
<1> QED
  BY <1>1, <1>2, <1>5, <1>6, <1>11

-----------------------------------------------------------------------------
(* The calls: touch finds or makes the row, and the batch is paid for.     *)

\* What makes room is full.
LEMMA VictimIs ==
    ASSUME NEW rows, DOMAIN rows \subseteq Client, NEW v \in Victims(rows)
    PROVE  v \in DOMAIN rows /\ budgets_full(rows[v])
<1> DEFINE full == {s \in DOMAIN rows : budgets_full(rows[s])}
           idle == {s \in full : rows[s].parked = 0}
<1>1. v \in full
  <2>1. CASE idle # {} /\ v = Min(idle)
    <3>1. idle \subseteq Nat
      BY BudgetConstants
    <3>2. \E i \in idle : \A j \in idle : i <= j
      <4> HIDE DEF idle
      <4> QED
        BY <3>1, <2>1, LeastExists
    <3>3. Min(idle) \in idle
      <4> HIDE DEF idle
      <4> QED
        BY <3>2 DEF Min
    <3> QED
      BY <3>3, <2>1
  <2>2. CASE v \in full
    BY <2>2
  <2>3. (idle # {} /\ v = Min(idle)) \/ v \in full
    BY DEF Victims
  <2> QED
    BY <2>1, <2>2, <2>3
<1> QED
  BY <1>1

\* The row of the source is there, and no row that owed is gone without
\* what it owed: one that makes room had its reserve full.
LEMMA TouchKeeps ==
    ASSUME mono \in Nat, RowsOK(budget.rows, mono), NEW s \in Client, NEW t \in touch(s)
    PROVE  RowsOK(t, mono) /\ s \in DOMAIN t /\ Total(Owes(budget.rows)) <= Total(Owes(t))
<1>1. PICK rows : rows = budget.rows
  OBVIOUS
<1>2. PICK now : now = mono
  OBVIOUS
<1>3. now \in Nat /\ RowsOK(rows, now)
  BY <1>1, <1>2
<1>4. PICK fresh : fresh = [r \in DOMAIN rows |-> RefillRow(rows[r], now)]
  OBVIOUS
<1>5. PICK new : new = NewRow(now)
  OBVIOUS
<1>6. /\ new \in Row /\ new.own.last <= now /\ new.reserve.last <= now
      /\ Paid(ReserveRule, new.reserve) = now * ReserveRule.rate
  BY <1>3, <1>5, NewRowIs
<1>7. now * ReserveRule.rate \in Nat
  BY <1>3, RuleTypes
<1>8. PICK f : f = Owes(rows)
  OBVIOUS
<1>9. f \in [Client -> Int] /\ Total(f) \in Int
  <2>1. f \in [Client -> Int]
    BY <1>3, <1>8, OwesType
  <2>2. f[s] + 0 <= f[s] /\ \A c \in Client \ {s} : f[c] <= f[c]
    BY <2>1
  <2>3. Total(f) \in Int
    BY <2>1, <2>2, TotalGrows
  <2> QED
    BY <2>1, <2>3
<1>10. CASE s \in DOMAIN rows
  <2>1. PICK row : row = rows[s]
    OBVIOUS
  <2>2. PICK r : r = RefillRow(row, now)
    OBVIOUS
  <2>3. t = WithRow(rows, s, r)
    BY <1>1, <1>2, <1>10, <2>1, <2>2 DEF touch
  <2>4. row \in Row /\ row.own.last <= now /\ row.reserve.last <= now
    BY <1>3, <1>10, <2>1 DEF RowsOK
  <2>5. r \in Row /\ r.own.last <= now /\ r.reserve.last <= now /\ Paid(ReserveRule, row.reserve) <= Paid(ReserveRule, r.reserve)
    BY <1>3, <2>2, <2>4, RefillRowIs
  <2>6. Owes(rows)[s] + 0 <= Paid(ReserveRule, r.reserve)
    <3>1. Owes(rows)[s] = Paid(ReserveRule, row.reserve) /\ Owes(rows)[s] \in Int
      BY <1>8, <1>9, <1>10, <2>1 DEF Owes
    <3> QED
      BY <3>1, <2>5
  <2>7. /\ RowsOK(WithRow(rows, s, r), now) /\ s \in DOMAIN WithRow(rows, s, r)
        /\ Total(Owes(rows)) + 0 <= Total(Owes(WithRow(rows, s, r)))
    BY <1>3, <1>10, <2>5, <2>6, WithRowIs
  <2>8. Total(Owes(rows)) <= Total(Owes(WithRow(rows, s, r)))
    BY <1>8, <1>9, <2>7
  <2> QED
    BY <1>1, <1>2, <2>3, <2>7, <2>8
<1>11. CASE s \notin DOMAIN rows /\ Cardinality(DOMAIN rows) < RowCap
  <2>1. t = WithRow(rows, s, new)
    BY <1>1, <1>2, <1>5, <1>11 DEF touch
  <2>2. Owes(rows)[s] + 0 <= Paid(ReserveRule, new.reserve)
    <3>1. Owes(rows)[s] = 0
      BY <1>11 DEF Owes
    <3> QED
      BY <3>1, <1>6, <1>7
  <2>3. /\ RowsOK(WithRow(rows, s, new), now) /\ s \in DOMAIN WithRow(rows, s, new)
        /\ Total(Owes(rows)) + 0 <= Total(Owes(WithRow(rows, s, new)))
    BY <1>3, <1>6, <1>11, <2>2, WithRowIs
  <2>4. Total(Owes(rows)) <= Total(Owes(WithRow(rows, s, new)))
    BY <1>8, <1>9, <2>3
  <2> QED
    BY <1>1, <1>2, <2>1, <2>3, <2>4
<1>12. CASE s \notin DOMAIN rows /\ ~(Cardinality(DOMAIN rows) < RowCap)
  <2>1. \E v \in Victims(fresh) : t = WithRow(Restrict(fresh, DOMAIN fresh \ {v}), s, new)
    BY <1>1, <1>2, <1>4, <1>5, <1>12 DEF touch
  <2>2. PICK v \in Victims(fresh) : t = WithRow(Restrict(fresh, DOMAIN fresh \ {v}), s, new)
    BY <2>1
  <2>3. PICK cut : cut = Restrict(fresh, DOMAIN fresh \ {v})
    OBVIOUS
  <2>4. RowsOK(fresh, now) /\ Total(Owes(rows)) <= Total(Owes(fresh)) /\ DOMAIN fresh = DOMAIN rows
    BY <1>3, <1>4, FreshIs
  <2>5. v \in DOMAIN fresh /\ budgets_full(fresh[v]) /\ v \in Client /\ v # s
    BY <2>2, <2>4, <1>12, VictimIs DEF RowsOK
  <2>6. /\ DOMAIN cut = DOMAIN fresh \ {v} /\ cut = [c \in DOMAIN cut |-> cut[c]]
        /\ \A c \in DOMAIN cut : cut[c] = fresh[c]
    BY <2>3 DEF Restrict
  <2>7. Cardinality(DOMAIN cut) < RowCap
    <3>1. IsFiniteSet(DOMAIN fresh) /\ Cardinality(DOMAIN fresh) \in Nat
      BY <2>4, BudgetConstants, FS_Subset, FS_CardinalityType DEF RowsOK
    <3>2. Cardinality(DOMAIN cut) = Cardinality(DOMAIN fresh) - 1
      BY <3>1, <2>5, <2>6, FS_RemoveElement
    <3> QED
      BY <3>1, <3>2, <2>4, RuleTypes DEF RowsOK
  <2>8. RowsOK(cut, now)
    <3>1. DOMAIN cut \subseteq Client /\ \A c \in DOMAIN cut : cut[c] \in Row /\ cut[c].own.last <= now /\ cut[c].reserve.last <= now
      BY <2>4, <2>6 DEF RowsOK
    <3>2. Cardinality(DOMAIN cut) <= RowCap
      <4>1. Cardinality(DOMAIN cut) \in Nat
        BY <3>1, BudgetConstants, FS_Subset, FS_CardinalityType
      <4> QED
        BY <4>1, <2>7, RuleTypes
    <3> QED
      BY <3>1, <3>2, <2>6 DEF RowsOK
  <2>9. PICK g, h : g = Owes(fresh) /\ h = Owes(cut)
    OBVIOUS
  <2>10. g \in [Client -> Int] /\ h \in [Client -> Int]
    BY <2>4, <2>8, <2>9, OwesType
  <2>11. g[v] \in Int /\ g[v] <= now * ReserveRule.rate
    <3>1. PICK b : b = fresh[v].reserve
      OBVIOUS
    <3>2. b \in Bucket /\ b.last <= now /\ b.level >= ReserveRule.burst
      BY <3>1, <2>4, <2>5 DEF RowsOK, Row, budgets_full
    <3>3. g[v] = Paid(ReserveRule, b)
      BY <3>1, <2>5, <2>9 DEF Owes
    <3>4. /\ ReserveRule.rate \in Nat /\ ReserveRule.per \in Nat /\ ReserveRule.burst \in Nat
          /\ b.level \in Nat /\ b.last \in Nat
      BY <3>2, RuleTypes DEF Bucket
    <3>5. b.last * ReserveRule.rate <= now * ReserveRule.rate
      BY <3>2, <3>4, <1>3
    <3>6. ReserveRule.burst * ReserveRule.per <= b.level * ReserveRule.per
      BY <3>2, <3>4
    <3>7. /\ b.last * ReserveRule.rate \in Int /\ ReserveRule.burst * ReserveRule.per \in Int
          /\ b.level * ReserveRule.per \in Int
      BY <3>4
    <3> QED
      BY <3>3, <3>5, <3>6, <3>7, <1>7 DEF Paid
  <2>12. Total(g) \in Int /\ Total(h) \in Int /\ Total(g) + (0 - g[v]) <= Total(h)
    <3>1. 0 - g[v] \in Int
      BY <2>11
    <3>2. h[v] = 0
      BY <2>5, <2>6, <2>9 DEF Owes
    <3>3. \A c \in Client \ {v} : g[c] = h[c]
      BY <2>6, <2>9 DEF Owes
    <3>4. g[v] + (0 - g[v]) <= h[v] /\ \A c \in Client \ {v} : g[c] <= h[c]
      BY <3>2, <3>3, <2>10, <2>11
    <3> QED
      BY <3>1, <3>4, <2>5, <2>10, TotalGrows
  <2>13. Owes(cut)[s] + now * ReserveRule.rate <= Paid(ReserveRule, new.reserve)
    <3>1. Owes(cut)[s] = 0
      BY <1>12, <2>4, <2>6 DEF Owes
    <3> QED
      BY <3>1, <1>6, <1>7
  <2>14. PICK d : d = now * ReserveRule.rate
    OBVIOUS
  <2>15. /\ RowsOK(WithRow(cut, s, new), now) /\ s \in DOMAIN WithRow(cut, s, new)
         /\ Total(Owes(cut)) + d <= Total(Owes(WithRow(cut, s, new)))
    <3>1. d \in Int /\ Owes(cut)[s] + d <= Paid(ReserveRule, new.reserve)
      BY <1>7, <2>13, <2>14
    <3> QED
      BY <3>1, <1>3, <1>6, <2>7, <2>8, WithRowIs
  <2>16. PICK w : w = Owes(WithRow(cut, s, new))
    OBVIOUS
  <2>17. Total(w) \in Int
    <3>1. w \in [Client -> Int]
      BY <2>15, <2>16, OwesType
    <3>2. w[s] + 0 <= w[s] /\ \A c \in Client \ {s} : w[c] <= w[c]
      BY <3>1
    <3> QED
      BY <3>1, <3>2, TotalGrows
  <2>18. Total(f) <= Total(w)
    <3>1. Total(f) <= Total(g) /\ Total(h) + d <= Total(w)
      BY <1>8, <2>4, <2>9, <2>15, <2>16
    <3>2. d \in Int /\ g[v] <= d
      BY <1>7, <2>11, <2>14
    <3> QED
      BY <3>1, <3>2, <1>9, <2>11, <2>12, <2>17
  <2> QED
    BY <1>1, <1>2, <1>8, <2>2, <2>3, <2>15, <2>16, <2>18
<1> QED
  BY <1>10, <1>11, <1>12

\* Both sides of the budget, in the parts of a unit both rules have.
Scale == SharedRule.per * ReserveRule.per
Pot(t) == Paid(SharedRule, t.shared) * ReserveRule.per + Total(Owes(t.rows)) * SharedRule.per

RowTables == UNION {[D -> Row] : D \in SUBSET Client}

\* The tables with a row of s, none of their buckets later than now.
Tables(s, now) ==
    {t \in [shared : Bucket, rows : RowTables] :
       t.shared.last <= now /\ RowsOK(t.rows, now) /\ s \in DOMAIN t.rows}

\* A bucket pays for a call.
Less(b) == [b EXCEPT !.level = @ - CallCost]

LEMMA LessIs ==
    ASSUME NEW rule \in Rules, NEW b \in Bucket, b.level >= CallCost
    PROVE  /\ Less(b) \in Bucket /\ Less(b).last = b.last
           /\ Paid(rule, Less(b)) = Paid(rule, b) + CallCost * rule.per
           /\ Paid(rule, b) \in Int /\ CallCost * rule.per \in Int
<1>1. b.level \in Nat /\ b.last \in Nat /\ CallCost \in Nat /\ rule.per \in Nat /\ rule.rate \in Nat /\ rule.burst \in Nat
  BY RuleTypes DEF Bucket
<1>2. Less(b) \in Bucket /\ Less(b).last = b.last /\ Less(b).level = b.level - CallCost
  BY <1>1 DEF Less, Bucket
<1>3. (b.level - CallCost) * rule.per = b.level * rule.per - CallCost * rule.per
  BY <1>1
<1>4. /\ b.level * rule.per \in Int /\ CallCost * rule.per \in Int
      /\ b.last * rule.rate \in Int /\ rule.burst * rule.per \in Int
  BY <1>1
<1>5. Paid(rule, Less(b)) = rule.burst * rule.per + b.last * rule.rate - (b.level * rule.per - CallCost * rule.per)
  BY <1>2, <1>3 DEF Paid
<1> QED
  BY <1>2, <1>4, <1>5 DEF Paid

LEMMA TableIs ==
    ASSUME NEW s \in Client, NEW now \in Nat, NEW t \in Tables(s, now)
    PROVE  Pot(t) \in Int /\ Paid(SharedRule, t.shared) \in Int /\ Total(Owes(t.rows)) \in Int
<1>1. PICK rows, f : rows = t.rows /\ f = Owes(rows)
  OBVIOUS
<1>2. t.shared \in Bucket /\ RowsOK(rows, now)
  BY <1>1 DEF Tables
<1>3. f \in [Client -> Int]
  BY <1>1, <1>2, OwesType
<1>4. f[s] + 0 <= f[s] /\ \A c \in Client \ {s} : f[c] <= f[c]
  BY <1>3
<1>5. Total(f) \in Int
  BY <1>3, <1>4, TotalGrows
<1>6. Paid(SharedRule, t.shared) \in Int
  BY <1>2, PaidType, RuleTypes
<1>7. SharedRule.per \in Nat /\ ReserveRule.per \in Nat
  BY RuleTypes
<1>8. PICK p, q, x, y : p = Paid(SharedRule, t.shared) /\ q = Total(Owes(t.rows)) /\ x = SharedRule.per /\ y = ReserveRule.per
  OBVIOUS
<1>9. p * y + q * x \in Int
  BY <1>1, <1>5, <1>6, <1>7, <1>8
<1> QED
  BY <1>1, <1>5, <1>6, <1>8, <1>9 DEF Pot

\* One call more, and what was paid covers it.
LEMMA SpendIs ==
    ASSUME NEW s \in Client, NEW now \in Nat, NEW t \in Tables(s, now), Affords(t, s)
    PROVE  Spend(t, s) \in Tables(s, now) /\ Pot(t) + CallCost * Scale <= Pot(Spend(t, s))
<1>1. PICK shared, rows, row : shared = t.shared /\ rows = t.rows /\ row = rows[s]
  OBVIOUS
<1>2. /\ shared \in Bucket /\ shared.last <= now /\ RowsOK(rows, now) /\ s \in DOMAIN rows
      /\ t = [shared |-> shared, rows |-> rows]
  BY <1>1 DEF Tables
<1>3. /\ row \in Row /\ row.own \in Bucket /\ row.reserve \in Bucket
      /\ row.own.last <= now /\ row.reserve.last <= now
  BY <1>1, <1>2 DEF RowsOK, Row
<1>4. row.own.level >= CallCost /\ (shared.level >= CallCost \/ row.reserve.level >= CallCost)
  BY <1>1 DEF Affords
<1>5. CallCost \in Nat /\ SharedRule.per \in Nat /\ ReserveRule.per \in Nat
  BY RuleTypes
<1>6. Less(row.own) \in Bucket /\ Less(row.own).last <= now
  BY <1>3, <1>4, LessIs, RuleTypes
<1> DEFINE After(sh, r) == [shared |-> sh, rows |-> WithRow(rows, s, r)]
<1>7. ASSUME NEW sh \in Bucket, sh.last <= now, NEW r \in Row, r.own.last <= now, r.reserve.last <= now,
             NEW d \in Int, Paid(ReserveRule, row.reserve) + d <= Paid(ReserveRule, r.reserve)
      PROVE  After(sh, r) \in Tables(s, now) /\ Total(Owes(rows)) + d <= Total(Owes(WithRow(rows, s, r)))
  <2>1. Owes(rows)[s] = Paid(ReserveRule, row.reserve)
    BY <1>1, <1>2 DEF Owes
  <2>2. Owes(rows)[s] + d <= Paid(ReserveRule, r.reserve)
    BY <1>7, <2>1
  <2>3. /\ RowsOK(WithRow(rows, s, r), now) /\ s \in DOMAIN WithRow(rows, s, r)
        /\ Total(Owes(rows)) + d <= Total(Owes(WithRow(rows, s, r)))
    BY <1>2, <1>7, <2>2, WithRowIs
  <2>4. PICK w : w = WithRow(rows, s, r)
    OBVIOUS
  <2>5. w \in [DOMAIN w -> Row] /\ DOMAIN w \in SUBSET Client
    BY <2>3, <2>4 DEF RowsOK
  <2>6. [shared |-> sh, rows |-> w] \in Tables(s, now)
    BY <1>7, <2>3, <2>4, <2>5 DEF Tables, RowTables
  <2> QED
    BY <2>3, <2>4, <2>6
<1>8. ASSUME NEW r, NEW ro, ro = [rows EXCEPT ![s] = r]
      PROVE  ro = WithRow(rows, s, r)
  <2>1. ro = [c \in DOMAIN rows |-> IF c = s THEN r ELSE rows[c]]
    BY <1>2, <1>8 DEF RowsOK
  <2>2. DOMAIN rows \cup {s} = DOMAIN rows
    BY <1>2
  <2> QED
    BY <2>1, <2>2 DEF WithRow
<1>9. CASE shared.level >= CallCost
  <2>1. PICK sh : sh = Less(shared)
    OBVIOUS
  <2>2. PICK r : r = [row EXCEPT !.own = Less(@)]
    OBVIOUS
  <2>3. r \in Row /\ r.own = Less(row.own) /\ r.reserve = row.reserve
    BY <1>3, <1>6, <2>2 DEF Row
  <2>4. /\ sh \in Bucket /\ sh.last <= now /\ Paid(SharedRule, shared) \in Int /\ CallCost * SharedRule.per \in Int
        /\ Paid(SharedRule, sh) = Paid(SharedRule, shared) + CallCost * SharedRule.per
    BY <1>2, <1>9, <2>1, LessIs, RuleTypes
  <2>5. PICK u : u = [t EXCEPT !.shared.level = @ - CallCost, !.rows[s].own.level = @ - CallCost]
    OBVIOUS
  <2>6. u = Spend(t, s)
    BY <1>1, <1>9, <2>5 DEF Spend
  <2>7. u = After(sh, r)
    <3>1. u = [shared |-> Less(shared), rows |-> [rows EXCEPT ![s] = r]]
      BY <1>1, <1>2, <2>2, <2>5 DEF Less
    <3> QED
      BY <3>1, <1>8, <2>1
  <2>8. Paid(ReserveRule, row.reserve) + 0 <= Paid(ReserveRule, r.reserve) /\ Paid(ReserveRule, row.reserve) \in Int
    BY <1>3, <2>3, PaidType, RuleTypes
  <2>9. After(sh, r) \in Tables(s, now) /\ Total(Owes(rows)) + 0 <= Total(Owes(WithRow(rows, s, r)))
    BY <1>3, <1>6, <1>7, <2>3, <2>4, <2>8
  <2>10. PICK p, q, v, x, y, c : /\ p = Paid(SharedRule, shared) /\ q = Total(Owes(rows))
                                 /\ v = Total(Owes(WithRow(rows, s, r)))
                                 /\ x = SharedRule.per /\ y = ReserveRule.per /\ c = CallCost
    OBVIOUS
  <2>11. p \in Int /\ q \in Int /\ v \in Int /\ x \in Nat /\ y \in Nat /\ c \in Nat
    BY <1>1, <1>5, <2>4, <2>9, <2>10, TableIs
  <2>12. p * y + q * x + c * (x * y) <= (p + c * x) * y + v * x
    <3>1. q <= v
      BY <2>9, <2>10, <2>11
    <3>2. q * x <= v * x
      BY <3>1, <2>11
    <3>3. (p + c * x) * y = p * y + c * (x * y)
      BY <2>11
    <3>4. p * y \in Int /\ q * x \in Int /\ v * x \in Int /\ c * (x * y) \in Int
      BY <2>11
    <3> QED
      BY <3>2, <3>3, <3>4
  <2>13. Pot(t) = p * y + q * x /\ Pot(After(sh, r)) = (p + c * x) * y + v * x
    BY <1>1, <2>4, <2>10 DEF Pot
  <2> HIDE DEF After
  <2> QED
    BY <2>6, <2>7, <2>9, <2>10, <2>12, <2>13 DEF Scale
<1>10. CASE ~(shared.level >= CallCost)
  <2>1. row.reserve.level >= CallCost
    BY <1>4, <1>10
  <2>2. PICK r : r = [row EXCEPT !.reserve = Less(@), !.own = Less(@)]
    OBVIOUS
  <2>3. /\ Less(row.reserve) \in Bucket /\ Less(row.reserve).last <= now /\ Paid(ReserveRule, row.reserve) \in Int
        /\ CallCost * ReserveRule.per \in Int
        /\ Paid(ReserveRule, Less(row.reserve)) = Paid(ReserveRule, row.reserve) + CallCost * ReserveRule.per
    BY <1>3, <2>1, LessIs, RuleTypes
  <2>4. r \in Row /\ r.own = Less(row.own) /\ r.reserve = Less(row.reserve)
    BY <1>3, <1>6, <2>2, <2>3 DEF Row
  <2>5. PICK u : u = [t EXCEPT !.rows[s].reserve.level = @ - CallCost, !.rows[s].own.level = @ - CallCost]
    OBVIOUS
  <2>6. u = Spend(t, s)
    BY <1>1, <1>10, <2>5 DEF Spend
  <2>7. u = After(shared, r)
    <3>1. u = [shared |-> shared, rows |-> [rows EXCEPT ![s] = r]]
      BY <1>1, <1>2, <1>3, <2>2, <2>5 DEF Less, Row
    <3> QED
      BY <3>1, <1>8
  <2>8. PICK d : d = CallCost * ReserveRule.per
    OBVIOUS
  <2>9. After(shared, r) \in Tables(s, now) /\ Total(Owes(rows)) + d <= Total(Owes(WithRow(rows, s, r)))
    <3>1. d \in Int /\ Paid(ReserveRule, row.reserve) + d <= Paid(ReserveRule, r.reserve)
      BY <2>3, <2>4, <2>8
    <3> QED
      BY <3>1, <1>2, <1>6, <1>7, <2>3, <2>4
  <2>10. PICK p, q, v, x, y, c : /\ p = Paid(SharedRule, shared) /\ q = Total(Owes(rows))
                                 /\ v = Total(Owes(WithRow(rows, s, r)))
                                 /\ x = SharedRule.per /\ y = ReserveRule.per /\ c = CallCost
    OBVIOUS
  <2>11. p \in Int /\ q \in Int /\ v \in Int /\ x \in Nat /\ y \in Nat /\ c \in Nat
    BY <1>1, <1>5, <2>9, <2>10, TableIs
  <2>12. p * y + q * x + c * (x * y) <= p * y + v * x
    <3>1. q + c * y <= v
      BY <2>8, <2>9, <2>10, <2>11
    <3>2. (q + c * y) * x <= v * x
      BY <3>1, <2>11
    <3>3. (q + c * y) * x = q * x + c * (x * y)
      BY <2>11
    <3>4. p * y \in Int /\ q * x \in Int /\ v * x \in Int /\ c * (x * y) \in Int
      BY <2>11
    <3> QED
      BY <3>2, <3>3, <3>4
  <2>13. Pot(t) = p * y + q * x /\ Pot(After(shared, r)) = p * y + v * x
    BY <1>1, <2>10 DEF Pot
  <2> HIDE DEF After
  <2> QED
    BY <2>6, <2>7, <2>9, <2>10, <2>12, <2>13 DEF Scale
<1> QED
  BY <1>9, <1>10

\* The calls of a batch, one after the other.
Batch(after, t, s, n) ==
    \A i \in 0..n : after[i] =
        IF i = 0 THEN [t |-> t, calls |-> 0]
        ELSE IF after[i - 1].calls = i - 1 /\ Affords(after[i - 1].t, s)
             THEN [t |-> Spend(after[i - 1].t, s), calls |-> i]
             ELSE after[i - 1]

\* However many calls a batch gets, what was paid covers them.
LEMMA SpendUpToIs ==
    ASSUME NEW s \in Client, NEW now \in Nat, NEW t \in Tables(s, now), NEW n \in Nat
    PROVE  LET done == SpendUpTo(t, s, n) IN
           /\ done.t \in Tables(s, now) /\ done.calls \in Nat
           /\ Pot(t) + done.calls * (CallCost * Scale) <= Pot(done.t)
           /\ \E after : /\ Batch(after, t, s, n) /\ done = after[n]
                         /\ \A i \in 0..n : after[i] \in [t : Tables(s, now), calls : Nat]
<1>1. PICK K : K = CallCost * Scale
  OBVIOUS
<1>2. K \in Nat
  <2>1. \A a, b, c \in Nat : a * (b * c) \in Nat
    OBVIOUS
  <2> QED
    BY <1>1, <2>1, RuleTypes DEF Scale
<1>3. \A u \in Tables(s, now) : Pot(u) \in Int
  BY TableIs
<1> DEFINE X == {a \in [t : Tables(s, now), calls : Nat] : Pot(t) + a.calls * K <= Pot(a.t)}
           Step(i, a) == IF a.calls = i - 1 /\ Affords(a.t, s) THEN [t |-> Spend(a.t, s), calls |-> i] ELSE a
           G == [a \in (1..n) \X X |-> Step(a[1], a[2])]
           after[k \in 0..n] ==
             IF k = 0 THEN [t |-> t, calls |-> 0]
             ELSE IF after[k - 1].calls = k - 1 /\ Affords(after[k - 1].t, s)
                  THEN [t |-> Spend(after[k - 1].t, s), calls |-> k]
                  ELSE after[k - 1]
<1>4. [t |-> t, calls |-> 0] \in X
  <2>1. 0 * K = 0
    BY <1>2
  <2> QED
    BY <1>3, <2>1
<1>5. \A i \in 1..n, a \in X : Step(i, a) \in X
  <2> TAKE i \in 1..n, a \in X
  <2>1. CASE a.calls = i - 1 /\ Affords(a.t, s)
    <3>1. PICK u, w : u = a.t /\ w = Spend(u, s)
      OBVIOUS
    <3>2. u \in Tables(s, now) /\ Affords(u, s) /\ i - 1 \in Nat /\ Pot(t) + (i - 1) * K <= Pot(u)
      BY <2>1, <3>1
    <3>3. w \in Tables(s, now) /\ Pot(u) + K <= Pot(w)
      BY <1>1, <3>1, <3>2, SpendIs
    <3>4. Pot(t) \in Int /\ Pot(u) \in Int /\ Pot(w) \in Int
      BY <1>3, <3>2, <3>3
    <3>5. (i - 1) * K = i * K - K /\ i * K \in Int
      BY <1>2
    <3>6. Pot(t) + i * K <= Pot(w)
      BY <1>2, <3>2, <3>3, <3>4, <3>5
    <3>7. Step(i, a) = [t |-> w, calls |-> i]
      BY <2>1, <3>1
    <3> QED
      BY <3>3, <3>6, <3>7
  <2>2. CASE ~(a.calls = i - 1 /\ Affords(a.t, s))
    BY <2>2
  <2> QED
    BY <2>1, <2>2
<1>6. G \in [(1..n) \X X -> X]
  <2> HIDE DEF X, Step
  <2>1. \A p \in (1..n) \X X : Step(p[1], p[2]) \in X
    BY <1>5
  <2> QED
    BY <2>1
<1>7. PICK f : Iterates(f, n, X, [t |-> t, calls |-> 0], G)
  <2> HIDE DEF X, G
  <2> QED
    BY <1>4, <1>6, IterationExists
<1>8. f \in [0..n -> X] /\ f[0] = [t |-> t, calls |-> 0] /\ \A i \in 1..n : f[i] = G[<<i, f[i - 1]>>]
  <2> HIDE DEF X, G
  <2> QED
    BY <1>7, Zenon DEF Iterates
<1>9. \A i \in 0..n : f[i] = IF i = 0 THEN [t |-> t, calls |-> 0] ELSE Step(i, f[i - 1])
  <2> HIDE DEF X, Step
  <2> TAKE i \in 0..n
  <2>1. CASE i = 0
    BY <1>8, <2>1
  <2>2. CASE i # 0
    <3>1. i \in 1..n /\ i - 1 \in 0..n
      BY <2>2
    <3>2. f[i - 1] \in X /\ f[i] = G[<<i, f[i - 1]>>]
      BY <3>1, <1>8
    <3> QED
      BY <3>1, <3>2, <2>2
  <2> QED
    BY <2>1, <2>2
<1>10. f = [k \in 0..n |->
             IF k = 0 THEN [t |-> t, calls |-> 0]
             ELSE IF f[k - 1].calls = k - 1 /\ Affords(f[k - 1].t, s)
                  THEN [t |-> Spend(f[k - 1].t, s), calls |-> k]
                  ELSE f[k - 1]]
  <2>1. f = [k \in 0..n |-> f[k]]
    <3> HIDE DEF X
    <3> QED
      BY <1>8
  <2>2. \A k \in 0..n : f[k] = 
             IF k = 0 THEN [t |-> t, calls |-> 0]
             ELSE IF f[k - 1].calls = k - 1 /\ Affords(f[k - 1].t, s)
                  THEN [t |-> Spend(f[k - 1].t, s), calls |-> k]
                  ELSE f[k - 1]
    BY <1>9, Zenon
  <2> QED
    BY <2>1, <2>2, Zenon
<1>11. after = [k \in 0..n |->
             IF k = 0 THEN [t |-> t, calls |-> 0]
             ELSE IF after[k - 1].calls = k - 1 /\ Affords(after[k - 1].t, s)
                  THEN [t |-> Spend(after[k - 1].t, s), calls |-> k]
                  ELSE after[k - 1]]
  <2> HIDE DEF X, G, Step
  <2> QED
    BY <1>10
<1>12. SpendUpTo(t, s, n) = after[n]
  <2> HIDE DEF X, G, Step
  <2> QED
    BY Zenon DEF SpendUpTo
<1> HIDE DEF after
<1>13. \A i \in 0..n : after[i] = IF i = 0 THEN [t |-> t, calls |-> 0] ELSE Step(i, after[i - 1])
  <2> TAKE i \in 0..n
  <2>1. after[i] =
             IF i = 0 THEN [t |-> t, calls |-> 0]
             ELSE IF after[i - 1].calls = i - 1 /\ Affords(after[i - 1].t, s)
                  THEN [t |-> Spend(after[i - 1].t, s), calls |-> i]
                  ELSE after[i - 1]
    BY <1>11, Zenon
  <2> QED
    BY <2>1, Zenon
<1>14. \A i \in 0..n : after[i] \in X
  <2> HIDE DEF X, Step
  <2>1. after[0] \in X
    BY <1>4, <1>13
  <2>2. \A i \in 1..n : after[i - 1] \in X => after[i] \in X
    <3> TAKE i \in 1..n
    <3>1. i \in 0..n /\ i # 0
      OBVIOUS
    <3> QED
      BY <3>1, <1>5, <1>13
  <2> QED
    BY <2>1, <2>2, IterationKeeps
<1>15. Batch(after, t, s, n)
  <2> HIDE DEF X, G, Step
  <2> SUFFICES ASSUME NEW i \in 0..n
               PROVE  after[i] =
                        IF i = 0 THEN [t |-> t, calls |-> 0]
                        ELSE IF after[i - 1].calls = i - 1 /\ Affords(after[i - 1].t, s)
                             THEN [t |-> Spend(after[i - 1].t, s), calls |-> i]
                             ELSE after[i - 1]
    BY Zenon DEF Batch
  <2> QED
    BY <1>11, Zenon
<1>16. \A i \in 0..n : after[i] \in [t : Tables(s, now), calls : Nat]
  BY <1>14
<1>17. after[n] \in X
  <2> HIDE DEF X
  <2> QED
    BY <1>14
<1> QED
  BY <1>1, <1>12, <1>15, <1>16, <1>17

-----------------------------------------------------------------------------
(* The invariant, and what it bounds.                                      *)

BudgetSpec == BudgetInit /\ [][BudgetNext]_budgetVars

\* What was spent is paid for by what came in.
BudgetInv ==
    /\ mono \in Nat /\ spent \in Nat
    /\ budget \in [kind : {"headers", "txs"}, shared : Bucket, rows : RowTables]
    /\ budget.shared.last <= mono /\ RowsOK(budget.rows, mono)
    /\ Total(Owes(budget.rows)) \in Int /\ spent * Scale <= Pot(budget)

LEMMA ScaleType == Scale \in Nat
<1>1. SharedRule.per \in Nat /\ ReserveRule.per \in Nat
  BY RuleTypes
<1>2. \A a, b \in Nat : a * b \in Nat
  OBVIOUS
<1> QED
  BY <1>1, <1>2 DEF Scale

\* What else is in the rows does not count.
LEMMA MarkIs ==
    ASSUME NEW s \in Client, NEW now \in Nat, NEW t \in Tables(s, now), NEW rows,
           NEW row \in Row, row.own = t.rows[s].own, row.reserve = t.rows[s].reserve,
           rows = [t.rows EXCEPT ![s] = row]
    PROVE  /\ RowsOK(rows, now) /\ Owes(rows) = Owes(t.rows)
           /\ rows \in RowTables
<1>1. RowsOK(t.rows, now) /\ s \in DOMAIN t.rows
  BY DEF Tables
<1>2. DOMAIN rows = DOMAIN t.rows /\ rows = [c \in DOMAIN rows |-> rows[c]]
  BY <1>1 DEF RowsOK
<1>3. \A c \in DOMAIN rows : rows[c] \in Row /\ rows[c].own = t.rows[c].own /\ rows[c].reserve = t.rows[c].reserve
  BY <1>1 DEF RowsOK
<1>4. RowsOK(rows, now)
  BY <1>1, <1>2, <1>3 DEF RowsOK
<1>5. Owes(rows) = Owes(t.rows)
  BY <1>2, <1>3 DEF Owes
<1>6. rows \in [DOMAIN rows -> Row] /\ DOMAIN rows \in SUBSET Client
  BY <1>4 DEF RowsOK
<1> QED
  BY <1>4, <1>5, <1>6 DEF RowTables

\* The shared bucket of now, over rows that owe no less than those before.
LEMMA StartIs ==
    ASSUME BudgetInv, NEW rows, RowsOK(rows, mono), Total(Owes(rows)) \in Int,
           Total(Owes(budget.rows)) <= Total(Owes(rows))
    PROVE  LET t == [shared |-> SharedNow, rows |-> rows] IN
           t \in [shared : Bucket, rows : RowTables] /\ t.shared.last <= mono
           /\ Pot(budget) \in Int /\ Pot(t) \in Int /\ Pot(budget) <= Pot(t)
<1>1. PICK b, now, new : b = budget.shared /\ now = mono /\ new = SharedNow
  OBVIOUS
<1>2. b \in Bucket /\ now \in Nat /\ b.last <= now
  BY <1>1 DEF BudgetInv
<1>3. new = Refill(b, SharedRule, now)
  BY <1>1 DEF SharedNow
<1>4. /\ new \in Bucket /\ new.last <= now
      /\ Paid(SharedRule, b) \in Int /\ Paid(SharedRule, new) \in Int /\ Paid(SharedRule, b) <= Paid(SharedRule, new)
  BY <1>2, <1>3, RefillIs, RuleTypes
<1>5. rows \in [DOMAIN rows -> Row] /\ DOMAIN rows \in SUBSET Client
  BY DEF RowsOK
<1>6. PICK p, q, u, v, x, y : /\ p = Paid(SharedRule, b) /\ q = Paid(SharedRule, new)
                              /\ u = Total(Owes(budget.rows)) /\ v = Total(Owes(rows))
                              /\ x = SharedRule.per /\ y = ReserveRule.per
  OBVIOUS
<1>7. p \in Int /\ q \in Int /\ u \in Int /\ v \in Int /\ x \in Nat /\ y \in Nat /\ p <= q /\ u <= v
  BY <1>4, <1>6, RuleTypes DEF BudgetInv
<1>8. p * y + u * x <= q * y + v * x /\ p * y + u * x \in Int /\ q * y + v * x \in Int
  <2>1. p * y <= q * y /\ u * x <= v * x
    BY <1>7
  <2>2. p * y \in Int /\ q * y \in Int /\ u * x \in Int /\ v * x \in Int
    BY <1>7
  <2> QED
    BY <2>1, <2>2
<1>9. PICK t : t = [shared |-> new, rows |-> rows]
  OBVIOUS
<1>10. Pot(budget) = p * y + u * x /\ Pot(t) = q * y + v * x
  BY <1>1, <1>6, <1>9 DEF Pot
<1>11. t \in [shared : Bucket, rows : RowTables] /\ t.shared.last <= now
  BY <1>4, <1>5, <1>9 DEF RowTables
<1> QED
  BY <1>1, <1>8, <1>9, <1>10, <1>11

\* A batch of calls, whoever asks.
LEMMA CallsArePaid ==
    ASSUME BudgetInv, NEW s \in Client, NEW rows \in touch(s), NEW n \in Nat
    PROVE  LET done == SpendUpTo([shared |-> SharedNow, rows |-> rows], s, n) IN
           /\ done.t \in Tables(s, mono) /\ done.calls \in Nat
           /\ (spent + done.calls * CallCost) * Scale <= Pot(done.t)
<1>1. mono \in Nat /\ RowsOK(budget.rows, mono)
  BY DEF BudgetInv
<1>2. RowsOK(rows, mono) /\ s \in DOMAIN rows /\ Total(Owes(budget.rows)) <= Total(Owes(rows))
  BY <1>1, TouchKeeps
<1>3. Total(Owes(rows)) \in Int
  <2>1. PICK f, now : f = Owes(rows) /\ now = mono
    OBVIOUS
  <2>2. f \in [Client -> Int]
    BY <1>2, <2>1, OwesType
  <2>3. f[s] + 0 <= f[s] /\ \A c \in Client \ {s} : f[c] <= f[c]
    BY <2>2
  <2> QED
    BY <2>1, <2>2, <2>3, TotalGrows
<1>4. PICK t, now : t = [shared |-> SharedNow, rows |-> rows] /\ now = mono
  OBVIOUS
<1>5. now \in Nat /\ t \in Tables(s, now) /\ Pot(budget) <= Pot(t) /\ Pot(budget) \in Int
  <2>1. /\ t \in [shared : Bucket, rows : RowTables] /\ t.shared.last <= mono
        /\ Pot(budget) \in Int /\ Pot(budget) <= Pot(t)
    BY <1>2, <1>3, <1>4, StartIs
  <2> QED
    BY <1>1, <1>2, <1>4, <2>1 DEF Tables
<1>6. PICK done : done = SpendUpTo(t, s, n)
  OBVIOUS
<1>7. /\ done.t \in Tables(s, now) /\ done.calls \in Nat
      /\ Pot(t) + done.calls * (CallCost * Scale) <= Pot(done.t)
  BY <1>5, <1>6, SpendUpToIs
<1>8. Pot(t) \in Int /\ Pot(done.t) \in Int
  BY <1>5, <1>7, TableIs
<1>9. (spent + done.calls * CallCost) * Scale <= Pot(done.t)
  <2>1. PICK e, k, c, z : e = spent /\ k = done.calls /\ c = CallCost /\ z = Scale
    OBVIOUS
  <2>2. e \in Nat /\ k \in Nat /\ c \in Nat /\ z \in Nat /\ e * z <= Pot(t)
    <3>1. spent * Scale <= Pot(budget) /\ spent \in Nat
      BY DEF BudgetInv
    <3>2. e \in Nat /\ k \in Nat /\ c \in Nat /\ z \in Nat /\ e * z <= Pot(budget)
      BY <2>1, <3>1, <1>7, RuleTypes, ScaleType
    <3>3. e * z \in Int
      BY <3>2
    <3> QED
      BY <3>2, <3>3, <1>5, <1>8
  <2>3. (e + k * c) * z = e * z + k * (c * z)
    BY <2>2
  <2>4. e * z \in Int /\ k * (c * z) \in Int
    BY <2>2
  <2>5. (e + k * c) * z <= Pot(done.t)
    BY <2>1, <2>2, <2>3, <2>4, <1>7, <1>8
  <2> QED
    BY <2>1, <2>5
<1> QED
  BY <1>4, <1>6, <1>7, <1>9

LEMMA BudgetStarts == BudgetInit => BudgetInv
<1> SUFFICES ASSUME BudgetInit PROVE BudgetInv
  OBVIOUS
<1>1. mono = 0 /\ spent = 0 /\ budget.rows = <<>> /\ budget.shared = FullBucket(SharedRule, 0)
  BY DEF BudgetInit
<1>2. FullBucket(SharedRule, 0) \in Bucket /\ FullBucket(SharedRule, 0).last = 0 /\ FullBucket(SharedRule, 0).level = SharedRule.burst
  BY RuleTypes DEF FullBucket, Bucket
<1>3. PICK rows : rows = <<>>
  OBVIOUS
<1>4. DOMAIN rows = {} /\ rows \in [DOMAIN rows -> Row] /\ DOMAIN rows \in SUBSET Client
  BY <1>3
<1>5. RowsOK(rows, 0)
  <2>1. Cardinality(DOMAIN rows) <= RowCap
    BY <1>4, FS_EmptySet, RuleTypes
  <2> QED
    BY <2>1, <1>4 DEF RowsOK
<1>6. Total(Owes(rows)) = 0
  <2>1. PICK f : f = Owes(rows)
    OBVIOUS
  <2>2. f \in [Client -> Int] /\ \A c \in Client : f[c] = 0
    BY <1>4, <2>1 DEF Owes
  <2>3. PICK X : X = {0}
    OBVIOUS
  <2>4. X \subseteq Int /\ 0 \in X /\ (\A a, b \in X : a + b \in X) /\ \A c \in Client : f[c] \in X
    BY <2>2, <2>3
  <2>5. Total(f) \in X
    BY <2>2, <2>4, TotalIn
  <2> QED
    BY <2>1, <2>3, <2>5
<1>7. Paid(SharedRule, FullBucket(SharedRule, 0)) = 0
  <2>1. SharedRule.burst * SharedRule.per \in Int /\ 0 * SharedRule.rate = 0
    BY RuleTypes
  <2> QED
    BY <2>1, <1>2 DEF Paid
<1>8. spent * Scale <= Pot(budget)
  <2>1. 0 * Scale = 0 /\ 0 * ReserveRule.per = 0 /\ 0 * SharedRule.per = 0
    BY ScaleType, RuleTypes
  <2>2. Pot(budget) = 0
    BY <1>1, <1>3, <1>6, <1>7, <2>1 DEF Pot
  <2> QED
    BY <1>1, <2>1, <2>2
<1>9. budget \in [kind : {"headers", "txs"}, shared : Bucket, rows : RowTables]
  <2>1. rows \in RowTables
    BY <1>4 DEF RowTables
  <2> QED
    BY <1>2, <1>3, <2>1 DEF BudgetInit
<1> QED
  BY <1>1, <1>2, <1>3, <1>5, <1>6, <1>8, <1>9 DEF BudgetInv

\* The step of a batch, and what else the row of its source then holds.
LEMMA BatchKeeps ==
    ASSUME BudgetInv, NEW s \in Client, NEW rows \in touch(s), NEW n \in Nat,
           NEW done, done = SpendUpTo([shared |-> SharedNow, rows |-> rows], s, n),
           NEW row \in Row, row.own = done.t.rows[s].own, row.reserve = done.t.rows[s].reserve,
           budget' = [budget EXCEPT !.shared = done.t.shared, !.rows = [done.t.rows EXCEPT ![s] = row]],
           spent' = spent + done.calls * CallCost, mono' = mono
    PROVE  BudgetInv'
<1>1. PICK now, kind, R : now = mono /\ kind = budget.kind /\ R = [done.t.rows EXCEPT ![s] = row]
  OBVIOUS
<1>2. now \in Nat /\ kind \in {"headers", "txs"} /\ spent \in Nat
  BY <1>1 DEF BudgetInv
<1>3. /\ done.t \in Tables(s, now) /\ done.calls \in Nat
      /\ (spent + done.calls * CallCost) * Scale <= Pot(done.t)
  BY <1>1, CallsArePaid
<1>4. RowsOK(R, now) /\ Owes(R) = Owes(done.t.rows) /\ R \in RowTables
  <2>1. PICK t, w : t = done.t /\ w = row
    OBVIOUS
  <2>2. /\ t \in Tables(s, now) /\ w \in Row /\ w.own = t.rows[s].own /\ w.reserve = t.rows[s].reserve
        /\ R = [t.rows EXCEPT ![s] = w]
    BY <1>1, <1>3, <2>1
  <2>3. RowsOK(R, now) /\ Owes(R) = Owes(t.rows) /\ R \in RowTables
    BY <1>2, <2>2, MarkIs
  <2> QED
    BY <2>1, <2>3
<1>5. PICK u : u = budget'
  OBVIOUS
<1>6. u = [kind |-> kind, shared |-> done.t.shared, rows |-> R]
  BY <1>1, <1>5 DEF BudgetInv
<1>7. done.t.shared \in Bucket /\ done.t.shared.last <= now
  BY <1>3 DEF Tables
<1>8. /\ u \in [kind : {"headers", "txs"}, shared : Bucket, rows : RowTables]
      /\ u.shared.last <= now /\ RowsOK(u.rows, now)
  <2> HIDE DEF BudgetInv
  <2> QED
    BY <1>2, <1>4, <1>6, <1>7
<1>9. Total(Owes(u.rows)) \in Int /\ Pot(u) = Pot(done.t)
  <2>1. Total(Owes(done.t.rows)) \in Int
    BY <1>2, <1>3, TableIs
  <2> QED
    BY <2>1, <1>4, <1>6 DEF Pot
<1>10. spent + done.calls * CallCost \in Nat
  <2>1. done.calls * CallCost \in Nat
    BY <1>3, RuleTypes
  <2> QED
    BY <1>2, <2>1
<1> QED
  BY <1>1, <1>2, <1>3, <1>5, <1>8, <1>9, <1>10 DEF BudgetInv, Pot

LEMMA HeadersKeep == ASSUME BudgetInv, NEW s \in Client, submit_headers_cost(s) PROVE BudgetInv'
<1>1. PICK rows \in touch(s), want \in 1..CallsMax, forgiven \in BOOLEAN, bad \in BOOLEAN :
        \E done \in {SpendUpTo([shared |-> SharedNow, rows |-> rows], s, want)} :
          /\ bad => done.calls > 0
          /\ budget' = [budget EXCEPT !.shared = done.t.shared, !.rows =
                 [done.t.rows EXCEPT ![s].fails = (IF forgiven THEN 0 ELSE @) + (IF bad THEN 1 ELSE 0),
                                     ![s].parked = IF bad THEN 0 ELSE want - done.calls,
                                     ![s].asked = mono]]
          /\ budget'.rows[s].fails <= 1
          /\ Answer(s, done.calls > 0, done.calls)
  BY DEF submit_headers_cost
<1>2. PICK done :
          /\ done = SpendUpTo([shared |-> SharedNow, rows |-> rows], s, want)
          /\ budget' = [budget EXCEPT !.shared = done.t.shared, !.rows =
                 [done.t.rows EXCEPT ![s].fails = (IF forgiven THEN 0 ELSE @) + (IF bad THEN 1 ELSE 0),
                                     ![s].parked = IF bad THEN 0 ELSE want - done.calls,
                                     ![s].asked = mono]]
          /\ Answer(s, done.calls > 0, done.calls)
  BY <1>1
<1>3. PICK now, old : now = mono /\ old = done.t.rows[s]
  OBVIOUS
<1>4. want \in Nat /\ now \in Nat
  BY <1>3 DEF BudgetInv
<1>5. done.t \in Tables(s, now) /\ done.calls \in Nat
  BY <1>2, <1>3, <1>4, CallsArePaid
<1>6. old \in Row /\ s \in DOMAIN done.t.rows /\ done.t.rows = [c \in DOMAIN done.t.rows |-> done.t.rows[c]]
  BY <1>3, <1>5 DEF Tables, RowsOK
<1>7. PICK fails, parked : /\ fails = (IF forgiven THEN 0 ELSE old.fails) + (IF bad THEN 1 ELSE 0)
                           /\ parked = IF bad THEN 0 ELSE want - done.calls
  OBVIOUS
<1>8. fails \in Nat /\ parked \in Int
  BY <1>4, <1>5, <1>6, <1>7 DEF Row
<1>9. PICK row : row = [old EXCEPT !.fails = fails, !.parked = parked, !.asked = now]
  OBVIOUS
<1>10. row \in Row /\ row.own = old.own /\ row.reserve = old.reserve
  BY <1>4, <1>6, <1>8, <1>9 DEF Row
<1>11. [done.t.rows EXCEPT ![s].fails = (IF forgiven THEN 0 ELSE @) + (IF bad THEN 1 ELSE 0),
                           ![s].parked = IF bad THEN 0 ELSE want - done.calls,
                           ![s].asked = mono] = [done.t.rows EXCEPT ![s] = row]
  BY <1>3, <1>6, <1>7, <1>9
<1>12. budget' = [budget EXCEPT !.shared = done.t.shared, !.rows = [done.t.rows EXCEPT ![s] = row]]
  BY <1>2, <1>11, Zenon
<1>13. spent' = spent + done.calls * CallCost /\ mono' = mono
  BY <1>2 DEF Answer
<1> QED
  BY <1>2, <1>3, <1>4, <1>10, <1>12, <1>13, BatchKeeps

LEMMA AdmitKeeps == ASSUME BudgetInv, NEW s \in Client, admit_tx(s) PROVE BudgetInv'
<1>1. PICK rows \in touch(s) :
        \E done \in {SpendUpTo([shared |-> SharedNow, rows |-> rows], s, 1)} :
          /\ budget' = [budget EXCEPT !.shared = done.t.shared, !.rows = [done.t.rows EXCEPT ![s].asked = mono]]
          /\ Answer(s, done.calls = 1, done.calls)
  BY DEF admit_tx
<1>2. PICK done :
          /\ done = SpendUpTo([shared |-> SharedNow, rows |-> rows], s, 1)
          /\ budget' = [budget EXCEPT !.shared = done.t.shared, !.rows = [done.t.rows EXCEPT ![s].asked = mono]]
          /\ Answer(s, done.calls = 1, done.calls)
  BY <1>1
<1>3. PICK now, old : now = mono /\ old = done.t.rows[s]
  OBVIOUS
<1>4. now \in Nat /\ 1 \in Nat
  BY <1>3 DEF BudgetInv
<1>5. done.t \in Tables(s, now)
  BY <1>2, <1>3, <1>4, CallsArePaid
<1>6. old \in Row /\ s \in DOMAIN done.t.rows /\ done.t.rows = [c \in DOMAIN done.t.rows |-> done.t.rows[c]]
  BY <1>3, <1>5 DEF Tables, RowsOK
<1>7. PICK row : row = [old EXCEPT !.asked = now]
  OBVIOUS
<1>8. row \in Row /\ row.own = old.own /\ row.reserve = old.reserve
  BY <1>4, <1>6, <1>7 DEF Row
<1>9. [done.t.rows EXCEPT ![s].asked = mono] = [done.t.rows EXCEPT ![s] = row]
  BY <1>3, <1>6, <1>7
<1>10. budget' = [budget EXCEPT !.shared = done.t.shared, !.rows = [done.t.rows EXCEPT ![s] = row]]
  BY <1>2, <1>9, Zenon
<1>11. spent' = spent + done.calls * CallCost /\ mono' = mono
  BY <1>2 DEF Answer
<1> QED
  BY <1>2, <1>3, <1>4, <1>8, <1>10, <1>11, BatchKeeps

LEMMA RefusalKeeps == ASSUME BudgetInv, NEW s \in Client, TooManySources(s) PROVE BudgetInv'
<1>1. PICK now, old, fresh, kind, sh :
         now = mono /\ old = budget.rows /\ fresh = Refilled /\ kind = budget.kind /\ sh = SharedNow
  OBVIOUS
<1>2. now \in Nat /\ RowsOK(old, now) /\ kind \in {"headers", "txs"} /\ spent \in Nat
  BY <1>1 DEF BudgetInv
<1>3. fresh = [r \in DOMAIN old |-> RefillRow(old[r], now)]
  BY <1>1 DEF Refilled
<1>4. RowsOK(fresh, now) /\ Total(Owes(old)) <= Total(Owes(fresh))
  BY <1>2, <1>3, FreshIs
<1>5. Total(Owes(fresh)) \in Int
  <2>1. PICK f : f = Owes(fresh)
    OBVIOUS
  <2>2. f \in [Client -> Int]
    BY <1>4, <2>1, OwesType
  <2>3. f[s] + 0 <= f[s] /\ \A c \in Client \ {s} : f[c] <= f[c]
    BY <2>2
  <2> QED
    BY <2>1, <2>2, <2>3, TotalGrows
<1>6. PICK t : t = [shared |-> sh, rows |-> fresh]
  OBVIOUS
<1>7. /\ t \in [shared : Bucket, rows : RowTables] /\ t.shared.last <= now
      /\ Pot(budget) \in Int /\ Pot(t) \in Int /\ Pot(budget) <= Pot(t)
  BY <1>1, <1>4, <1>5, <1>6, StartIs
<1>8. spent' = spent /\ mono' = mono
  <2>1. 0 * CallCost = 0
    BY RuleTypes
  <2> QED
    BY <2>1, <1>2 DEF TooManySources, Answer
<1>9. PICK u : u = budget'
  OBVIOUS
<1>10. u = [kind |-> kind, shared |-> sh, rows |-> fresh]
  BY <1>1, <1>9 DEF TooManySources, BudgetInv
<1>11. spent * Scale <= Pot(t)
  <2>1. spent * Scale <= Pot(budget)
    BY DEF BudgetInv
  <2>2. spent * Scale \in Int
    BY <1>2, ScaleType
  <2> QED
    BY <2>1, <2>2, <1>7
<1>12. Pot(u) = Pot(t)
  BY <1>6, <1>10 DEF Pot
<1>13. /\ u \in [kind : {"headers", "txs"}, shared : Bucket, rows : RowTables]
       /\ u.shared.last <= now /\ u.rows = fresh
  BY <1>2, <1>6, <1>7, <1>10
<1> QED
  BY <1>1, <1>2, <1>4, <1>5, <1>8, <1>9, <1>11, <1>12, <1>13 DEF BudgetInv, Pot

LEMMA TickKeeps == ASSUME BudgetInv, MonoTick PROVE BudgetInv'
<1>1. mono' = mono + 1 /\ budget' = budget /\ spent' = spent /\ mono \in Nat
  BY DEF MonoTick, BudgetInv
<1>2. PICK now, old, sh : now = mono /\ old = budget.rows /\ sh = budget.shared
  OBVIOUS
<1>3. now \in Nat /\ RowsOK(old, now) /\ sh \in Bucket /\ sh.last <= now
  BY <1>2 DEF BudgetInv
<1>4. sh.last <= now + 1
  BY <1>3 DEF Bucket
<1>5. RowsOK(old, now + 1)
  <2>1. \A c \in DOMAIN old : old[c].own.last \in Nat /\ old[c].reserve.last \in Nat
    BY <1>3 DEF RowsOK, Row, Bucket
  <2> QED
    BY <2>1, <1>3 DEF RowsOK
<1> QED
  BY <1>1, <1>2, <1>4, <1>5 DEF BudgetInv, Pot

LEMMA BudgetKeeps == BudgetInv /\ [BudgetNext]_budgetVars => BudgetInv'
<1> SUFFICES ASSUME BudgetInv, [BudgetNext]_budgetVars PROVE BudgetInv'
  OBVIOUS
<1>1. ASSUME NEW s \in Client, submit_headers_cost(s) PROVE BudgetInv'
  BY <1>1, HeadersKeep
<1>2. ASSUME NEW s \in Client, admit_tx(s) PROVE BudgetInv'
  BY <1>2, AdmitKeeps
<1>3. ASSUME NEW s \in Client, TooManySources(s) PROVE BudgetInv'
  BY <1>3, RefusalKeeps
<1>4. CASE MonoTick
  BY <1>4, TickKeeps
<1>5. CASE UNCHANGED budgetVars
  BY <1>5 DEF budgetVars, BudgetInv, Pot
<1> QED
  BY <1>1, <1>2, <1>3, <1>4, <1>5 DEF BudgetNext

\* A pot never holds more than the buckets' bursts and what came in.
LEMMA PotIsBounded == BudgetInv => ClassBound
<1> SUFFICES ASSUME BudgetInv PROVE ClassBound
  OBVIOUS
<1>1. PICK now, rows, sh, e : now = mono /\ rows = budget.rows /\ sh = budget.shared /\ e = spent
  OBVIOUS
<1>2. /\ now \in Nat /\ RowsOK(rows, now) /\ sh \in Bucket /\ sh.last <= now /\ e \in Nat
      /\ Total(Owes(rows)) \in Int /\ e * Scale <= Pot(budget)
  BY <1>1 DEF BudgetInv
<1>3. ASSUME NEW rule \in Rules, NEW b \in Bucket, b.last <= now
      PROVE  Paid(rule, b) <= rule.burst * rule.per + now * rule.rate
  <2>1. rule.rate \in Nat /\ rule.per \in Nat /\ rule.burst \in Nat /\ b.level \in Nat /\ b.last \in Nat
    BY RuleTypes DEF Bucket
  <2>2. b.last * rule.rate <= now * rule.rate /\ b.level * rule.per >= 0
    BY <2>1, <1>2, <1>3
  <2>3. /\ b.last * rule.rate \in Int /\ now * rule.rate \in Int /\ b.level * rule.per \in Int
        /\ rule.burst * rule.per \in Int
    BY <2>1, <1>2
  <2> QED
    BY <2>2, <2>3 DEF Paid
<1>4. PICK cap : cap = ReserveRule.burst * ReserveRule.per + now * ReserveRule.rate
  OBVIOUS
<1>5. cap \in Nat
  BY <1>2, <1>4, RuleTypes
<1>6. Total(Owes(rows)) <= RowCap * cap
  <2>1. PICK f, D : f = Owes(rows) /\ D = DOMAIN rows
    OBVIOUS
  <2>2. f \in [Client -> Int] /\ D \subseteq Client /\ Cardinality(D) <= RowCap
    BY <1>2, <2>1, OwesType DEF RowsOK
  <2>3. \A c \in Client : f[c] <= IF c \in D THEN cap ELSE 0
    <3> TAKE c \in Client
    <3>1. CASE c \in D
      <4>1. rows[c].reserve \in Bucket /\ rows[c].reserve.last <= now
        BY <3>1, <1>2, <2>1 DEF RowsOK, Row
      <4>2. f[c] = Paid(ReserveRule, rows[c].reserve)
        BY <3>1, <2>1 DEF Owes
      <4> QED
        BY <4>1, <4>2, <1>3, <1>4, <3>1, RuleTypes
    <3>2. CASE c \notin D
      BY <3>2, <2>1 DEF Owes
    <3> QED
      BY <3>1, <3>2
  <2>4. Total(f) <= Cardinality(D) * cap
    BY <1>5, <2>2, <2>3, TotalBound
  <2>5. Cardinality(D) \in Nat
    BY <2>2, BudgetConstants, FS_Subset, FS_CardinalityType
  <2>6. PICK k, m : k = Cardinality(D) /\ m = RowCap
    OBVIOUS
  <2>7. k \in Nat /\ m \in Nat /\ k <= m
    BY <2>2, <2>5, <2>6, RuleTypes
  <2>8. k * cap <= m * cap /\ k * cap \in Int /\ m * cap \in Int
    BY <1>5, <2>7
  <2> QED
    BY <1>2, <2>1, <2>4, <2>6, <2>8
<1>7. PICK p, q, x, y, a, b, r, z, k :
         /\ p = Paid(SharedRule, sh) /\ q = Total(Owes(rows))
         /\ x = SharedRule.per /\ y = ReserveRule.per /\ a = SharedRule.burst /\ b = ReserveRule.burst
         /\ r = SharedRule.rate /\ z = ReserveRule.rate /\ k = RowCap
  OBVIOUS
<1>8. /\ x \in Nat /\ y \in Nat /\ a \in Nat /\ b \in Nat /\ r \in Nat /\ z \in Nat /\ k \in Nat
      /\ p \in Int /\ q \in Int
  BY <1>2, <1>7, RuleTypes, PaidType
<1>9. p <= a * x + now * r /\ q <= k * (b * y + now * z)
  BY <1>2, <1>3, <1>4, <1>6, <1>7, RuleTypes
<1>10. e * (x * y) <= p * y + q * x
  BY <1>1, <1>2, <1>7 DEF Scale, Pot
<1>11. e * (x * y) <= (a + k * b) * (x * y) + now * (r * y + k * z * x)
  <2>1. p * y <= (a * x + now * r) * y
    BY <1>2, <1>8, <1>9
  <2>2. q * x <= (k * (b * y + now * z)) * x
    BY <1>2, <1>8, <1>9
  <2>3. (a * x + now * r) * y = a * (x * y) + now * (r * y)
    BY <1>2, <1>8
  <2>4. (k * (b * y + now * z)) * x = (k * b) * (x * y) + now * (k * z * x)
    BY <1>2, <1>8
  <2>5. (a + k * b) * (x * y) = a * (x * y) + (k * b) * (x * y)
    BY <1>8
  <2>6. now * (r * y + k * z * x) = now * (r * y) + now * (k * z * x)
    BY <1>2, <1>8
  <2>7. /\ e * (x * y) \in Int /\ p * y \in Int /\ q * x \in Int /\ a * (x * y) \in Int /\ now * (r * y) \in Int
        /\ (k * b) * (x * y) \in Int /\ now * (k * z * x) \in Int
    BY <1>2, <1>8
  <2> QED
    BY <2>1, <2>2, <2>3, <2>4, <2>5, <2>6, <2>7, <1>10
<1> QED
  BY <1>1, <1>7, <1>11 DEF ClassBound

\* Whoever asks in whatever order, and however rows are taken from sources and given to others at the
\* cap, all calls together cost no more than the shared bucket and one reserve per row pay for
\* (spend_class_budget, touch, Ingress::admit): an evicted row owed nothing, whatever rounding keeps.
THEOREM ClassIsBounded == BudgetSpec => []ClassBound
<1>1. BudgetInit => BudgetInv
  BY BudgetStarts
<1>2. BudgetInv /\ [BudgetNext]_budgetVars => BudgetInv'
  BY BudgetKeeps
<1>3. BudgetInv => ClassBound
  BY PotIsBounded
<1> QED
  BY <1>1, <1>2, <1>3, PTL DEF BudgetSpec

-----------------------------------------------------------------------------
(***************************************************************************)
(* A patient source.  A refill may lose almost half of what came in, the   *)
(* fraction below a unit each time, and everyone's calls may refill a row. *)
(***************************************************************************)

\* The rule pays for a call in the patience of a source, with what rounding may lose.
Survivable(rule) ==
    rule.burst >= CallCost /\ Patience * rule.rate > (2 * rule.per - 1) * (CallCost - 1) + rule.per - 1

\* A bucket pays for a call, or has gained enough since its source asked.
Gained(rule, b, asked) ==
    b.level >= CallCost \/ (b.last - asked) * rule.rate <= (2 * rule.per - 1) * b.level
\* What came in since the last refill is less than a unit.
Drained(rule, b, now) == (now - b.last) * rule.rate < rule.per

\* A refill keeps what was gained: less than half of it is lost.
LEMMA RefillGains ==
    ASSUME NEW rule \in Rules, rule.burst >= CallCost, NEW b \in Bucket, NEW asked \in Nat,
           NEW now \in Nat, b.last <= now, Gained(rule, b, asked)
    PROVE  LET r == Refill(b, rule, now) IN
           Gained(rule, r, asked) /\ (r.level >= CallCost \/ Drained(rule, r, now))
<1> DEFINE a == (now - b.last) * rule.rate
           more == a \div rule.per
           level == Min({b.level + more, rule.burst})
<1>1. rule.rate \in Nat /\ rule.per \in Nat \ {0} /\ rule.burst \in Nat /\ CallCost \in Nat
  BY RuleTypes
<1>2. b.level \in Nat /\ b.last \in Nat
  BY DEF Bucket
<1>3. a \in Nat
  BY <1>1, <1>2
<1>4. more \in Nat /\ a <= (more + 1) * rule.per - 1
  <2>1. \A x \in Nat, p \in Nat \ {0} : x \div p \in Nat /\ x <= (x \div p + 1) * p - 1
    OBVIOUS
  <2> HIDE DEF a
  <2> QED
    BY <1>1, <1>3, <2>1
<1>5. more = 0 => a < rule.per
  <2>1. PICK x, p : x = a /\ p = rule.per
    OBVIOUS
  <2> HIDE DEF a
  <2>2. x \in Nat /\ p \in Nat \ {0} /\ (x \div p = 0 => x < p)
    BY <1>1, <1>3, <2>1
  <2> QED
    BY <2>1, <2>2
<1> HIDE DEF more
<1>6. level = b.level + more \/ level = rule.burst
  <2>1. PICK x, y : x = b.level + more /\ y = rule.burst
    OBVIOUS
  <2>2. x \in Int /\ y \in Int
    BY <1>1, <1>2, <1>4, <2>1
  <2>3. \E i \in {x, y} : \A j \in {x, y} : i <= j
    BY <2>2
  <2>4. Min({x, y}) \in {x, y}
    BY <2>3 DEF Min
  <2> QED
    BY <2>1, <2>4
<1>7. Refill(b, rule, now) = IF more > 0 THEN [level |-> level, last |-> now] ELSE b
  BY Zenon DEF Refill, more
<1> HIDE DEF level
<1>8. CASE more = 0
  <2>1. Refill(b, rule, now) = b
    BY <1>7, <1>8
  <2> QED
    BY <2>1, <1>5, <1>8 DEF Drained
<1>9. CASE more > 0
  <2>1. PICK r : r = Refill(b, rule, now)
    OBVIOUS
  <2>2. r.level = level /\ r.last = now
    BY <1>7, <1>9, <2>1
  <2>3. Drained(rule, r, now)
    BY <1>1, <2>2 DEF Drained
  <2>4. CASE level = rule.burst
    BY <2>1, <2>2, <2>3, <2>4 DEF Gained
  <2>5. CASE level = b.level + more
    <3>1. CASE b.level >= CallCost
      <4>1. r.level >= CallCost
        BY <1>1, <1>2, <1>4, <2>2, <2>5, <3>1
      <4> QED
        BY <4>1, <2>1, <2>3 DEF Gained
    <3>2. CASE (b.last - asked) * rule.rate <= (2 * rule.per - 1) * b.level
      <4>1. PICK l, t, p, x : l = b.level /\ t = rule.rate /\ p = rule.per /\ x = a
        OBVIOUS
      <4>2. PICK m, s, v : m = more /\ s = b.last /\ v = now
        OBVIOUS
      <4>3. /\ l \in Nat /\ t \in Nat /\ p \in Nat \ {0} /\ m \in Nat \ {0} /\ s \in Nat /\ v \in Nat
            /\ x = (v - s) * t /\ x <= (m + 1) * p - 1 /\ (s - asked) * t <= (2 * p - 1) * l
        BY <1>1, <1>2, <1>4, <1>9, <3>2, <4>1, <4>2
      <4>4. (v - asked) * t = (s - asked) * t + x
        BY <4>3
      <4>5. (2 * p - 1) * (l + m) = (2 * p - 1) * l + (2 * p - 1) * m
        BY <4>3
      <4>6. (m + 1) * p - 1 <= (2 * p - 1) * m
        <5>1. (p - 1) * (m - 1) >= 0
          BY <4>3
        <5>2. (p - 1) * (m - 1) = p * m - p - m + 1 /\ (m + 1) * p = p * m + p /\ (2 * p - 1) * m = p * m + p * m - m
          BY <4>3
        <5>3. p * m \in Int
          BY <4>3
        <5> QED
          BY <4>3, <5>1, <5>2, <5>3
      <4>7. /\ (2 * p - 1) * l \in Int /\ (2 * p - 1) * m \in Int /\ (s - asked) * t \in Int
            /\ x \in Int /\ (m + 1) * p - 1 \in Int
        BY <4>3
      <4>8. (s - asked) * t + x <= (2 * p - 1) * l + (2 * p - 1) * m
        BY <4>3, <4>6, <4>7
      <4>9. (v - asked) * t <= (2 * p - 1) * (l + m)
        BY <4>4, <4>5, <4>8
      <4> QED
        BY <2>1, <2>2, <2>3, <2>5, <4>1, <4>2, <4>9 DEF Gained
    <3> QED
      BY <3>1, <3>2 DEF Gained
  <2> QED
    BY <1>6, <2>4, <2>5
<1> QED
  BY <1>4, <1>8, <1>9

\* Once its source has waited, a refilled bucket pays for a call.
LEMMA WaitPays ==
    ASSUME NEW rule \in Rules, Survivable(rule), NEW b \in Bucket, NEW asked \in Nat, NEW now \in Nat,
           Gained(rule, b, asked), b.level >= CallCost \/ Drained(rule, b, now), now - asked >= Patience
    PROVE  b.level >= CallCost
<1> SUFFICES ASSUME ~(b.level >= CallCost) PROVE FALSE
  OBVIOUS
<1>1. PICK l, t, p, s, c, w : /\ l = b.level /\ t = rule.rate /\ p = rule.per
                              /\ s = b.last /\ c = CallCost /\ w = Patience
  OBVIOUS
<1>2. l \in Nat /\ t \in Nat /\ p \in Nat \ {0} /\ s \in Nat /\ c \in Nat /\ w \in Nat /\ l <= c - 1
  BY <1>1, RuleTypes, BudgetConstants DEF Bucket
<1>3. (s - asked) * t <= (2 * p - 1) * l /\ (now - s) * t < p
  BY <1>1 DEF Gained, Drained
<1>4. w * t > (2 * p - 1) * (c - 1) + p - 1 /\ now - asked >= w
  BY <1>1 DEF Survivable
<1>5. (2 * p - 1) * l <= (2 * p - 1) * (c - 1)
  BY <1>2
<1>6. (now - asked) * t = (now - s) * t + (s - asked) * t
  BY <1>2
<1>7. w * t <= (now - asked) * t
  BY <1>2, <1>4
<1>8. /\ (s - asked) * t \in Int /\ (2 * p - 1) * l \in Int /\ (2 * p - 1) * (c - 1) \in Int
      /\ (now - s) * t \in Int /\ (now - asked) * t \in Int /\ w * t \in Int
  BY <1>2
<1> QED
  BY <1>2, <1>3, <1>4, <1>5, <1>6, <1>7, <1>8

RowGained(row) == Gained(OwnRule, row.own, row.asked) /\ Gained(ReserveRule, row.reserve, row.asked)
RowDrained(row, now) ==
    /\ row.own.level >= CallCost \/ Drained(OwnRule, row.own, now)
    /\ row.reserve.level >= CallCost \/ Drained(ReserveRule, row.reserve, now)

\* What is assumed of the rules.
BothSurvivable == Survivable(OwnRule) /\ Survivable(ReserveRule)

LEMMA RefillRowGains ==
    ASSUME BothSurvivable, NEW row \in Row, NEW now \in Nat,
           row.own.last <= now, row.reserve.last <= now, RowGained(row)
    PROVE  LET r == RefillRow(row, now) IN
           RowGained(r) /\ RowDrained(r, now) /\ r.asked = row.asked
<1>1. PICK own, reserve, o, v :
        /\ own = row.own /\ reserve = row.reserve
        /\ o = Refill(own, OwnRule, now) /\ v = Refill(reserve, ReserveRule, now)
  OBVIOUS
<1>2. own \in Bucket /\ reserve \in Bucket /\ row.asked \in Nat /\ own.last <= now /\ reserve.last <= now
  BY <1>1 DEF Row
<1>3. Gained(OwnRule, own, row.asked) /\ Gained(ReserveRule, reserve, row.asked)
  BY <1>1 DEF RowGained
<1>4. OwnRule.burst >= CallCost /\ ReserveRule.burst >= CallCost
  BY DEF BothSurvivable, Survivable
<1>5. Gained(OwnRule, o, row.asked) /\ (o.level >= CallCost \/ Drained(OwnRule, o, now))
  BY <1>1, <1>2, <1>3, <1>4, RuleTypes, RefillGains
<1>6. Gained(ReserveRule, v, row.asked) /\ (v.level >= CallCost \/ Drained(ReserveRule, v, now))
  BY <1>1, <1>2, <1>3, <1>4, RuleTypes, RefillGains
<1>7. RefillRow(row, now) = [row EXCEPT !.own = o, !.reserve = v]
  BY <1>1 DEF RefillRow
<1>8. PICK r : r = [row EXCEPT !.own = o, !.reserve = v]
  OBVIOUS
<1>9. r.own = o /\ r.reserve = v /\ r.asked = row.asked
  BY <1>8 DEF Row
<1>10. RowGained(r) /\ RowDrained(r, now)
  BY <1>5, <1>6, <1>9, Zenon DEF RowGained, RowDrained
<1> QED
  BY <1>7, <1>8, <1>9, <1>10

\* A row starts with its buckets full.
LEMMA NewRowGains ==
    ASSUME BothSurvivable, NEW now \in Nat
    PROVE  RowGained(NewRow(now))
<1>1. NewRow(now).own.level = OwnRule.burst /\ NewRow(now).reserve.level = ReserveRule.burst
  BY DEF NewRow, FullBucket
<1> QED
  BY <1>1 DEF RowGained, Gained, BothSurvivable, Survivable

RowsGained(rows) == \A c \in DOMAIN rows : RowGained(rows[c])

\* Whatever row makes room, the others keep what they gained.
LEMMA TouchGains ==
    ASSUME BothSurvivable, mono \in Nat, RowsOK(budget.rows, mono), RowsGained(budget.rows),
           NEW s \in Client, NEW t \in touch(s)
    PROVE  /\ RowsGained(t)
           /\ s \in DOMAIN budget.rows => t[s] = RefillRow(budget.rows[s], mono) /\ RowDrained(t[s], mono)
                                          /\ t[s].asked = budget.rows[s].asked
<1>1. PICK rows, now, fresh, new :
        /\ rows = budget.rows /\ now = mono /\ new = NewRow(now)
        /\ fresh = [r \in DOMAIN rows |-> RefillRow(rows[r], now)]
  OBVIOUS
<1>2. now \in Nat /\ RowsOK(rows, now) /\ RowsGained(rows)
  BY <1>1
<1>3. \A c \in DOMAIN rows : LET r == RefillRow(rows[c], now) IN
                             RowGained(r) /\ RowDrained(r, now) /\ r.asked = rows[c].asked
  <2> TAKE c \in DOMAIN rows
  <2>1. PICK row : row = rows[c]
    OBVIOUS
  <2>2. row \in Row /\ row.own.last <= now /\ row.reserve.last <= now /\ RowGained(row)
    BY <1>2, <2>1 DEF RowsOK, RowsGained
  <2>3. LET r == RefillRow(row, now) IN RowGained(r) /\ RowDrained(r, now) /\ r.asked = row.asked
    BY <1>2, <2>2, RefillRowGains
  <2> QED
    BY <2>1, <2>3
<1>4. RowGained(new)
  BY <1>1, <1>2, NewRowGains
<1>5. CASE s \in DOMAIN rows
  <2>1. PICK r : r = RefillRow(rows[s], now)
    OBVIOUS
  <2>2. t = WithRow(rows, s, r)
    BY <1>1, <1>5, <2>1 DEF touch
  <2>3. DOMAIN t = DOMAIN rows /\ t[s] = r /\ \A c \in DOMAIN t \ {s} : t[c] = rows[c]
    BY <1>5, <2>2 DEF WithRow
  <2>4. RowGained(r) /\ RowDrained(r, now) /\ r.asked = rows[s].asked
    BY <1>3, <1>5, <2>1
  <2>5. RowsGained(t)
    BY <1>2, <2>3, <2>4, Zenon DEF RowsGained
  <2> QED
    BY <1>1, <2>1, <2>3, <2>4, <2>5
<1>6. CASE s \notin DOMAIN rows /\ Cardinality(DOMAIN rows) < RowCap
  <2>1. t = WithRow(rows, s, new)
    BY <1>1, <1>6 DEF touch
  <2>2. t[s] = new /\ \A c \in DOMAIN t \ {s} : c \in DOMAIN rows /\ t[c] = rows[c]
    BY <2>1 DEF WithRow
  <2> QED
    BY <1>1, <1>2, <1>4, <1>6, <2>2, Zenon DEF RowsGained
<1>7. CASE s \notin DOMAIN rows /\ ~(Cardinality(DOMAIN rows) < RowCap)
  <2>1. PICK v \in Victims(fresh) : t = WithRow(Restrict(fresh, DOMAIN fresh \ {v}), s, new)
    BY <1>1, <1>7 DEF touch
  <2>2. PICK cut : cut = Restrict(fresh, DOMAIN fresh \ {v})
    OBVIOUS
  <2>3. \A c \in DOMAIN cut : c \in DOMAIN rows /\ cut[c] = RefillRow(rows[c], now)
    BY <1>1, <2>2 DEF Restrict
  <2>4. t[s] = new /\ \A c \in DOMAIN t \ {s} : c \in DOMAIN cut /\ t[c] = cut[c]
    BY <2>1, <2>2 DEF WithRow
  <2>5. \A c \in DOMAIN t : RowGained(t[c])
    BY <1>3, <1>4, <2>3, <2>4, Zenon
  <2> QED
    BY <1>1, <1>7, <2>5 DEF RowsGained
<1> QED
  BY <1>5, <1>6, <1>7

\* A call changes the row of its source alone.
LEMMA SpendOthers ==
    ASSUME NEW s \in Client, NEW now \in Nat, NEW t \in Tables(s, now)
    PROVE  /\ DOMAIN Spend(t, s).rows = DOMAIN t.rows
           /\ \A c \in DOMAIN t.rows \ {s} : Spend(t, s).rows[c] = t.rows[c]
<1>1. PICK shared, rows : shared = t.shared /\ rows = t.rows
  OBVIOUS
<1>2. t = [shared |-> shared, rows |-> rows] /\ rows = [c \in DOMAIN rows |-> rows[c]]
  BY <1>1 DEF Tables, RowsOK
<1>3. \/ Spend(t, s).rows = [rows EXCEPT ![s].own.level = @ - CallCost]
      \/ Spend(t, s).rows = [rows EXCEPT ![s].reserve.level = @ - CallCost, ![s].own.level = @ - CallCost]
  BY <1>2 DEF Spend
<1> QED
  BY <1>1, <1>2, <1>3

\* A batch changes the row of its source alone; it gets a call if its row affords one.
LEMMA BatchServes ==
    ASSUME NEW s \in Client, NEW now \in Nat, NEW t \in Tables(s, now), NEW n \in Nat
    PROVE  LET done == SpendUpTo(t, s, n) IN
           /\ DOMAIN done.t.rows = DOMAIN t.rows
           /\ \A c \in DOMAIN t.rows \ {s} : done.t.rows[c] = t.rows[c]
           /\ Affords(t, s) /\ n # 0 => done.calls > 0
           /\ done.calls <= n
<1>1. PICK after : /\ Batch(after, t, s, n) /\ SpendUpTo(t, s, n) = after[n]
                   /\ \A i \in 0..n : after[i] \in [t : Tables(s, now), calls : Nat]
  BY SpendUpToIs
<1>2. \A i \in 0..n : after[i] =
        IF i = 0 THEN [t |-> t, calls |-> 0]
        ELSE IF after[i - 1].calls = i - 1 /\ Affords(after[i - 1].t, s)
             THEN [t |-> Spend(after[i - 1].t, s), calls |-> i]
             ELSE after[i - 1]
  BY <1>1 DEF Batch
<1> DEFINE Same(u) == DOMAIN u.rows = DOMAIN t.rows /\ \A c \in DOMAIN t.rows \ {s} : u.rows[c] = t.rows[c]
           Serves(i) == Affords(t, s) /\ i # 0 => after[i].calls > 0
           S == {i \in 0..n : Same(after[i].t) /\ Serves(i) /\ after[i].calls <= i}
           id == [i \in 0..n |-> i]
<1>3. 0 \in S /\ after[0] = [t |-> t, calls |-> 0]
  <2>1. 0 \in 0..n
    OBVIOUS
  <2>2. after[0] = [t |-> t, calls |-> 0]
    BY <1>2, <2>1, Zenon
  <2> QED
    BY <2>1, <2>2
<1>4. ASSUME NEW i \in 1..n, i - 1 \in S
      PROVE  i \in S
  <2>1. i \in 0..n /\ i # 0 /\ i - 1 \in 0..n
    OBVIOUS
  <2>2. PICK a, b : a = after[i - 1] /\ b = after[i]
    OBVIOUS
  <2>3. a.t \in Tables(s, now) /\ a.calls \in Nat
    BY <1>1, <2>1, <2>2
  <2>4. b = IF a.calls = i - 1 /\ Affords(a.t, s) THEN [t |-> Spend(a.t, s), calls |-> i] ELSE a
    BY <1>2, <2>1, <2>2
  <2>5. Same(a.t)
    BY <1>4, <2>2
  <2>6. Same(b.t)
    <3>1. CASE b = a
      BY <2>5, <3>1
    <3>2. CASE b = [t |-> Spend(a.t, s), calls |-> i]
      <4>1. PICK u : u = a.t
        OBVIOUS
      <4>2. /\ DOMAIN Spend(u, s).rows = DOMAIN u.rows
            /\ \A c \in DOMAIN u.rows \ {s} : Spend(u, s).rows[c] = u.rows[c]
        BY <2>3, <4>1, SpendOthers
      <4>3. Same(Spend(u, s))
        BY <2>5, <4>1, <4>2
      <4> QED
        BY <3>2, <4>1, <4>3
    <3> HIDE DEF Same
    <3> QED
      BY <2>4, <3>1, <3>2
  <2>7. Affords(t, s) => b.calls > 0
    <3> SUFFICES ASSUME Affords(t, s) PROVE b.calls > 0
      OBVIOUS
    <3>1. CASE i = 1
      <4>1. a = [t |-> t, calls |-> 0]
        BY <1>3, <2>2, <3>1
      <4> QED
        BY <2>4, <3>1, <4>1
    <3>2. CASE i # 1
      <4>1. a.calls > 0
        BY <1>4, <2>1, <2>2, <3>2
      <4> QED
        BY <2>4, <4>1
    <3> QED
      BY <3>1, <3>2
  <2>8. b.calls <= i
    <3>1. a.calls <= i - 1
      BY <1>4, <2>2
    <3> QED
      BY <2>3, <2>4, <3>1
  <2> HIDE DEF Same
  <2> QED
    BY <2>1, <2>2, <2>6, <2>7, <2>8
<1>5. \A i \in 0..n : i \in S
  <2> HIDE DEF S
  <2>1. id[0] \in S
    BY <1>3
  <2>2. \A i \in 1..n : id[i - 1] \in S => id[i] \in S
    <3> TAKE i \in 1..n
    <3>1. i - 1 \in 0..n /\ i \in 0..n
      OBVIOUS
    <3> QED
      BY <1>4, <3>1
  <2> HIDE DEF id
  <2>3. \A i \in 0..n : id[i] \in S
    BY <2>1, <2>2, IterationKeeps
  <2> QED
    BY <2>3 DEF id
<1>6. n \in S
  <2> HIDE DEF S
  <2> QED
    BY <1>5
<1> QED
  BY <1>1, <1>6

\* What the source of a batch finds, and what it leaves to the others.
LEMMA BatchGains ==
    ASSUME BothSurvivable, BudgetInv, RowsGained(budget.rows), NEW s \in Client, NEW rows \in touch(s),
           NEW n \in Nat \ {0}, NEW done, done = SpendUpTo([shared |-> SharedNow, rows |-> rows], s, n)
    PROVE  /\ \A c \in DOMAIN done.t.rows \ {s} : RowGained(done.t.rows[c])
           /\ s \in DOMAIN done.t.rows /\ done.t.rows \in [DOMAIN done.t.rows -> Row]
           /\ done.t.rows[s].own.last <= mono /\ done.t.rows[s].reserve.last <= mono
           /\ (s \in DOMAIN budget.rows /\ mono - budget.rows[s].asked >= Patience) => done.calls > 0
           /\ done.calls <= n
<1>1. PICK t, now : t = [shared |-> SharedNow, rows |-> rows] /\ now = mono
  OBVIOUS
<1>2. now \in Nat /\ mono \in Nat /\ RowsOK(budget.rows, mono)
  BY <1>1 DEF BudgetInv
<1>3. /\ RowsGained(rows)
      /\ s \in DOMAIN budget.rows => rows[s] = RefillRow(budget.rows[s], mono) /\ RowDrained(rows[s], mono)
                                     /\ rows[s].asked = budget.rows[s].asked
  BY <1>2, TouchGains
<1>4. RowsOK(rows, mono) /\ s \in DOMAIN rows
  BY <1>2, TouchKeeps
<1>5. SharedNow \in Bucket /\ SharedNow.last <= mono
  <2>1. PICK b : b = budget.shared
    OBVIOUS
  <2>2. b \in Bucket /\ b.last <= mono
    BY <2>1 DEF BudgetInv
  <2>3. Refill(b, SharedRule, mono) \in Bucket /\ Refill(b, SharedRule, mono).last <= mono
    BY <1>2, <2>2, RefillIs, RuleTypes
  <2> QED
    BY <2>1, <2>3 DEF SharedNow
<1>6. t \in Tables(s, now)
  <2>1. rows \in RowTables
    BY <1>4 DEF RowsOK, RowTables
  <2> QED
    BY <1>1, <1>4, <1>5, <2>1 DEF Tables
<1>7. /\ DOMAIN done.t.rows = DOMAIN rows
      /\ \A c \in DOMAIN rows \ {s} : done.t.rows[c] = rows[c]
      /\ Affords(t, s) => done.calls > 0
      /\ done.calls <= n
  <2>1. /\ DOMAIN done.t.rows = DOMAIN t.rows
        /\ \A c \in DOMAIN t.rows \ {s} : done.t.rows[c] = t.rows[c]
        /\ Affords(t, s) /\ n # 0 => done.calls > 0
        /\ done.calls <= n
    BY <1>1, <1>2, <1>6, BatchServes
  <2> QED
    BY <1>1, <2>1
<1>8. \A c \in DOMAIN done.t.rows \ {s} : RowGained(done.t.rows[c])
  BY <1>3, <1>7, Zenon DEF RowsGained
<1>9. done.t \in Tables(s, now)
  BY <1>1, <1>2, <1>6, SpendUpToIs
<1>10. /\ s \in DOMAIN done.t.rows /\ done.t.rows \in [DOMAIN done.t.rows -> Row]
       /\ done.t.rows[s].own.last <= mono /\ done.t.rows[s].reserve.last <= mono
  BY <1>1, <1>9 DEF Tables, RowsOK
<1>11. ASSUME s \in DOMAIN budget.rows, mono - budget.rows[s].asked >= Patience
       PROVE  done.calls > 0
  <2>1. PICK row : row = rows[s]
    OBVIOUS
  <2>2. row \in Row /\ RowGained(row) /\ RowDrained(row, now) /\ now - row.asked >= Patience
    <3>1. row \in Row
      BY <1>4, <2>1 DEF RowsOK
    <3>2. RowGained(row)
      BY <1>3, <1>4, <2>1 DEF RowsGained
    <3> QED
      BY <1>1, <1>3, <1>11, <2>1, <3>1, <3>2
  <2>3. PICK own, reserve, asked : own = row.own /\ reserve = row.reserve /\ asked = row.asked
    OBVIOUS
  <2>4. own \in Bucket /\ reserve \in Bucket /\ asked \in Nat /\ now - asked >= Patience
    BY <2>2, <2>3 DEF Row
  <2>5. /\ Gained(OwnRule, own, asked) /\ Gained(ReserveRule, reserve, asked)
        /\ own.level >= CallCost \/ Drained(OwnRule, own, now)
        /\ reserve.level >= CallCost \/ Drained(ReserveRule, reserve, now)
    BY <2>2, <2>3 DEF RowGained, RowDrained
  <2>6. Survivable(OwnRule) /\ Survivable(ReserveRule) /\ OwnRule \in Rules /\ ReserveRule \in Rules
    BY RuleTypes DEF BothSurvivable
  <2>7. own.level >= CallCost
    BY <1>2, <2>4, <2>5, <2>6, WaitPays
  <2>8. reserve.level >= CallCost
    BY <1>2, <2>4, <2>5, <2>6, WaitPays
  <2>9. Affords(t, s)
    BY <1>1, <2>1, <2>3, <2>7, <2>8 DEF Affords
  <2> QED
    BY <1>7, <2>9
<1> QED
  BY <1>7, <1>8, <1>10, <1>11

\* Who has just asked has gained what it has.
LEMMA AskedGains ==
    ASSUME NEW row \in Row, NEW now \in Nat, row.asked = now, row.own.last <= now, row.reserve.last <= now
    PROVE  RowGained(row)
<1>1. ASSUME NEW rule \in Rules, NEW b \in Bucket, b.last <= now
      PROVE  Gained(rule, b, now)
  <2>1. PICK l, t, p, d : l = b.level /\ t = rule.rate /\ p = rule.per /\ d = now - b.last
    OBVIOUS
  <2>2. l \in Nat /\ t \in Nat /\ p \in Nat \ {0} /\ d \in Nat /\ b.last - now = -d
    BY <1>1, <2>1, RuleTypes DEF Bucket
  <2>3. (-d) * t <= 0 /\ 0 <= (2 * p - 1) * l
    BY <2>2
  <2>4. (-d) * t \in Int /\ (2 * p - 1) * l \in Int
    BY <2>2
  <2>5. (-d) * t <= (2 * p - 1) * l
    BY <2>3, <2>4
  <2> QED
    BY <2>1, <2>2, <2>5 DEF Gained
<1>2. row.own \in Bucket /\ row.reserve \in Bucket
  BY DEF Row
<1> QED
  BY <1>1, <1>2, RuleTypes DEF RowGained

\* The rows after a request of s, whose row is of now.
LEMMA RequestGains ==
    ASSUME NEW rows, NEW s \in DOMAIN rows, NEW now \in Nat, NEW new,
           \A c \in DOMAIN rows \ {s} : RowGained(rows[c]),
           NEW row \in Row, row.asked = now, row.own.last <= now, row.reserve.last <= now,
           new = [rows EXCEPT ![s] = row]
    PROVE  RowsGained(new)
<1>1. RowGained(row)
  BY AskedGains
<1>2. \A c \in DOMAIN new : new[c] = IF c = s THEN row ELSE rows[c]
  OBVIOUS
<1> QED
  BY <1>1, <1>2 DEF RowsGained

\* All rows gained what they wait for, and none was refused that waited.
AllServed == RowsGained(budget.rows) /\ ~starved
PatientInv == BudgetInv /\ AllServed

LEMMA HeadersServe ==
    ASSUME BothSurvivable, PatientInv, NEW s \in Client, submit_headers_cost(s)
    PROVE  AllServed'
<1>1. PICK rows \in touch(s), want \in 1..CallsMax, forgiven \in BOOLEAN, bad \in BOOLEAN :
        \E done \in {SpendUpTo([shared |-> SharedNow, rows |-> rows], s, want)} :
          /\ bad => done.calls > 0
          /\ budget' = [budget EXCEPT !.shared = done.t.shared, !.rows =
                 [done.t.rows EXCEPT ![s].fails = (IF forgiven THEN 0 ELSE @) + (IF bad THEN 1 ELSE 0),
                                     ![s].parked = IF bad THEN 0 ELSE want - done.calls,
                                     ![s].asked = mono]]
          /\ budget'.rows[s].fails <= 1
          /\ Answer(s, done.calls > 0, done.calls)
  BY DEF submit_headers_cost
<1>2. PICK done :
          /\ done = SpendUpTo([shared |-> SharedNow, rows |-> rows], s, want)
          /\ budget' = [budget EXCEPT !.shared = done.t.shared, !.rows =
                 [done.t.rows EXCEPT ![s].fails = (IF forgiven THEN 0 ELSE @) + (IF bad THEN 1 ELSE 0),
                                     ![s].parked = IF bad THEN 0 ELSE want - done.calls,
                                     ![s].asked = mono]]
          /\ Answer(s, done.calls > 0, done.calls)
  BY <1>1
<1>3. PICK now, old, u : now = mono /\ old = done.t.rows[s] /\ u = done.t.rows
  OBVIOUS
<1>4. want \in Nat \ {0} /\ now \in Nat /\ BudgetInv /\ RowsGained(budget.rows)
  BY <1>3 DEF PatientInv, AllServed, BudgetInv
<1>5. /\ \A c \in DOMAIN u \ {s} : RowGained(u[c])
      /\ s \in DOMAIN u /\ u \in [DOMAIN u -> Row] /\ old.own.last <= now /\ old.reserve.last <= now
      /\ (s \in DOMAIN budget.rows /\ mono - budget.rows[s].asked >= Patience) => done.calls > 0
  BY <1>2, <1>3, <1>4, BatchGains
<1>6. done.calls \in Nat
  BY <1>2, <1>4, CallsArePaid
<1>7. PICK fails, parked : /\ fails = (IF forgiven THEN 0 ELSE old.fails) + (IF bad THEN 1 ELSE 0)
                           /\ parked = IF bad THEN 0 ELSE want - done.calls
  OBVIOUS
<1>8. old \in Row /\ u = [c \in DOMAIN u |-> u[c]]
  BY <1>3, <1>5
<1>9. fails \in Nat /\ parked \in Int
  BY <1>4, <1>6, <1>7, <1>8 DEF Row
<1>10. PICK row : row = [old EXCEPT !.fails = fails, !.parked = parked, !.asked = now]
  OBVIOUS
<1>11. row \in Row /\ row.own = old.own /\ row.reserve = old.reserve /\ row.asked = now
  BY <1>4, <1>8, <1>9, <1>10 DEF Row
<1>12. [u EXCEPT ![s].fails = (IF forgiven THEN 0 ELSE @) + (IF bad THEN 1 ELSE 0),
                 ![s].parked = IF bad THEN 0 ELSE want - done.calls,
                 ![s].asked = mono] = [u EXCEPT ![s] = row]
  BY <1>3, <1>5, <1>7, <1>8, <1>10
<1>13. budget' = [budget EXCEPT !.shared = done.t.shared, !.rows = [u EXCEPT ![s] = row]]
  BY <1>2, <1>3, <1>12, Zenon
<1>14. budget'.rows = [u EXCEPT ![s] = row]
  BY <1>4, <1>13 DEF BudgetInv
<1>15. RowsGained(budget'.rows)
  <2>1. PICK new : new = budget'.rows
    OBVIOUS
  <2>2. RowsGained(new)
    BY <1>4, <1>5, <1>11, <1>14, <2>1, RequestGains
  <2> QED
    BY <2>1, <2>2
<1>16. ~starved'
  BY <1>2, <1>5 DEF Answer
<1> QED
  BY <1>15, <1>16 DEF AllServed, RowsGained

LEMMA AdmitServes ==
    ASSUME BothSurvivable, PatientInv, NEW s \in Client, admit_tx(s)
    PROVE  AllServed'
<1>1. PICK rows \in touch(s) :
        \E done \in {SpendUpTo([shared |-> SharedNow, rows |-> rows], s, 1)} :
          /\ budget' = [budget EXCEPT !.shared = done.t.shared, !.rows = [done.t.rows EXCEPT ![s].asked = mono]]
          /\ Answer(s, done.calls = 1, done.calls)
  BY DEF admit_tx
<1>2. PICK done :
          /\ done = SpendUpTo([shared |-> SharedNow, rows |-> rows], s, 1)
          /\ budget' = [budget EXCEPT !.shared = done.t.shared, !.rows = [done.t.rows EXCEPT ![s].asked = mono]]
          /\ Answer(s, done.calls = 1, done.calls)
  BY <1>1
<1>3. PICK now, old, u : now = mono /\ old = done.t.rows[s] /\ u = done.t.rows
  OBVIOUS
<1>4. 1 \in Nat \ {0} /\ now \in Nat /\ BudgetInv /\ RowsGained(budget.rows)
  BY <1>3 DEF PatientInv, AllServed, BudgetInv
<1>5. /\ \A c \in DOMAIN u \ {s} : RowGained(u[c])
      /\ s \in DOMAIN u /\ u \in [DOMAIN u -> Row] /\ old.own.last <= now /\ old.reserve.last <= now
      /\ (s \in DOMAIN budget.rows /\ mono - budget.rows[s].asked >= Patience) => done.calls > 0
      /\ done.calls <= 1
  BY <1>2, <1>3, <1>4, BatchGains
<1>6. old \in Row /\ u = [c \in DOMAIN u |-> u[c]]
  BY <1>3, <1>5
<1>7. PICK row : row = [old EXCEPT !.asked = now]
  OBVIOUS
<1>8. row \in Row /\ row.own = old.own /\ row.reserve = old.reserve /\ row.asked = now
  BY <1>4, <1>6, <1>7 DEF Row
<1>9. [u EXCEPT ![s].asked = mono] = [u EXCEPT ![s] = row]
  BY <1>3, <1>5, <1>6, <1>7
<1>10. budget' = [budget EXCEPT !.shared = done.t.shared, !.rows = [u EXCEPT ![s] = row]]
  BY <1>2, <1>3, <1>9, Zenon
<1>11. budget'.rows = [u EXCEPT ![s] = row]
  BY <1>4, <1>10 DEF BudgetInv
<1>12. RowsGained(budget'.rows)
  <2>1. PICK new : new = budget'.rows
    OBVIOUS
  <2>2. RowsGained(new)
    BY <1>4, <1>5, <1>8, <1>11, <2>1, RequestGains
  <2> QED
    BY <2>1, <2>2
<1>13. done.calls \in Nat
  BY <1>2, <1>4, CallsArePaid
<1>14. ~starved'
  <2>1. starved' = (~(done.calls = 1) /\ s \in DOMAIN budget.rows /\ mono - budget.rows[s].asked >= Patience)
    BY <1>2 DEF Answer
  <2>2. done.calls > 0 => done.calls = 1
    BY <1>5, <1>13
  <2> QED
    BY <1>5, <2>1, <2>2
<1> QED
  BY <1>12, <1>14 DEF AllServed, RowsGained

\* Who is turned away for want of a row had none.
LEMMA RefusalServes ==
    ASSUME BothSurvivable, PatientInv, NEW s \in Client, TooManySources(s)
    PROVE  AllServed'
<1>1. PICK rows, now : rows = budget.rows /\ now = mono
  OBVIOUS
<1>2. now \in Nat /\ RowsOK(rows, now) /\ RowsGained(rows)
  BY <1>1 DEF PatientInv, AllServed, BudgetInv
<1>3. budget'.rows = [r \in DOMAIN rows |-> RefillRow(rows[r], now)]
  BY <1>1 DEF TooManySources, Refilled, PatientInv, AllServed, BudgetInv
<1>4. ASSUME NEW c \in DOMAIN rows PROVE RowGained(RefillRow(rows[c], now))
  <2>1. PICK row : row = rows[c]
    OBVIOUS
  <2>2. row \in Row /\ row.own.last <= now /\ row.reserve.last <= now /\ RowGained(row)
    BY <1>2, <2>1 DEF RowsOK, RowsGained
  <2> QED
    BY <1>2, <2>1, <2>2, RefillRowGains
<1>5. RowsGained(budget'.rows)
  BY <1>3, <1>4 DEF RowsGained
<1>6. s \notin DOMAIN budget.rows
  BY DEF TooManySources, touch
<1>7. ~starved'
  BY <1>6 DEF TooManySources, Answer
<1> QED
  BY <1>5, <1>7 DEF AllServed, RowsGained

\* Whoever asks, and whatever rows come and go, a source that has a row and waited as long as the
\* reserve takes to refill the cost of a call is served (spend_class_budget, Ingress::admit), if both
\* rates allow for what a refill may lose: class_reserve_is_survivable asks for half as much, and the
\* rates of ChainParams::default give far more.
THEOREM PatientAreServed ==
    ASSUME BothSurvivable
    PROVE  BudgetSpec => []PatientServed
<1>1. BudgetInit => PatientInv
  <2> SUFFICES ASSUME BudgetInit PROVE PatientInv
    OBVIOUS
  <2>1. BudgetInv
    BY BudgetStarts
  <2>2. budget.rows = <<>> /\ ~starved
    BY DEF BudgetInit
  <2> QED
    BY <2>1, <2>2 DEF PatientInv, AllServed, RowsGained
<1>2. PatientInv /\ [BudgetNext]_budgetVars => PatientInv'
  <2> SUFFICES ASSUME PatientInv, [BudgetNext]_budgetVars PROVE PatientInv'
    OBVIOUS
  <2>1. BudgetInv'
    BY BudgetKeeps DEF PatientInv
  <2>2. ASSUME NEW s \in Client, submit_headers_cost(s) PROVE AllServed'
    BY <2>2, HeadersServe
  <2>3. ASSUME NEW s \in Client, admit_tx(s) PROVE AllServed'
    BY <2>3, AdmitServes
  <2>4. ASSUME NEW s \in Client, TooManySources(s) PROVE AllServed'
    BY <2>4, RefusalServes
  <2>5. ASSUME MonoTick PROVE AllServed'
    BY <2>5 DEF MonoTick, PatientInv, AllServed, RowsGained
  <2>6. ASSUME UNCHANGED budgetVars PROVE AllServed'
    BY <2>6 DEF budgetVars, PatientInv, AllServed, RowsGained
  <2>7. AllServed'
    BY <2>2, <2>3, <2>4, <2>5, <2>6 DEF BudgetNext
  <2> QED
    BY <2>1, <2>7 DEF PatientInv
<1>3. PatientInv => PatientServed
  BY DEF PatientInv, AllServed, PatientServed
<1> QED
  BY <1>1, <1>2, <1>3, PTL DEF BudgetSpec

-----------------------------------------------------------------------------
(***************************************************************************)
(* The transaction relay.  Its id sets are sequences: the lemmas say what   *)
(* an insertion keeps, then what an Inv, a poll and a batch keep, each of    *)
(* them an iteration over its ids.                                         *)
(***************************************************************************)

\* No id is in a set of ids twice.
NoRepeats(s) == \A i, j \in 1..Len(s) : s[i] = s[j] => i = j

\* Such a sequence is as long as the set of its ids.
LEMMA LenIsCardinality ==
    ASSUME NEW T, NEW s \in Seq(T), NoRepeats(s)
    PROVE  IsFiniteSet(Range(s)) /\ Cardinality(Range(s)) = Len(s)
<1>1. DOMAIN s = 1..Len(s) /\ Len(s) \in Nat /\ Range(s) = {s[i] : i \in 1..Len(s)}
  BY DEF Range
<1>2. s \in Bijection(1..Len(s), Range(s))
  BY <1>1 DEF NoRepeats, Bijection, Injection, Surjection, IsInjective
<1>3. ExistsBijection(1..Len(s), Range(s))
  BY <1>2 DEF ExistsBijection
<1>4. IsFiniteSet(1..Len(s)) /\ Cardinality(1..Len(s)) = Len(s)
  BY <1>1, FS_Interval
<1> QED
  BY <1>3, <1>4, FS_Bijection

\* The set of the ids of a sequence is no larger than the sequence is long.
LEMMA RangeBounded ==
    ASSUME NEW T, NEW s \in Seq(T)
    PROVE  IsFiniteSet(Range(s)) /\ Cardinality(Range(s)) <= Len(s) /\ Range(s) \subseteq T
<1>1. DOMAIN s = 1..Len(s) /\ Len(s) \in Nat /\ Range(s) = {s[i] : i \in 1..Len(s)}
  BY DEF Range
<1>2. s \in Surjection(1..Len(s), Range(s))
  BY <1>1 DEF Surjection
<1>3. IsFiniteSet(1..Len(s)) /\ Cardinality(1..Len(s)) = Len(s)
  BY <1>1, FS_Interval
<1> QED
  BY <1>1, <1>2, <1>3, FS_Surjection

\* One id more at the end.
LEMMA AppendRange ==
    ASSUME NEW T, NEW s \in Seq(T), NEW t \in T
    PROVE  /\ Append(s, t) \in Seq(T) /\ Len(Append(s, t)) = Len(s) + 1
           /\ Range(Append(s, t)) = Range(s) \cup {t}
           /\ NoRepeats(s) /\ t \notin Range(s) => NoRepeats(Append(s, t))
<1> DEFINE n == Append(s, t)
<1>1. /\ n \in Seq(T) /\ Len(n) = Len(s) + 1 /\ Len(s) \in Nat /\ DOMAIN n = 1..Len(n)
      /\ n[Len(n)] = t /\ \A i \in 1..Len(s) : n[i] = s[i]
  OBVIOUS
<1>2. DOMAIN s = 1..Len(s)
  OBVIOUS
<1> HIDE DEF n
<1>3. Range(n) = Range(s) \cup {t}
  <2>1. \A x \in Range(n) : x \in Range(s) \cup {t}
    BY <1>1, <1>2 DEF Range
  <2>2. \A x \in Range(s) : x \in Range(n)
    BY <1>1, <1>2 DEF Range
  <2>3. t \in Range(n)
    BY <1>1 DEF Range
  <2> QED
    BY <2>1, <2>2, <2>3
<1>4. ASSUME NoRepeats(s), t \notin Range(s)
      PROVE  NoRepeats(n)
  <2>1. \A i \in 1..Len(s) : s[i] # t
    BY <1>2, <1>4 DEF Range
  <2> QED
    BY <1>1, <1>4, <2>1 DEF NoRepeats
<1> QED
  BY <1>1, <1>3, <1>4 DEF n

\* The oldest id gone.
LEMMA TailRange ==
    ASSUME NEW T, NEW s \in Seq(T), s # <<>>
    PROVE  /\ Tail(s) \in Seq(T) /\ Len(Tail(s)) = Len(s) - 1
           /\ Range(Tail(s)) \subseteq Range(s)
           /\ NoRepeats(s) => NoRepeats(Tail(s))
<1> DEFINE n == Tail(s)
<1>1. /\ n \in Seq(T) /\ Len(n) = Len(s) - 1 /\ Len(s) \in Nat \ {0} /\ DOMAIN n = 1..Len(n)
      /\ \A i \in 1..Len(n) : n[i] = s[i + 1] /\ i + 1 \in 1..Len(s)
      /\ DOMAIN s = 1..Len(s)
  OBVIOUS
<1> HIDE DEF n
<1>2. Range(n) \subseteq Range(s)
  BY <1>1 DEF Range
<1>3. ASSUME NoRepeats(s)
      PROVE  NoRepeats(n)
  <2>1. ASSUME NEW i \in 1..Len(n), NEW j \in 1..Len(n), n[i] = n[j]
        PROVE  i = j
    <3>1. s[i + 1] = s[j + 1] /\ i + 1 \in 1..Len(s) /\ j + 1 \in 1..Len(s)
      BY <1>1, <2>1
    <3>2. i + 1 = j + 1
      BY <1>3, <3>1 DEF NoRepeats
    <3> QED
      BY <3>2
  <2> QED
    BY <2>1 DEF NoRepeats
<1> QED
  BY <1>1, <1>2, <1>3 DEF n

\* An id set of at most cap ids after an insertion: it is one still, holds the
\* id, and has forgotten nothing while its ids and the new one fit.
LEMMA InsertIs ==
    ASSUME NEW s \in Seq(Tx), NEW t \in Tx, NEW cap \in Nat \ {0}, Len(s) <= cap
    PROVE  LET n == IdSetInsert(s, t, cap) IN
           /\ n \in Seq(Tx) /\ Len(n) <= cap
           /\ NoRepeats(s) => /\ NoRepeats(n)
                              /\ Cardinality(Range(s) \cup {t}) <= cap
                                   => Range(n) = Range(s) \cup {t}
<1> DEFINE n == IdSetInsert(s, t, cap)
           a == Append(s, t)
<1>1. CASE t \in Range(s)
  <2>1. n = s
    BY <1>1 DEF IdSetInsert
  <2> QED
    BY <1>1, <2>1
<1>2. CASE t \notin Range(s)
  <2>1. n = IF Len(a) > cap THEN Tail(a) ELSE a
    BY <1>2 DEF IdSetInsert
  <2>2. /\ a \in Seq(Tx) /\ Len(a) = Len(s) + 1 /\ Len(s) \in Nat
        /\ Range(a) = Range(s) \cup {t} /\ (NoRepeats(s) => NoRepeats(a))
    BY <1>2, AppendRange
  <2> HIDE DEF a, n
  <2>3. CASE Len(a) > cap
    <3>1. n = Tail(a) /\ a # <<>>
      BY <2>1, <2>2, <2>3
    <3>2. Len(n) = Len(a) - 1 /\ n \in Seq(Tx) /\ (NoRepeats(a) => NoRepeats(n))
      BY <2>2, <3>1, TailRange
    <3>3. ASSUME NoRepeats(s), Cardinality(Range(s) \cup {t}) <= cap
          PROVE  FALSE
      <4>1. Cardinality(Range(a)) = Len(a)
        BY <2>2, <3>3, LenIsCardinality
      <4> QED
        BY <2>2, <2>3, <3>3, <4>1
    <3> QED
      BY <2>2, <3>2, <3>3 DEF n
  <2>4. CASE ~(Len(a) > cap)
    <3>1. n = a
      BY <2>1, <2>4
    <3> QED
      BY <2>2, <2>4, <3>1 DEF n
  <2> QED
    BY <2>3, <2>4
<1> QED
  BY <1>1, <1>2

\* The relay's state.
Relays == [seen : Seq(Tx), known : [TxPeer -> Seq(Tx)], inflight : [Tx -> SUBSET TxPeer],
           pending : Seq(Tx)]

\* An id set of a peer.
KnownSets == {k \in Seq(Tx) : Len(k) <= KnownMax /\ NoRepeats(k)}

\* A small set of ids stays small without some of them.
LEMMA FewerIds ==
    ASSUME NEW S \in SUBSET Tx, NEW T \in SUBSET S, Cardinality(S) <= KnownMax
    PROVE  Cardinality(T) <= KnownMax
<1>1. IsFiniteSet(S) /\ IsFiniteSet(T)
  BY TxConstants, FS_Subset
<1>2. Cardinality(S) \in Nat /\ Cardinality(T) \in Nat /\ Cardinality(T) <= Cardinality(S)
  BY <1>1, FS_Subset, FS_CardinalityType
<1> QED
  BY <1>2, TxConstants

\* What the poll makes of the relay.
PollStates(r) ==
    {x \in Relays : /\ x.known = r.known /\ x.inflight = r.inflight
                    /\ Len(x.seen) <= SeenMax /\ Len(x.pending) <= QueueMax}

\* One id of the poll.
LEMMA PollIdIs ==
    ASSUME NEW r, NEW x \in PollStates(r), NEW t \in Tx
    PROVE  PollId(x, t) \in PollStates(r)
<1> DEFINE s == IdSetInsert(x.seen, t, SeenMax)
           y == [x EXCEPT !.seen = s]
           n == Append(x.pending, t)
<1>1. /\ x \in Relays /\ x.known = r.known /\ x.inflight = r.inflight
      /\ x.seen \in Seq(Tx) /\ x.pending \in Seq(Tx)
      /\ Len(x.seen) <= SeenMax /\ Len(x.pending) <= QueueMax
      /\ SeenMax \in Nat \ {0} /\ QueueMax \in Nat \ {0}
  BY TxConstants DEF PollStates, Relays
<1>2. s \in Seq(Tx) /\ Len(s) <= SeenMax
  BY <1>1, InsertIs
<1> HIDE DEF s
<1>3. y \in PollStates(r) /\ y.pending = x.pending
  BY <1>1, <1>2 DEF PollStates, Relays
<1>4. n \in Seq(Tx) /\ Len(n) = Len(x.pending) + 1 /\ Len(x.pending) \in Nat
  BY <1>1, AppendRange
<1> HIDE DEF y, n
<1>5. \A q \in Seq(Tx) : Len(q) <= QueueMax => [y EXCEPT !.pending = q] \in PollStates(r)
  BY <1>3 DEF PollStates, Relays
<1>6. queue_announce(y, t) \in PollStates(r)
  <2>1. CASE t \in Range(y.pending)
    BY <1>3, <2>1 DEF queue_announce
  <2>2. CASE t \notin Range(y.pending)
    <3>1. queue_announce(y, t) = [y EXCEPT !.pending = IF Len(n) > QueueMax THEN Tail(n) ELSE n]
      BY <1>3, <2>2 DEF queue_announce, n
    <3>2. CASE Len(n) > QueueMax
      <4>1. Tail(n) \in Seq(Tx) /\ Len(Tail(n)) = Len(n) - 1
        BY <1>1, <1>4, <3>2, TailRange
      <4>2. Len(Tail(n)) <= QueueMax
        BY <1>1, <1>4, <4>1
      <4> QED
        BY <1>5, <3>1, <3>2, <4>1, <4>2
    <3>3. CASE ~(Len(n) > QueueMax)
      BY <1>1, <1>4, <1>5, <3>1, <3>3
    <3> QED
      BY <3>2, <3>3
  <2> QED
    BY <2>1, <2>2
<1> QED
  BY <1>6 DEF PollId, s, y

\* The poll of all the ids, in turn.
LEMMA PolledIs ==
    ASSUME NEW r \in Relays, Len(r.seen) <= SeenMax, Len(r.pending) <= QueueMax,
           NEW ids \in Seq(Tx)
    PROVE  Polled(r, ids) \in PollStates(r)
<1> DEFINE n == Len(ids)
           X == PollStates(r)
           G == [a \in (1..n) \X X |-> PollId(a[2], ids[a[1]])]
           after[i \in 0..Len(ids)] == IF i = 0 THEN r ELSE PollId(after[i - 1], ids[i])
<1>1. n \in Nat /\ \A i \in 1..n : ids[i] \in Tx
  OBVIOUS
<1>2. r \in X
  BY DEF PollStates
<1>3. G \in [(1..n) \X X -> X]
  BY <1>1, PollIdIs
<1>4. PICK g : Iterates(g, n, X, r, G)
  <2> HIDE DEF X, G, n
  <2> QED
    BY <1>1, <1>2, <1>3, IterationExists
<1>5. g \in [0..n -> X] /\ g[0] = r /\ \A i \in 1..n : g[i] = G[<<i, g[i - 1]>>]
  <2> HIDE DEF X, G, n
  <2> QED
    BY <1>4, Zenon DEF Iterates
<1>6. \A i \in 1..n : g[i] = PollId(g[i - 1], ids[i])
  <2> HIDE DEF X
  <2> TAKE i \in 1..n
  <2>1. i - 1 \in 0..n /\ g[i - 1] \in X
    BY <1>5
  <2> QED
    BY <2>1, <1>5
<1>7. g = [i \in 0..Len(ids) |-> IF i = 0 THEN r ELSE PollId(g[i - 1], ids[i])]
  <2> HIDE DEF X, G
  <2>1. \A i \in 0..n : g[i] = IF i = 0 THEN r ELSE PollId(g[i - 1], ids[i])
    <3> TAKE i \in 0..n
    <3>1. CASE i = 0
      BY <1>5, <3>1
    <3>2. CASE i # 0
      <4>1. i \in 1..n
        BY <3>2
      <4> QED
        BY <4>1, <3>2, <1>6
    <3> QED
      BY <3>1, <3>2
  <2> QED
    BY <1>5, <2>1
<1>8. after = [i \in 0..Len(ids) |-> IF i = 0 THEN r ELSE PollId(after[i - 1], ids[i])]
  <2> HIDE DEF X, G
  <2> QED
    BY <1>7
<1> HIDE DEF after, G
<1>9. \A i \in 0..n : after[i] \in X
  <2>1. after[0] \in X
    BY <1>1, <1>2, <1>8
  <2>2. ASSUME NEW i \in 1..n, after[i - 1] \in X
        PROVE  after[i] \in X
    <3>1. i \in 0..n /\ i # 0 /\ ids[i] \in Tx
      BY <1>1
    <3>2. after[i] = PollId(after[i - 1], ids[i])
      BY <1>8, <3>1
    <3> QED
      BY <2>2, <3>1, <3>2, PollIdIs
  <2> HIDE DEF X, n
  <2> QED
    BY <1>1, <2>1, <2>2, IterationKeeps
<1>10. Polled(r, ids) = after[n]
  BY DEF Polled, after
<1> QED
  BY <1>1, <1>9, <1>10

\* The batch is taken from the front of the queue, and the rest is left.
LEMMA BatchIs ==
    ASSUME NEW r \in Relays, Len(r.pending) <= QueueMax
    PROVE  /\ TxBatch(r) \in Seq(Tx) /\ Range(TxBatch(r)) \subseteq Tx
           /\ SubSeq(r.pending, Len(TxBatch(r)) + 1, Len(r.pending)) \in Seq(Tx)
           /\ Len(SubSeq(r.pending, Len(TxBatch(r)) + 1, Len(r.pending))) <= QueueMax
<1> DEFINE m == IF Len(r.pending) < PerInv THEN Len(r.pending) ELSE PerInv
           q == r.pending
<1>1. /\ q \in Seq(Tx) /\ Len(q) \in Nat /\ PerInv \in Nat \ {0} /\ QueueMax \in Nat \ {0}
  BY TxConstants DEF Relays
<1>2. m \in 0..Len(q)
  BY <1>1
<1>3. TxBatch(r) = SubSeq(q, 1, m)
  BY DEF TxBatch
<1>4. Len(q) <= QueueMax
  OBVIOUS
<1> HIDE DEF m, q
<1>5. TxBatch(r) \in Seq(Tx) /\ Len(TxBatch(r)) = m
  BY <1>1, <1>2, <1>3
<1>6. SubSeq(q, m + 1, Len(q)) \in Seq(Tx) /\ Len(SubSeq(q, m + 1, Len(q))) = Len(q) - m
  BY <1>1, <1>2
<1>7. Range(TxBatch(r)) \subseteq Tx
  BY <1>5, RangeBounded
<1>8. Len(q) - m <= QueueMax
  BY <1>1, <1>2, <1>4
<1> QED
  BY <1>5, <1>6, <1>7, <1>8 DEF q

\* What a peer is known to know after a batch.
LEMMA NotedIs ==
    ASSUME NEW r \in Relays, Len(r.pending) <= QueueMax, NEW p \in TxPeer,
           r.known[p] \in KnownSets
    PROVE  /\ Noted(r, p) \in KnownSets
           /\ Cardinality(Range(r.known[p]) \cup Items(r, p)) <= KnownMax
                => Range(Noted(r, p)) = Range(r.known[p]) \cup Items(r, p)
<1> DEFINE batch == TxBatch(r)
           n == Len(batch)
           X == KnownSets
           Step(i, k) == IF batch[i] \in Items(r, p) THEN IdSetInsert(k, batch[i], KnownMax) ELSE k
           G == [a \in (1..n) \X X |-> Step(a[1], a[2])]
           after[i \in 0..Len(batch)] ==
              IF i = 0 THEN r.known[p]
              ELSE IF batch[i] \in Items(r, p) THEN IdSetInsert(after[i - 1], batch[i], KnownMax)
              ELSE after[i - 1]
<1>1. batch \in Seq(Tx) /\ n \in Nat /\ (\A i \in 1..n : batch[i] \in Tx)
      /\ KnownMax \in Nat \ {0} /\ Range(batch) = {batch[i] : i \in 1..n}
      /\ Range(batch) \subseteq Tx
  BY BatchIs, TxConstants DEF Range
<1> HIDE DEF batch
<1>2. ASSUME NEW k \in X, NEW i \in 1..n
      PROVE  Step(i, k) \in X
  <2>1. k \in Seq(Tx) /\ Len(k) <= KnownMax /\ NoRepeats(k) /\ batch[i] \in Tx
    BY <1>1 DEF KnownSets
  <2>2. IdSetInsert(k, batch[i], KnownMax) \in X
    BY <1>1, <2>1, InsertIs DEF KnownSets
  <2> QED
    BY <2>2
<1>3. G \in [(1..n) \X X -> X]
  <2> HIDE DEF X, Step, n
  <2> QED
    BY <1>2
<1>4. PICK g : Iterates(g, n, X, r.known[p], G)
  <2>1. PICK x : x = r.known[p]
    OBVIOUS
  <2>2. x \in X
    BY <2>1
  <2> HIDE DEF X, G, n
  <2>3. \E g : Iterates(g, n, X, x, G)
    BY <1>1, <2>2, <1>3, IterationExists
  <2> QED
    BY <2>1, <2>3
<1>5. g \in [0..n -> X] /\ g[0] = r.known[p] /\ \A i \in 1..n : g[i] = G[<<i, g[i - 1]>>]
  <2> HIDE DEF X, G, n
  <2> QED
    BY <1>4, Zenon DEF Iterates
<1>6. \A i \in 1..n : g[i] = Step(i, g[i - 1])
  <2> HIDE DEF X, Step
  <2> TAKE i \in 1..n
  <2>1. i - 1 \in 0..n /\ g[i - 1] \in X
    BY <1>1, <1>5
  <2> QED
    BY <2>1, <1>5
<1>7. g = [i \in 0..Len(batch) |->
              IF i = 0 THEN r.known[p]
              ELSE IF batch[i] \in Items(r, p) THEN IdSetInsert(g[i - 1], batch[i], KnownMax)
              ELSE g[i - 1]]
  <2> HIDE DEF X, G
  <2>1. \A i \in 0..n : g[i] =
              IF i = 0 THEN r.known[p]
              ELSE IF batch[i] \in Items(r, p) THEN IdSetInsert(g[i - 1], batch[i], KnownMax)
              ELSE g[i - 1]
    <3> TAKE i \in 0..n
    <3>1. CASE i = 0
      BY <1>5, <3>1
    <3>2. CASE i # 0
      <4>1. i \in 1..n
        BY <1>1, <3>2
      <4> QED
        BY <4>1, <3>2, <1>6
    <3> QED
      BY <3>1, <3>2
  <2> QED
    BY <1>5, <2>1
<1>8. after = [i \in 0..Len(batch) |->
              IF i = 0 THEN r.known[p]
              ELSE IF batch[i] \in Items(r, p) THEN IdSetInsert(after[i - 1], batch[i], KnownMax)
              ELSE after[i - 1]]
  <2> HIDE DEF X, G, Step
  <2> QED
    BY <1>7
<1> HIDE DEF after, G
<1>9. after[0] = r.known[p] /\ \A i \in 1..n : after[i] = Step(i, after[i - 1])
  <2>1. after[0] = r.known[p]
    <3>1. 0 \in 0..Len(batch)
      BY <1>1
    <3> QED
      BY <1>8, <3>1
  <2>2. \A i \in 1..n : after[i] = Step(i, after[i - 1])
    <3> TAKE i \in 1..n
    <3>1. i \in 0..Len(batch) /\ i # 0
      BY <1>1
    <3> QED
      BY <1>8, <3>1
  <2> QED
    BY <2>1, <2>2
<1>10. \A i \in 0..n : after[i] \in X
  <2>1. after[0] \in X /\ \A i \in 1..n : after[i - 1] \in X => after[i] \in X
    BY <1>2, <1>9
  <2> HIDE DEF X, n, Step
  <2> QED
    BY <1>1, <2>1, IterationKeeps
<1>11. Noted(r, p) = after[n]
  BY DEF Noted, after, batch
<1>12. ASSUME Cardinality(Range(r.known[p]) \cup Items(r, p)) <= KnownMax
       PROVE  Range(after[n]) = Range(r.known[p]) \cup Items(r, p)
  <2> DEFINE kept(i) == Range(r.known[p]) \cup {batch[j] : j \in 1..i}
             S == {i \in 0..n : Range(after[i]) = kept(i)}
  <2>1. 0 \in S
    BY <1>1, <1>9
  <2>2. Range(r.known[p]) \cup Items(r, p) = kept(n)
    BY <1>1 DEF Items, batch
  <2>3. kept(n) \subseteq Tx
    <3>1. Range(r.known[p]) \subseteq Tx
      BY RangeBounded DEF KnownSets
    <3> QED
      BY <1>1, <3>1
  <2>4. ASSUME NEW i \in 1..n, i - 1 \in S
        PROVE  i \in S
    <3>1. i \in 0..n /\ i - 1 \in 0..n /\ Range(after[i - 1]) = kept(i - 1)
          /\ 1..i = (1..(i - 1)) \cup {i}
      BY <1>1, <2>4
    <3>2. kept(i) = kept(i - 1) \cup {batch[i]}
      BY <3>1
    <3>3. kept(i) \subseteq kept(n)
      BY <1>1
    <3>4. Cardinality(kept(i)) <= KnownMax
      BY <1>12, <2>2, <2>3, <3>3, FewerIds
    <3>5. after[i - 1] \in Seq(Tx) /\ Len(after[i - 1]) <= KnownMax /\ NoRepeats(after[i - 1])
      BY <1>10, <3>1 DEF KnownSets
    <3>6. CASE batch[i] \in Items(r, p)
      <4>1. after[i] = IdSetInsert(after[i - 1], batch[i], KnownMax)
        BY <1>9, <3>6
      <4>2. Cardinality(Range(after[i - 1]) \cup {batch[i]}) <= KnownMax
        BY <3>1, <3>2, <3>4
      <4>3. Range(after[i]) = Range(after[i - 1]) \cup {batch[i]}
        BY <1>1, <3>5, <4>1, <4>2, InsertIs
      <4> QED
        BY <3>1, <3>2, <4>3
    <3>7. CASE batch[i] \notin Items(r, p)
      <4>1. after[i] = after[i - 1]
        BY <1>9, <3>7
      <4>2. batch[i] \in Range(r.known[p])
        BY <1>1, <3>7 DEF Items, batch
      <4> QED
        BY <3>1, <3>2, <4>1, <4>2
    <3> QED
      BY <3>6, <3>7
  <2>5. n \in S
    <3> HIDE DEF S, n
    <3>1. \A i \in 0..n : i \in S
      BY <1>1, <2>1, <2>4, UpTo
    <3> QED
      BY <1>1, <3>1
  <2> QED
    BY <2>2, <2>5
<1> QED
  BY <1>1, <1>10, <1>11, <1>12

\* What an Inv read so far has made of it: the peer's id set, and the ids wanted, which
\* nobody is asked for and for which there is room.
ReadStates(r, p) ==
    {w \in [known : KnownSets, want : Seq(Tx), full : BOOLEAN, read : SUBSET Tx] :
        /\ \A x \in Range(w.want) : r.inflight[x] = {}
        /\ w.want # <<>> => /\ Cardinality(AnyInflight(r)) < InflightMax
                            /\ Cardinality(Inflight(r, p)) + Len(w.want) <= InflightPerPeer
        /\ Cardinality(Range(r.known[p]) \cup w.read) <= KnownMax
              => Range(w.known) = Range(r.known[p]) \cup w.read}

\* Requests are counted by natural numbers.
LEMMA RequestsFinite ==
    ASSUME NEW r, NEW p
    PROVE  /\ IsFiniteSet(AnyInflight(r)) /\ Cardinality(AnyInflight(r)) \in Nat
           /\ IsFiniteSet(Inflight(r, p)) /\ Cardinality(Inflight(r, p)) \in Nat
<1>1. AnyInflight(r) \subseteq Tx /\ Inflight(r, p) \subseteq Tx
  BY DEF AnyInflight, Inflight
<1> QED
  BY <1>1, TxConstants, FS_Subset, FS_CardinalityType

\* The fields of what reading an id may make.
LEMMA ReadStateFields ==
    ASSUME NEW A, NEW B, NEW C, NEW D, NEW k \in A, NEW s \in D, NEW n \in B, NEW u \in C,
           NEW w \in [known : A, want : B, full : C, read : D]
    PROVE  /\ [w EXCEPT !.known = k, !.read = s] \in [known : A, want : B, full : C, read : D]
           /\ [w EXCEPT !.known = k, !.read = s].known = k
           /\ [w EXCEPT !.known = k, !.read = s].read = s
           /\ [w EXCEPT !.known = k, !.read = s].want = w.want
           /\ [w EXCEPT !.full = u] \in [known : A, want : B, full : C, read : D]
           /\ [w EXCEPT !.full = u].known = w.known /\ [w EXCEPT !.full = u].read = w.read
           /\ [w EXCEPT !.full = u].want = w.want
           /\ [w EXCEPT !.want = n] \in [known : A, want : B, full : C, read : D]
           /\ [w EXCEPT !.want = n].known = w.known /\ [w EXCEPT !.want = n].read = w.read
           /\ [w EXCEPT !.want = n].want = n
  OBVIOUS

\* Reading one id keeps all that.
LEMMA ReadIdIs ==
    ASSUME NEW r \in Relays, NEW p \in TxPeer, r.known[p] \in KnownSets,
           NEW w \in ReadStates(r, p), NEW t \in Tx
    PROVE  ReadId(r, p, w, t) \in ReadStates(r, p)
<1> DEFINE k == IdSetInsert(w.known, t, KnownMax)
           old == Range(r.known[p])
           noted == [w EXCEPT !.known = IdSetInsert(@, t, KnownMax), !.read = @ \cup {t}]
           n == Append(w.want, t)
<1>1. /\ w.known \in Seq(Tx) /\ Len(w.known) <= KnownMax /\ NoRepeats(w.known)
      /\ w.want \in Seq(Tx) /\ w.full \in BOOLEAN /\ w.read \in SUBSET Tx
      /\ w = [known |-> w.known, want |-> w.want, full |-> w.full, read |-> w.read]
      /\ \A x \in Range(w.want) : r.inflight[x] = {}
      /\ w.want # <<>> => /\ Cardinality(AnyInflight(r)) < InflightMax
                          /\ Cardinality(Inflight(r, p)) + Len(w.want) <= InflightPerPeer
      /\ Cardinality(old \cup w.read) <= KnownMax => Range(w.known) = old \cup w.read
  BY DEF ReadStates, KnownSets
<1>2. KnownMax \in Nat \ {0} /\ InflightMax \in Nat /\ InflightPerPeer \in Nat
  BY TxConstants
<1>3. k \in KnownSets /\ (Cardinality(Range(w.known) \cup {t}) <= KnownMax
                             => Range(k) = Range(w.known) \cup {t})
  BY <1>1, <1>2, InsertIs DEF KnownSets
<1>4. old \subseteq Tx
  BY RangeBounded DEF KnownSets
<1>5. ASSUME Cardinality(old \cup (w.read \cup {t})) <= KnownMax
      PROVE  Range(k) = old \cup (w.read \cup {t})
  <2>1. old \cup (w.read \cup {t}) \in SUBSET Tx
        /\ old \cup w.read \in SUBSET (old \cup (w.read \cup {t}))
    BY <1>1, <1>4
  <2>2. Cardinality(old \cup w.read) <= KnownMax
    BY <1>5, <2>1, FewerIds
  <2>3. Range(w.known) \cup {t} = old \cup (w.read \cup {t})
    BY <1>1, <2>2
  <2> QED
    BY <1>3, <1>5, <2>3
<1>6. n \in Seq(Tx) /\ Len(n) = Len(w.want) + 1 /\ Range(n) = Range(w.want) \cup {t}
  BY <1>1, AppendRange
<1>7. \A v \in [known : KnownSets, want : Seq(Tx), full : BOOLEAN, read : SUBSET Tx] :
         /\ v.known = k /\ v.read = w.read \cup {t}
         /\ \A x \in Range(v.want) : r.inflight[x] = {}
         /\ v.want # <<>> => /\ Cardinality(AnyInflight(r)) < InflightMax
                             /\ Cardinality(Inflight(r, p)) + Len(v.want) <= InflightPerPeer
         => v \in ReadStates(r, p)
  <2> HIDE DEF k
  <2> QED
    BY <1>5 DEF ReadStates
<1>8. /\ noted \in [known : KnownSets, want : Seq(Tx), full : BOOLEAN, read : SUBSET Tx]
      /\ noted.known = k /\ noted.read = w.read \cup {t} /\ noted.want = w.want
  <2>1. w \in [known : KnownSets, want : Seq(Tx), full : BOOLEAN, read : SUBSET Tx]
        /\ w.read \cup {t} \in SUBSET Tx
    BY <1>1 DEF ReadStates
  <2> HIDE DEF k
  <2>2. PICK x : x = w.read \cup {t}
    OBVIOUS
  <2>3. noted = [w EXCEPT !.known = k, !.read = x]
    BY <2>2 DEF k
  <2>4. x \in SUBSET Tx /\ k \in KnownSets
    BY <1>3, <2>1, <2>2
  <2>5. PICK v : v = [w EXCEPT !.known = k, !.read = x]
    OBVIOUS
  <2>6. /\ v \in [known : KnownSets, want : Seq(Tx), full : BOOLEAN, read : SUBSET Tx]
        /\ v.known = k /\ v.read = x /\ v.want = w.want
    BY <2>1, <2>4, <2>5
  <2>7. noted = v
    BY <2>3, <2>5
  <2> HIDE DEF noted
  <2> QED
    BY <2>2, <2>6, <2>7
<1> HIDE DEF k, n, noted
<1>9. CASE w.full
  <2>1. ReadId(r, p, w, t) = w
    BY <1>9, Zenon DEF ReadId
  <2> QED
    BY <2>1
<1>10. CASE ~w.full /\ (t \in Range(r.seen) \/ r.inflight[t] # {})
  <2>1. ReadId(r, p, w, t) = noted
    BY <1>10 DEF ReadId, noted
  <2> QED
    BY <1>1, <1>7, <1>8, <2>1
<1>11. CASE ~w.full /\ ~(t \in Range(r.seen) \/ r.inflight[t] # {}) /\ NoRoom(r, p, w.want)
  <2>1. PICK v : v = [noted EXCEPT !.full = TRUE]
    OBVIOUS
  <2>2. ReadId(r, p, w, t) = v
    BY <1>11, <2>1, Zenon DEF ReadId, noted
  <2>3. /\ v \in [known : KnownSets, want : Seq(Tx), full : BOOLEAN, read : SUBSET Tx]
        /\ v.known = noted.known /\ v.read = noted.read /\ v.want = noted.want
    BY <1>8, <2>1, ReadStateFields
  <2> QED
    BY <1>1, <1>7, <1>8, <2>2, <2>3
<1>12. CASE ~w.full /\ ~(t \in Range(r.seen) \/ r.inflight[t] # {}) /\ ~NoRoom(r, p, w.want)
  <2>1. PICK v : v = [noted EXCEPT !.want = Append(@, t)]
    OBVIOUS
  <2>2. ReadId(r, p, w, t) = v
    BY <1>12, <2>1, Zenon DEF ReadId, noted
  <2>3. /\ v \in [known : KnownSets, want : Seq(Tx), full : BOOLEAN, read : SUBSET Tx]
        /\ v.known = noted.known /\ v.read = noted.read /\ v.want = n
    <3>1. v = [noted EXCEPT !.want = n]
      BY <1>8, <2>1 DEF n
    <3> QED
      BY <1>6, <1>8, <3>1, ReadStateFields
  <2>4. /\ Cardinality(AnyInflight(r)) < InflightMax
        /\ Cardinality(Inflight(r, p)) + Len(n) <= InflightPerPeer
    <3>1. Cardinality(AnyInflight(r)) \in Nat /\ Cardinality(Inflight(r, p)) \in Nat
      BY RequestsFinite
    <3>2. Len(w.want) \in Nat
      BY <1>1
    <3> QED
      BY <1>2, <1>6, <1>12, <3>1, <3>2 DEF NoRoom, NoRoomForPeer
  <2>5. \A x \in Range(n) : r.inflight[x] = {}
    BY <1>1, <1>6, <1>12
  <2> QED
    BY <1>7, <1>8, <2>2, <2>3, <2>4, <2>5
<1> QED
  BY <1>1, <1>9, <1>10, <1>11, <1>12

\* What an Inv makes of the relay.
LEMMA WantedIs ==
    ASSUME NEW r \in Relays, NEW p \in TxPeer, r.known[p] \in KnownSets, NEW ids \in Seq(Tx)
    PROVE  Wanted(r, p, ids) \in ReadStates(r, p)
<1> DEFINE n == Len(ids)
           X == ReadStates(r, p)
           w0 == [known |-> r.known[p], want |-> <<>>, full |-> FALSE, read |-> {}]
           G == [a \in (1..n) \X X |-> ReadId(r, p, a[2], ids[a[1]])]
           after[i \in 0..Len(ids)] ==
              IF i = 0 THEN [known |-> r.known[p], want |-> <<>>, full |-> FALSE, read |-> {}]
              ELSE ReadId(r, p, after[i - 1], ids[i])
<1>1. n \in Nat /\ \A i \in 1..n : ids[i] \in Tx
  OBVIOUS
<1>2. w0 \in X
  <2>1. Range(<<>>) = {} /\ <<>> \in Seq(Tx)
    BY DEF Range
  <2>2. w0 \in [known : KnownSets, want : Seq(Tx), full : BOOLEAN, read : SUBSET Tx]
    BY <2>1
  <2> QED
    BY <2>1, <2>2 DEF ReadStates
<1> HIDE DEF w0
<1>3. G \in [(1..n) \X X -> X]
  <2>1. \A i \in 1..n, w \in X : ReadId(r, p, w, ids[i]) \in X
    BY <1>1, ReadIdIs
  <2> HIDE DEF X, n
  <2> QED
    BY <2>1
<1>4. PICK g : Iterates(g, n, X, w0, G)
  <2> HIDE DEF X, G, n
  <2> QED
    BY <1>1, <1>2, <1>3, IterationExists
<1>5. g \in [0..n -> X] /\ g[0] = w0 /\ \A i \in 1..n : g[i] = G[<<i, g[i - 1]>>]
  <2> HIDE DEF X, G, n
  <2> QED
    BY <1>4, Zenon DEF Iterates
<1>6. \A i \in 1..n : g[i] = ReadId(r, p, g[i - 1], ids[i])
  <2> HIDE DEF X
  <2> TAKE i \in 1..n
  <2>1. i - 1 \in 0..n /\ g[i - 1] \in X
    BY <1>1, <1>5
  <2> QED
    BY <2>1, <1>5
<1>7. g = [i \in 0..Len(ids) |-> IF i = 0 THEN w0 ELSE ReadId(r, p, g[i - 1], ids[i])]
  <2> HIDE DEF X, G
  <2>1. \A i \in 0..n : g[i] = IF i = 0 THEN w0 ELSE ReadId(r, p, g[i - 1], ids[i])
    <3> TAKE i \in 0..n
    <3>1. CASE i = 0
      BY <1>5, <3>1
    <3>2. CASE i # 0
      <4>1. i \in 1..n
        BY <1>1, <3>2
      <4> QED
        BY <4>1, <3>2, <1>6
    <3> QED
      BY <3>1, <3>2
  <2> QED
    BY <1>5, <2>1
<1>8. after = [i \in 0..Len(ids) |-> IF i = 0 THEN w0 ELSE ReadId(r, p, after[i - 1], ids[i])]
  <2> HIDE DEF X, G
  <2> QED
    BY <1>7 DEF w0
<1> HIDE DEF after, G
<1>9. after[0] = w0 /\ \A i \in 1..n : after[i] = ReadId(r, p, after[i - 1], ids[i])
  <2>1. after[0] = w0
    <3>1. 0 \in 0..Len(ids)
      BY <1>1
    <3> QED
      BY <1>8, <3>1
  <2>2. \A i \in 1..n : after[i] = ReadId(r, p, after[i - 1], ids[i])
    <3> TAKE i \in 1..n
    <3>1. i \in 0..Len(ids) /\ i # 0
      BY <1>1
    <3> QED
      BY <1>8, <3>1
  <2> QED
    BY <2>1, <2>2
<1>10. \A i \in 0..n : after[i] \in X
  <2>1. after[0] \in X
    BY <1>2, <1>9
  <2>2. \A i \in 1..n : after[i - 1] \in X => after[i] \in X
    BY <1>1, <1>9, ReadIdIs
  <2> HIDE DEF X, n
  <2> QED
    BY <1>1, <2>1, <2>2, IterationKeeps
<1>11. Wanted(r, p, ids) = after[n]
  BY DEF Wanted, after
<1> QED
  BY <1>1, <1>10, <1>11

\* What RequestsBounded says, of any relay.
RequestsWithin(r) ==
    /\ \A p \in TxPeer : Cardinality(Inflight(r, p)) <= InflightPerPeer
    /\ Cardinality(AnyInflight(r)) <= InflightMax + InflightPerPeer - 1

\* The relay's state alone: nobody is asked twice, and nothing is above its cap.
WithinCaps(r) ==
    /\ r \in Relays /\ Len(r.seen) <= SeenMax /\ Len(r.pending) <= QueueMax
    /\ \A p \in TxPeer : r.known[p] \in KnownSets
    /\ \A t \in Tx : \A p, q \in r.inflight[t] : p = q
    /\ RequestsWithin(r)

\* What a connection spoke of is what its id set holds, while the connection
\* lasts and the set has dropped nothing.
Remembered(k, h) == Cardinality(h) <= KnownMax => h = Range(k)
Remembers(r) ==
    \A p \in TxPeer :
        /\ link[p] = "new" => told[p] = {} /\ r.known[p] = <<>>
        /\ link[p] # "gone" => Remembered(r.known[p], told[p])

\* The inductive invariant of the relay.
RelayInv ==
    /\ WithinCaps(relay) /\ Remembers(relay)
    /\ link \in [TxPeer -> {"new", "ready", "gone"}] /\ told \in [TxPeer -> SUBSET Tx]

\* The relay without its fairness.
RelaySpec == RelayInit /\ [][RelayNext]_relayVars

\* Requests that end leave the others within their bounds.
LEMMA FewerRequests ==
    ASSUME NEW r, WithinCaps(r), NEW x \in Relays,
           \A t \in Tx : x.inflight[t] \subseteq r.inflight[t]
    PROVE  RequestsWithin(x) /\ \A t \in Tx : \A p, q \in x.inflight[t] : p = q
<1>1. \A t \in Tx : \A p, q \in r.inflight[t] : p = q
  BY DEF WithinCaps
<1>2. \A p \in TxPeer : Inflight(x, p) \subseteq Inflight(r, p)
  <2>1. ASSUME NEW p \in TxPeer, NEW t \in Inflight(x, p)
        PROVE  t \in Inflight(r, p)
    <3>1. t \in Tx /\ x.inflight[t] = {p}
      BY <2>1 DEF Inflight
    <3>2. p \in r.inflight[t]
      BY <3>1
    <3>3. r.inflight[t] = {p}
      BY <1>1, <3>1, <3>2
    <3> QED
      BY <3>1, <3>3 DEF Inflight
  <2> QED
    BY <2>1
<1>3. AnyInflight(x) \subseteq AnyInflight(r)
  BY DEF AnyInflight
<1>4. \A p \in TxPeer : Cardinality(Inflight(x, p)) <= Cardinality(Inflight(r, p))
                        /\ Cardinality(Inflight(x, p)) \in Nat
                        /\ Cardinality(Inflight(r, p)) \in Nat
  BY <1>2, RequestsFinite, FS_Subset
<1>5. Cardinality(AnyInflight(x)) <= Cardinality(AnyInflight(r))
      /\ Cardinality(AnyInflight(x)) \in Nat /\ Cardinality(AnyInflight(r)) \in Nat
  BY <1>3, RequestsFinite, FS_Subset
<1>6. \A p \in TxPeer : Cardinality(Inflight(r, p)) <= InflightPerPeer
  BY DEF WithinCaps, RequestsWithin
<1>7. Cardinality(AnyInflight(r)) <= InflightMax + InflightPerPeer - 1
  BY DEF WithinCaps, RequestsWithin
<1>8. InflightMax \in Nat \ {0} /\ InflightPerPeer \in Nat \ {0}
  BY TxConstants
<1>9. \A p \in TxPeer : Cardinality(Inflight(x, p)) <= InflightPerPeer
  BY <1>4, <1>6, <1>8
<1>10. Cardinality(AnyInflight(x)) <= InflightMax + InflightPerPeer - 1
  BY <1>5, <1>7, <1>8
<1>11. \A t \in Tx : \A p, q \in x.inflight[t] : p = q
  BY <1>1
<1> QED
  BY <1>9, <1>10, <1>11 DEF RequestsWithin

\* An Inv leaves the relay within its caps, and what it read is known of the peer.
LEMMA AnnouncedIs ==
    ASSUME NEW r, WithinCaps(r), NEW p \in TxPeer, NEW ids \in Seq(Tx)
    PROVE  /\ WithinCaps(on_announced(r, p, ids))
           /\ Wanted(r, p, ids).read \in SUBSET Tx
           /\ \A q \in TxPeer \ {p} : on_announced(r, p, ids).known[q] = r.known[q]
           /\ LET read == Wanted(r, p, ids).read IN
              Cardinality(Range(r.known[p]) \cup read) <= KnownMax
                 => Range(on_announced(r, p, ids).known[p]) = Range(r.known[p]) \cup read
<1>1. PICK w : w = Wanted(r, p, ids)
  OBVIOUS
<1>2. r \in Relays /\ (\A q \in TxPeer : r.known[q] \in KnownSets)
      /\ Len(r.seen) <= SeenMax /\ Len(r.pending) <= QueueMax
      /\ \A t \in Tx : \A a, b \in r.inflight[t] : a = b
  BY DEF WithinCaps
<1>3. w \in ReadStates(r, p)
  BY <1>1, <1>2, WantedIs
<1>4. /\ w.known \in KnownSets /\ w.want \in Seq(Tx) /\ w.read \in SUBSET Tx
      /\ \A x \in Range(w.want) : r.inflight[x] = {}
      /\ w.want # <<>> => /\ Cardinality(AnyInflight(r)) < InflightMax
                          /\ Cardinality(Inflight(r, p)) + Len(w.want) <= InflightPerPeer
      /\ Cardinality(Range(r.known[p]) \cup w.read) <= KnownMax
            => Range(w.known) = Range(r.known[p]) \cup w.read
  BY <1>3 DEF ReadStates
<1> DEFINE f == [t \in Tx |-> IF t \in Range(w.want) THEN {p} ELSE r.inflight[t]]
<1>5. on_announced(r, p, ids) = [r EXCEPT !.known[p] = w.known, !.inflight = f]
  BY <1>1 DEF on_announced
<1>6. PICK x : x = on_announced(r, p, ids)
  OBVIOUS
<1>7. f \in [Tx -> SUBSET TxPeer]
  BY <1>2 DEF Relays
<1>8. /\ x \in Relays /\ x.seen = r.seen /\ x.pending = r.pending
      /\ x.known[p] = w.known /\ x.inflight = f
      /\ \A q \in TxPeer \ {p} : x.known[q] = r.known[q]
  <2>1. w.known \in Seq(Tx)
    BY <1>4 DEF KnownSets
  <2> HIDE DEF f
  <2>2. PICK k : k = w.known
    OBVIOUS
  <2>3. r \in [seen : Seq(Tx), known : [TxPeer -> Seq(Tx)], inflight : [Tx -> SUBSET TxPeer],
               pending : Seq(Tx)]
    BY <1>2 DEF Relays
  <2>4. x = [r EXCEPT !.known[p] = k, !.inflight = f] /\ k \in Seq(Tx)
    BY <1>5, <1>6, <2>1, <2>2
  <2>5. x \in [seen : Seq(Tx), known : [TxPeer -> Seq(Tx)], inflight : [Tx -> SUBSET TxPeer],
               pending : Seq(Tx)]
    BY <1>7, <2>3, <2>4
  <2>6. x.seen = r.seen /\ x.pending = r.pending /\ x.inflight = f
    BY <2>3, <2>4
  <2>7. x.known[p] = k /\ \A q \in TxPeer \ {p} : x.known[q] = r.known[q]
    BY <2>3, <2>4
  <2> QED
    BY <2>2, <2>5, <2>6, <2>7 DEF Relays
<1>9. \A t \in Tx : x.inflight[t] = IF t \in Range(w.want) THEN {p} ELSE r.inflight[t]
  BY <1>8
<1>10. \A q \in TxPeer : x.known[q] \in KnownSets
  BY <1>2, <1>4, <1>8
<1>11. \A t \in Tx : \A a, b \in x.inflight[t] : a = b
  BY <1>2, <1>9
<1>12. IsFiniteSet(Range(w.want)) /\ Cardinality(Range(w.want)) <= Len(w.want)
       /\ Range(w.want) \subseteq Tx /\ Len(w.want) \in Nat
       /\ Cardinality(Range(w.want)) \in Nat
  BY <1>4, RangeBounded, FS_CardinalityType
<1>13. RequestsWithin(x)
  <2>1. CASE w.want = <<>>
    <3>1. Range(w.want) = {}
      BY <2>1 DEF Range
    <3>2. \A t \in Tx : x.inflight[t] \subseteq r.inflight[t]
      BY <1>9, <3>1
    <3> QED
      BY <1>8, <3>2, FewerRequests
  <2>2. CASE w.want # <<>>
    <3>1. AnyInflight(x) = AnyInflight(r) \cup Range(w.want)
      BY <1>9, <1>12 DEF AnyInflight
    <3>2. Inflight(x, p) \subseteq Inflight(r, p) \cup Range(w.want)
      BY <1>9, <1>12 DEF Inflight
    <3>3. \A q \in TxPeer \ {p} : Inflight(x, q) \subseteq Inflight(r, q)
      <4>1. ASSUME NEW q \in TxPeer \ {p}, NEW t \in Inflight(x, q)
            PROVE  t \in Inflight(r, q)
        <5>1. t \in Tx /\ x.inflight[t] = {q}
          BY <4>1 DEF Inflight
        <5>2. t \notin Range(w.want)
          BY <1>9, <5>1
        <5> QED
          BY <1>9, <5>1, <5>2 DEF Inflight
      <4> QED
        BY <4>1
    <3>4. /\ InflightMax \in Nat \ {0} /\ InflightPerPeer \in Nat \ {0}
          /\ Cardinality(AnyInflight(r)) < InflightMax
          /\ Cardinality(Inflight(r, p)) + Len(w.want) <= InflightPerPeer
      BY <1>4, <2>2, TxConstants
    <3>5. /\ Cardinality(AnyInflight(r) \cup Range(w.want))
               <= Cardinality(AnyInflight(r)) + Cardinality(Range(w.want))
          /\ IsFiniteSet(Inflight(r, p) \cup Range(w.want))
          /\ Cardinality(Inflight(r, p) \cup Range(w.want))
               <= Cardinality(Inflight(r, p)) + Cardinality(Range(w.want))
      <4>1. \A S, T : IsFiniteSet(S) /\ IsFiniteSet(T) =>
                /\ IsFiniteSet(S \cup T)
                /\ Cardinality(S \cup T) <= Cardinality(S) + Cardinality(T)
        <5>1. ASSUME NEW S, NEW T, IsFiniteSet(S), IsFiniteSet(T)
              PROVE  /\ IsFiniteSet(S \cup T)
                     /\ Cardinality(S \cup T) <= Cardinality(S) + Cardinality(T)
          <6>1. IsFiniteSet(S \cup T) /\ IsFiniteSet(S \cap T)
                /\ Cardinality(S \cup T)
                     = Cardinality(S) + Cardinality(T) - Cardinality(S \cap T)
            BY <5>1, FS_Union, FS_Subset
          <6>2. Cardinality(S \cap T) \in Nat /\ Cardinality(S) \in Nat /\ Cardinality(T) \in Nat
            BY <5>1, <6>1, FS_CardinalityType
          <6> QED
            BY <6>1, <6>2
        <5> QED
          BY <5>1
      <4> QED
        BY <1>12, <4>1, RequestsFinite
    <3>6. Cardinality(AnyInflight(r)) \in Nat /\ Cardinality(Inflight(r, p)) \in Nat
          /\ Cardinality(AnyInflight(x)) \in Nat /\ Cardinality(Inflight(x, p)) \in Nat
      BY RequestsFinite
    <3>7. Cardinality(AnyInflight(x)) <= InflightMax + InflightPerPeer - 1
      <4>1. Cardinality(Range(w.want)) <= InflightPerPeer
        BY <1>12, <3>4, <3>6
      <4>2. Cardinality(AnyInflight(x))
              <= Cardinality(AnyInflight(r)) + Cardinality(Range(w.want))
        BY <3>1, <3>5
      <4> QED
        BY <1>12, <3>4, <3>6, <4>1, <4>2
    <3>8. Cardinality(Inflight(x, p)) <= InflightPerPeer
      <4>1. Cardinality(Inflight(x, p)) <= Cardinality(Inflight(r, p) \cup Range(w.want))
            /\ Cardinality(Inflight(r, p) \cup Range(w.want)) \in Nat
        BY <3>2, <3>5, FS_Subset, FS_CardinalityType
      <4> QED
        BY <1>12, <3>4, <3>5, <3>6, <4>1
    <3>9. \A q \in TxPeer \ {p} : Cardinality(Inflight(x, q)) <= InflightPerPeer
      <4> TAKE q \in TxPeer \ {p}
      <4>1. Cardinality(Inflight(x, q)) <= Cardinality(Inflight(r, q))
            /\ Cardinality(Inflight(x, q)) \in Nat /\ Cardinality(Inflight(r, q)) \in Nat
        BY <3>3, RequestsFinite, FS_Subset
      <4>2. Cardinality(Inflight(r, q)) <= InflightPerPeer
        BY DEF WithinCaps, RequestsWithin
      <4> QED
        BY <3>4, <4>1, <4>2
    <3> QED
      BY <3>7, <3>8, <3>9 DEF RequestsWithin
  <2> QED
    BY <2>1, <2>2
<1>14. WithinCaps(x)
  BY <1>2, <1>8, <1>10, <1>11, <1>13 DEF WithinCaps
<1> QED
  BY <1>1, <1>4, <1>6, <1>8, <1>14

\* What is spoken of is counted exactly while it is small.
LEMMA SpokenIs ==
    ASSUME NEW ts \in SUBSET Tx
    PROVE  /\ Spoken(ts) \in SUBSET Tx
           /\ Cardinality(Spoken(ts)) <= KnownMax => Spoken(ts) = ts /\ Cardinality(ts) <= KnownMax
<1>1. CASE Cardinality(ts) > KnownMax
  <2>1. Spoken(ts) = Tx
    BY <1>1 DEF Spoken
  <2>2. Cardinality(Tx) <= KnownMax => Cardinality(ts) <= KnownMax
    BY FewerIds
  <2>3. IsFiniteSet(ts) /\ Cardinality(ts) \in Nat /\ KnownMax \in Nat
    BY TxConstants, FS_Subset, FS_CardinalityType
  <2> QED
    BY <1>1, <2>1, <2>2, <2>3
<1>2. CASE ~(Cardinality(ts) > KnownMax)
  <2>1. Spoken(ts) = ts
    BY <1>2 DEF Spoken
  <2>2. IsFiniteSet(ts) /\ Cardinality(ts) \in Nat /\ KnownMax \in Nat
    BY TxConstants, FS_Subset, FS_CardinalityType
  <2> QED
    BY <1>2, <2>1, <2>2
<1> QED
  BY <1>1, <1>2

\* An id set that takes what was spoken of remembers it with the rest.
LEMMA StillRemembered ==
    ASSUME NEW k \in KnownSets, NEW n, NEW h \in SUBSET Tx, NEW ts \in SUBSET Tx,
           Remembered(k, h),
           Cardinality(Range(k) \cup ts) <= KnownMax => Range(n) = Range(k) \cup ts
    PROVE  Spoken(h \cup ts) \in SUBSET Tx /\ Remembered(n, Spoken(h \cup ts))
<1>1. h \cup ts \in SUBSET Tx /\ h \in SUBSET (h \cup ts)
  OBVIOUS
<1>2. PICK u : u = h \cup ts
  OBVIOUS
<1>3. Spoken(u) \in SUBSET Tx
      /\ (Cardinality(Spoken(u)) <= KnownMax => Spoken(u) = u /\ Cardinality(u) <= KnownMax)
  BY <1>1, <1>2, SpokenIs
<1>4. ASSUME Cardinality(Spoken(u)) <= KnownMax
      PROVE  Spoken(u) = Range(n)
  <2>1. Cardinality(h) <= KnownMax
    BY <1>1, <1>2, <1>3, <1>4, FewerIds
  <2>2. h = Range(k)
    BY <2>1 DEF Remembered
  <2> QED
    BY <1>2, <1>3, <1>4, <2>2
<1> QED
  BY <1>2, <1>3, <1>4 DEF Remembered

\* A relay whose sets are within their caps and whose requests are some of those
\* of a relay within its caps is within its own.
LEMMA StillWithin ==
    ASSUME NEW r, WithinCaps(r), NEW x \in Relays, Len(x.seen) <= SeenMax,
           Len(x.pending) <= QueueMax, \A p \in TxPeer : x.known[p] \in KnownSets,
           \A t \in Tx : x.inflight[t] \subseteq r.inflight[t]
    PROVE  WithinCaps(x)
  BY FewerRequests DEF WithinCaps

\* One id noted of a peer.
LEMMA NoteKnownIs ==
    ASSUME NEW r, WithinCaps(r), NEW p \in TxPeer, NEW t \in Tx
    PROVE  /\ WithinCaps(note_known(r, p, t))
           /\ \A q \in TxPeer \ {p} : note_known(r, p, t).known[q] = r.known[q]
           /\ Cardinality(Range(r.known[p]) \cup {t}) <= KnownMax
                 => Range(note_known(r, p, t).known[p]) = Range(r.known[p]) \cup {t}
           /\ note_known(r, p, t).inflight = r.inflight
<1>1. PICK x, k : x = note_known(r, p, t) /\ k = IdSetInsert(r.known[p], t, KnownMax)
  OBVIOUS
<1>2. r \in Relays /\ (\A q \in TxPeer : r.known[q] \in KnownSets)
      /\ Len(r.seen) <= SeenMax /\ Len(r.pending) <= QueueMax
  BY DEF WithinCaps
<1>3. k \in KnownSets /\ k \in Seq(Tx)
      /\ (Cardinality(Range(r.known[p]) \cup {t}) <= KnownMax
             => Range(k) = Range(r.known[p]) \cup {t})
  BY <1>1, <1>2, InsertIs, TxConstants DEF KnownSets
<1>4. x = [r EXCEPT !.known[p] = k]
  BY <1>1 DEF note_known
<1>5. /\ x \in Relays /\ x.seen = r.seen /\ x.pending = r.pending /\ x.inflight = r.inflight
      /\ x.known[p] = k /\ \A q \in TxPeer \ {p} : x.known[q] = r.known[q]
  BY <1>2, <1>3, <1>4 DEF Relays
<1>6. \A q \in TxPeer : x.known[q] \in KnownSets
  BY <1>2, <1>3, <1>5
<1>7. WithinCaps(x)
  BY <1>2, <1>5, <1>6, StillWithin
<1> QED
  BY <1>1, <1>3, <1>5, <1>7

\* A body, the sink's answer included, leaves the relay within its caps.
LEMMA BodyIs ==
    ASSUME NEW r, WithinCaps(r), NEW t \in Tx, NEW x,
           LET asked == [r EXCEPT !.inflight[t] = {}]
               once == [asked EXCEPT !.seen = IdSetInsert(@, t, SeenMax)]
           IN  x = asked \/ x = once \/ x = queue_announce(once, t)
    PROVE  WithinCaps(x) /\ x.known = r.known
<1> DEFINE asked == [r EXCEPT !.inflight[t] = {}]
           once == [asked EXCEPT !.seen = IdSetInsert(@, t, SeenMax)]
<1>1. /\ r \in Relays /\ (\A q \in TxPeer : r.known[q] \in KnownSets)
      /\ Len(r.seen) <= SeenMax /\ Len(r.pending) <= QueueMax
      /\ SeenMax \in Nat \ {0} /\ QueueMax \in Nat \ {0}
  BY TxConstants DEF WithinCaps
<1>2. PICK a, s : a = asked /\ s = IdSetInsert(a.seen, t, SeenMax)
  OBVIOUS
<1>3. /\ a \in Relays /\ a.seen = r.seen /\ a.pending = r.pending /\ a.known = r.known
      /\ \A u \in Tx : a.inflight[u] \subseteq r.inflight[u]
  BY <1>1, <1>2 DEF Relays
<1>4. s \in Seq(Tx) /\ Len(s) <= SeenMax
  BY <1>1, <1>2, <1>3, InsertIs DEF Relays
<1>5. PICK o : o = [a EXCEPT !.seen = s]
  OBVIOUS
<1>6. /\ o \in Relays /\ o.seen = s /\ o.pending = r.pending /\ o.known = r.known
      /\ o.inflight = a.inflight
  BY <1>3, <1>4, <1>5 DEF Relays
<1>7. x = a \/ x = o \/ x = queue_announce(o, t)
  BY <1>2, <1>5
<1>8. PICK y : y = queue_announce(o, t)
  OBVIOUS
<1>9. y \in Relays /\ Len(y.pending) <= QueueMax /\ y.seen = s /\ y.known = r.known
      /\ y.inflight = a.inflight
  <2>1. CASE t \in Range(o.pending)
    <3>1. y = o
      BY <1>8, <2>1 DEF queue_announce
    <3> QED
      BY <1>1, <1>6, <3>1
  <2>2. CASE t \notin Range(o.pending)
    <3>1. PICK n, q : n = Append(o.pending, t) /\ q = IF Len(n) > QueueMax THEN Tail(n) ELSE n
      OBVIOUS
    <3>2. y = [o EXCEPT !.pending = q]
      BY <1>8, <2>2, <3>1 DEF queue_announce
    <3>3. n \in Seq(Tx) /\ Len(n) = Len(o.pending) + 1 /\ Len(o.pending) \in Nat
      BY <1>6, <3>1, AppendRange DEF Relays
    <3>4. q \in Seq(Tx) /\ Len(q) <= QueueMax
      <4>1. CASE Len(n) > QueueMax
        <5>1. n # <<>>
          BY <1>1, <3>3, <4>1
        <5>2. Tail(n) \in Seq(Tx) /\ Len(Tail(n)) = Len(n) - 1
          BY <3>3, <5>1, TailRange
        <5> QED
          BY <1>1, <1>6, <3>1, <3>3, <4>1, <5>2
      <4>2. CASE ~(Len(n) > QueueMax)
        BY <1>1, <3>1, <3>3, <4>2
      <4> QED
        BY <4>1, <4>2
    <3> QED
      BY <1>6, <3>2, <3>4 DEF Relays
  <2> QED
    BY <2>1, <2>2
<1>10. WithinCaps(a)
  BY <1>1, <1>3, StillWithin
<1>11. WithinCaps(o)
  <2>1. \A u \in Tx : o.inflight[u] \subseteq r.inflight[u]
    BY <1>3, <1>6
  <2> QED
    BY <1>1, <1>4, <1>6, <2>1, StillWithin
<1>12. WithinCaps(y)
  <2>1. \A u \in Tx : y.inflight[u] \subseteq r.inflight[u]
    BY <1>3, <1>9
  <2> QED
    BY <1>1, <1>4, <1>9, <2>1, StillWithin
<1> QED
  BY <1>3, <1>6, <1>7, <1>8, <1>9, <1>10, <1>11, <1>12

\* What the invariant says of one connection.
LEMMA AboutPeer ==
    ASSUME RelayInv, NEW p \in TxPeer
    PROVE  /\ relay.known[p] \in KnownSets /\ told[p] \in SUBSET Tx
           /\ link[p] \in {"new", "ready", "gone"}
           /\ link[p] = "new" => told[p] = {} /\ relay.known[p] = <<>>
           /\ link[p] # "gone" => Remembered(relay.known[p], told[p])
  BY DEF RelayInv, WithinCaps, Remembers

\* The steps that hear ids of one peer.
LEMMA HeardKeeps ==
    ASSUME RelayInv, NEW p \in TxPeer, From(p), NEW ts \in SUBSET Tx, Heard(p, ts),
           WithinCaps(relay'), UNCHANGED link,
           \A q \in TxPeer \ {p} : relay'.known[q] = relay.known[q],
           Cardinality(Range(relay.known[p]) \cup ts) <= KnownMax
              => Range(relay'.known[p]) = Range(relay.known[p]) \cup ts
    PROVE  RelayInv'
<1>1. told' = [told EXCEPT ![p] = Spoken(told[p] \cup ts)]
  BY DEF Heard
<1>2. PICK k, n, h : k = relay.known[p] /\ n = relay'.known[p] /\ h = told[p]
  OBVIOUS
<1>3. /\ k \in KnownSets /\ h \in SUBSET Tx
      /\ Cardinality(Range(k) \cup ts) <= KnownMax => Range(n) = Range(k) \cup ts
      /\ link[p] # "gone" => Remembered(k, h)
  BY <1>2, AboutPeer
<1>4. Spoken(h \cup ts) \in SUBSET Tx
  BY <1>3, SpokenIs
<1>5. ASSUME link[p] # "gone"
      PROVE  Remembered(n, Spoken(h \cup ts))
  BY <1>3, <1>5, StillRemembered
<1>6. /\ told \in [TxPeer -> SUBSET Tx] /\ link \in [TxPeer -> {"new", "ready", "gone"}]
      /\ link' = link
  BY DEF RelayInv
<1>7. told' \in [TxPeer -> SUBSET Tx] /\ told'[p] = Spoken(h \cup ts)
      /\ \A q \in TxPeer \ {p} : told'[q] = told[q]
  BY <1>1, <1>2, <1>4, <1>6
<1>8. Remembers(relay)'
  <2>1. ASSUME NEW q \in TxPeer
        PROVE  /\ link'[q] = "new" => told'[q] = {} /\ relay'.known[q] = <<>>
               /\ link'[q] # "gone" => Remembered(relay'.known[q], told'[q])
    <3>1. CASE q = p
      BY <1>2, <1>5, <1>6, <1>7, <3>1 DEF From
    <3>2. CASE q # p
      <4>1. relay'.known[q] = relay.known[q] /\ told'[q] = told[q] /\ link'[q] = link[q]
        BY <1>6, <1>7, <3>2
      <4> QED
        BY <4>1, AboutPeer
    <3> QED
      BY <3>1, <3>2
  <2>2. \A q \in TxPeer :
               /\ link'[q] = "new" => told'[q] = {} /\ relay'.known[q] = <<>>
               /\ link'[q] # "gone" => Remembered(relay'.known[q], told'[q])
    BY <2>1
  <2> QED
    BY <2>2 DEF Remembers, Remembered
<1> QED
  BY <1>6, <1>7, <1>8 DEF RelayInv

\* An Inv keeps the invariant.
LEMMA AnnouncedKeeps ==
    ASSUME RelayInv, NEW p \in TxPeer, NEW ids \in Seq(Tx), AnnouncedTx(p, ids)
    PROVE  RelayInv' /\ invs' = Silent
<1>1. PICK r, x : r = relay /\ x = relay'
  OBVIOUS
<1>2. x = on_announced(r, p, ids) /\ Heard(p, Wanted(r, p, ids).read)
      /\ From(p) /\ UNCHANGED link /\ invs' = Silent
  BY <1>1 DEF AnnouncedTx
<1>3. WithinCaps(r)
  BY <1>1 DEF RelayInv
<1>4. PICK ts : ts = Wanted(r, p, ids).read
  OBVIOUS
<1>5. /\ WithinCaps(x) /\ ts \in SUBSET Tx
      /\ \A q \in TxPeer \ {p} : x.known[q] = r.known[q]
      /\ Cardinality(Range(r.known[p]) \cup ts) <= KnownMax
            => Range(x.known[p]) = Range(r.known[p]) \cup ts
  BY <1>2, <1>3, <1>4, AnnouncedIs
<1>6. Heard(p, ts)
  BY <1>2, <1>4
<1> QED
  BY <1>1, <1>2, <1>5, <1>6, HeardKeeps

\* A body does.
LEMMA TxKeeps ==
    ASSUME RelayInv, NEW p \in TxPeer, NEW t \in Tx, OnTx(p, t)
    PROVE  RelayInv' /\ invs' = Silent
<1>1. PICK r0, x : r0 = relay /\ x = relay'
  OBVIOUS
<1>2. PICK r : r = note_known(r0, p, t)
  OBVIOUS
<1>3. /\ From(p) /\ Heard(p, {t}) /\ invs' = Silent /\ UNCHANGED link
      /\ LET asked == [r EXCEPT !.inflight[t] = {}]
             once == [asked EXCEPT !.seen = IdSetInsert(@, t, SeenMax)]
         IN  x = r \/ x = asked \/ x = once \/ x = queue_announce(once, t)
  BY <1>1, <1>2 DEF OnTx
<1>4. WithinCaps(r0)
  BY <1>1 DEF RelayInv
<1>5. /\ WithinCaps(r)
      /\ \A q \in TxPeer \ {p} : r.known[q] = r0.known[q]
      /\ Cardinality(Range(r0.known[p]) \cup {t}) <= KnownMax
            => Range(r.known[p]) = Range(r0.known[p]) \cup {t}
  <2>1. WithinCaps(note_known(r0, p, t))
        /\ \A q \in TxPeer \ {p} : note_known(r0, p, t).known[q] = r0.known[q]
    BY <1>4, NoteKnownIs
  <2>2. Cardinality(Range(r0.known[p]) \cup {t}) <= KnownMax
            => Range(note_known(r0, p, t).known[p]) = Range(r0.known[p]) \cup {t}
    BY <1>4, NoteKnownIs
  <2> QED
    BY <1>2, <2>1, <2>2
<1>6. WithinCaps(x) /\ x.known = r.known
  <2>1. CASE x = r
    BY <1>5, <2>1
  <2>2. CASE x # r
    <3>1. LET asked == [r EXCEPT !.inflight[t] = {}]
              once == [asked EXCEPT !.seen = IdSetInsert(@, t, SeenMax)]
          IN  x = asked \/ x = once \/ x = queue_announce(once, t)
      BY <1>3, <2>2
    <3> QED
      BY <1>5, <3>1, BodyIs
  <2> QED
    BY <2>1, <2>2
<1>7. PICK ts : ts = {t}
  OBVIOUS
<1>8. /\ ts \in SUBSET Tx /\ Heard(p, ts)
      /\ \A q \in TxPeer \ {p} : x.known[q] = r0.known[q]
      /\ Cardinality(Range(r0.known[p]) \cup ts) <= KnownMax
            => Range(x.known[p]) = Range(r0.known[p]) \cup ts
  BY <1>3, <1>5, <1>6, <1>7
<1> QED
  BY <1>1, <1>3, <1>6, <1>8, HeardKeeps

\* An answer that a body is not there does.
LEMMA NotFoundKeeps ==
    ASSUME RelayInv, NEW p \in TxPeer, NEW t \in Tx, OnNotFound(p, t)
    PROVE  RelayInv' /\ invs' = Silent
<1>1. PICK r, x : r = relay /\ x = relay'
  OBVIOUS
<1>2. (x = r \/ x = [r EXCEPT !.inflight[t] = {}])
      /\ link' = link /\ told' = told /\ invs' = Silent
  BY <1>1 DEF OnNotFound
<1>3. WithinCaps(r)
  BY <1>1 DEF RelayInv
<1>4. x \in Relays /\ x.seen = r.seen /\ x.pending = r.pending /\ x.known = r.known
      /\ \A u \in Tx : x.inflight[u] \subseteq r.inflight[u]
  <2>1. r \in Relays
    BY <1>3 DEF WithinCaps
  <2>2. CASE x = r
    BY <2>1, <2>2
  <2>3. CASE x = [r EXCEPT !.inflight[t] = {}]
    BY <2>1, <2>3 DEF Relays
  <2> QED
    BY <1>2, <2>2, <2>3
<1>5. WithinCaps(x)
  BY <1>3, <1>4, StillWithin DEF WithinCaps
<1>6. Remembers(relay)'
  BY <1>1, <1>2, <1>4 DEF RelayInv, Remembers, Remembered
<1> QED
  BY <1>1, <1>2, <1>5, <1>6 DEF RelayInv

\* So does a connection that becomes ready,
LEMMA ReadyKeeps ==
    ASSUME RelayInv, NEW p \in TxPeer, TxPeerReady(p)
    PROVE  RelayInv' /\ invs' = Silent
<1>1. /\ relay' = relay /\ told' = told /\ invs' = Silent /\ link[p] = "new"
      /\ link' = [link EXCEPT ![p] = "ready"]
      /\ link \in [TxPeer -> {"new", "ready", "gone"}]
  BY DEF TxPeerReady, RelayInv
<1>2. link' \in [TxPeer -> {"new", "ready", "gone"}]
      /\ \A q \in TxPeer : (link'[q] = "new" => link[q] = "new")
                           /\ (link'[q] # "gone" => link[q] # "gone")
  BY <1>1
<1>3. Remembers(relay)'
  BY <1>1, <1>2 DEF RelayInv, Remembers, Remembered
<1> QED
  BY <1>1, <1>2, <1>3 DEF RelayInv, WithinCaps

\* or goes.
LEMMA GoneKeeps ==
    ASSUME RelayInv, NEW p \in TxPeer, TxPeerGone(p)
    PROVE  RelayInv' /\ invs' = Silent
<1>1. PICK r, x : r = relay /\ x = relay'
  OBVIOUS
<1>2. PICK f : f = [t \in Tx |-> r.inflight[t] \ {p}]
  OBVIOUS
<1>3. /\ x = [r EXCEPT !.known[p] = <<>>, !.inflight = f] /\ told' = told /\ invs' = Silent
      /\ link' = [link EXCEPT ![p] = "gone"] /\ link[p] = "ready"
      /\ link \in [TxPeer -> {"new", "ready", "gone"}]
  BY <1>1, <1>2 DEF TxPeerGone, RelayInv
<1>4. WithinCaps(r)
  BY <1>1 DEF RelayInv
<1>5. r \in Relays /\ <<>> \in Seq(Tx) /\ f \in [Tx -> SUBSET TxPeer]
      /\ \A t \in Tx : f[t] \subseteq r.inflight[t]
  BY <1>2, <1>4 DEF WithinCaps, Relays
<1>6. /\ x \in Relays /\ x.seen = r.seen /\ x.pending = r.pending /\ x.inflight = f
      /\ x.known[p] = <<>> /\ \A q \in TxPeer \ {p} : x.known[q] = r.known[q]
  BY <1>3, <1>5 DEF Relays
<1>7. <<>> \in KnownSets
  <2>1. <<>> \in Seq(Tx) /\ Len(<<>>) = 0 /\ KnownMax \in Nat
    BY TxConstants
  <2> QED
    BY <2>1 DEF KnownSets, NoRepeats
<1>8. \A q \in TxPeer : x.known[q] \in KnownSets
  BY <1>4, <1>6, <1>7 DEF WithinCaps
<1>9. WithinCaps(x)
  BY <1>4, <1>5, <1>6, <1>8, StillWithin DEF WithinCaps
<1>10. link' \in [TxPeer -> {"new", "ready", "gone"}] /\ link'[p] = "gone"
       /\ \A q \in TxPeer \ {p} : link'[q] = link[q]
  BY <1>3
<1>11. Remembers(relay)'
  <2>1. \A q \in TxPeer :
            /\ link'[q] = "new" => told'[q] = {} /\ x.known[q] = <<>>
            /\ link'[q] # "gone" => Remembered(x.known[q], told'[q])
    BY <1>1, <1>3, <1>6, <1>10, AboutPeer
  <2> QED
    BY <1>1, <2>1 DEF Remembers, Remembered
<1> QED
  BY <1>1, <1>3, <1>9, <1>10, <1>11 DEF RelayInv

\* The ids of a pool, in some order.
LEMMA PoolOrder ==
    ASSUME NEW pool \in SUBSET Tx, NEW ids \in SetToSeqs(pool)
    PROVE  ids \in Seq(Tx)
<1>1. IsFiniteSet(pool) /\ Cardinality(pool) \in Nat
  BY TxConstants, FS_Subset, FS_CardinalityType
<1>2. ids \in [1..Cardinality(pool) -> pool]
  BY DEF SetToSeqs
<1> QED
  BY <1>1, <1>2

\* A batch that leaves keeps the relay within its caps, and what a ready peer is
\* told is known of it.
LEMMA AfterBatchIs ==
    ASSUME NEW r, WithinCaps(r), NEW ready \in SUBSET TxPeer
    PROVE  /\ WithinCaps(AfterTxBatch(r, ready))
           /\ \A p \in TxPeer \ ready : AfterTxBatch(r, ready).known[p] = r.known[p]
           /\ \A p \in ready :
                 Cardinality(Range(r.known[p]) \cup Items(r, p)) <= KnownMax
                    => Range(AfterTxBatch(r, ready).known[p])
                          = Range(r.known[p]) \cup Items(r, p)
<1>1. PICK x, f, q : /\ x = AfterTxBatch(r, ready)
                     /\ f = [p \in TxPeer |-> IF p \in ready THEN Noted(r, p) ELSE r.known[p]]
                     /\ q = SubSeq(r.pending, Len(TxBatch(r)) + 1, Len(r.pending))
  OBVIOUS
<1>2. r \in Relays /\ Len(r.seen) <= SeenMax /\ Len(r.pending) <= QueueMax
      /\ \A p \in TxPeer : r.known[p] \in KnownSets
  BY DEF WithinCaps
<1>3. q \in Seq(Tx) /\ Len(q) <= QueueMax
  BY <1>1, <1>2, BatchIs
<1>4. \A p \in TxPeer : /\ Noted(r, p) \in KnownSets
                        /\ Cardinality(Range(r.known[p]) \cup Items(r, p)) <= KnownMax
                              => Range(Noted(r, p)) = Range(r.known[p]) \cup Items(r, p)
  BY <1>2, NotedIs
<1>5. /\ \A p \in TxPeer \ ready : f[p] = r.known[p]
      /\ \A p \in ready : f[p] = Noted(r, p)
      /\ \A p \in TxPeer : f[p] \in KnownSets
      /\ f = [p \in TxPeer |-> f[p]]
  BY <1>1, <1>2, <1>4
<1>6. f \in [TxPeer -> Seq(Tx)]
  BY <1>5 DEF KnownSets
<1>7. x = [r EXCEPT !.known = f, !.pending = q]
  BY <1>1 DEF AfterTxBatch
<1>8. x \in Relays /\ x.known = f /\ x.pending = q /\ x.seen = r.seen /\ x.inflight = r.inflight
  <2>1. r \in [seen : Seq(Tx), known : [TxPeer -> Seq(Tx)], inflight : [Tx -> SUBSET TxPeer],
               pending : Seq(Tx)]
    BY <1>2 DEF Relays
  <2> QED
    BY <1>3, <1>6, <1>7, <2>1 DEF Relays
<1>9. WithinCaps(x)
  BY <1>2, <1>3, <1>5, <1>8, StillWithin
<1> QED
  BY <1>1, <1>4, <1>5, <1>8, <1>9

\* Requests past their deadline end.
LEMMA LateIs ==
    ASSUME NEW r, WithinCaps(r), NEW late, NEW x,
           x = [r EXCEPT !.inflight = [t \in Tx |-> IF t \in late THEN {} ELSE @[t]]]
    PROVE  WithinCaps(x) /\ x.known = r.known
<1>1. PICK f : f = [t \in Tx |-> IF t \in late THEN {} ELSE r.inflight[t]]
  OBVIOUS
<1>2. r \in Relays
  BY DEF WithinCaps
<1>3. f \in [Tx -> SUBSET TxPeer] /\ \A t \in Tx : f[t] \subseteq r.inflight[t]
  BY <1>1, <1>2 DEF Relays
<1>4. x = [r EXCEPT !.inflight = f]
  BY <1>1
<1>5. x \in Relays /\ x.inflight = f /\ x.known = r.known /\ x.seen = r.seen
      /\ x.pending = r.pending
  BY <1>2, <1>3, <1>4 DEF Relays
<1>6. Len(r.seen) <= SeenMax /\ Len(r.pending) <= QueueMax
      /\ \A p \in TxPeer : r.known[p] \in KnownSets
  BY DEF WithinCaps
<1>7. WithinCaps(x)
  BY <1>3, <1>5, <1>6, StillWithin
<1> QED
  BY <1>5, <1>7

\* The poll of the pool.
LEMMA PollKeeps ==
    ASSUME NEW r, WithinCaps(r), NEW ids \in Seq(Tx)
    PROVE  WithinCaps(Polled(r, ids)) /\ Polled(r, ids).known = r.known
<1>1. r \in Relays /\ Len(r.seen) <= SeenMax /\ Len(r.pending) <= QueueMax
      /\ \A p \in TxPeer : r.known[p] \in KnownSets
  BY DEF WithinCaps
<1>2. PICK x : x = Polled(r, ids)
  OBVIOUS
<1>3. x \in PollStates(r)
  BY <1>1, <1>2, PolledIs
<1>4. x \in Relays /\ x.known = r.known /\ x.inflight = r.inflight
      /\ Len(x.seen) <= SeenMax /\ Len(x.pending) <= QueueMax
  BY <1>3 DEF PollStates
<1>5. WithinCaps(x)
  BY <1>1, <1>4, StillWithin
<1> QED
  BY <1>2, <1>4, <1>5

\* A tick: what it announces to a peer is new to it.
LEMMA TxTickKeeps ==
    ASSUME RelayInv, NEW late, NEW poll, TxTick(late, poll)
    PROVE  /\ RelayInv'
           /\ \A p \in TxPeer :
                 invs'[p] = {} \/ (link[p] = "ready" /\ invs'[p] \cap Range(relay.known[p]) = {})
<1> DEFINE ready0 == {p \in TxPeer : link[p] = "ready"}
           late0 == [relay EXCEPT !.inflight = [t \in Tx |-> IF t \in late THEN {} ELSE @[t]]]
           Makes(ids) ==
              LET r == Polled(late0, ids) IN
              IF r.pending = <<>> \/ ready0 = {}
              THEN relay' = r /\ invs' = Silent /\ UNCHANGED <<link, told>>
              ELSE /\ invs' = [p \in TxPeer |-> IF p \in ready0 THEN Items(r, p) ELSE {}]
                   /\ relay' = AfterTxBatch(r, ready0)
                   /\ told' = [p \in TxPeer |-> Spoken(told[p] \cup invs'[p])]
                   /\ UNCHANGED link
<1>1. \E pool \in IF poll THEN SUBSET Tx ELSE {{}} : \E ids \in SetToSeqs(pool) : Makes(ids)
  BY Zenon DEF TxTick
<1> HIDE DEF Makes
<1>2. PICK pool \in IF poll THEN SUBSET Tx ELSE {{}} : \E ids \in SetToSeqs(pool) : Makes(ids)
  BY <1>1, Zenon
<1>3. pool \in SUBSET Tx
  <2>1. CASE poll
    BY <1>2, <2>1, Zenon
  <2>2. CASE ~poll
    <3>1. pool \in {{}}
      BY <1>2, <2>2, Zenon
    <3> QED
      BY <3>1
  <2> QED
    BY <2>1, <2>2
<1>4. PICK ids \in SetToSeqs(pool) : Makes(ids)
  BY <1>2, Zenon
<1>5. PICK r1, x, r0, ready, r : /\ r1 = relay /\ x = relay' /\ r0 = late0 /\ ready = ready0
                                 /\ r = Polled(late0, ids)
  OBVIOUS
<1>7. \/ x = r /\ invs' = Silent /\ link' = link /\ told' = told
      \/ /\ invs' = [p \in TxPeer |-> IF p \in ready THEN Items(r, p) ELSE {}]
         /\ x = AfterTxBatch(r, ready)
         /\ told' = [p \in TxPeer |-> Spoken(told[p] \cup invs'[p])]
         /\ link' = link
  <2>1. \/ relay' = r /\ invs' = Silent /\ UNCHANGED <<link, told>>
        \/ /\ invs' = [p \in TxPeer |-> IF p \in ready0 THEN Items(r, p) ELSE {}]
           /\ relay' = AfterTxBatch(r, ready0)
           /\ told' = [p \in TxPeer |-> Spoken(told[p] \cup invs'[p])]
           /\ UNCHANGED link
    BY <1>4, <1>5, Zenon DEF Makes
  <2> QED
    BY <1>5, <2>1
<1>8. ids \in Seq(Tx)
  BY <1>3, PoolOrder
<1>9. WithinCaps(r1)
  BY <1>5 DEF RelayInv
<1>10. WithinCaps(r0) /\ r0.known = r1.known
  BY <1>5, <1>9, LateIs, SMTT(30)
<1>11. WithinCaps(r) /\ r.known = r1.known
  BY <1>5, <1>8, <1>10, PollKeeps
<1>12. /\ told \in [TxPeer -> SUBSET Tx] /\ link \in [TxPeer -> {"new", "ready", "gone"}]
       /\ link' = link /\ ready \in SUBSET TxPeer
  BY <1>5, <1>7 DEF RelayInv
<1>13. CASE x = r /\ invs' = Silent /\ told' = told
  <2>1. Remembers(relay)'
    BY <1>5, <1>11, <1>12, <1>13 DEF RelayInv, Remembers, Remembered
  <2>2. RelayInv'
    BY <1>5, <1>11, <1>12, <1>13, <2>1 DEF RelayInv
  <2> QED
    BY <1>13, <2>2 DEF Silent
<1>14. CASE /\ invs' = [p \in TxPeer |-> IF p \in ready THEN Items(r, p) ELSE {}]
            /\ x = AfterTxBatch(r, ready)
            /\ told' = [p \in TxPeer |-> Spoken(told[p] \cup invs'[p])]
  <2>1. /\ WithinCaps(x)
        /\ \A p \in TxPeer \ ready : x.known[p] = r.known[p]
        /\ \A p \in ready :
              Cardinality(Range(r.known[p]) \cup Items(r, p)) <= KnownMax
                 => Range(x.known[p]) = Range(r.known[p]) \cup Items(r, p)
    BY <1>11, <1>12, <1>14, AfterBatchIs
  <2>2. ASSUME NEW p \in TxPeer
        PROVE  /\ told'[p] \in SUBSET Tx
               /\ link[p] = "new" => told'[p] = {} /\ x.known[p] = <<>>
               /\ link[p] # "gone" => Remembered(x.known[p], told'[p])
               /\ invs'[p] = {}
                     \/ (link[p] = "ready" /\ invs'[p] \cap Range(r1.known[p]) = {})
    <3>1. PICK k, h, ts, n : k = r1.known[p] /\ h = told[p] /\ ts = invs'[p] /\ n = x.known[p]
      OBVIOUS
    <3>2. /\ k \in KnownSets /\ h \in SUBSET Tx
          /\ link[p] = "new" => h = {} /\ k = <<>>
          /\ link[p] # "gone" => Remembered(k, h)
      BY <1>5, <3>1, AboutPeer
    <3>3. told'[p] = Spoken(h \cup ts)
      BY <1>14, <3>1
    <3>4. /\ ts \in SUBSET Tx
          /\ Cardinality(Range(k) \cup ts) <= KnownMax => Range(n) = Range(k) \cup ts
          /\ ts = {} \/ (link[p] = "ready" /\ ts \cap Range(k) = {})
          /\ link[p] = "new" => n = k /\ ts = {}
      <4>1. CASE p \in ready
        <5>1. ts = Items(r, p) /\ link[p] = "ready"
          BY <1>5, <1>14, <3>1, <4>1
        <5>2. Range(TxBatch(r)) \subseteq Tx
          BY <1>11, BatchIs DEF WithinCaps
        <5>3. ts \in SUBSET Tx /\ ts \cap Range(k) = {}
          BY <1>11, <3>1, <5>1, <5>2 DEF Items
        <5>4. Cardinality(Range(k) \cup ts) <= KnownMax => Range(n) = Range(k) \cup ts
          BY <1>11, <2>1, <3>1, <4>1, <5>1
        <5> QED
          BY <5>1, <5>3, <5>4
      <4>2. CASE p \notin ready
        <5>1. ts = {} /\ n = k
          BY <1>11, <1>14, <2>1, <3>1, <4>2
        <5> QED
          BY <5>1
      <4> QED
        BY <4>1, <4>2
    <3>5. Spoken(h \cup ts) \in SUBSET Tx
      BY <3>2, <3>4, SpokenIs
    <3>6. link[p] # "gone" => Remembered(n, Spoken(h \cup ts))
      BY <3>2, <3>4, StillRemembered
    <3>7. ASSUME link[p] = "new"
          PROVE  Spoken(h \cup ts) = {}
      <4>1. h \cup ts = {}
        BY <3>2, <3>4, <3>7
      <4>2. Cardinality({}) = 0 /\ KnownMax \in Nat
        BY FS_EmptySet, TxConstants
      <4> QED
        BY <4>1, <4>2 DEF Spoken
    <3> QED
      BY <3>1, <3>2, <3>3, <3>4, <3>5, <3>6, <3>7
  <2>3. told' \in [TxPeer -> SUBSET Tx]
    <3>1. told' = [p \in TxPeer |-> told'[p]]
      BY <1>14
    <3> QED
      BY <2>2, <3>1
  <2>4. Remembers(relay)'
    <3>1. \A p \in TxPeer :
               /\ link'[p] = "new" => told'[p] = {} /\ x.known[p] = <<>>
               /\ link'[p] # "gone" => Remembered(x.known[p], told'[p])
      BY <1>12, <2>2
    <3> QED
      BY <1>5, <3>1 DEF Remembers, Remembered
  <2>5. RelayInv'
    BY <1>5, <1>12, <2>1, <2>3, <2>4 DEF RelayInv
  <2> QED
    BY <1>5, <2>2, <2>5
<1> QED
  BY <1>7, <1>13, <1>14

\* A relay that knows nothing satisfies the invariant.
LEMMA RelayStarts == RelayInit => RelayInv
<1> SUFFICES ASSUME RelayInit PROVE RelayInv
  OBVIOUS
<1>1. PICK r : r = relay
  OBVIOUS
<1>2. /\ r = [seen |-> <<>>, known |-> [p \in TxPeer |-> <<>>],
              inflight |-> [t \in Tx |-> {}], pending |-> <<>>]
      /\ link = [p \in TxPeer |-> "new"] /\ told = [p \in TxPeer |-> {}]
  BY <1>1 DEF RelayInit
<1>3. /\ SeenMax \in Nat \ {0} /\ QueueMax \in Nat \ {0} /\ KnownMax \in Nat \ {0}
      /\ InflightMax \in Nat \ {0} /\ InflightPerPeer \in Nat \ {0}
  BY TxConstants
<1>4. <<>> \in Seq(Tx) /\ Len(<<>>) = 0
  OBVIOUS
<1>5. <<>> \in KnownSets
  BY <1>3, <1>4 DEF KnownSets, NoRepeats
<1>6. /\ r \in Relays /\ r.seen = <<>> /\ r.pending = <<>>
      /\ (\A p \in TxPeer : r.known[p] = <<>>) /\ \A t \in Tx : r.inflight[t] = {}
  BY <1>2, <1>4 DEF Relays
<1>7. Cardinality({}) = 0
  BY FS_EmptySet
<1>8. RequestsWithin(r)
  <2>1. AnyInflight(r) = {} /\ \A p \in TxPeer : Inflight(r, p) = {}
    BY <1>6 DEF AnyInflight, Inflight
  <2> QED
    BY <1>3, <1>7, <2>1 DEF RequestsWithin
<1>9. WithinCaps(r)
  BY <1>3, <1>4, <1>5, <1>6, <1>8 DEF WithinCaps
<1>10. \A p \in TxPeer : told[p] = {} /\ link[p] = "new"
  BY <1>2
<1>11. Range(<<>>) = {}
  BY DEF Range
<1>12. Remembers(r)
  BY <1>6, <1>10, <1>11 DEF Remembers, Remembered
<1>13. told \in [TxPeer -> SUBSET Tx] /\ link \in [TxPeer -> {"new", "ready", "gone"}]
  BY <1>2
<1> QED
  BY <1>1, <1>9, <1>12, <1>13 DEF RelayInv

\* Every step keeps the invariant, and announces to a peer only what is new to it.
LEMMA RelayStep ==
    ASSUME RelayInv, [RelayNext]_relayVars
    PROVE  /\ RelayInv'
           /\ relayVars' = relayVars
                \/ \A p \in TxPeer :
                      invs'[p] = {}
                         \/ (link[p] = "ready" /\ invs'[p] \cap Range(relay.known[p]) = {})
<1>1. invs' = Silent => \A p \in TxPeer : invs'[p] = {}
  BY DEF Silent
<1>2. CASE \E p \in TxPeer : TxPeerReady(p) \/ TxPeerGone(p)
  BY <1>1, <1>2, ReadyKeeps, GoneKeeps
<1>3. CASE \E p \in TxPeer, t \in Tx : OnTx(p, t) \/ OnNotFound(p, t)
  BY <1>1, <1>3, TxKeeps, NotFoundKeeps
<1>4. CASE \E p \in TxPeer, ids \in SeqOf(Tx, 2) \ {<<>>} : AnnouncedTx(p, ids)
  <2>1. ASSUME NEW ids \in SeqOf(Tx, 2)
        PROVE  ids \in Seq(Tx)
    <3>1. PICK m \in 0..2 : ids \in [1..m -> Tx]
      BY DEF SeqOf
    <3> QED
      BY <3>1
  <2> QED
    BY <1>1, <1>4, <2>1, AnnouncedKeeps
<1>5. CASE AnyTxTick
  <2>1. PICK late \in SUBSET AnyInflight(relay), poll \in BOOLEAN : TxTick(late, poll)
    BY <1>5 DEF AnyTxTick
  <2> QED
    BY <2>1, TxTickKeeps
<1>6. CASE UNCHANGED relayVars
  <2>1. relay' = relay /\ link' = link /\ told' = told
    BY <1>6 DEF relayVars
  <2>2. RelayInv'
    BY <2>1 DEF RelayInv, WithinCaps, Remembers, Remembered
  <2> QED
    BY <1>6, <2>2
<1> QED
  BY <1>2, <1>3, <1>4, <1>5, <1>6 DEF RelayNext

\* The invariant is what RelaySound asks for.
LEMMA RelayInvSound == RelayInv => RelaySound
<1> SUFFICES ASSUME RelayInv PROVE RelaySound
  OBVIOUS
<1>1. RequestsBounded
  BY DEF RelayInv, WithinCaps, RequestsWithin, RequestsBounded
<1>2. ASSUME NEW t \in Tx
      PROVE  Cardinality(relay.inflight[t]) <= 1
  <2>1. \A p, q \in relay.inflight[t] : p = q
    BY DEF RelayInv, WithinCaps
  <2>2. relay.inflight[t] = {} \/ \E p : relay.inflight[t] = {p}
    BY <2>1
  <2> QED
    BY <2>2, FS_EmptySet, FS_Singleton
<1>3. RelayTypeOK
  BY <1>2 DEF RelayTypeOK, RelayInv, WithinCaps, KnownSets
<1> QED
  BY <1>1, <1>3 DEF RelaySound

\* The relay's sets and requests stay within their bounds (tx_relay.rs), whatever
\* the peers announce, send or withhold.
THEOREM RelayIsSound == RelaySpec => []RelaySound
<1>1. RelayInv /\ [RelayNext]_relayVars => RelayInv'
  BY RelayStep
<1> QED
  BY <1>1, RelayStarts, RelayInvSound, PTL DEF RelaySpec

\* No peer is told of a transaction that it spoke of (on_announced, on_tx, on_tick).
THEOREM NeverEchoed == RelaySpec => NotEchoed
<1>1. RelayInv /\ [RelayNext]_relayVars => RelayInv'
  BY RelayStep
<1>2. RelayInv /\ [RelayNext]_relayVars =>
         [\A p \in TxPeer : Cardinality(told[p]) <= KnownMax
                               => invs'[p] \cap told[p] = {}]_relayVars
  <2> SUFFICES ASSUME RelayInv, [RelayNext]_relayVars, relayVars' # relayVars,
                      NEW p \in TxPeer, Cardinality(told[p]) <= KnownMax
               PROVE  invs'[p] \cap told[p] = {}
    OBVIOUS
  <2>1. invs'[p] = {} \/ (link[p] = "ready" /\ invs'[p] \cap Range(relay.known[p]) = {})
    BY RelayStep
  <2>2. link[p] = "ready" => told[p] = Range(relay.known[p])
    BY AboutPeer DEF Remembered
  <2> QED
    BY <2>1, <2>2
<1> QED
  BY <1>1, <1>2, RelayStarts, PTL DEF RelaySpec, NotEchoed
=============================================================================
