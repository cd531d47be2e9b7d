----------------------------- MODULE MCNetwork -----------------------------
(***************************************************************************)
(* The parts of the peer-to-peer node that share no variable, in one run:  *)
(* each behaviour follows one part, chosen at the start.                   *)
(***************************************************************************)
EXTENDS TxRelay, AddrBook, Conns

VARIABLE part

network == <<part, relayVars, bookVars, connVars>>

Parts == {"relay", "book", "conns"}

InitParts == RelayInit /\ BookInit /\ ConnInit

Init == InitParts /\ part \in Parts

Next ==
    \/ part = "relay" /\ RelayNext /\ UNCHANGED <<part, bookVars, connVars>>
    \/ part = "book" /\ BookNext /\ UNCHANGED <<part, relayVars, connVars>>
    \/ part = "conns" /\ ConnNext /\ UNCHANGED <<part, relayVars, bookVars>>

\* The engine's tick comes again and again.
RelayFairness == WF_relayVars(part = "relay" /\ AnyTxTick)

Spec == Init /\ [][Next]_network /\ RelayFairness

\* the connections alone
ConnSpec == InitParts /\ part = "conns" /\ [][Next]_network

MCAddrGroup == [a \in Addr |-> IF a = 3 THEN 2 ELSE 1]
MCLinkIp == [c \in Link |-> c]
MCIpGroup == [i \in Link |-> 1]
=============================================================================
