----------------------------- MODULE MCStratum -----------------------------
(***************************************************************************)
(* The three parts of the Stratum server in one run.  They share no        *)
(* variable, so each behaviour follows one of them, chosen at the start:   *)
(* their state spaces add up instead of multiplying.                       *)
(***************************************************************************)
EXTENDS StratumShares, StratumGate, StratumDifficulty

VARIABLE part

stratum == <<part, shareVars, gateVars, diffVars>>

Init == SharesInit /\ GateInit /\ DiffInit /\ part \in {"shares", "gate", "difficulty"}

Next ==
    \/ part = "shares" /\ SharesNext /\ UNCHANGED <<part, gateVars, diffVars>>
    \/ part = "gate" /\ GateNext /\ UNCHANGED <<part, shareVars, diffVars>>
    \/ part = "difficulty" /\ DiffNext /\ UNCHANGED <<part, shareVars, gateVars>>

Spec == Init /\ [][Next]_stratum /\ SharesFairness

MCPoints == [soft |-> 1, hard |-> 1]
=============================================================================
