-------------------------- MODULE MCChainManager ---------------------------
(***************************************************************************)
(* Two branches from the genesis block, a1-a2 and b1-b2-b3.  Work is one   *)
(* per block, so a1 and b1 tie, a2 and b2 tie, and the lower hashes are on *)
(* the second branch.                                                      *)
(***************************************************************************)
EXTENDS ChainManager

MCBlock == {"g", "a1", "a2", "b1", "b2", "b3"}
MCPrev == [g |-> "g", a1 |-> "g", a2 |-> "a1", b1 |-> "g", b2 |-> "b1", b3 |-> "b2"]
MCHeight == [g |-> 0, a1 |-> 1, a2 |-> 2, b1 |-> 1, b2 |-> 2, b3 |-> 3]
MCWork == [b \in MCBlock |-> MCHeight[b] + 1]
MCHashKey == [g |-> 0, a1 |-> 4, a2 |-> 5, b1 |-> 1, b2 |-> 2, b3 |-> 3]
MCAnc == [g |-> {"g"}, a1 |-> {"g", "a1"}, a2 |-> {"g", "a1", "a2"},
          b1 |-> {"g", "b1"}, b2 |-> {"g", "b1", "b2"}, b3 |-> {"g", "b1", "b2", "b3"}]
=============================================================================
