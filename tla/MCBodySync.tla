----------------------------- MODULE MCBodySync ----------------------------
(***************************************************************************)
(* A branch of one block, a1, and a better one, b1-b2: a download of two   *)
(* heights, then a switch to a branch that starts below the watermark.     *)
(***************************************************************************)
EXTENDS BodySync

MCBlock == {"g", "a1", "b1", "b2"}
MCPrev == [g |-> "g", a1 |-> "g", b1 |-> "g", b2 |-> "b1"]
MCHeight == [g |-> 0, a1 |-> 1, b1 |-> 1, b2 |-> 2]
MCWork == [b \in MCBlock |-> MCHeight[b] + 1]
MCHashKey == [g |-> 0, a1 |-> 1, b1 |-> 2, b2 |-> 3]
MCAnc == [g |-> {"g"}, a1 |-> {"g", "a1"}, b1 |-> {"g", "b1"}, b2 |-> {"g", "b1", "b2"}]
MCOrder == <<"f", "r">>
MCClaim == [f |-> 2, r |-> 2]
MCServes == [f |-> {"b2"}, r |-> MCBlock]
MCServesBelow == [f |-> {"b1"}, r |-> MCBlock]
=============================================================================
