------------------------------- MODULE MCNode -------------------------------
(***************************************************************************)
(* The parts of the node around the chain manager that share no variable,  *)
(* in one run: the write path of the store, the sink and its readers, the  *)
(* mempool, the ingest of headers, the budgets of the sources and the care *)
(* of the stored bytes.  Each behaviour follows one part, chosen at the    *)
(* start; a part that rests starts in one state only.                      *)
(***************************************************************************)
EXTENDS MCBlockStore, CommitSink, Mempool, HeaderIngest, SourceBudgets, StoreCare

VARIABLE nodePart

nodeVars == <<nodePart, vars, sinkVars, poolVars, ingestVars, budgetVars, careVars>>

NodeInit ==
    /\ Init /\ SinkInit /\ PoolInit /\ IngestInit /\ BudgetInit /\ CareInit
    /\ nodePart \in {"store", "sink", "pool", "ingest", "budgets", "care"}
    /\ nodePart # "budgets" => budget.kind = "txs"
    /\ nodePart # "care" => mem.mint

StoreStep == nodePart = "store" /\ Next /\ UNCHANGED <<nodePart, sinkVars, poolVars, ingestVars, budgetVars, careVars>>
SinkStep == nodePart = "sink" /\ SinkNext /\ UNCHANGED <<nodePart, vars, poolVars, ingestVars, budgetVars, careVars>>
PoolStep == nodePart = "pool" /\ PoolNext /\ UNCHANGED <<nodePart, vars, sinkVars, ingestVars, budgetVars, careVars>>
IngestStep == nodePart = "ingest" /\ IngestNext /\ UNCHANGED <<nodePart, vars, sinkVars, poolVars, budgetVars, careVars>>
BudgetStep == nodePart = "budgets" /\ BudgetNext /\ UNCHANGED <<nodePart, vars, sinkVars, poolVars, ingestVars, careVars>>
CareStep == nodePart = "care" /\ CareNext /\ UNCHANGED <<nodePart, vars, sinkVars, poolVars, ingestVars, budgetVars>>

NodeNext == StoreStep \/ SinkStep \/ PoolStep \/ IngestStep \/ BudgetStep \/ CareStep

NodeSpec == NodeInit /\ [][NodeNext]_nodeVars

\* one part alone
SinkOnly == NodeInit /\ nodePart = "sink" /\ [][NodeNext]_nodeVars
CareOnly == NodeInit /\ nodePart = "care" /\ [][NodeNext]_nodeVars
IngestOnly == NodeInit /\ nodePart = "ingest" /\ [][NodeNext]_nodeVars

\* Transactions of two senders: versions of one nonce, a chain of two nonces,
\* one that empties its sender's account.
MCPoolTx(from, to, nonce, fee, amount) ==
    [from |-> from, to |-> to, nonce |-> nonce, fee |-> fee, amount |-> amount, size |-> 1]
MCTxBody == <<MCPoolTx(1, 2, 0, 4, 1), MCPoolTx(1, 1, 0, 5, 6), MCPoolTx(1, 1, 1, 6, 3),
              MCPoolTx(2, 2, 0, 5, 2), MCPoolTx(1, 2, 2, 4, 1)>>
MCFunds == <<26, 4>>
MCMined(to, txs) == [to |-> to, txs |-> txs]
MCMinedBlocks == {MCMined(2, <<>>), MCMined(2, <<1>>), MCMined(1, <<2>>), MCMined(2, <<1, 3>>),
                  MCMined(1, <<4>>), MCMined(1, <<3>>)}

\* Headers: two branches from the start, one with a header ahead of the clock
\* (b2) and one without proof of work (x2).
MCHeader(p, n, w, k, t, pow, b) ==
    [prev |-> p, height |-> n, work |-> w, key |-> k, time |-> t, pow |-> pow, bits |-> b, sound |-> TRUE]
MCHdr == [g |-> MCHeader("g", 0, 1, 0, 0, TRUE, "g"), a1 |-> MCHeader("g", 1, 2, 5, 0, TRUE, "g"),
          a2 |-> MCHeader("a1", 2, 3, 6, 0, TRUE, "g"), b1 |-> MCHeader("g", 1, 2, 1, 0, TRUE, "g"),
          b2 |-> MCHeader("b1", 2, 3, 2, 1, TRUE, "g"), x2 |-> MCHeader("b1", 2, 3, 7, 0, FALSE, "g")]
MCPath == [g |-> {"g"}, a1 |-> {"g", "a1"}, a2 |-> {"g", "a1", "a2"}, b1 |-> {"g", "b1"},
           b2 |-> {"g", "b1", "b2"}, x2 |-> {"g", "b1", "x2"}]
MCBatches == {<<"a2">>, <<"b1", "a2", "b2">>, <<"b1", "x2">>}

\* A branch that leaves the chain before a difficulty anchor, and one after it.
MCStaleHdr ==
    [g |-> MCHeader("g", 0, 1, 0, 0, TRUE, "g"), a1 |-> MCHeader("g", 1, 2, 1, 0, TRUE, "g"),
     a2 |-> MCHeader("a1", 2, 3, 2, 0, TRUE, "g"), a3 |-> MCHeader("a2", 3, 4, 3, 0, TRUE, "a2"),
     s3 |-> MCHeader("a2", 3, 4, 4, 0, TRUE, "a2"), s4 |-> MCHeader("s3", 4, 5, 5, 0, TRUE, "a2"),
     b2 |-> MCHeader("a1", 2, 3, 7, 0, TRUE, "g"), b3 |-> MCHeader("b2", 3, 4, 8, 0, TRUE, "b2"),
     b4 |-> MCHeader("b3", 4, 5, 9, 0, TRUE, "b2")]
MCStalePath ==
    [g |-> {"g"}, a1 |-> {"g", "a1"}, a2 |-> {"g", "a1", "a2"}, a3 |-> {"g", "a1", "a2", "a3"},
     s3 |-> {"g", "a1", "a2", "s3"}, s4 |-> {"g", "a1", "a2", "s3", "s4"}, b2 |-> {"g", "a1", "b2"},
     b3 |-> {"g", "a1", "b2", "b3"}, b4 |-> {"g", "a1", "b2", "b3", "b4"}]
MCStaleBatches == {<<"s3">>, <<"s4">>, <<"b2", "b3", "b4">>}

MCRule(rate, per, burst) == [rate |-> rate, per |-> per, burst |-> burst]
MCOwn == MCRule(2, 1, 2)
MCShared == MCRule(1, 4, 2)
MCReserve == MCRule(2, 3, 2)
=============================================================================
