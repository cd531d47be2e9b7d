------------------------------ MODULE Mempool ------------------------------
(***************************************************************************)
(* The mempool over the accounts of a moving chain (lib/chain mempool.rs,  *)
(* state.rs, body.rs and the end of an adoption in manager.rs), and the    *)
(* block template taken from it (node validator.rs).                       *)
(*                                                                         *)
(* The chain manager is one value owned by the consensus thread, so a      *)
(* submission, an adopted block and a reorg are steps; what interleaves is *)
(* their order, and blocks mined elsewhere carry transactions this pool    *)
(* never saw or holds in another version.                                  *)
(***************************************************************************)
EXTENDS Integers, Sequences, FiniteSets, FiniteSetsExt, Functions

CONSTANTS
    TxId, TxBody,                  \* TxBody[t]: [from, to, nonce, fee, amount, size]
    Sender, Funds,                 \* accounts and what the genesis state gives them
    RelayFloor,                    \* MempoolParams.relay_fee_floor
    PoolTxs, PoolBytes,            \* max_txs, max_bytes
    SenderTxs, NonceGap,           \* effective_per_sender, max_nonce_gap
    PoolTtl, ReinjectCap,          \* ttl_secs, reorg_reinject_cap
    TemplateTxs, TemplateBytes,    \* MAX_TXS_PER_BLOCK - 1, the room of a body
    Reward, Maturity, ReorgCap,    \* block_reward, COINBASE_MATURITY, max_reorg_depth
    MinedBlocks,                   \* [to, txs]: the blocks anyone may mine
    ChainMax, BranchLead, PoolClock  \* bounds: height of the chain, how much longer a branch is, clock

ASSUME PoolConstants ==
    /\ IsFiniteSet(TxId) /\ IsFiniteSet(Sender) /\ Funds \in [Sender -> Nat]
    /\ TxId \subseteq Nat /\ Sender \subseteq Nat  \* an id and an address are numbers
    /\ DOMAIN TxBody = TxId
    /\ \A t \in TxId :
          /\ TxBody[t].from \in Sender /\ TxBody[t].to \in Sender /\ TxBody[t].nonce \in Nat
          /\ TxBody[t].fee \in Nat /\ TxBody[t].amount \in Nat /\ TxBody[t].size \in Nat \ {0}
    /\ {RelayFloor, PoolTxs, PoolBytes, SenderTxs, NonceGap, PoolTtl, ReinjectCap, TemplateTxs,
        TemplateBytes, Reward, Maturity, ReorgCap, ChainMax, BranchLead, PoolClock} \subseteq Nat
    /\ Maturity > ReorgCap
    /\ MinedBlocks \subseteq [to : Sender, txs : Seq(TxId)]

VARIABLES
    pool,      \* [tx: pooled id -> [arrived, executable], next: sender -> next_nonce]
    blocks,    \* the canonical chain: sequence of [to, txs]
    poolClock  \* now_unix

poolVars == <<pool, blocks, poolClock>>

From(t) == TxBody[t].from
Nonce(t) == TxBody[t].nonce
Fee(t) == TxBody[t].fee
Size(t) == TxBody[t].size
Amount(t) == TxBody[t].amount
outlay(t) == Amount(t) + Fee(t)
fee_per_byte(t) == Fee(t) \div Size(t)
FromOf(S, s) == {t \in S : From(t) = s}
Each(op(_)) == [t \in TxId |-> op(t)]

(***************************************************************************)
(* Accounts: what applying the blocks leaves, and what of it may be spent  *)
(* in the block at a given height.                                         *)
(***************************************************************************)
Mined(c) == UNION {Range(c[h].txs) : h \in DOMAIN c}
coinbase_credit(b) == Reward + SumFunctionOnSet(Each(Fee), Range(b.txs))
Moved(S, s) ==
    SumFunctionOnSet(Each(Amount), {t \in S : TxBody[t].to = s}) - SumFunctionOnSet(Each(outlay), FromOf(S, s))
PaidTo(c, s, hs) ==
    SumFunctionOnSet([h \in DOMAIN c |-> coinbase_credit(c[h])], {h \in hs : c[h].to = s})
account(c, s) ==
    [nonce |-> Cardinality(FromOf(Mined(c), s)),
     balance |-> Funds[s] + Moved(Mined(c), s) + PaidTo(c, s, DOMAIN c)]
nonces(c) == [s \in Sender |-> account(c, s).nonce]
coinbase_is_mature(h, spend) == spend - h >= Maturity
immature_at(c, s, spend) == PaidTo(c, s, {h \in DOMAIN c : ~coinbase_is_mature(h, spend)})
spendable(c, s) == account(c, s).balance - immature_at(c, s, Len(c) + 1)

\* validate_block_body: each transaction against what those before it left;
\* the block's own reward is credited first and is immature
validate_block_body(c, txs) ==
    \A i \in DOMAIN txs :
        LET done == {txs[j] : j \in 1..(i - 1)}
            t == txs[i]
        IN  /\ t \notin done
            /\ Nonce(t) = account(c, From(t)).nonce + Cardinality(FromOf(done, From(t)))
            /\ spendable(c, From(t)) + Moved(done, From(t)) >= outlay(t)

(***************************************************************************)
(* The pool.                                                               *)
(***************************************************************************)
Of(p, s) == FromOf(DOMAIN p.tx, s)
AtNonce(p, s, n) == {t \in Of(p, s) : Nonce(t) = n}
pending_outlay(p, s) == SumFunctionOnSet(Each(outlay), Of(p, s))

\* the nonces that continue the account's run, up to the first gap
Run(p, s, next) ==
    {t \in Of(p, s) : Nonce(t) >= next /\ \A n \in next..Nonce(t) : AtNonce(p, s, n) # {}}
\* the marks of the senders of S anew, each from its own nonce
resplit(p, S, next) ==
    [p EXCEPT !.tx = [t \in DOMAIN @ |->
        IF From(t) \in S THEN [@[t] EXCEPT !.executable = t \in Run(p, From(t), next[From(t)])] ELSE @[t]]]

insert(p, t, row) == [p EXCEPT !.tx = [u \in DOMAIN @ \cup {t} |-> IF u = t THEN row ELSE @[u]]]

\* the last transaction of a sender takes its next_nonce along
remove(p, ids) ==
    LET kept == [p EXCEPT !.tx = Restrict(@, DOMAIN @ \ ids)]
        gone == {s \in Sender : Of(p, s) # {} /\ Of(kept, s) = {}}
    IN  [kept EXCEPT !.next = Restrict(@, DOMAIN @ \ gone)]
remember(p, S, next) ==
    [p EXCEPT !.next = [s \in DOMAIN @ \cup S |-> IF s \in S THEN next[s] ELSE @[s]]]

sweep_expired(p, now) ==
    LET dead == {t \in DOMAIN p.tx : now - p.tx[t].arrived > PoolTtl}
        left == remove(p, dead)
        memo == [s \in Sender |-> IF s \in DOMAIN left.next THEN left.next[s] ELSE 0]
    IN  resplit(left, {From(t) : t \in dead}, memo)

\* ties of equal price go by arrival and id, or by sender
QueuedLess(p, t, u) ==
    LET a == fee_per_byte(t) b == fee_per_byte(u) IN
    \/ a < b
    \/ a = b /\ p.tx[t].arrived > p.tx[u].arrived
    \/ a = b /\ p.tx[t].arrived = p.tx[u].arrived /\ t > u
eviction_candidate(p) ==
    LET queued == {t \in DOMAIN p.tx : ~p.tx[t].executable}
        cheapest == Min({fee_per_byte(t) : t \in DOMAIN p.tx})
        sender == Min({From(t) : t \in {u \in DOMAIN p.tx : fee_per_byte(u) = cheapest}})
    IN  IF queued # {} THEN CHOOSE t \in queued : \A u \in queued \ {t} : QueuedLess(p, t, u)
        ELSE CHOOSE t \in Of(p, sender) : \A u \in Of(p, sender) : Nonce(u) <= Nonce(t)

Full(p, t) ==
    \/ Cardinality(DOMAIN p.tx) >= PoolTxs
    \/ SumFunctionOnSet(Each(Size), DOMAIN p.tx) + Size(t) > PoolBytes

\* mutant: room is made at any price
MakeRoomAtAnyPrice(p, t) ==
    [pool |-> IF Full(p, t) THEN remove(p, {eviction_candidate(p)}) ELSE p, ok |-> TRUE]
\* the eviction loop of commit: it makes room, or refuses with what it evicted gone
Evicts(p, t) == Full(p, t) /\ DOMAIN p.tx # {} /\ fee_per_byte(t) >= fee_per_byte(eviction_candidate(p))
evict_one(p, t) == IF Evicts(p, t) THEN remove(p, {eviction_candidate(p)}) ELSE p
Room(p, t) == [pool |-> p, ok |-> ~Full(p, t)]
MakeRoom(p, t) ==
    LET left[k \in 0..Cardinality(DOMAIN p.tx)] == IF k = 0 THEN p ELSE evict_one(left[k - 1], t)
    IN  Room(left[Cardinality(DOMAIN p.tx)], t)

bump(t) == Fee(t) + (IF Fee(t) \div 4 > 1 THEN Fee(t) \div 4 ELSE 1)
check(p, c, t) ==
    LET next == account(c, From(t)).nonce
        replaces == AtNonce(p, From(t), Nonce(t))
    IN  /\ Fee(t) >= RelayFloor
        /\ t \notin DOMAIN p.tx
        /\ Nonce(t) \in next..(next + NonceGap)
        /\ \A old \in replaces : Fee(t) >= bump(old)
        /\ pending_outlay(p, From(t)) - SumFunctionOnSet(Each(outlay), replaces) + outlay(t) <= spendable(c, From(t))
        /\ Cardinality(Of(p, From(t)) \ replaces) < SenderTxs

\* a replacement refused for want of room puts back what it took out
commit(p, c, t, now) ==
    LET s == From(t)
        swept == sweep_expired(p, now)
        replaces == AtNonce(swept, s, Nonce(t))
        room == MakeRoom(remove(swept, replaces), t)
        back == [room.pool EXCEPT !.tx = [u \in DOMAIN @ \cup replaces |-> IF u \in replaces THEN swept.tx[u] ELSE @[u]]]
        fresh == [arrived |-> now, executable |-> FALSE]
    IN  IF room.ok
        THEN [pool |-> resplit(insert(remember(room.pool, {s}, nonces(c)), t, fresh), {s}, nonces(c)), ok |-> TRUE]
        ELSE [pool |-> IF replaces = {} THEN room.pool ELSE resplit(back, {s}, nonces(c)), ok |-> FALSE]

submit(p, c, t, now) == IF check(p, c, t) THEN commit(p, c, t, now) ELSE [pool |-> p, ok |-> FALSE]

(***************************************************************************)
(* A block or a branch was adopted (update_mempool): c is the chain now.   *)
(***************************************************************************)
drop_below_nonce(p, S, next) == remove(p, {t \in DOMAIN p.tx : From(t) \in S /\ Nonce(t) < next[From(t)]})
\* mutant: the marks of what stays are not set anew
FollowDropsOnly(p, c, S) == drop_below_nonce(remember(p, S, nonces(c)), S, nonces(c))
\* for each sender of S, none of whom sees the others' transactions
Follow(p, c, S) == resplit(drop_below_nonce(remember(p, S, nonces(c)), S, nonces(c)), S, nonces(c))
resplit_all(p, c) == Follow(p, c, {s \in Sender : Of(p, s) # {}})
on_block_connected(p, c, spent) ==
    Follow(remove(p, UNION {AtNonce(p, From(t), Nonce(t)) : t \in spent}), c, {From(t) : t \in spent})

\* newest disconnected block first, in the order of the block, up to the cap
tally(acc, r) == [pool |-> r.pool, taken |-> acc.taken + (IF r.ok THEN 1 ELSE 0)]
take_back(acc, c, t, now) ==
    IF acc.taken >= ReinjectCap THEN acc ELSE tally(acc, submit(acc.pool, c, t, now))
reinject(acc, c, txs, now) ==
    LET after[i \in 0..Len(txs)] == IF i = 0 THEN acc ELSE take_back(after[i - 1], c, txs[i], now)
    IN  after[Len(txs)]
on_reorg_reinject(p, c, gone, now) ==
    LET after[i \in 0..Len(gone)] ==
            IF i = 0 THEN [pool |-> p, taken |-> 0]
            ELSE reinject(after[i - 1], c, gone[Len(gone) + 1 - i].txs, now)
    IN  after[Len(gone)].pool

\* the executable chains by the price of their heads, until one transaction does not fit
template(p) ==
    LET ready == {t \in DOMAIN p.tx : p.tx[t].executable}
        first(s) == CHOOSE t \in FromOf(ready, s) : \A u \in FromOf(ready, s) : Nonce(t) <= Nonce(u)
        before(t, u) ==
            LET a == fee_per_byte(first(From(t))) b == fee_per_byte(first(From(u))) IN
            IF From(t) = From(u) THEN Nonce(t) < Nonce(u)
            ELSE a > b \/ (a = b /\ From(t) < From(u))
        all == [i \in 1..Cardinality(ready) |->
                   CHOOSE t \in ready : Cardinality({u \in ready : before(u, t)}) = i - 1]
        fits(i) == i <= TemplateTxs /\ SumFunctionOnSet(Each(Size), {all[j] : j \in 1..i}) <= TemplateBytes
    IN  SubSeq(all, 1, Max({0} \cup {i \in DOMAIN all : fits(i)}))

(***************************************************************************)
(* Steps.                                                                  *)
(***************************************************************************)
PoolInit == pool = [tx |-> <<>>, next |-> <<>>] /\ blocks = <<>> /\ poolClock = 0

submit_tx(t) ==
    /\ pool' = submit(pool, blocks, t, poolClock).pool
    /\ UNCHANGED <<blocks, poolClock>>

\* the end of try_adopt: rollback of the last d blocks, apply of a longer branch
update_mempool(d, branch) ==
    LET fork == Len(blocks) - d
        now == SubSeq(blocks, 1, fork) \o branch
        gone == SubSeq(blocks, fork + 1, Len(blocks))
        connected == on_block_connected(pool, now, Mined(branch))
        back == IF d = 0 THEN connected ELSE on_reorg_reinject(connected, now, gone, poolClock)
    IN  /\ d <= ReorgCap /\ d <= Len(blocks) /\ Len(branch) > d /\ Len(now) <= ChainMax
        /\ blocks' = now
        /\ pool' = resplit_all(back, now)
        /\ UNCHANGED poolClock

PoolTick == poolClock < PoolClock /\ poolClock' = poolClock + 1 /\ UNCHANGED <<pool, blocks>>

\* n blocks mined anywhere, each valid where it stands
Branches(c, n) ==
    {branch \in [1..n -> MinedBlocks] :
        \A i \in 1..n : validate_block_body(c \o SubSeq(branch, 1, i - 1), branch[i].txs)}
AdoptAny ==
    \E d \in 0..ReorgCap, n \in 1..(ReorgCap + BranchLead) :
        /\ d <= Len(blocks) /\ n \in (d + 1)..(d + BranchLead)
        /\ \E branch \in Branches(SubSeq(blocks, 1, Len(blocks) - d), n) : update_mempool(d, branch)

PoolNext == (\E t \in TxId : submit_tx(t)) \/ AdoptAny \/ PoolTick
-----------------------------------------------------------------------------
(***************************************************************************)
(* Properties.                                                             *)
(***************************************************************************)
\* At most one transaction for a nonce, none whose nonce the chain has used,
\* no more than the caps; the executable marks, which admission, eviction,
\* expiry, replacement and adoption each update for some senders only, are
\* exactly the run from the account's nonce.
PoolFitsTip ==
    /\ Cardinality(DOMAIN pool.tx) <= PoolTxs
    /\ \A s \in Sender :
          /\ Cardinality(Of(pool, s)) <= SenderTxs
          /\ {t \in Of(pool, s) : pool.tx[t].executable} = Run(pool, s, account(blocks, s).nonce)
          /\ \A t \in Of(pool, s) : Nonce(t) >= account(blocks, s).nonce /\ AtNonce(pool, s, Nonce(t)) = {t}

\* A template is a valid body for the next block, in full, as long as every
\* sender can still pay for what it has pooled: the order across senders and
\* nonces is right.
TemplateApplies ==
    (\A s \in Sender : pending_outlay(pool, s) <= spendable(blocks, s))
        => validate_block_body(blocks, template(pool))

\* The reward of a block that a reorg can still undo has not been spent.
RewardsInReachUnspent ==
    \A s \in Sender :
        PaidTo(blocks, s, {h \in DOMAIN blocks : h > Len(blocks) - ReorgCap}) <= account(blocks, s).balance

\* Whatever blocks and reorgs the pool (mempool.rs) went through, it fits the
\* tip, a template from it applies, and no reward in reach of a reorg is spent.
PoolSound == PoolFitsTip /\ TemplateApplies /\ RewardsInReachUnspent

\* A transaction leaves the pool only for a reason: its nonce is used, it
\* expired, one that pays more took its nonce, or a full pool took one that
\* pays no less per byte.
LeavesForAReason ==
    \A t \in DOMAIN pool.tx \ DOMAIN pool'.tx :
       \/ Nonce(t) < account(blocks', From(t)).nonce
       \/ poolClock - pool.tx[t].arrived > PoolTtl
       \/ \E u \in AtNonce(pool', From(t), Nonce(t)) : Fee(u) > Fee(t)
       \/ \E u \in DOMAIN pool'.tx \ DOMAIN pool.tx :
             fee_per_byte(u) >= fee_per_byte(t) /\ Cardinality(DOMAIN pool'.tx) >= PoolTxs

\* A reorg loses no payment: what the abandoned blocks held and the new
\* branch does not is pooled again, as long as its sender can pay for
\* everything and the caps leave room.
Reinjected ==
    LET c == blocks'
        lost == Mined(blocks) \ Mined(c)
        all(s) == FromOf(lost \cup DOMAIN pool.tx, s)
    IN  Cardinality(lost \cup DOMAIN pool.tx) <= PoolTxs /\ Cardinality(lost) <= ReinjectCap =>
          \A s \in Sender : \A t \in FromOf(lost, s) :
             \/ t \in DOMAIN pool'.tx
             \/ Nonce(t) < account(c, s).nonce
             \/ SumFunctionOnSet(Each(outlay), all(s)) > spendable(c, s)
             \/ \E u \in all(s) \ {t} : Nonce(u) = Nonce(t)
             \/ Nonce(t) > account(c, s).nonce + NonceGap
             \/ Cardinality(all(s)) > SenderTxs

\* No step of the pool loses a payment: on_block_connected, commit and
\* sweep_expired drop one only for a reason, on_reorg_reinject takes back what
\* a reorg undid.
PoolSteps == [][LeavesForAReason /\ Reinjected]_poolVars
=============================================================================
