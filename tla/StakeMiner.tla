----------------------------- MODULE StakeMiner ------------------------------
(***************************************************************************)
(* The staking thread: it reads pindexBest, collects transactions under     *)
(* cs_main, searches a kernel and stamps the block without the lock, and    *)
(* looks at hashBestChain again before it hands the block to ProcessBlock.  *)
(* The chain and the pool change under it.                                  *)
(*                                                                          *)
(* A best block is named by its height: the chain only grows here, which is *)
(* enough for the reads of pindexBest to disagree; that a sync-checkpoint   *)
(* brings an old best block back is left out.  Time is in seconds, the ten  *)
(* minutes of PastDrift and FutureDrift are never reached, and every        *)
(* transaction pays a fee of one.                                           *)
(***************************************************************************)
EXTENDS Integers, FiniteSets

CONSTANTS
    Tx,
    TxTime,         \* nTime of a transaction
    MaxHeight,      \* bound on the chain
    MaxTime         \* bound on the clock

ASSUME StakeAssumption ==
    /\ IsFiniteSet(Tx) /\ TxTime \in [Tx -> Nat]
    /\ MaxHeight \in Nat /\ MaxTime \in Nat \ {0}

VARIABLES
    now,
    pindexBest,     \* the height of the best block
    blockTime,      \* the times of the blocks up to it
    pool,           \* the transactions of the memory pool
    confirmed,      \* the height of every transaction of the chain, or 0
    pc,             \* where the thread is
    pindexPrev,     \* CreateNewBlock's, then CreateCoinStake's, copy
    block,          \* the block under construction
    nFees,          \* the fees CreateNewBlock has counted
    nSearchTime, nLastCoinStakeSearchTime   \* of SignBlock

search == <<nSearchTime, nLastCoinStakeSearchTime>>
chainvars == <<now, pindexBest, blockTime, pool, confirmed>>
svars == <<chainvars, pc, pindexPrev, block, nFees, search>>

Height == 0 .. MaxHeight
Time == 0 .. MaxTime
NoBlock == [prev |-> 0, height |-> 0, time |-> 0, coinbase |-> 0, coinstake |-> 0,
            reward |-> 0, vtx |-> {}]

BlockType(fees) ==
    [prev : Height, height : 0 .. MaxHeight + 1, time : Time, coinbase : Time,
     coinstake : Time, reward : 0 .. fees, vtx : SUBSET Tx]

StakeTypeOK ==
    /\ now \in Time /\ pindexBest \in Height /\ blockTime \in [0 .. pindexBest -> Time]
    /\ confirmed \in [Tx -> 0 .. pindexBest]
    /\ pool \subseteq {t \in Tx : confirmed[t] = 0}
    /\ pc \in {"idle", "collect", "sign", "search", "stamp", "check"}
    /\ pindexPrev \in Height
    /\ block \in BlockType(nFees)
    /\ nFees \in 0 .. Cardinality(Tx)
    /\ nSearchTime \in 0 .. now /\ nLastCoinStakeSearchTime \in 0 .. now

StakeInit ==
    /\ now = 1 /\ pindexBest = 0 /\ blockTime = [h \in {0} |-> 0]
    /\ pool = {} /\ confirmed = [t \in Tx |-> 0]
    /\ pc = "idle" /\ pindexPrev = 0 /\ block = NoBlock /\ nFees = 0
    /\ nSearchTime = 0 /\ nLastCoinStakeSearchTime = 0

\* GetPastTimeLimit, the median of the last eleven times (the upper one of two).
PastTimeLimit(h) ==
    LET span      == {i \in 0 .. h : i + 11 > h}
        Before(x) == Cardinality({i \in span : blockTime[i] < x})
        UpTo(x)   == Cardinality({i \in span : blockTime[i] <= x})
        middle    == Cardinality(span) \div 2
    IN  CHOOSE x \in {blockTime[i] : i \in span} : Before(x) <= middle /\ middle < UpTo(x)

MaxOf(S) == CHOOSE x \in S : \A y \in S : y <= x

-----------------------------------------------------------------------------
\* The other threads: the clock, the pool, and a block from a peer.
Tick ==
    /\ now < MaxTime /\ now' = now + 1
    /\ UNCHANGED <<pindexBest, blockTime, pool, confirmed, pc, pindexPrev, block, nFees, search>>

AcceptTx(t) ==
    /\ t \notin pool /\ confirmed[t] = 0
    /\ pool' = pool \cup {t}
    /\ UNCHANGED <<now, pindexBest, blockTime, confirmed, pc, pindexPrev, block, nFees, search>>

\* A plausible bug: the pool keeps what the block holds.
ExtendKeepsPool(S, nTime) ==
    /\ pindexBest < MaxHeight
    /\ pindexBest' = pindexBest + 1
    /\ blockTime' = [h \in 0 .. pindexBest + 1 |-> IF h <= pindexBest THEN blockTime[h] ELSE nTime]
    /\ confirmed' = [t \in Tx |-> IF t \in S THEN pindexBest + 1 ELSE confirmed[t]]
    /\ UNCHANGED pool

Extend(S, nTime) ==
    /\ pindexBest < MaxHeight
    /\ pindexBest' = pindexBest + 1
    /\ blockTime' = [h \in 0 .. pindexBest + 1 |-> IF h <= pindexBest THEN blockTime[h] ELSE nTime]
    /\ confirmed' = [t \in Tx |-> IF t \in S THEN pindexBest + 1 ELSE confirmed[t]]
    /\ pool' = pool \ S

PeerBlock(S) ==
    /\ \A t \in S : confirmed[t] = 0
    /\ \E nTime \in PastTimeLimit(pindexBest) + 1 .. now : Extend(S, nTime)
    /\ UNCHANGED <<now, pc, pindexPrev, block, nFees, search>>

-----------------------------------------------------------------------------
(***************************************************************************)
(* CreateNewBlock: pindexBest is read without cs_main, and the height goes  *)
(* into the coinbase.                                                       *)
(***************************************************************************)
ReadBest ==
    /\ pc = "idle"
    /\ pindexPrev' = pindexBest
    /\ block' = [NoBlock EXCEPT !.height = pindexBest + 1, !.coinbase = now]
    /\ pc' = "collect"
    /\ UNCHANGED <<chainvars, nFees, search>>

\* Those of the pool that are not from the future.
Collected == {t \in pool : TxTime[t] <= now /\ TxTime[t] <= block.coinbase}

\* A plausible bug: the header names the best block of the moment.
CollectBest ==
    /\ pc = "collect"
    /\ block' = [block EXCEPT !.vtx = Collected, !.prev = pindexBest]
    /\ nFees' = Cardinality(Collected)
    /\ pc' = "sign"
    /\ UNCHANGED <<chainvars, pindexPrev, search>>

\* The part under cs_main: the transactions and the header.
Collect ==
    /\ pc = "collect"
    /\ block' = [block EXCEPT !.vtx = Collected, !.prev = pindexPrev]
    /\ nFees' = Cardinality(Collected)
    /\ pc' = "sign"
    /\ UNCHANGED <<chainvars, pindexPrev, search>>

(***************************************************************************)
(* SignBlock and CreateCoinStake, without a lock.  The search goes back     *)
(* from now to the end of the last one, and is given up when pindexBest     *)
(* moves.                                                                   *)
(***************************************************************************)
StartSearch ==
    /\ pc = "sign"
    /\ nSearchTime' = now
    /\ IF now > nLastCoinStakeSearchTime
         THEN pc' = "search" /\ pindexPrev' = pindexBest
         ELSE pc' = "idle" /\ UNCHANGED pindexPrev
    /\ UNCHANGED <<chainvars, block, nFees, nLastCoinStakeSearchTime>>

Search ==
    /\ pc = "search"
    /\ \/ /\ pindexPrev = pindexBest
          /\ \E k \in nLastCoinStakeSearchTime + 1 .. nSearchTime :
                block' = [block EXCEPT !.coinstake = k, !.reward = nFees]
          /\ pc' = "stamp"
          /\ UNCHANGED nLastCoinStakeSearchTime
       \/ /\ pc' = "idle"
          /\ nLastCoinStakeSearchTime' = nSearchTime
          /\ UNCHANGED block
    /\ UNCHANGED <<chainvars, pindexPrev, nFees, nSearchTime>>

(***************************************************************************)
(* The times, from the pindexBest of this moment; then the transactions     *)
(* that are later than the block are taken out.                             *)
(***************************************************************************)
Stamp(b) ==
    LET nTime == MaxOf({PastTimeLimit(pindexBest) + 1, b.coinstake} \cup {TxTime[t] : t \in b.vtx})
    IN  [b EXCEPT !.coinbase = b.coinstake, !.time = nTime,
                  !.vtx = {t \in b.vtx : TxTime[t] <= nTime}]

SignBlock ==
    /\ pc = "stamp"
    /\ IF block.coinstake > PastTimeLimit(pindexBest)
         THEN /\ block' = Stamp(block)
              /\ pc' = "check"
              /\ UNCHANGED nLastCoinStakeSearchTime
         ELSE /\ pc' = "idle"
              /\ nLastCoinStakeSearchTime' = nSearchTime
              /\ UNCHANGED block
    /\ UNCHANGED <<chainvars, pindexPrev, nFees, nSearchTime>>

-----------------------------------------------------------------------------
\* What CheckBlock, AcceptBlock and ConnectBlock ask of the block.
CheckTimes(b) == b.time = b.coinstake /\ \A t \in b.vtx : TxTime[t] <= b.time

CheckContext(b) ==
    /\ b.height = b.prev + 1
    /\ b.time > PastTimeLimit(b.prev)
    /\ \A t \in b.vtx : confirmed[t] = 0 \/ confirmed[t] > b.prev
    /\ b.reward <= Cardinality(b.vtx)

NotStale == block.prev = pindexBest

CheckStake ==
    /\ pc = "check"
    /\ pc' = "idle"
    /\ IF NotStale /\ CheckTimes(block) /\ CheckContext(block) /\ pindexBest < MaxHeight
         THEN Extend(block.vtx, block.time)
         ELSE UNCHANGED <<pindexBest, blockTime, pool, confirmed>>
    /\ UNCHANGED <<now, pindexPrev, block, nFees, search>>

StakeNext ==
    \/ Tick \/ (\E t \in Tx : AcceptTx(t)) \/ (\E S \in SUBSET Tx : PeerBlock(S))
    \/ ReadBest \/ Collect \/ StartSearch \/ Search \/ SignBlock \/ CheckStake

StakeSpec == StakeInit /\ [][StakeNext]_svars

-----------------------------------------------------------------------------
(***************************************************************************)
(* The block that CheckStake hands to ProcessBlock fits the best block it   *)
(* extends - height, time limit, transactions and the fees in its reward -  *)
(* although pindexBest is read four times without cs_main on the way.       *)
(***************************************************************************)
SubmittedFits == pc = "check" /\ NotStale => CheckContext(block)

(***************************************************************************)
(* Why it does, while other threads extend the chain between the reads:     *)
(* the height and the header come from the first one; what was collected is *)
(* confirmed above it, if at all; the fees are those of the transactions,   *)
(* none of which is later than the clock; and the time of the last read is  *)
(* that of the header's block, or the block is stale for good.              *)
(***************************************************************************)
HeightInv ==
    /\ pc = "collect" => block.height = pindexPrev + 1 /\ pindexPrev <= pindexBest
    /\ pc \in {"sign", "search", "stamp", "check"} =>
          block.height = block.prev + 1 /\ block.prev <= pindexBest
TxInv ==
    pc \in {"sign", "search", "stamp", "check"} =>
       \A t \in block.vtx : /\ confirmed[t] = 0 \/ confirmed[t] > block.prev
                           /\ TxTime[t] <= now
FeeInv ==
    /\ pc \in {"collect", "sign", "search"} => block.reward = 0
    /\ pc \in {"sign", "search", "stamp"} => nFees = Cardinality(block.vtx)
    /\ pc = "check" => block.reward <= Cardinality(block.vtx)
TimeInv ==
    /\ pc = "stamp" => block.coinstake <= now
    /\ pc = "check" /\ NotStale => block.time > PastTimeLimit(block.prev)
StakeInv == StakeTypeOK /\ HeightInv /\ TxInv /\ FeeInv /\ TimeInv

(***************************************************************************)
(* "make sure coinstake would meet timestamp protocol as it would be the    *)
(* same as the block timestamp" (SignBlock)                                 *)
(***************************************************************************)
CoinStakeTimeKept == pc = "check" => block.time = block.coinstake

=============================================================================
