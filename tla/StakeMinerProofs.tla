-------------------------- MODULE StakeMinerProofs ---------------------------
(***************************************************************************)
(* Proofs about the staking thread, for any set of transactions, any height *)
(* and any time.                                                            *)
(***************************************************************************)
EXTENDS StakeMiner, FiniteSetTheorems, WellFoundedInduction, TLAPS

-----------------------------------------------------------------------------
\* A set of numbers has a least element.
LEMMA LeastNumber ==
    ASSUME NEW T \in SUBSET Nat, T # {}
    PROVE  \E x \in T : \A y \in T : x <= y
  <1>1. PICK x \in T : \A y \in T : ~(<<y, x>> \in OpToRel(<, Nat))
    BY NatLessThanWellFounded, WFMin
  <1>2. \A y \in T : ~(y < x)
    BY <1>1 DEF OpToRel
  <1>. QED
    BY <1>2

\* A bounded set of numbers has a greatest element.
LEMMA GreatestNumber ==
    ASSUME NEW T \in SUBSET Nat, T # {}, NEW n \in Nat, \A y \in T : y <= n
    PROVE  \E x \in T : \A y \in T : y <= x
  <1>. DEFINE U == {k \in Nat : \A y \in T : y <= k}
  <1>1. PICK x \in U : \A k \in U : x <= k
    BY LeastNumber
  <1>2. x \in T
    <2>. SUFFICES ASSUME x \notin T
                  PROVE  FALSE
      OBVIOUS
    <2>1. PICK y \in T : TRUE
      OBVIOUS
    <2>2. x \in Nat /\ x # 0
      BY <1>1, <2>1
    <2>3. x - 1 \in U
      BY <1>1, <2>2
    <2>. QED
      BY <1>1, <2>2, <2>3
  <1>. QED
    BY <1>1, <1>2

\* MaxOf is the greatest element, where there is one.
LEMMA MaxOfBounded ==
    ASSUME NEW T \in SUBSET Nat, T # {}, NEW n \in Nat, \A y \in T : y <= n
    PROVE  MaxOf(T) \in T /\ \A y \in T : y <= MaxOf(T)
  BY GreatestNumber DEF MaxOf

-----------------------------------------------------------------------------
\* GetPastTimeLimit finds a median: it is the time of one of the blocks.
LEMMA PastTimeLimitType ==
    ASSUME StakeTypeOK, NEW h \in 0 .. pindexBest
    PROVE  PastTimeLimit(h) \in Time
  <1>. DEFINE span      == {i \in 0 .. h : i + 11 > h}
              Before(x) == Cardinality({i \in span : blockTime[i] < x})
              UpTo(x)   == Cardinality({i \in span : blockTime[i] <= x})
              middle    == Cardinality(span) \div 2
              V         == {blockTime[i] : i \in span}
              G         == {x \in V : middle < UpTo(x)}
  <1>0. /\ h \in Nat /\ pindexBest \in Nat /\ MaxTime \in Nat
        /\ blockTime \in [0 .. pindexBest -> Time]
    BY StakeAssumption DEF StakeTypeOK, Height
  <1>1. \A i \in span : blockTime[i] \in Nat /\ blockTime[i] <= MaxTime
    BY <1>0 DEF Time
  <1>2. IsFiniteSet(span) /\ Cardinality(span) \in Nat
    <2>1. IsFiniteSet(0 .. h)
      BY <1>0, FS_Interval
    <2>. QED
      BY <2>1, FS_Subset, FS_CardinalityType
  <1>3. Cardinality(span) # 0
    <2>1. h \in span
      BY <1>0
    <2>. HIDE DEF span
    <2>. QED
      BY <1>2, <2>1, FS_EmptySet
  <1>4. middle \in Nat /\ middle < Cardinality(span)
    <2>. HIDE DEF span
    <2>. QED
      BY <1>2, <1>3
  <1>5. \A x : UpTo(x) \in Nat /\ Before(x) \in Nat
    <2>. SUFFICES ASSUME NEW x
                  PROVE  UpTo(x) \in Nat /\ Before(x) \in Nat
      OBVIOUS
    <2>. HIDE DEF span
    <2>. QED
      BY <1>2, FS_Subset, FS_CardinalityType
  <1>6. V \subseteq Nat /\ V # {} /\ \A y \in V : y <= MaxTime
    <2>1. h \in span
      BY <1>0
    <2>. HIDE DEF span
    <2>. QED
      BY <1>1, <2>1
  <1>7. PICK v \in V : \A y \in V : y <= v
    <2>. HIDE DEF V
    <2>. QED
      BY <1>0, <1>6, GreatestNumber
  <1>8. UpTo(v) = Cardinality(span)
    <2>. HIDE DEF span
    <2>1. {i \in span : blockTime[i] <= v} = span
      BY <1>7
    <2>. QED
      BY <2>1
  <1>9. G \subseteq Nat /\ G # {}
    <2>. HIDE DEF V, middle, span, UpTo
    <2>. QED
      BY <1>4, <1>6, <1>7, <1>8
  <1>10. PICK x \in G : \A y \in G : x <= y
    <2>. HIDE DEF G
    <2>. QED
      BY <1>9, LeastNumber
  <1>11. x \in V /\ x \in Nat /\ middle < UpTo(x)
    <2>. HIDE DEF V, middle, span, UpTo
    <2>. QED
      BY <1>10, <1>6
  <1>12. Before(x) <= middle
    <2>. DEFINE W == {y \in V : y < x}
    <2>1. CASE W = {}
      <3>1. {i \in span : blockTime[i] < x} = {}
        <4>. HIDE DEF span
        <4>. QED
          BY <2>1
      <3>. HIDE DEF middle, span
      <3>. QED
        BY <3>1, <1>4, FS_EmptySet
    <2>2. CASE W # {}
      <3>1. W \subseteq Nat /\ \A y \in W : y <= MaxTime
        <4>. HIDE DEF V
        <4>. QED
          BY <1>6
      <3>2. PICK w \in W : \A y \in W : y <= w
        <4>. HIDE DEF W
        <4>. QED
          BY <1>0, <2>2, <3>1, GreatestNumber
      <3>3. w \in V /\ w \in Nat /\ w < x /\ \A y \in V : y < x => y <= w
        <4>. HIDE DEF V
        <4>. QED
          BY <3>1, <3>2
      <3>4. w \notin G
        <4>. HIDE DEF G
        <4>. QED
          BY <1>10, <1>11, <3>3
      <3>5. UpTo(w) <= middle
        <4>1. ~ (middle < UpTo(w))
          BY <3>3, <3>4
        <4>2. UpTo(w) \in Nat
          BY <1>5
        <4>. HIDE DEF middle, UpTo
        <4>. QED
          BY <4>1, <4>2, <1>4
      <3>6. {i \in span : blockTime[i] < x} = {i \in span : blockTime[i] <= w}
        <4>. SUFFICES ASSUME NEW i \in span
                      PROVE  blockTime[i] < x <=> blockTime[i] <= w
          OBVIOUS
        <4>1. blockTime[i] \in V /\ blockTime[i] \in Nat
          BY <1>1
        <4>. HIDE DEF V, span
        <4>. QED
          BY <4>1, <3>3, <1>11
      <3>. QED
        BY <3>5, <3>6
    <2>. QED
      BY <2>1, <2>2
  <1>13. PastTimeLimit(h) \in V
    <2>1. \E y \in V : Before(y) <= middle /\ middle < UpTo(y)
      <3>. HIDE DEF V, middle, Before, UpTo
      <3>. QED
        BY <1>11, <1>12
    <2>2. PastTimeLimit(h) = CHOOSE y \in V : Before(y) <= middle /\ middle < UpTo(y)
      BY Zenon DEF PastTimeLimit
    <2>. HIDE DEF V, middle, Before, UpTo
    <2>. QED
      BY <2>1, <2>2
  <1>. QED
    BY <1>0, <1>1, <1>13 DEF Time

-----------------------------------------------------------------------------
\* A new best block keeps the types, and confirms what it holds above every
\* block that was there.
LEMMA ExtendStep ==
    ASSUME StakeTypeOK, NEW S \in SUBSET Tx, NEW nTime \in Time, Extend(S, nTime)
    PROVE  /\ pindexBest' = pindexBest + 1 /\ pindexBest' \in Height
           /\ blockTime' \in [0 .. pindexBest' -> Time]
           /\ confirmed' \in [Tx -> 0 .. pindexBest']
           /\ pool' \subseteq {t \in Tx : confirmed'[t] = 0}
           /\ \A t \in Tx : confirmed'[t] \in {confirmed[t], pindexBest + 1}
  <1>1. pindexBest \in Nat /\ MaxHeight \in Nat /\ pindexBest < MaxHeight
    BY StakeAssumption DEF StakeTypeOK, Height, Extend
  <1>2. pindexBest' = pindexBest + 1 /\ pindexBest' \in Height
    BY <1>1 DEF Extend, Height
  <1>3. blockTime' \in [0 .. pindexBest' -> Time]
    BY <1>1, <1>2 DEF Extend, StakeTypeOK
  <1>4. \A t \in Tx : confirmed'[t] = IF t \in S THEN pindexBest + 1 ELSE confirmed[t]
    BY DEF Extend
  <1>5. confirmed' \in [Tx -> 0 .. pindexBest']
    BY <1>1, <1>2 DEF Extend, StakeTypeOK
  <1>6. pool' \subseteq {t \in Tx : confirmed'[t] = 0}
    BY <1>4 DEF Extend, StakeTypeOK
  <1>. QED
    BY <1>2, <1>3, <1>4, <1>5, <1>6

\* The first state.
LEMMA StakeInitInv == StakeInit => StakeInv
  <1>. SUFFICES ASSUME StakeInit
                PROVE  StakeInv
    OBVIOUS
  <1>1. Cardinality(Tx) \in Nat
    BY StakeAssumption, FS_CardinalityType
  <1>2. StakeTypeOK
    BY <1>1, StakeAssumption DEF StakeInit, StakeTypeOK, BlockType, NoBlock, Height, Time
  <1>3. HeightInv /\ TxInv /\ FeeInv /\ TimeInv
    BY DEF StakeInit, HeightInv, TxInv, FeeInv, TimeInv
  <1>. QED
    BY <1>2, <1>3 DEF StakeInv

\* The limit at a block does not change while the block is the best one.
LEMMA SameLimit ==
    ASSUME UNCHANGED blockTime, NEW h
    PROVE  PastTimeLimit(h)' = PastTimeLimit(h)
  BY DEF PastTimeLimit

\* The clock.
LEMMA TickInv == StakeInv /\ Tick => StakeInv'
  <1>. SUFFICES ASSUME StakeInv, Tick
                PROVE  StakeInv'
    OBVIOUS
  <1>1. now \in Nat /\ MaxTime \in Nat /\ now' = now + 1 /\ now' \in Time
    BY StakeAssumption DEF StakeInv, StakeTypeOK, Tick, Time
  <1>2. StakeTypeOK'
    BY <1>1 DEF StakeInv, StakeTypeOK, Tick, search, Height
  <1>3. (HeightInv /\ FeeInv)'
    BY DEF StakeInv, HeightInv, FeeInv, Tick
  <1>4. TxInv'
    BY <1>1, StakeAssumption DEF StakeInv, StakeTypeOK, BlockType, TxInv, Tick
  <1>5. TimeInv'
    <2>1. PastTimeLimit(block.prev)' = PastTimeLimit(block.prev)
      BY SameLimit DEF Tick
    <2>. QED
      BY <2>1, <1>1 DEF StakeInv, StakeTypeOK, BlockType, Time, TimeInv, Tick, NotStale
  <1>. QED
    BY <1>2, <1>3, <1>4, <1>5 DEF StakeInv

\* A transaction enters the pool.
LEMMA AcceptTxInv ==
    ASSUME StakeInv, NEW t \in Tx, AcceptTx(t)
    PROVE  StakeInv'
  <1>1. StakeTypeOK'
    BY DEF StakeInv, StakeTypeOK, AcceptTx, search
  <1>2. (HeightInv /\ FeeInv /\ TxInv)'
    BY DEF StakeInv, HeightInv, FeeInv, TxInv, AcceptTx
  <1>3. TimeInv'
    <2>1. PastTimeLimit(block.prev)' = PastTimeLimit(block.prev)
      BY SameLimit DEF AcceptTx
    <2>. QED
      BY <2>1 DEF StakeInv, TimeInv, AcceptTx, NotStale
  <1>. QED
    BY <1>1, <1>2, <1>3 DEF StakeInv

\* A block of a peer: what the thread has read is still on the chain, and its
\* block is stale from now on.
LEMMA PeerBlockInv ==
    ASSUME StakeInv, NEW S \in SUBSET Tx, PeerBlock(S)
    PROVE  StakeInv'
  <1>0. StakeTypeOK
    BY DEF StakeInv
  <1>1. /\ pindexBest \in Nat /\ pindexBest \in 0 .. pindexBest
        /\ now \in Nat /\ now <= MaxTime /\ MaxTime \in Nat
        /\ block.prev \in Nat /\ pindexPrev \in Nat
    BY <1>0, StakeAssumption DEF StakeTypeOK, BlockType, Height, Time
  <1>2. PastTimeLimit(pindexBest) \in Nat
    BY <1>0, <1>1, PastTimeLimitType DEF Time
  <1>3. PICK nTime \in PastTimeLimit(pindexBest) + 1 .. now : Extend(S, nTime)
    BY DEF PeerBlock
  <1>4. nTime \in Time
    BY <1>1, <1>2, <1>3 DEF Time
  <1>5. /\ pindexBest' = pindexBest + 1 /\ pindexBest' \in Height
        /\ blockTime' \in [0 .. pindexBest' -> Time]
        /\ confirmed' \in [Tx -> 0 .. pindexBest']
        /\ pool' \subseteq {t \in Tx : confirmed'[t] = 0}
        /\ \A t \in Tx : confirmed'[t] \in {confirmed[t], pindexBest + 1}
    BY <1>0, <1>3, <1>4, ExtendStep
  <1>6. UNCHANGED <<now, pc, pindexPrev, block, nFees, nSearchTime, nLastCoinStakeSearchTime>>
    BY DEF PeerBlock, search
  <1>7. StakeTypeOK'
    BY <1>0, <1>5, <1>6 DEF StakeTypeOK
  <1>8. HeightInv'
    BY <1>1, <1>5, <1>6 DEF StakeInv, HeightInv
  <1>9. TxInv'
    BY <1>0, <1>1, <1>5, <1>6 DEF StakeInv, HeightInv, TxInv, StakeTypeOK, BlockType
  <1>10. FeeInv'
    BY <1>6 DEF StakeInv, FeeInv
  <1>11. TimeInv'
    BY <1>1, <1>5, <1>6 DEF StakeInv, HeightInv, TimeInv, NotStale
  <1>. QED
    BY <1>7, <1>8, <1>9, <1>10, <1>11 DEF StakeInv

-----------------------------------------------------------------------------
\* The first read of pindexBest.
LEMMA ReadBestInv == StakeInv /\ ReadBest => StakeInv'
  <1>. SUFFICES ASSUME StakeInv, ReadBest
                PROVE  StakeInv'
    OBVIOUS
  <1>0. StakeTypeOK /\ pindexBest \in Nat /\ MaxHeight \in Nat /\ nFees \in Nat
    BY StakeAssumption DEF StakeInv, StakeTypeOK, Height
  <1>1. /\ UNCHANGED <<now, pindexBest, blockTime, pool, confirmed>>
        /\ UNCHANGED <<nFees, nSearchTime, nLastCoinStakeSearchTime>>
        /\ pindexPrev' = pindexBest /\ pc' = "collect"
        /\ block' = [NoBlock EXCEPT !.height = pindexBest + 1, !.coinbase = now]
    BY DEF ReadBest, chainvars, search
  <1>2. StakeTypeOK'
    <2>1. block' \in BlockType(nFees')
      <3>1. block' = [prev |-> 0, height |-> pindexBest + 1, time |-> 0, coinbase |-> now,
                      coinstake |-> 0, reward |-> 0, vtx |-> {}]
        BY <1>1 DEF NoBlock
      <3>2. /\ 0 \in Height /\ pindexBest + 1 \in 0 .. MaxHeight + 1
            /\ 0 \in Time /\ now \in Time /\ 0 \in 0 .. nFees'
        BY <1>0, <1>1, StakeAssumption DEF StakeTypeOK, Height, Time
      <3>. QED
        BY <3>1, <3>2 DEF BlockType
    <2>. QED
      BY <1>0, <1>1, <2>1 DEF StakeTypeOK
  <1>3. (HeightInv /\ FeeInv /\ TxInv /\ TimeInv)'
    BY <1>0, <1>1 DEF HeightInv, FeeInv, TxInv, TimeInv, NoBlock
  <1>. QED
    BY <1>2, <1>3 DEF StakeInv

\* The transactions under cs_main: the block does not look at pindexBest.
LEMMA CollectInv == StakeInv /\ Collect => StakeInv'
  <1>. SUFFICES ASSUME StakeInv, Collect
                PROVE  StakeInv'
    OBVIOUS
  <1>0. StakeTypeOK
    BY DEF StakeInv
  <1>1. /\ UNCHANGED <<now, pindexBest, blockTime, pool, confirmed>>
        /\ UNCHANGED <<pindexPrev, nSearchTime, nLastCoinStakeSearchTime>>
        /\ pc = "collect" /\ pc' = "sign"
        /\ block' = [block EXCEPT !.vtx = Collected, !.prev = pindexPrev]
        /\ nFees' = Cardinality(Collected)
    BY DEF Collect, chainvars, search
  <1>2. /\ Collected \subseteq Tx
        /\ \A t \in Collected : confirmed[t] = 0 /\ TxTime[t] <= now
    BY <1>0 DEF Collected, StakeTypeOK
  <1>3. Cardinality(Collected) \in 0 .. Cardinality(Tx)
    BY <1>2, StakeAssumption, FS_Subset, FS_CardinalityType
  <1>4. block.reward = 0
    BY <1>1 DEF StakeInv, FeeInv
  <1>5. /\ block'.vtx = Collected /\ block'.prev = pindexPrev
        /\ block'.height = block.height /\ block'.reward = 0
    BY <1>0, <1>1, <1>4 DEF StakeTypeOK, BlockType
  <1>6. StakeTypeOK'
    <2>1. block' \in BlockType(nFees')
      <3>1. block \in BlockType(nFees)
        BY <1>0 DEF StakeTypeOK
      <3>2. block \in BlockType(nFees')
        <4>1. block.reward \in 0 .. nFees'
          BY <1>1, <1>3, <1>4
        <4>. QED
          BY <3>1, <4>1 DEF BlockType
      <3>3. pindexPrev \in Height
        BY <1>0 DEF StakeTypeOK
      <3>. QED
        BY <1>1, <1>2, <3>2, <3>3 DEF BlockType
    <2>. QED
      BY <1>0, <1>1, <1>3, <2>1 DEF StakeTypeOK
  <1>7. HeightInv'
    BY <1>1, <1>5 DEF StakeInv, HeightInv
  <1>8. (FeeInv /\ TxInv /\ TimeInv)'
    BY <1>1, <1>2, <1>5 DEF FeeInv, TxInv, TimeInv
  <1>. QED
    BY <1>6, <1>7, <1>8 DEF StakeInv

-----------------------------------------------------------------------------
\* SignBlock starts a search, or finds that this second was searched.
LEMMA StartSearchInv == StakeInv /\ StartSearch => StakeInv'
  <1>. SUFFICES ASSUME StakeInv, StartSearch
                PROVE  StakeInv'
    OBVIOUS
  <1>0. StakeTypeOK /\ now \in Nat
    BY DEF StakeInv, StakeTypeOK, Time
  <1>1. /\ UNCHANGED <<now, pindexBest, blockTime, pool, confirmed>>
        /\ UNCHANGED <<block, nFees, nLastCoinStakeSearchTime>>
        /\ pc = "sign" /\ pc' \in {"search", "idle"}
        /\ nSearchTime' = now /\ pindexPrev' \in {pindexPrev, pindexBest}
    BY DEF StartSearch, chainvars
  <1>2. StakeTypeOK'
    BY <1>0, <1>1 DEF StakeTypeOK
  <1>3. (HeightInv /\ FeeInv /\ TxInv /\ TimeInv)'
    BY <1>1 DEF StakeInv, HeightInv, FeeInv, TxInv, TimeInv
  <1>. QED
    BY <1>2, <1>3 DEF StakeInv

\* A kernel is found, not later than the clock, or the search is given up.
LEMMA SearchInv == StakeInv /\ Search => StakeInv'
  <1>. SUFFICES ASSUME StakeInv, Search
                PROVE  StakeInv'
    OBVIOUS
  <1>0. /\ StakeTypeOK /\ now \in Nat /\ now <= MaxTime /\ MaxTime \in Nat
        /\ nSearchTime \in Nat /\ nSearchTime <= now
        /\ nLastCoinStakeSearchTime \in Nat /\ nFees \in Nat
    BY StakeAssumption DEF StakeInv, StakeTypeOK, Time
  <1>1. /\ UNCHANGED <<now, pindexBest, blockTime, pool, confirmed>>
        /\ UNCHANGED <<pindexPrev, nFees, nSearchTime>> /\ pc = "search"
    BY DEF Search, chainvars
  <1>2. CASE /\ pc' = "stamp" /\ UNCHANGED nLastCoinStakeSearchTime
             /\ \E k \in nLastCoinStakeSearchTime + 1 .. nSearchTime :
                   block' = [block EXCEPT !.coinstake = k, !.reward = nFees]
    <2>1. PICK k \in nLastCoinStakeSearchTime + 1 .. nSearchTime :
                   block' = [block EXCEPT !.coinstake = k, !.reward = nFees]
      BY <1>2
    <2>2. k \in Time /\ k <= now /\ nFees \in 0 .. nFees
      BY <1>0, <2>1 DEF Time
    <2>3. /\ block' \in BlockType(nFees)
          /\ block'.vtx = block.vtx /\ block'.prev = block.prev
          /\ block'.height = block.height /\ block'.coinstake = k
      BY <1>0, <2>1, <2>2 DEF StakeTypeOK, BlockType
    <2>4. StakeTypeOK'
      BY <1>0, <1>1, <1>2, <2>3 DEF StakeTypeOK
    <2>5. (HeightInv /\ FeeInv /\ TxInv /\ TimeInv)'
      BY <1>1, <1>2, <2>2, <2>3 DEF StakeInv, HeightInv, FeeInv, TxInv, TimeInv
    <2>. QED
      BY <2>4, <2>5 DEF StakeInv
  <1>3. CASE pc' = "idle" /\ nLastCoinStakeSearchTime' = nSearchTime /\ UNCHANGED block
    <2>1. StakeTypeOK'
      BY <1>0, <1>1, <1>3 DEF StakeTypeOK
    <2>2. (HeightInv /\ FeeInv /\ TxInv /\ TimeInv)'
      BY <1>3 DEF HeightInv, FeeInv, TxInv, TimeInv
    <2>. QED
      BY <2>1, <2>2 DEF StakeInv
  <1>. QED
    BY <1>2, <1>3 DEF Search

(***************************************************************************)
(* The stamp: no transaction is taken out, because the block is given the   *)
(* time of the latest, and the fees stay those of the transactions.         *)
(***************************************************************************)
LEMMA SignBlockInv == StakeInv /\ SignBlock => StakeInv'
  <1>. SUFFICES ASSUME StakeInv, SignBlock
                PROVE  StakeInv'
    OBVIOUS
  <1>0. /\ StakeTypeOK /\ now \in Nat /\ now <= MaxTime /\ MaxTime \in Nat
        /\ pindexBest \in 0 .. pindexBest /\ nSearchTime \in 0 .. now
        /\ block.coinstake \in Nat /\ block.vtx \subseteq Tx /\ block.prev \in Nat
    BY StakeAssumption DEF StakeInv, StakeTypeOK, BlockType, Time, Height
  <1>1. /\ UNCHANGED <<now, pindexBest, blockTime, pool, confirmed>>
        /\ UNCHANGED <<pindexPrev, nFees, nSearchTime>> /\ pc = "stamp"
    BY DEF SignBlock, chainvars
  <1>2. PastTimeLimit(pindexBest) \in Nat
    BY <1>0, PastTimeLimitType DEF Time
  <1>3. CASE /\ block.coinstake > PastTimeLimit(pindexBest)
             /\ block' = Stamp(block) /\ pc' = "check" /\ UNCHANGED nLastCoinStakeSearchTime
    <2>. DEFINE T == {PastTimeLimit(pindexBest) + 1, block.coinstake}
                        \cup {TxTime[t] : t \in block.vtx}
                nTime == MaxOf(T)
    <2>1. block.coinstake <= now /\ \A t \in block.vtx : TxTime[t] <= now
      BY <1>1 DEF StakeInv, TimeInv, TxInv
    <2>2. T \subseteq Nat /\ T # {} /\ \A y \in T : y <= now
      <3>1. \A t \in block.vtx : TxTime[t] \in Nat
        BY <1>0, StakeAssumption
      <3>2. PastTimeLimit(pindexBest) + 1 \in Nat /\ PastTimeLimit(pindexBest) + 1 <= now
        BY <1>0, <1>2, <1>3, <2>1
      <3>. QED
        BY <1>0, <2>1, <3>1, <3>2
    <2>3. nTime \in T /\ \A y \in T : y <= nTime
      <3>. HIDE DEF T
      <3>. QED
        BY <1>0, <2>2, MaxOfBounded
    <2>4. nTime \in Nat /\ nTime <= now
      <3>. HIDE DEF T, nTime
      <3>. QED
        BY <2>2, <2>3
    <2>5. PastTimeLimit(pindexBest) < nTime /\ \A t \in block.vtx : TxTime[t] <= nTime
      <3>1. PastTimeLimit(pindexBest) + 1 \in T /\ \A t \in block.vtx : TxTime[t] \in T
        OBVIOUS
      <3>. HIDE DEF T, nTime
      <3>2. PastTimeLimit(pindexBest) + 1 <= nTime
        BY <2>3, <3>1
      <3>3. \A t \in block.vtx : TxTime[t] <= nTime
        BY <2>3, <3>1
      <3>. QED
        BY <1>2, <2>4, <3>2, <3>3
    <2>6. block' = [block EXCEPT !.coinbase = block.coinstake, !.time = nTime,
                                 !.vtx = {t \in block.vtx : TxTime[t] <= nTime}]
      BY <1>3 DEF Stamp
    <2>7. {t \in block.vtx : TxTime[t] <= nTime} = block.vtx
      BY <2>5
    <2>8. nTime \in Time
      BY <1>0, <2>4 DEF Time
    <2>. HIDE DEF T, nTime
    <2>9. /\ block' \in BlockType(nFees)
          /\ block'.vtx = block.vtx /\ block'.prev = block.prev /\ block'.time = nTime
          /\ block'.height = block.height /\ block'.reward = block.reward
      BY <1>0, <2>6, <2>7, <2>8 DEF StakeTypeOK, BlockType
    <2>10. StakeTypeOK'
      BY <1>0, <1>1, <1>3, <2>9 DEF StakeTypeOK
    <2>11. HeightInv' /\ TxInv'
      BY <1>1, <1>3, <2>9 DEF StakeInv, HeightInv, TxInv
    <2>12. FeeInv'
      BY <1>0, <1>1, <1>3, <2>9 DEF StakeInv, StakeTypeOK, BlockType, FeeInv
    <2>13. TimeInv'
      <3>1. PastTimeLimit(block.prev)' = PastTimeLimit(block.prev)
        BY <1>1, <2>9, SameLimit
      <3>. QED
        BY <1>1, <1>2, <1>3, <2>4, <2>5, <2>9, <3>1 DEF TimeInv, NotStale
    <2>. QED
      BY <2>10, <2>11, <2>12, <2>13 DEF StakeInv
  <1>4. CASE pc' = "idle" /\ nLastCoinStakeSearchTime' = nSearchTime /\ UNCHANGED block
    <2>1. StakeTypeOK'
      BY <1>0, <1>1, <1>4 DEF StakeTypeOK
    <2>2. (HeightInv /\ FeeInv /\ TxInv /\ TimeInv)'
      BY <1>4 DEF HeightInv, FeeInv, TxInv, TimeInv
    <2>. QED
      BY <2>1, <2>2 DEF StakeInv
  <1>. QED
    BY <1>3, <1>4 DEF SignBlock

\* ProcessBlock connects the block or refuses it.
LEMMA CheckStakeInv == StakeInv /\ CheckStake => StakeInv'
  <1>. SUFFICES ASSUME StakeInv, CheckStake
                PROVE  StakeInv'
    OBVIOUS
  <1>0. StakeTypeOK /\ block.vtx \in SUBSET Tx /\ block.time \in Time
    BY DEF StakeInv, StakeTypeOK, BlockType
  <1>1. /\ UNCHANGED <<now, pindexPrev, block, nFees, nSearchTime, nLastCoinStakeSearchTime>>
        /\ pc' = "idle"
    BY DEF CheckStake, search
  <1>2. (HeightInv /\ FeeInv /\ TxInv /\ TimeInv)'
    BY <1>1 DEF HeightInv, FeeInv, TxInv, TimeInv
  <1>3. CASE Extend(block.vtx, block.time)
    <2>1. /\ pindexBest' \in Height
          /\ blockTime' \in [0 .. pindexBest' -> Time]
          /\ confirmed' \in [Tx -> 0 .. pindexBest']
          /\ pool' \subseteq {t \in Tx : confirmed'[t] = 0}
      BY <1>0, <1>3, ExtendStep
    <2>2. StakeTypeOK'
      BY <1>0, <1>1, <2>1 DEF StakeTypeOK
    <2>. QED
      BY <1>2, <2>2 DEF StakeInv
  <1>4. CASE UNCHANGED <<pindexBest, blockTime, pool, confirmed>>
    <2>1. StakeTypeOK'
      BY <1>0, <1>1, <1>4 DEF StakeTypeOK
    <2>. QED
      BY <1>2, <2>1 DEF StakeInv
  <1>. QED
    BY <1>3, <1>4 DEF CheckStake

-----------------------------------------------------------------------------
\* The inductive invariant of the staking thread and of the threads around it.
THEOREM StakeInvariance == StakeSpec => []StakeInv
  <1>1. StakeInv /\ [StakeNext]_svars => StakeInv'
    <2>. SUFFICES ASSUME StakeInv, [StakeNext]_svars
                  PROVE  StakeInv'
      OBVIOUS
    <2>1. CASE Tick
      BY <2>1, TickInv
    <2>2. ASSUME NEW t \in Tx, AcceptTx(t)
          PROVE  StakeInv'
      BY <2>2, AcceptTxInv
    <2>3. ASSUME NEW S \in SUBSET Tx, PeerBlock(S)
          PROVE  StakeInv'
      BY <2>3, PeerBlockInv
    <2>4. CASE ReadBest
      BY <2>4, ReadBestInv
    <2>5. CASE Collect
      BY <2>5, CollectInv
    <2>6. CASE StartSearch
      BY <2>6, StartSearchInv
    <2>7. CASE Search
      BY <2>7, SearchInv
    <2>8. CASE SignBlock
      BY <2>8, SignBlockInv
    <2>9. CASE CheckStake
      BY <2>9, CheckStakeInv
    <2>10. CASE UNCHANGED svars
      <3>1. /\ UNCHANGED <<now, pindexBest, blockTime, pool, confirmed, pc, pindexPrev>>
            /\ UNCHANGED <<block, nFees, nSearchTime, nLastCoinStakeSearchTime>>
        BY <2>10 DEF svars, chainvars, search
      <3>2. (StakeTypeOK /\ HeightInv /\ TxInv /\ FeeInv)'
        BY <3>1 DEF StakeInv, StakeTypeOK, HeightInv, TxInv, FeeInv
      <3>3. TimeInv'
        <4>1. PastTimeLimit(block.prev)' = PastTimeLimit(block.prev)
          BY <3>1, SameLimit
        <4>. QED
          BY <3>1, <4>1 DEF StakeInv, TimeInv, NotStale
      <3>. QED
        BY <3>2, <3>3 DEF StakeInv
    <2>. QED
      BY <2>1, <2>2, <2>3, <2>4, <2>5, <2>6, <2>7, <2>8, <2>9, <2>10 DEF StakeNext
  <1>. QED
    BY <1>1, StakeInitInv, PTL DEF StakeSpec

\* The types of the staking thread's state; in particular the block's time is
\* never later than the clock's bound, and its reward never above the fees.
THEOREM StakeTypeCorrect == StakeSpec => []StakeTypeOK
  <1>1. StakeInv => StakeTypeOK
    BY DEF StakeInv
  <1>. QED
    BY <1>1, StakeInvariance, PTL

(***************************************************************************)
(* Whatever other threads do between the four unlocked reads of pindexBest, *)
(* the block that passes CheckStake's test of hashBestChain has the height, *)
(* the time, the transactions and the reward that its parent asks for.      *)
(***************************************************************************)
THEOREM SubmittedCorrect == StakeSpec => []SubmittedFits
  <1>1. StakeInv => SubmittedFits
    BY DEF StakeInv, SubmittedFits, CheckContext, HeightInv, TxInv, FeeInv, TimeInv
  <1>. QED
    BY <1>1, StakeInvariance, PTL

=============================================================================
