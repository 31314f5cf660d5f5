---------------------------- MODULE MempoolProofs ----------------------------
(***************************************************************************)
(* Proofs about the memory pool and the orphan transactions, for every      *)
(* block tree, every set of transactions and every bound on the orphans.    *)
(***************************************************************************)
EXTENDS Mempool, BlockChainProofs, FiniteSetTheorems

-----------------------------------------------------------------------------
(***************************************************************************)
(* addUnchecked keeps mapTx and mapNextTx in agreement when what is added   *)
(* conflicts neither with the pool nor within itself, which is what accept  *)
(* has tested.                                                              *)
(***************************************************************************)
LEMMA AddAgrees ==
  ASSUME NEW p, NEW T, MapsAgree(p),
         \A t, u \in T : t # u => Vin[t] \cap Vin[u] = {},
         \A t \in T : Vin[t] \cap DOMAIN p.mapNextTx = {}
  PROVE  MapsAgree(addUnchecked(p, T))
  <1>. DEFINE q == addUnchecked(p, T)
  <1>1. /\ q.mapTx = p.mapTx \cup T
        /\ DOMAIN q.mapNextTx = DOMAIN p.mapNextTx \cup Spent(T)
        /\ \A o \in DOMAIN p.mapNextTx \cup Spent(T) :
              q.mapNextTx[o] = IF o \in Spent(T) THEN CHOOSE t \in T : o \in Vin[t]
                                                 ELSE p.mapNextTx[o]
    BY DEF addUnchecked
  <1>2. ASSUME NEW o \in Spent(T)
        PROVE  /\ o \in DOMAIN q.mapNextTx
               /\ q.mapNextTx[o] \in T /\ o \in Vin[q.mapNextTx[o]]
               /\ o \notin DOMAIN p.mapNextTx
    BY <1>1 DEF Spent
  <1>3. ASSUME NEW o \in DOMAIN p.mapNextTx
        PROVE  /\ o \notin Spent(T)
               /\ q.mapNextTx[o] = p.mapNextTx[o]
    BY <1>1, <1>2
  <1>4. DOMAIN q.mapNextTx = Spent(q.mapTx)
    BY <1>1 DEF MapsAgree, Spent
  <1>5. ASSUME NEW o \in DOMAIN q.mapNextTx
        PROVE  q.mapNextTx[o] \in q.mapTx /\ o \in Vin[q.mapNextTx[o]]
    BY <1>1, <1>2, <1>3 DEF MapsAgree
  <1>6. ASSUME NEW t \in q.mapTx, NEW o \in Vin[t]
        PROVE  q.mapNextTx[o] = t
    <2>1. CASE t \in T
      <3>1. o \in Spent(T)
        BY <2>1 DEF Spent
      <3>. QED
        BY <1>2, <2>1, <3>1
    <2>2. CASE t \notin T
      <3>1. t \in p.mapTx /\ o \in DOMAIN p.mapNextTx
        BY <1>1, <2>2 DEF MapsAgree, Spent
      <3>. QED
        BY <1>3, <3>1 DEF MapsAgree
    <2>. QED
      BY <2>1, <2>2
  <1>. QED
    BY <1>4, <1>5, <1>6 DEF MapsAgree

\* remove keeps them in agreement, whatever it removes.
LEMMA RemoveAgrees ==
  ASSUME NEW p, NEW T, MapsAgree(p)
  PROVE  MapsAgree(remove(p, T))
  <1>. DEFINE q == remove(p, T)
  <1>1. /\ q.mapTx = p.mapTx \ T
        /\ DOMAIN q.mapNextTx = DOMAIN p.mapNextTx \ Spent(T \cap p.mapTx)
        /\ \A o \in DOMAIN q.mapNextTx : q.mapNextTx[o] = p.mapNextTx[o]
    BY DEF remove
  <1>2. ASSUME NEW o \in DOMAIN p.mapNextTx
        PROVE  o \in Spent(T \cap p.mapTx) <=> p.mapNextTx[o] \in T
    BY DEF MapsAgree, Spent
  <1>3. ASSUME NEW o
        PROVE  o \in Spent(q.mapTx) <=>
                  o \in DOMAIN p.mapNextTx /\ p.mapNextTx[o] \notin T
    BY <1>1 DEF MapsAgree, Spent
  <1>4. DOMAIN q.mapNextTx = Spent(q.mapTx)
    BY <1>1, <1>2, <1>3
  <1>5. ASSUME NEW o \in DOMAIN q.mapNextTx
        PROVE  q.mapNextTx[o] \in q.mapTx /\ o \in Vin[q.mapNextTx[o]]
    BY <1>1, <1>2 DEF MapsAgree
  <1>6. ASSUME NEW t \in q.mapTx, NEW o \in Vin[t]
        PROVE  q.mapNextTx[o] = t
    <2>1. o \in Spent(q.mapTx) /\ t \in p.mapTx
      BY <1>1 DEF Spent
    <2>. QED
      BY <1>1, <1>4, <2>1 DEF MapsAgree
  <1>. QED
    BY <1>4, <1>5, <1>6 DEF MapsAgree

-----------------------------------------------------------------------------
(***************************************************************************)
(* Every step takes the pool from agreement to agreement: a pool is changed *)
(* by additions accept has tested, by the additions of Resurrections, and   *)
(* by removals.                                                             *)
(***************************************************************************)
LEMMA AcceptAgrees ==
  ASSUME NEW t \in Tx, PoolMapsAgree, accept(t),
         mempool' = addUnchecked(mempool, {t})
  PROVE  PoolMapsAgree'
  <1>1. \A u, v \in {t} : u # v => Vin[u] \cap Vin[v] = {}
    OBVIOUS
  <1>2. \A u \in {t} : Vin[u] \cap DOMAIN mempool.mapNextTx = {}
    BY DEF accept, Refused, ConflictsInPool
  <1>3. MapsAgree(addUnchecked(mempool, {t}))
    BY <1>1, <1>2, AddAgrees DEF PoolMapsAgree
  <1>. QED
    BY <1>3 DEF PoolMapsAgree

\* One case per action.
LEMMA PoolStepAgrees == PoolMapsAgree /\ [PoolNext]_allVars => PoolMapsAgree'
  <1>. SUFFICES ASSUME PoolMapsAgree, [PoolNext]_allVars
                PROVE  PoolMapsAgree'
    OBVIOUS
  <1>1. CASE UNCHANGED mempool
    BY <1>1 DEF PoolMapsAgree
  <1>2. ASSUME NEW t \in Tx, ReceiveTx(t)
        PROVE  PoolMapsAgree'
    BY <1>1, <1>2, AcceptAgrees DEF ReceiveTx
  <1>3. ASSUME NEW t \in Tx, LocalTx(t)
        PROVE  PoolMapsAgree'
    BY <1>3, AcceptAgrees DEF LocalTx
  <1>4. ASSUME NEW o \in Tx, TryOrphan(o)
        PROVE  PoolMapsAgree'
    BY <1>1, <1>4, AcceptAgrees DEF TryOrphan
  <1>5. CASE NextWork
    BY <1>1, <1>5 DEF NextWork
  <1>6. CASE PoolExtend
    BY <1>6, RemoveAgrees DEF PoolExtend, PoolMapsAgree
  <1>7. CASE PoolPostponed
    BY <1>7, RemoveAgrees DEF PoolPostponed, PoolMapsAgree
  <1>8. CASE PoolReorganize
    <2>1. PICK R \in Resurrections(mempool, TxsOf(Disconnected)) :
             mempool' = removeConflicts(
                 remove(addUnchecked(mempool, R), TxsOf(Connected)),
                 TxsOf(Connected))
      BY <1>8 DEF PoolReorganize
    <2>2. MapsAgree(addUnchecked(mempool, R))
      <3>1. /\ \A t, u \in R : t # u => Vin[t] \cap Vin[u] = {}
            /\ \A t \in R : Vin[t] \cap DOMAIN mempool.mapNextTx = {}
        BY <2>1 DEF Resurrections, Candidates
      <3>. QED
        BY <3>1, AddAgrees DEF PoolMapsAgree
    <2>3. MapsAgree(remove(addUnchecked(mempool, R), TxsOf(Connected)))
      BY <2>2, RemoveAgrees
    <2>. QED
      BY <2>1, <2>3, RemoveAgrees DEF removeConflicts, PoolMapsAgree
  <1>9. CASE PoolKill
    BY <1>9 DEF PoolKill, PoolMapsAgree, MapsAgree, EmptyPool, Spent
  <1>. QED
    BY <1>1, <1>2, <1>3, <1>4, <1>5, <1>6, <1>7, <1>8, <1>9
       DEF PoolNext, TxStep, BlockStep, OtherStep, allVars, poolVars

\* CTxMemPool's two maps agree in every reachable state.
THEOREM PoolCorrect == PoolSpec => []PoolMapsAgree
  <1>1. PoolInit => PoolMapsAgree
    BY DEF PoolInit, PoolMapsAgree, MapsAgree, EmptyPool, Spent
  <1>. QED
    BY <1>1, PoolStepAgrees, PTL DEF PoolSpec

-----------------------------------------------------------------------------
(***************************************************************************)
(* The pool never disturbs the chain: every step is a step of BlockChain or *)
(* leaves its variables alone, so that what is proved of the chain state    *)
(* holds with the pool as well.                                             *)
(***************************************************************************)
LEMMA PoolStepIsChainStep == [PoolNext]_allVars => [Next]_vars
  BY DEF PoolNext, TxStep, BlockStep, OtherStep, BlocksOnly, OtherChainSteps,
     PoolExtend, PoolPostponed, PoolReorganize, PoolKill, ReceiveTx, LocalTx,
     TryOrphan, NextWork, Next, Handler, allVars

\* The node with its pool is, for the chain state, the node of BlockChain.
THEOREM PoolImplementsChain == PoolSpec => Spec
  <1>1. PoolInit => Init
    BY DEF PoolInit
  <1>. QED
    BY <1>1, PoolStepIsChainStep, PTL DEF PoolSpec, Spec

-----------------------------------------------------------------------------
\* What PoolTypeOK says of the pool, for a pool that is not yet assigned.
PoolType(p) ==
    /\ DOMAIN p = {"mapTx", "mapNextTx"}
    /\ p.mapTx \in SUBSET (Tx \ (CoinBase \cup CoinStake))
    /\ p.mapNextTx \in [DOMAIN p.mapNextTx -> Tx]
    /\ DOMAIN p.mapNextTx \subseteq Prevouts

\* addUnchecked and remove give a pool of loose transactions again.
LEMMA AddType ==
  ASSUME NEW p, NEW T \in SUBSET (Tx \ (CoinBase \cup CoinStake)), PoolType(p)
  PROVE  PoolType(addUnchecked(p, T))
  <1>. DEFINE K == DOMAIN p.mapNextTx \cup Spent(T)
              f == [o \in K |-> IF o \in Spent(T)
                                  THEN CHOOSE t \in T : o \in Vin[t]
                                  ELSE p.mapNextTx[o]]
  <1>1. addUnchecked(p, T) = [mapTx |-> p.mapTx \cup T, mapNextTx |-> f]
    BY DEF addUnchecked
  <1>2. \A o \in K : f[o] \in Tx
    BY DEF PoolType, Spent
  <1>3. K \subseteq Prevouts
    BY DEF PoolType, Spent, Prevouts
  <1>4. f \in [K -> Tx] /\ DOMAIN f = K
    BY <1>2
  <1>. HIDE DEF f, K
  <1>. QED
    BY <1>1, <1>3, <1>4 DEF PoolType

\* The same for remove.
LEMMA RemoveType ==
  ASSUME NEW p, NEW T, PoolType(p)
  PROVE  PoolType(remove(p, T))
  BY DEF PoolType, remove

\* AddOrphanTx and EraseOrphanTx give maps of the right type.
LEMMA OrphanTypes ==
  ASSUME PoolTypeOK, NEW t \in Tx, NEW T \in SUBSET Tx
  PROVE  /\ AddOrphanTx(t)[1] \in SUBSET Tx
         /\ AddOrphanTx(t)[2] \in [Tx -> SUBSET Tx]
         /\ EraseOrphanTx(AddOrphanTx(t), T)[1] \in SUBSET Tx
         /\ EraseOrphanTx(AddOrphanTx(t), T)[2] \in [Tx -> SUBSET Tx]
  <1>1. /\ AddOrphanTx(t)[1] \in SUBSET Tx
        /\ AddOrphanTx(t)[2] \in [Tx -> SUBSET Tx]
    BY DEF PoolTypeOK, AddOrphanTx, ByPrev
  <1>. QED
    BY <1>1 DEF EraseOrphanTx

(***************************************************************************)
(* Each step keeps the types; that only loose transactions come back from a *)
(* reorganization needs that pindexBest and pindexIntermediate are blocks.  *)
(***************************************************************************)
LEMMA PoolStepType ==
    TypeOK /\ PoolTypeOK /\ [PoolNext]_allVars => PoolTypeOK'
  <1>. SUFFICES ASSUME TypeOK, PoolTypeOK, [PoolNext]_allVars
                PROVE  PoolTypeOK'
    OBVIOUS
  <1>0. PoolType(mempool)
    BY DEF PoolTypeOK, PoolType
  <1>1. ASSUME NEW t \in Tx, accept(t)
        PROVE  PoolType(addUnchecked(mempool, {t}))
    BY <1>0, <1>1, AddType DEF accept, Refused
  <1>2. ASSUME NEW t \in Tx, ReceiveTx(t)
        PROVE  PoolTypeOK'
    <2>1. CASE accept(t) /\ mempool' = addUnchecked(mempool, {t})
               /\ vWorkQueue' = <<t>> /\ iWork' = 1
               /\ vTry' = mapOrphanTransactionsByPrev[t]
               /\ vEraseQueue' = {t} /\ UNCHANGED orphans
      BY <1>1, <2>1 DEF PoolTypeOK, PoolType, orphans
    <2>2. CASE /\ \E T \in Evictions(AddOrphanTx(t)) :
                     SetOrphans(EraseOrphanTx(AddOrphanTx(t), T))
               /\ UNCHANGED <<mempool, handler>>
      <3>1. PICK T \in Evictions(AddOrphanTx(t)) :
               SetOrphans(EraseOrphanTx(AddOrphanTx(t), T))
        BY <2>2
      <3>2. T \in SUBSET Tx
        BY OrphanTypes DEF Evictions
      <3>. QED
        BY <2>2, <3>1, <3>2, OrphanTypes DEF PoolTypeOK, SetOrphans, handler
    <2>. QED
      BY <1>2, <2>1, <2>2 DEF ReceiveTx
  <1>3. ASSUME NEW t \in Tx, LocalTx(t)
        PROVE  PoolTypeOK'
    BY <1>1, <1>3 DEF LocalTx, PoolTypeOK, PoolType, orphans, handler
  <1>4. ASSUME NEW o \in Tx, TryOrphan(o)
        PROVE  PoolTypeOK'
    <2>1. CASE accept(o)
      BY <1>1, <1>4, <2>1 DEF TryOrphan, PoolTypeOK, PoolType, orphans
    <2>2. CASE ~accept(o)
      BY <1>4, <2>2 DEF TryOrphan, PoolTypeOK, orphans
    <2>. QED
      BY <2>1, <2>2
  <1>5. CASE NextWork
    <2>1. CASE iWork < Len(vWorkQueue)
      <3>1. vWorkQueue[iWork + 1] \in Tx /\ iWork + 1 \in 0 .. Len(vWorkQueue)
        BY <1>5, <2>1 DEF NextWork, PoolTypeOK
      <3>. QED
        BY <1>5, <2>1, <3>1 DEF NextWork, PoolTypeOK, orphans
    <2>2. CASE ~(iWork < Len(vWorkQueue))
      <3>1. vEraseQueue \in SUBSET Tx
        BY DEF PoolTypeOK
      <3>2. /\ EraseOrphanTx(orphans, vEraseQueue)[1] \in SUBSET Tx
            /\ EraseOrphanTx(orphans, vEraseQueue)[2] \in [Tx -> SUBSET Tx]
        BY <3>1 DEF PoolTypeOK, EraseOrphanTx, orphans
      <3>. QED
        BY <1>5, <2>2, <3>2 DEF NextWork, PoolTypeOK, SetOrphans
    <2>. QED
      BY <2>1, <2>2
  <1>6. CASE UNCHANGED <<orphans, handler>> /\ PoolType(mempool')
    BY <1>6 DEF PoolTypeOK, PoolType, orphans, handler
  <1>7. ASSUME PoolReorganize
        PROVE  PoolType(mempool')
    <2>1. PICK R \in Resurrections(mempool, TxsOf(Disconnected)) :
             mempool' = removeConflicts(
                 remove(addUnchecked(mempool, R), TxsOf(Connected)),
                 TxsOf(Connected))
      BY <1>7 DEF PoolReorganize
    <2>2. Disconnected \subseteq Block
      BY ChainBasic DEF Disconnected, TypeOK
    <2>3. TxsOf(Disconnected) \subseteq Tx
      BY <2>2, TxsOfBlock DEF TxsOf
    <2>4. R \in SUBSET (Tx \ (CoinBase \cup CoinStake))
      BY <2>1, <2>3 DEF Resurrections, Candidates
    <2>5. PoolType(addUnchecked(mempool, R))
      BY <1>0, <2>4, AddType
    <2>6. PoolType(remove(addUnchecked(mempool, R), TxsOf(Connected)))
      BY <2>5, RemoveType
    <2>. QED
      BY <2>1, <2>6, RemoveType DEF removeConflicts
  <1>8. CASE BlockStep
    <2>1. PoolType(mempool')
      BY <1>0, <1>7, <1>8, RemoveType
         DEF BlockStep, PoolExtend, PoolPostponed
    <2>. QED
      BY <1>6, <1>8, <2>1 DEF BlockStep
  <1>9. CASE PoolKill
    BY <1>9 DEF PoolKill, PoolTypeOK, EmptyPool
  <1>10. CASE UNCHANGED poolVars
    BY <1>10 DEF poolVars, PoolTypeOK, orphans, handler
  <1>. QED
    BY <1>2, <1>3, <1>4, <1>5, <1>8, <1>9, <1>10
       DEF PoolNext, TxStep, OtherStep, allVars

\* Types, and with them: no coinbase and no coinstake is ever in the pool.
THEOREM PoolTypeCorrect == PoolSpec => []PoolTypeOK
  <1>1. PoolInit => PoolTypeOK
    BY DEF PoolInit, PoolTypeOK, EmptyPool
  <1>2. PoolSpec => []TypeOK
    BY PoolImplementsChain, TypeCorrect, PTL
  <1>. QED
    BY <1>1, <1>2, PoolStepType, PTL DEF PoolSpec

-----------------------------------------------------------------------------
(***************************************************************************)
(* The orphans.  Two facts make OrphansIndexed inductive: the set of        *)
(* orphans is finite, so that an eviction count means something, and there  *)
(* is nothing left to try between two messages.                             *)
(***************************************************************************)
OrphanInv ==
    /\ OrphansIndexed
    /\ IsFiniteSet(mapOrphanTransactions)
    /\ vWorkQueue = << >> => vTry = {}

\* AddOrphanTx and EraseOrphanTx keep mapOrphanTransactionsByPrev the inverse.
LEMMA AddOrphanIndexed ==
  ASSUME NEW t \in Tx, OrphanInv
  PROVE  /\ AddOrphanTx(t)[2] = ByPrev(AddOrphanTx(t)[1])
         /\ IsFiniteSet(AddOrphanTx(t)[1])
  <1>1. mapOrphanTransactionsByPrev = ByPrev(mapOrphanTransactions)
    BY DEF OrphanInv, OrphansIndexed
  <1>2. IsFiniteSet(mapOrphanTransactions \cup {t})
    BY FS_AddElement DEF OrphanInv
  <1>3. CASE t \in mapOrphanTransactions \/ t \in LargeTx
    BY <1>1, <1>3 DEF AddOrphanTx, OrphanInv
  <1>4. CASE ~(t \in mapOrphanTransactions \/ t \in LargeTx)
    <2>1. [p \in Tx |-> ByPrev(mapOrphanTransactions)[p] \cup ByPrev({t})[p]]
             = ByPrev(mapOrphanTransactions \cup {t})
      BY DEF ByPrev
    <2>. QED
      BY <1>1, <1>2, <1>4, <2>1 DEF AddOrphanTx
  <1>. QED
    BY <1>3, <1>4

\* EraseOrphanTx keeps the index by previous transaction that of the orphans.
LEMMA EraseOrphanIndexed ==
  ASSUME NEW S, NEW T
  PROVE  /\ EraseOrphanTx(<<S, ByPrev(S)>>, T)[1] = S \ T
         /\ EraseOrphanTx(<<S, ByPrev(S)>>, T)[2] = ByPrev(S \ T)
  <1>1. [p \in Tx |-> ByPrev(S)[p] \ ByPrev(T \cap S)[p]] = ByPrev(S \ T)
    <2>. SUFFICES ASSUME NEW p \in Tx
                  PROVE  ByPrev(S)[p] \ ByPrev(T \cap S)[p] = ByPrev(S \ T)[p]
      BY DEF ByPrev
    <2>. QED
      BY DEF ByPrev
  <1>. QED
    BY <1>1 DEF EraseOrphanTx

\* One case per action; the work is in the two that erase orphans.
LEMMA OrphanStep ==
    PoolTypeOK /\ OrphanInv /\ [PoolNext]_allVars => OrphanInv'
  <1>. SUFFICES ASSUME PoolTypeOK, OrphanInv, [PoolNext]_allVars
                PROVE  OrphanInv'
    OBVIOUS
  <1>0. /\ mapOrphanTransactionsByPrev = ByPrev(mapOrphanTransactions)
        /\ IsFiniteSet(mapOrphanTransactions)
        /\ Cardinality(mapOrphanTransactions) <= MAX_ORPHAN_TRANSACTIONS
    BY DEF OrphanInv, OrphansIndexed
  <1>1. CASE UNCHANGED <<orphans, vWorkQueue, vTry>>
    BY <1>1 DEF OrphanInv, OrphansIndexed, orphans, ByPrev
  <1>2. ASSUME NEW t \in Tx, ReceiveTx(t)
        PROVE  OrphanInv'
    <2>1. CASE /\ vWorkQueue' = <<t>> /\ vTry' = mapOrphanTransactionsByPrev[t]
               /\ UNCHANGED orphans
      <3>1. mapOrphanTransactionsByPrev[t] \subseteq mapOrphanTransactions
        BY <1>0 DEF ByPrev
      <3>2. <<t>> # << >>
        OBVIOUS
      <3>. QED
        BY <2>1, <3>1, <3>2 DEF OrphanInv, OrphansIndexed, orphans, ByPrev
    <2>2. CASE /\ \E T \in Evictions(AddOrphanTx(t)) :
                     SetOrphans(EraseOrphanTx(AddOrphanTx(t), T))
               /\ UNCHANGED handler
      <3>. DEFINE S == AddOrphanTx(t)[1]
      <3>1. PICK T \in Evictions(AddOrphanTx(t)) :
               SetOrphans(EraseOrphanTx(AddOrphanTx(t), T))
        BY <2>2
      <3>2. AddOrphanTx(t) = <<S, ByPrev(S)>> /\ IsFiniteSet(S)
        BY AddOrphanIndexed DEF AddOrphanTx
      <3>3. mapOrphanTransactions' = S \ T
            /\ mapOrphanTransactionsByPrev' = ByPrev(S \ T)
        BY <3>1, <3>2, EraseOrphanIndexed DEF SetOrphans
      <3>4. IsFiniteSet(S \ T)
        BY <3>2, FS_Subset
      <3>5. Cardinality(S \ T) =
               IF Cardinality(S) > MAX_ORPHAN_TRANSACTIONS
                 THEN MAX_ORPHAN_TRANSACTIONS ELSE Cardinality(S)
        BY <3>1 DEF Evictions
      <3>6. Cardinality(S) \in Nat
        BY <3>2, FS_CardinalityType
      <3>7. Cardinality(S \ T) <= MAX_ORPHAN_TRANSACTIONS
        BY <3>5, <3>6, OrphanAssumption
      <3>8. vTry' = {} /\ vWorkQueue' = vWorkQueue
        BY <1>2, <2>2 DEF ReceiveTx, Waiting, OrphanInv, handler
      <3>. HIDE DEF S
      <3>9. mapOrphanTransactionsByPrev' = ByPrev(mapOrphanTransactions')
        BY <3>3
      <3>. QED
        BY <3>3, <3>4, <3>7, <3>8, <3>9 DEF OrphanInv, OrphansIndexed, ByPrev
    <2>. QED
      BY <1>2, <2>1, <2>2 DEF ReceiveTx
  <1>3. ASSUME NEW o \in Tx, TryOrphan(o)
        PROVE  OrphanInv'
    <2>1. vWorkQueue' # << >>
      BY <1>3 DEF TryOrphan, PoolTypeOK
    <2>2. vTry' \subseteq vTry /\ UNCHANGED orphans
      BY <1>3 DEF TryOrphan
    <2>. QED
      BY <2>1, <2>2 DEF OrphanInv, OrphansIndexed, orphans, ByPrev
  <1>4. CASE NextWork
    <2>1. CASE iWork < Len(vWorkQueue)
      <3>1. vWorkQueue[iWork + 1] \in Tx
        BY <1>4, <2>1 DEF NextWork, PoolTypeOK
      <3>2. vTry' \subseteq mapOrphanTransactions
        BY <1>0, <1>4, <2>1, <3>1 DEF NextWork, ByPrev
      <3>. QED
        BY <1>4, <2>1, <3>2
           DEF NextWork, OrphanInv, OrphansIndexed, orphans, ByPrev
    <2>2. CASE ~(iWork < Len(vWorkQueue))
      <3>. DEFINE S == mapOrphanTransactions \ vEraseQueue
      <3>1. mapOrphanTransactions' = S /\ mapOrphanTransactionsByPrev' = ByPrev(S)
        BY <1>0, <1>4, <2>2, EraseOrphanIndexed DEF NextWork, SetOrphans, orphans
      <3>2. IsFiniteSet(S) /\ Cardinality(S) <= Cardinality(mapOrphanTransactions)
        BY <1>0, FS_Subset
      <3>3. Cardinality(S) \in Nat /\ Cardinality(mapOrphanTransactions) \in Nat
        BY <1>0, <3>2, FS_CardinalityType
      <3>4. Cardinality(S) <= MAX_ORPHAN_TRANSACTIONS
        BY <1>0, <3>2, <3>3, OrphanAssumption
      <3>5. vTry' = {}
        BY <1>4, <2>2 DEF NextWork
      <3>. HIDE DEF S
      <3>6. mapOrphanTransactionsByPrev' = ByPrev(mapOrphanTransactions')
        BY <3>1
      <3>. QED
        BY <3>1, <3>2, <3>4, <3>5, <3>6 DEF OrphanInv, OrphansIndexed, ByPrev
    <2>. QED
      BY <2>1, <2>2
  <1>5. CASE PoolKill
    <2>1. IsFiniteSet({}) /\ Cardinality({}) = 0
      BY FS_EmptySet
    <2>2. [t \in Tx |-> {}] = ByPrev({})
      BY DEF ByPrev
    <2>. QED
      BY <1>5, <2>1, <2>2, OrphanAssumption
         DEF PoolKill, OrphanInv, OrphansIndexed, ByPrev
  <1>. QED
    BY <1>1, <1>2, <1>3, <1>4, <1>5
       DEF PoolNext, TxStep, BlockStep, OtherStep, LocalTx, allVars, poolVars,
           orphans, handler

\* Without orphans the maps agree.
LEMMA OrphanInit == PoolInit => OrphanInv
  <1>1. IsFiniteSet({}) /\ Cardinality({}) = 0
    BY FS_EmptySet
  <1>2. [t \in Tx |-> {}] = ByPrev({})
    BY DEF ByPrev
  <1>. QED
    BY <1>1, <1>2, OrphanAssumption DEF PoolInit, OrphanInv, OrphansIndexed

(***************************************************************************)
(* The two orphan maps agree and the number of orphans stays within         *)
(* MAX_ORPHAN_TRANSACTIONS, whatever messages come in.                      *)
(***************************************************************************)
THEOREM OrphansCorrect == PoolSpec => []OrphansIndexed
  <1>1. PoolInit => OrphanInv
    BY OrphanInit
  <1>2. OrphanInv => OrphansIndexed
    BY DEF OrphanInv
  <1>. QED
    BY <1>1, <1>2, OrphanStep, PoolTypeCorrect, PTL DEF PoolSpec

-----------------------------------------------------------------------------
(***************************************************************************)
(* The "tx" handler.  An orphan that spends something the handler accepted, *)
(* that is not to be erased and that could be accepted now, is still to     *)
(* come in the loop: it is in vTry, or it spends an entry of vWorkQueue     *)
(* from the next index on.                                                  *)
(***************************************************************************)
Spends(o, t) == \E p \in Vin[o] : p[1] = t

Pending(o) ==
    \/ o \in vTry
    \/ \E i \in (iWork + 1) .. Len(vWorkQueue) : Spends(o, vWorkQueue[i])

TriesPending ==
    \A o \in mapOrphanTransactions \ vEraseQueue, i \in DOMAIN vWorkQueue :
        Spends(o, vWorkQueue[i]) /\ accept(o) => Pending(o)

(***************************************************************************)
(* Adding a transaction to the pool makes nothing acceptable but what       *)
(* spends it: it can only refuse more and supply its own outputs.           *)
(***************************************************************************)
LEMMA AcceptMonotone ==
  ASSUME NEW t \in Tx, NEW o \in Tx, mempool' = addUnchecked(mempool, {t}),
         UNCHANGED <<db, pindexBest>>, accept(o)', ~Spends(o, t)
  PROVE  accept(o)
  <1>1. /\ mempool'.mapTx = mempool.mapTx \cup {t}
        /\ DOMAIN mempool'.mapNextTx = DOMAIN mempool.mapNextTx \cup Vin[t]
    BY DEF addUnchecked, Spent
  <1>2. ~Refused(o)
    BY <1>1 DEF accept, Refused, ConflictsInPool
  <1>3. ~MissingInputs(o)
    BY <1>1 DEF accept, MissingInputs, Spends
  <1>4. \A p \in Vin[o] : InputConnects(p)
    BY DEF accept, InputConnects
  <1>. QED
    BY <1>2, <1>3, <1>4 DEF accept

\* One case per step of the handler; between messages vWorkQueue is empty.
LEMMA PendingStep ==
    PoolTypeOK /\ OrphanInv /\ TriesPending /\ [PoolNext]_allVars => TriesPending'
  <1>. SUFFICES ASSUME PoolTypeOK, OrphanInv, TriesPending, [PoolNext]_allVars
                PROVE  TriesPending'
    OBVIOUS
  <1>0. /\ mapOrphanTransactions \subseteq Tx /\ vWorkQueue \in Seq(Tx)
        /\ iWork \in 0 .. Len(vWorkQueue)
        /\ mapOrphanTransactionsByPrev = ByPrev(mapOrphanTransactions)
    BY DEF PoolTypeOK, OrphanInv, OrphansIndexed
  <1>1. ASSUME NEW t \in Tx, ReceiveTx(t)
        PROVE  TriesPending'
    <2>1. CASE /\ vWorkQueue' = <<t>>
               /\ vTry' = mapOrphanTransactionsByPrev[t]
               /\ UNCHANGED orphans
      <3>1. SUFFICES ASSUME NEW o \in mapOrphanTransactions, Spends(o, t)
                     PROVE  o \in vTry'
        BY <2>1 DEF TriesPending, Pending, Spends, orphans
      <3>. QED
        BY <1>0, <2>1, <3>1 DEF ByPrev, Spends
    <2>2. CASE UNCHANGED <<mempool, handler>>
      BY <1>1, <2>2 DEF ReceiveTx, Waiting, TriesPending, handler
    <2>. QED
      BY <1>1, <2>1, <2>2 DEF ReceiveTx
  <1>2. ASSUME NEW x \in Tx, TryOrphan(x)
        PROVE  TriesPending'
    <2>0. /\ x \in vTry /\ vTry' = vTry \ {x} /\ iWork' = iWork
          /\ mapOrphanTransactions' = mapOrphanTransactions
          /\ db' = db /\ pindexBest' = pindexBest
      BY <1>2 DEF TryOrphan, orphans, vars, disk, memory
    <2>1. CASE accept(x)
      <3>1. /\ mempool' = addUnchecked(mempool, {x})
            /\ vWorkQueue' = Append(vWorkQueue, x)
            /\ vEraseQueue' = vEraseQueue \cup {x}
        BY <1>2, <2>1 DEF TryOrphan
      <3>. SUFFICES ASSUME NEW o \in mapOrphanTransactions \ vEraseQueue',
                           NEW i \in DOMAIN vWorkQueue',
                           Spends(o, vWorkQueue'[i]), accept(o)'
                    PROVE  Pending(o)'
        BY <2>0 DEF TriesPending, Spends
      <3>2. /\ Len(vWorkQueue') = Len(vWorkQueue) + 1
            /\ vWorkQueue'[Len(vWorkQueue) + 1] = x
            /\ \A j \in DOMAIN vWorkQueue : vWorkQueue'[j] = vWorkQueue[j]
            /\ DOMAIN vWorkQueue = 1 .. Len(vWorkQueue)
            /\ DOMAIN vWorkQueue' = 1 .. (Len(vWorkQueue) + 1)
            /\ Len(vWorkQueue) \in Nat
        BY <1>0, <3>1
      <3>3. CASE Spends(o, x)
        <4>1. Len(vWorkQueue) + 1 \in (iWork' + 1) .. Len(vWorkQueue')
          BY <1>0, <2>0, <3>2
        <4>. QED
          BY <3>2, <3>3, <4>1 DEF Pending, Spends
      <3>4. CASE ~Spends(o, x)
        <4>1. o \in Tx /\ o # x
          BY <1>0, <3>1
        <4>2. accept(o)
          BY <2>0, <3>1, <3>4, <4>1, AcceptMonotone
        <4>3. i \in DOMAIN vWorkQueue /\ Spends(o, vWorkQueue[i])
          BY <3>2, <3>4
        <4>4. Pending(o)
          BY <3>1, <4>2, <4>3 DEF TriesPending
        <4>5. CASE o \in vTry
          BY <2>0, <4>1, <4>5 DEF Pending
        <4>6. ASSUME NEW j \in (iWork + 1) .. Len(vWorkQueue),
                     Spends(o, vWorkQueue[j])
              PROVE  Pending(o)'
          <5>1. j \in DOMAIN vWorkQueue /\ j \in (iWork' + 1) .. Len(vWorkQueue')
            BY <1>0, <2>0, <3>2
          <5>. QED
            BY <3>2, <4>6, <5>1 DEF Pending, Spends
        <4>. QED
          BY <4>4, <4>5, <4>6 DEF Pending
      <3>. QED
        BY <3>3, <3>4
    <2>2. CASE ~accept(x)
      <3>1. /\ mempool' = mempool /\ vWorkQueue' = vWorkQueue
            /\ vEraseQueue \subseteq vEraseQueue'
        BY <1>2, <2>2 DEF TryOrphan
      <3>2. \A o : accept(o)' <=> accept(o)
        BY <2>0, <3>1 DEF accept, Refused, ConflictsInPool, MissingInputs,
           InputConnects
      <3>. SUFFICES ASSUME NEW o \in mapOrphanTransactions \ vEraseQueue,
                           NEW i \in DOMAIN vWorkQueue,
                           Spends(o, vWorkQueue[i]), accept(o)
                    PROVE  Pending(o)'
        BY <2>0, <3>1, <3>2 DEF TriesPending, Spends
      <3>3. Pending(o) /\ o # x
        BY <2>2 DEF TriesPending
      <3>. QED
        BY <2>0, <3>1, <3>3 DEF Pending, Spends
    <2>. QED
      BY <2>1, <2>2
  <1>3. CASE NextWork
    <2>1. CASE iWork < Len(vWorkQueue)
      <3>1. /\ vTry = {} /\ iWork' = iWork + 1
            /\ vTry' = mapOrphanTransactionsByPrev[vWorkQueue[iWork + 1]]
            /\ UNCHANGED <<vWorkQueue, vEraseQueue, mapOrphanTransactions, mempool,
                           db, pindexBest>>
        BY <1>3, <2>1 DEF NextWork, orphans, vars, disk, memory
      <3>2. \A o : accept(o)' <=> accept(o)
        BY <3>1 DEF accept, Refused, ConflictsInPool, MissingInputs, InputConnects
      <3>. SUFFICES ASSUME NEW o \in mapOrphanTransactions \ vEraseQueue,
                           NEW i \in DOMAIN vWorkQueue,
                           Spends(o, vWorkQueue[i]), accept(o)
                    PROVE  Pending(o)'
        BY <3>1, <3>2 DEF TriesPending, Spends
      <3>3. PICK j \in (iWork + 1) .. Len(vWorkQueue) : Spends(o, vWorkQueue[j])
        BY <3>1 DEF TriesPending, Pending
      <3>4. CASE j = iWork + 1
        <4>1. vWorkQueue[iWork + 1] \in Tx
          BY <1>0, <2>1
        <4>2. o \in vTry'
          BY <1>0, <3>1, <3>3, <3>4, <4>1 DEF ByPrev, Spends
        <4>. QED
          BY <4>2 DEF Pending
      <3>5. CASE j # iWork + 1
        <4>1. j \in (iWork' + 1) .. Len(vWorkQueue')
          BY <1>0, <3>1, <3>5
        <4>. QED
          BY <3>1, <3>3, <4>1 DEF Pending, Spends
      <3>. QED
        BY <3>4, <3>5
    <2>2. CASE ~(iWork < Len(vWorkQueue))
      BY <1>3, <2>2 DEF NextWork, TriesPending
    <2>. QED
      BY <2>1, <2>2
  <1>4. CASE vWorkQueue' = << >>
    BY <1>4 DEF TriesPending
  <1>5. CASE UNCHANGED allVars
    <2>1. UNCHANGED <<vWorkQueue, iWork, vTry, vEraseQueue, mapOrphanTransactions,
                      mempool, db, pindexBest>>
      BY <1>5 DEF allVars, poolVars, orphans, handler, vars, disk, memory
    <2>2. \A o : accept(o)' <=> accept(o)
      BY <2>1 DEF accept, Refused, ConflictsInPool, MissingInputs, InputConnects
    <2>. QED
      BY <2>1, <2>2 DEF TriesPending, Pending, Spends
  <1>. QED
    BY <1>1, <1>2, <1>3, <1>4, <1>5
       DEF PoolNext, TxStep, BlockStep, OtherStep, PoolKill, LocalTx, Waiting,
           poolVars, handler

(***************************************************************************)
(* When the loop of the "tx" message ends, no orphan that spends what it    *)
(* accepted, in any number of generations and with any number of parents,   *)
(* is left although it could be accepted.                                   *)
(***************************************************************************)
THEOREM ResolvedCorrect == PoolSpec => OrphansResolved
  <1>1. PoolInit => OrphanInv /\ TriesPending
    BY OrphanInit DEF PoolInit, TriesPending
  <1>2. PoolSpec => [](PoolTypeOK /\ OrphanInv /\ TriesPending)
    BY <1>1, OrphanStep, PendingStep, PoolTypeCorrect, PTL DEF PoolSpec
  <1>3. ASSUME PoolTypeOK, TriesPending, [PoolNext]_allVars,
               vWorkQueue # << >>, vWorkQueue' = << >>, pc' = "idle",
               NEW o \in mapOrphanTransactions',
               NEW i \in DOMAIN vWorkQueue, NEW p \in Vin[o],
               p[1] = vWorkQueue[i], accept(o)
        PROVE  FALSE
    <2>1. NextWork
      <3>1. \A t \in Tx : ~TryOrphan(t)
        BY <1>3 DEF TryOrphan, PoolTypeOK
      <3>. QED
        BY <1>3, <3>1
           DEF PoolNext, TxStep, ReceiveTx, LocalTx, Waiting, BlockStep, OtherStep,
               PoolKill, Kill, allVars, poolVars, handler
    <2>2. vTry = {} /\ ~(iWork < Len(vWorkQueue))
          /\ mapOrphanTransactions' = mapOrphanTransactions \ vEraseQueue
      BY <1>3, <2>1 DEF NextWork, SetOrphans, EraseOrphanTx, orphans
    <2>3. Pending(o)
      BY <1>3, <2>2 DEF TriesPending, Spends
    <2>. QED
      BY <1>3, <2>2, <2>3 DEF Pending, PoolTypeOK
  <1>4. PoolTypeOK /\ TriesPending /\ [PoolNext]_allVars =>
          [ vWorkQueue # << >> /\ vWorkQueue' = << >> /\ pc' = "idle" =>
              \A o \in mapOrphanTransactions' :
                (\E i \in DOMAIN vWorkQueue, p \in Vin[o] : p[1] = vWorkQueue[i])
                   => ~accept(o) ]_allVars
    BY <1>3
  <1>. QED
    BY <1>2, <1>4, PTL DEF PoolSpec, OrphansResolved

-----------------------------------------------------------------------------
(***************************************************************************)
(* The pool and the chain are disjoint.  A commit of SetBestChainInner      *)
(* indexes the transactions of one block, which it removes from the pool.   *)
(***************************************************************************)
LEMMA ConnectedNotInPool ==
  ASSUME NEW b \in Block, \A t \in mempool.mapTx : db.pos[t] = None,
         PoolTypeOK, db' = ConnectBlock(db, b),
         mempool' = remove(mempool, Txs(b))
  PROVE  \A t \in mempool'.mapTx : db'.pos[t] = None
  <1>1. mempool'.mapTx = mempool.mapTx \ Txs(b)
    BY DEF remove
  <1>2. \A t \in Tx : db'.pos[t] = IF t \in Txs(b) THEN b ELSE db.pos[t]
    BY DEF ConnectBlock
  <1>3. mempool.mapTx \subseteq Tx
    BY DEF PoolTypeOK
  <1>. QED
    BY <1>1, <1>2, <1>3

(***************************************************************************)
(* Reorganize: what is in the new chain is in a connected block, and        *)
(* deleted, or below the fork, where it was in the old chain as well.       *)
(***************************************************************************)
LEMMA ReorganizedNotInPool ==
  ASSUME IndInv, PoolTypeOK, ~fPostponedFailed,
         \A t \in mempool.mapTx : db.pos[t] = None, PoolReorganize
  PROVE  \A t \in mempool'.mapTx : db'.pos[t] = None
  <1>1. /\ pc = "reorganize" /\ txn.tip = pindexIntermediate /\ db' = txn
        /\ IsLedger(db) /\ IsLedger(txn) /\ pindexBest = db.tip
        /\ pindexBest \in Block /\ pindexIntermediate \in Block
    BY DEF PoolReorganize, ReorganizeCommit, IndInv, LedgerInv, TypeOK
  <1>2. PICK R \in Resurrections(mempool, TxsOf(Disconnected)) :
           mempool' = removeConflicts(
               remove(addUnchecked(mempool, R), TxsOf(Connected)),
               TxsOf(Connected))
    BY DEF PoolReorganize
  <1>3. mempool'.mapTx \subseteq (mempool.mapTx \cup R) \ TxsOf(Connected)
    BY <1>2 DEF removeConflicts, remove, addUnchecked
  <1>4. Chain[pindexBest] \subseteq Block /\ Chain[pindexIntermediate] \subseteq Block
    BY <1>1, ChainBasic
  <1>5. mempool.mapTx \subseteq Tx
    BY DEF PoolTypeOK
  <1>6. R \subseteq TxsOf(Disconnected)
    BY <1>2 DEF Resurrections, Candidates
  <1>7. TxsOf(Disconnected) \subseteq Tx
    BY <1>4, TxsOfBlock DEF TxsOf, Disconnected
  <1>. SUFFICES ASSUME NEW t \in mempool'.mapTx, txn.pos[t] # None
                PROVE  FALSE
    BY <1>1
  <1>8. t \in Tx
    BY <1>3, <1>5, <1>6, <1>7
  <1>9. PICK c \in Chain[pindexIntermediate] \ {Genesis} : t \in Txs(c)
    BY <1>1, <1>8 DEF IsLedger, OnlyChainIndexed
  <1>10. c \notin Connected
    BY <1>3, <1>9 DEF TxsOf
  <1>11. c \in Chain[pindexBest]
    BY <1>9, <1>10 DEF Connected
  <1>12. db.pos[t] = c
    BY <1>1, <1>9, <1>11 DEF IsLedger, AllIndexed
  <1>13. CASE t \in mempool.mapTx
    <2>1. c # None
      BY <1>4, <1>11, TxAssumption
    <2>. QED
      BY <1>12, <1>13, <2>1
  <1>14. CASE t \in R
    <2>1. PICK d \in Disconnected : t \in Txs(d)
      BY <1>6, <1>14 DEF TxsOf
    <2>2. d # Genesis
      BY <1>1, <2>1, ChainHasGenesis DEF Disconnected
    <2>3. db.pos[t] = d
      BY <1>1, <2>1, <2>2 DEF IsLedger, AllIndexed, Disconnected
    <2>. QED
      BY <1>9, <1>12, <2>1, <2>3 DEF Disconnected
  <1>. QED
    BY <1>3, <1>13, <1>14

\* One case per action that changes the pool or the committed store.
LEMMA PoolNotInChainStep ==
    IndInv /\ PoolTypeOK /\ PoolNotInChain /\ [PoolNext]_allVars
       => PoolNotInChain'
  <1>. SUFFICES ASSUME IndInv, PoolTypeOK, PoolNotInChain, [PoolNext]_allVars,
                       ~fPostponedFailed'
                PROVE  \A t \in mempool'.mapTx : db'.pos[t] = None
    BY DEF PoolNotInChain
  <1>1. ~fPostponedFailed
    BY PoolStepIsChainStep
       DEF Next, Handler, AcceptBlock, ExtendOK, ExtendFails,
         ReorganizeDisconnect, ReorganizeConnect, ReorganizeFails,
         ReorganizeCommit, PostponedOK, PostponedFails, UpdateBest, DiskError,
         IndexRecordFails, Kill, SetBestChainToCheckpoint, LoadBlockIndex, vars,
         control
  <1>2. \A t \in mempool.mapTx : db.pos[t] = None
    BY <1>1 DEF PoolNotInChain
  <1>3. CASE UNCHANGED <<db, mempool>>
    BY <1>2, <1>3
  <1>4. ASSUME NEW t \in Tx, accept(t), mempool' = addUnchecked(mempool, {t}),
               UNCHANGED vars
        PROVE  \A u \in mempool'.mapTx : db'.pos[u] = None
    <2>1. mempool'.mapTx = mempool.mapTx \cup {t}
      BY <1>4 DEF addUnchecked
    <2>2. db.pos[t] = None /\ db' = db
      BY <1>4 DEF accept, Refused, vars, disk
    <2>. QED
      BY <1>2, <2>1, <2>2
  <1>5. CASE TxStep
    BY <1>3, <1>4, <1>5
       DEF TxStep, ReceiveTx, LocalTx, TryOrphan, NextWork, vars, disk
  <1>6. CASE BlockStep
    <2>1. CASE BlocksOnly /\ UNCHANGED mempool
      <3>1. UNCHANGED db
        BY <2>1 DEF BlocksOnly, AcceptBlock, ExtendFails, ReorganizeDisconnect,
           ReorganizeConnect, ReorganizeFails, PostponedFails, UpdateBest, disk
      <3>. QED
        BY <1>3, <2>1, <3>1
    <2>2. CASE PoolExtend
      <3>1. pindexNew \in Block
        BY DEF IndInv, TypeOK
      <3>2. db' = ConnectBlock(db, pindexNew)
        BY <2>2 DEF PoolExtend, ExtendOK
      <3>3. mempool' = remove(mempool, Txs(pindexNew))
        BY <2>2 DEF PoolExtend
      <3>. QED
        BY <1>2, <3>1, <3>2, <3>3, ConnectedNotInPool
    <2>3. CASE PoolPostponed
      <3>1. NextPostponed \in Block
        <4>1. /\ db.tip \in Chain[pindexNew] \ {pindexNew}
              /\ pindexNew \in Block
          BY <2>3 DEF PoolPostponed, PostponedOK, IndInv, IndexInv, TypeOK
        <4>2. Chain[pindexNew] \subseteq Block
          BY <4>1, ChainBasic
        <4>. QED
          BY <4>1, <4>2, ChildOnChain DEF NextPostponed
      <3>2. db' = ConnectBlock(db, NextPostponed)
        BY <2>3 DEF PoolPostponed, PostponedOK
      <3>3. mempool' = remove(mempool, Txs(NextPostponed))
        BY <2>3 DEF PoolPostponed
      <3>. HIDE DEF NextPostponed
      <3>. QED
        BY <1>2, <3>1, <3>2, <3>3, ConnectedNotInPool
    <2>4. CASE PoolReorganize
      BY <1>1, <1>2, <2>4, ReorganizedNotInPool
    <2>. QED
      BY <1>6, <2>1, <2>2, <2>3, <2>4 DEF BlockStep
  <1>7. CASE OtherStep
    <2>1. UNCHANGED <<db, mempool>>
      BY <1>7 DEF OtherStep, OtherChainSteps, SetBestChainToCheckpoint,
         DiskError, IndexRecordFails, LoadBlockIndex, disk, poolVars
    <2>. QED
      BY <1>3, <2>1
  <1>8. CASE PoolKill
    BY <1>8 DEF PoolKill, EmptyPool
  <1>9. CASE UNCHANGED allVars
    BY <1>3, <1>9 DEF allVars, vars, disk, poolVars
  <1>. QED
    BY <1>5, <1>6, <1>7, <1>8, <1>9 DEF PoolNext

(***************************************************************************)
(* Until a postponed reconnect fails, no transaction is in the pool and in  *)
(* the committed chain at once.                                             *)
(***************************************************************************)
THEOREM PoolDisjoint == PoolSpec => []PoolNotInChain
  <1>1. PoolInit => PoolNotInChain
    BY DEF PoolInit, PoolNotInChain, EmptyPool
  <1>2. PoolSpec => []IndInv
    BY PoolImplementsChain, Invariance, PTL
  <1>. QED
    BY <1>1, <1>2, PoolNotInChainStep, PoolTypeCorrect, PTL DEF PoolSpec

-----------------------------------------------------------------------------
(***************************************************************************)
(* What removeConflicts removes.  Dependents is the least set that has what *)
(* it starts from and all that spends an output of a member, so that each   *)
(* member is one of the first or spends another member's output.            *)
(***************************************************************************)
Closed(p, T, D) ==
    /\ T \cap p.mapTx \subseteq D
    /\ \A t \in D : \A o \in Outputs(t) \cap DOMAIN p.mapNextTx :
          p.mapNextTx[o] \in D

\* It is contained in every such set.
LEMMA DependentsLeast ==
  ASSUME NEW p, NEW T, NEW D \in SUBSET p.mapTx, Closed(p, T, D)
  PROVE  Dependents(p, T) \subseteq D
  BY DEF Dependents, Closed

\* It is such a set itself.
LEMMA DependentsClosed ==
  ASSUME NEW p, NEW T, MapsAgree(p)
  PROVE  Closed(p, T, Dependents(p, T)) /\ Dependents(p, T) \subseteq p.mapTx
  <1>1. T \cap p.mapTx \subseteq Dependents(p, T)
    BY DEF Dependents
  <1>2. ASSUME NEW t \in Dependents(p, T),
               NEW o \in Outputs(t) \cap DOMAIN p.mapNextTx
        PROVE  p.mapNextTx[o] \in Dependents(p, T)
    <2>1. p.mapNextTx[o] \in p.mapTx
      BY DEF MapsAgree
    <2>2. ASSUME NEW D \in SUBSET p.mapTx, Closed(p, T, D)
          PROVE  p.mapNextTx[o] \in D
      BY <2>2, DependentsLeast DEF Closed
    <2>. QED
      BY <2>1, <2>2 DEF Dependents, Closed
  <1>3. Dependents(p, T) \subseteq p.mapTx
    BY DEF Dependents
  <1>. QED
    BY <1>1, <1>2, <1>3 DEF Closed

\* A member that is not one of the first spends an output of a member.
LEMMA DependentHasCause ==
  ASSUME NEW p, NEW T, MapsAgree(p), NEW t \in Dependents(p, T), t \notin T
  PROVE  \E u \in Dependents(p, T) : \E o \in Outputs(u) \cap DOMAIN p.mapNextTx :
            p.mapNextTx[o] = t
  <1>. DEFINE D == Dependents(p, T)
  <1>. SUFFICES ASSUME \A u \in D : \A o \in Outputs(u) \cap DOMAIN p.mapNextTx :
                          p.mapNextTx[o] # t
                PROVE  FALSE
    OBVIOUS
  <1>1. Closed(p, T, D) /\ D \subseteq p.mapTx
    BY DependentsClosed
  <1>. HIDE DEF D
  <1>2. Closed(p, T, D \ {t})
    BY <1>1 DEF Closed
  <1>3. Dependents(p, T) \subseteq D \ {t}
    BY <1>1, <1>2, DependentsLeast
  <1>. QED
    BY <1>3

(***************************************************************************)
(* Nothing of a ledger is among what removeConflicts removes for blocks of  *)
(* its chain: the chain spends no output twice, and what it has spends only *)
(* what it has.                                                             *)
(***************************************************************************)
LEMMA DependentsNotInChain ==
  ASSUME NEW d, IsLedger(d), NEW p, MapsAgree(p), p.mapTx \subseteq Tx,
         NEW C \in SUBSET Tx, \A c \in C : d.pos[c] # None,
         p.mapTx \cap C = {}
  PROVE  \A t \in Dependents(p, Conflicts(p, C)) : d.pos[t] = None
  <1>. DEFINE T == Conflicts(p, C)
              D == Dependents(p, T)
              E == {t \in D : d.pos[t] = None}
  <1>1. Closed(p, T, D) /\ D \subseteq p.mapTx
    BY DependentsClosed
  <1>2. ASSUME NEW t \in T \cap p.mapTx
        PROVE  d.pos[t] = None
    <2>1. PICK o \in Spent(C) \cap DOMAIN p.mapNextTx : t = p.mapNextTx[o]
      BY DEF Conflicts
    <2>2. PICK c \in C : o \in Vin[c]
      BY <2>1 DEF Spent
    <2>3. o \in Vin[t] /\ t # c
      BY <2>1 DEF MapsAgree
    <2>4. d.spent[o] = c
      BY <2>2 DEF IsLedger, InputsSpent
    <2>. QED
      BY <2>3, <2>4 DEF IsLedger, InputsSpent
  <1>3. ASSUME NEW t \in E, NEW o \in Outputs(t) \cap DOMAIN p.mapNextTx
        PROVE  p.mapNextTx[o] \in E
    <2>1. p.mapNextTx[o] \in D /\ o \in Vin[p.mapNextTx[o]]
      BY <1>1 DEF Closed, MapsAgree
    <2>2. o[1] = t
      BY DEF Outputs
    <2>3. p.mapNextTx[o] \in Tx
      BY <1>1, <2>1
    <2>. QED
      BY <2>1, <2>2, <2>3 DEF IsLedger, InputsSpent
  <1>4. Closed(p, T, E) /\ E \in SUBSET p.mapTx
    <2>. HIDE DEF T, D
    <2>. QED
      BY <1>1, <1>2, <1>3 DEF Closed
  <1>5. Dependents(p, T) \subseteq E
    BY <1>4, DependentsLeast
  <1>. QED
    BY <1>5

(***************************************************************************)
(* Why a transaction is not in the pool after a step (the three causes of   *)
(* LeavesPoolForCause).                                                     *)
(***************************************************************************)
Cause(t) ==
    \/ db'.pos[t] # None
    \/ \E o \in Vin[t] \cap OutPoint : db'.spent[o] \notin {None, t}
    \/ MissingInputs(t)'

\* What a reorganization takes out of the pool.
LEMMA ReorganizeCause ==
  ASSUME IndInv, PoolTypeOK, PoolMapsAgree, ~fPostponedFailed, PoolReorganize,
         NEW t \in mempool.mapTx \ mempool'.mapTx
  PROVE  Cause(t)
  <1>. DEFINE C == TxsOf(Connected)
  <1>1. /\ pc = "reorganize" /\ txn.tip = pindexIntermediate /\ db' = txn
        /\ IsLedger(txn) /\ pindexBest \in Block /\ pindexIntermediate \in Block
    BY DEF PoolReorganize, ReorganizeCommit, IndInv, LedgerInv, TypeOK
  <1>2. PICK R \in Resurrections(mempool, TxsOf(Disconnected)) :
           mempool' = removeConflicts(remove(addUnchecked(mempool, R), C), C)
    BY DEF PoolReorganize
  <1>. DEFINE p == remove(addUnchecked(mempool, R), C)
              D == Dependents(p, Conflicts(p, C))
  <1>3. MapsAgree(p)
    <2>1. /\ \A u, v \in R : u # v => Vin[u] \cap Vin[v] = {}
          /\ \A u \in R : Vin[u] \cap DOMAIN mempool.mapNextTx = {}
      BY <1>2 DEF Resurrections, Candidates
    <2>2. MapsAgree(addUnchecked(mempool, R))
      BY <2>1, AddAgrees DEF PoolMapsAgree
    <2>. QED
      BY <2>2, RemoveAgrees
  <1>4. Chain[pindexBest] \subseteq Block /\ Chain[pindexIntermediate] \subseteq Block
    BY <1>1, ChainBasic
  <1>5. C \subseteq Tx /\ R \subseteq Tx
    BY <1>2, <1>4, TxsOfBlock DEF TxsOf, Connected, Disconnected, Resurrections,
       Candidates
  <1>6. mempool.mapTx \subseteq Tx
    BY DEF PoolTypeOK
  <1>7. p.mapTx = (mempool.mapTx \cup R) \ C
    BY DEF remove, addUnchecked
  <1>8. mempool'.mapTx = p.mapTx \ D
    BY <1>2 DEF removeConflicts, remove
  <1>9. \A c \in C : txn.pos[c] # None
    <2>1. Genesis \notin Connected
      BY <1>1, ChainHasGenesis DEF Connected
    <2>2. \A b \in Connected : \A c \in Txs(b) : txn.pos[c] = b
      BY <1>1, <2>1 DEF IsLedger, AllIndexed, Connected
    <2>3. \A b \in Connected : b # None
      BY <1>4, TxAssumption DEF Connected
    <2>. QED
      BY <2>2, <2>3 DEF TxsOf
  <1>. HIDE DEF p, C
  <1>10. \A u \in D : txn.pos[u] = None
    <2>1. p.mapTx \subseteq Tx /\ p.mapTx \cap C = {}
      BY <1>5, <1>6, <1>7
    <2>. QED
      BY <1>1, <1>3, <1>5, <1>9, <2>1, DependentsNotInChain
  <1>11. CASE t \in C
    BY <1>1, <1>9, <1>11 DEF Cause
  <1>12. CASE t \in Conflicts(p, C)
    <2>1. PICK o \in Spent(C) \cap DOMAIN p.mapNextTx : t = p.mapNextTx[o]
      BY <1>12 DEF Conflicts
    <2>2. PICK c \in C : o \in Vin[c]
      BY <2>1 DEF Spent
    <2>3. o \in Vin[t] /\ t \notin C
      BY <1>3, <1>12, <2>1 DEF MapsAgree, Conflicts
    <2>4. txn.spent[o] = c /\ o \in OutPoint
      BY <1>1, <1>5, <1>9, <2>2 DEF IsLedger, InputsSpent
    <2>5. c # None /\ c # t
      BY <1>5, <2>2, <2>3, TxAssumption
    <2>. QED
      BY <1>1, <2>3, <2>4, <2>5 DEF Cause
  <1>13. CASE t \in D /\ t \notin Conflicts(p, C)
    <2>1. PICK u \in D : \E o \in Outputs(u) \cap DOMAIN p.mapNextTx :
             p.mapNextTx[o] = t
      BY <1>3, <1>13, DependentHasCause
    <2>2. PICK o \in Outputs(u) \cap DOMAIN p.mapNextTx : p.mapNextTx[o] = t
      BY <2>1
    <2>3. o \in Vin[t] /\ o[1] = u
      BY <1>3, <2>2 DEF MapsAgree, Outputs
    <2>4. u \notin mempool'.mapTx /\ db'.pos[u] = None
      BY <1>1, <1>8, <1>10, <2>1
    <2>. QED
      BY <2>3, <2>4 DEF Cause, MissingInputs
  <1>. QED
    BY <1>7, <1>8, <1>11, <1>12, <1>13

\* One case per action that takes something out of the pool.
LEMMA LeavesStep ==
  ASSUME IndInv, PoolTypeOK, PoolMapsAgree, [PoolNext]_allVars,
         ~fPostponedFailed, pc' # "down", NEW t \in mempool.mapTx \ mempool'.mapTx
  PROVE  Cause(t)
  <1>0. t \in Tx
    BY DEF PoolTypeOK
  <1>1. ASSUME NEW b \in Block, db' = ConnectBlock(db, b),
               mempool' = remove(mempool, Txs(b))
        PROVE  Cause(t)
    <2>1. t \in Txs(b)
      BY <1>1 DEF remove
    <2>2. db'.pos[t] = b
      BY <1>0, <1>1, <2>1 DEF ConnectBlock
    <2>. QED
      BY <2>2, TxAssumption DEF Cause
  <1>2. CASE PoolExtend
    <2>1. /\ pindexNew \in Block /\ db' = ConnectBlock(db, pindexNew)
          /\ mempool' = remove(mempool, Txs(pindexNew))
      BY <1>2 DEF PoolExtend, ExtendOK, IndInv, TypeOK
    <2>. QED
      BY <1>1, <2>1
  <1>3. CASE PoolPostponed
    <2>1. NextPostponed \in Block
      <3>1. /\ db.tip \in Chain[pindexNew] \ {pindexNew}
            /\ pindexNew \in Block
        BY <1>3 DEF PoolPostponed, PostponedOK, IndInv, IndexInv, TypeOK
      <3>2. Chain[pindexNew] \subseteq Block
        BY <3>1, ChainBasic
      <3>. QED
        BY <3>1, <3>2, ChildOnChain DEF NextPostponed
    <2>2. /\ db' = ConnectBlock(db, NextPostponed)
          /\ mempool' = remove(mempool, Txs(NextPostponed))
      BY <1>3 DEF PoolPostponed, PostponedOK
    <2>. HIDE DEF NextPostponed
    <2>. QED
      BY <1>1, <2>1, <2>2
  <1>4. CASE PoolReorganize
    BY <1>4, ReorganizeCause
  <1>5. \A u \in Tx : mempool' # addUnchecked(mempool, {u})
    BY DEF addUnchecked
  <1>6. ~UNCHANGED mempool
    OBVIOUS
  <1>7. ~PoolKill
    BY DEF PoolKill, Kill
  <1>. QED
    BY <1>2, <1>3, <1>4, <1>5, <1>6, <1>7
       DEF PoolNext, TxStep, ReceiveTx, LocalTx, TryOrphan, NextWork, BlockStep,
           OtherStep, allVars, poolVars

(***************************************************************************)
(* Until a postponed reconnect fails, nothing leaves the pool of a running  *)
(* node without cause: what remove and removeConflicts take out is in the   *)
(* new chain, or conflicts with it, or lost an input to those two.          *)
(***************************************************************************)
THEOREM LeavesCorrect == PoolSpec => LeavesPoolForCause
  <1>1. PoolSpec => []IndInv
    BY PoolImplementsChain, Invariance, PTL
  <1>2. IndInv /\ PoolTypeOK /\ PoolMapsAgree /\ [PoolNext]_allVars =>
          [ ~fPostponedFailed /\ pc' # "down" =>
              \A t \in mempool.mapTx \ mempool'.mapTx :
                \/ db'.pos[t] # None
                \/ \E o \in Vin[t] \cap OutPoint : db'.spent[o] \notin {None, t}
                \/ MissingInputs(t)' ]_allVars
    BY LeavesStep DEF Cause
  <1>. QED
    BY <1>1, <1>2, PoolTypeCorrect, PoolCorrect, PTL DEF PoolSpec, LeavesPoolForCause

=============================================================================
