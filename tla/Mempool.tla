------------------------------- MODULE Mempool -------------------------------
(***************************************************************************)
(* The memory pool (CTxMemPool) and the orphan transactions, on top of the  *)
(* chain state.  A transaction comes from a peer or from the wallet, waits  *)
(* as an orphan when an input is not known, and leaves the pool when a      *)
(* block with it is connected; a reorganization puts the transactions of    *)
(* the disconnected blocks back, without checking their inputs.             *)
(*                                                                          *)
(* All of it runs under cs_main.  The handler of a "tx" message is broken   *)
(* into one step per orphan it tries, during which no other action but a    *)
(* kill can happen.                                                         *)
(***************************************************************************)
EXTENDS BlockChain, FiniteSets

CONSTANTS
    MAX_ORPHAN_TRANSACTIONS,
    LargeTx,            \* the transactions of more than 5000 bytes
    NonStandard         \* those a block may have, but IsStandard refuses

ASSUME OrphanAssumption ==
    /\ MAX_ORPHAN_TRANSACTIONS \in Nat
    /\ LargeTx \subseteq Tx
    /\ NonStandard \subseteq Tx

VARIABLES
    mempool,                       \* mapTx and mapNextTx
    mapOrphanTransactions,
    mapOrphanTransactionsByPrev,
    vWorkQueue,                    \* what the "tx" handler has accepted
    iWork,                         \* its place in vWorkQueue, 0 between messages
    vTry,                          \* orphans its inner loop has still to try
    vEraseQueue

orphans == <<mapOrphanTransactions, mapOrphanTransactionsByPrev>>
handler == <<vWorkQueue, iWork, vTry, vEraseQueue>>
poolVars == <<mempool, orphans, handler>>
allVars == <<vars, poolVars>>

Prevouts == UNION {Vin[t] : t \in Tx}

(***************************************************************************)
(* mapNextTx maps some of the prevouts to the pool's transaction that       *)
(* spends them; its keys are its domain.                                    *)
(***************************************************************************)
EmptyPool == [mapTx |-> {}, mapNextTx |-> [o \in {} |-> None]]

(***************************************************************************)
(* Types.  A coinbase or a coinstake is never loose: accept refuses it, and *)
(* Reorganize does not queue it for resurrection.                           *)
(***************************************************************************)
PoolTypeOK ==
    /\ DOMAIN mempool = {"mapTx", "mapNextTx"}
    /\ mempool.mapTx \in SUBSET (Tx \ (CoinBase \cup CoinStake))
    /\ mempool.mapNextTx \in [DOMAIN mempool.mapNextTx -> Tx]
    /\ DOMAIN mempool.mapNextTx \subseteq Prevouts
    /\ mapOrphanTransactions \in SUBSET Tx
    /\ mapOrphanTransactionsByPrev \in [Tx -> SUBSET Tx]
    /\ vWorkQueue \in Seq(Tx)
    /\ iWork \in 0 .. Len(vWorkQueue)
    /\ vTry \in SUBSET Tx
    /\ vEraseQueue \in SUBSET Tx

PoolInit ==
    /\ Init
    /\ mempool = EmptyPool
    /\ mapOrphanTransactions = {}
    /\ mapOrphanTransactionsByPrev = [t \in Tx |-> {}]
    /\ vWorkQueue = << >> /\ iWork = 0 /\ vTry = {} /\ vEraseQueue = {}

-----------------------------------------------------------------------------
(***************************************************************************)
(* CTxMemPool::addUnchecked and CTxMemPool::remove, for a set T of          *)
(* transactions of which no two spend the same output.                      *)
(***************************************************************************)
Spent(T) == UNION {Vin[t] : t \in T}

addUnchecked(p, T) ==
    [mapTx     |-> p.mapTx \cup T,
     mapNextTx |-> [o \in DOMAIN p.mapNextTx \cup Spent(T) |->
                      IF o \in Spent(T) THEN CHOOSE t \in T : o \in Vin[t]
                                        ELSE p.mapNextTx[o]]]

\* What remove(tx, true) reaches from the transactions T through mapNextTx.
Dependents(p, T) ==
    {u \in p.mapTx : \A D \in SUBSET p.mapTx :
        /\ T \cap p.mapTx \subseteq D
        /\ \A t \in D : \A o \in Outputs(t) \cap DOMAIN p.mapNextTx :
              p.mapNextTx[o] \in D
        => u \in D}

\* remove that forgets mapNextTx, and remove that is always recursive.
removeFromMapTx(p, T) == [p EXCEPT !.mapTx = p.mapTx \ T]

removeRecursive(p, T) ==
    LET D == Dependents(p, T)
    IN  [mapTx     |-> p.mapTx \ D,
         mapNextTx |-> [o \in DOMAIN p.mapNextTx \ Spent(D) |-> p.mapNextTx[o]]]

remove(p, T) ==
    [mapTx     |-> p.mapTx \ T,
     mapNextTx |-> [o \in DOMAIN p.mapNextTx \ Spent(T \cap p.mapTx) |->
                      p.mapNextTx[o]]]

\* removeConflicts, for the transactions T of a chain.
Conflicts(p, T) ==
    {p.mapNextTx[o] : o \in Spent(T) \cap DOMAIN p.mapNextTx} \ T

removeConflicts(p, T) == remove(p, Dependents(p, Conflicts(p, T)))

-----------------------------------------------------------------------------
(***************************************************************************)
(* CTxMemPool::accept with fCheckInputs.  Tx holds the transactions that    *)
(* pass the tests on the transaction and its inputs' values alone (the      *)
(* rate limiter is among them: it is for transactions that pay less than    *)
(* MIN_RELAY_TX_FEE, which have been refused before it).                    *)
(***************************************************************************)
ConflictsInPool(t) == Vin[t] \cap DOMAIN mempool.mapNextTx # {}

Refused(t) ==
    \/ t \in CoinBase \cup CoinStake \cup NonStandard
    \/ t \in mempool.mapTx
    \/ db.pos[t] # None
    \/ ConflictsInPool(t)

\* FetchInputs finds an input neither in the index nor in the pool.
MissingInputs(t) ==
    \E o \in Vin[t] : db.pos[o[1]] = None /\ o[1] \notin mempool.mapTx

\* The range check of FetchInputs, and ConnectInputs with pindexBest.
InputConnects(o) ==
    /\ o \in OutPoint
    /\ db.pos[o[1]] # None =>
          /\ db.spent[o] = None
          /\ o[1] \in CoinBase \cup CoinStake =>
                ~ /\ db.pos[o[1]] \in Chain[pindexBest]
                  /\ Height[pindexBest] - Height[db.pos[o[1]]] < nCoinbaseMaturity

accept(t) ==
    /\ ~Refused(t)
    /\ ~MissingInputs(t)
    /\ \A o \in Vin[t] : InputConnects(o)
    /\ t \notin BadSig

\* *pfMissingInputs
fMissingInputs(t) == ~Refused(t) /\ MissingInputs(t)

-----------------------------------------------------------------------------
\* AddOrphanTx, EraseOrphanTx, and an EraseOrphanTx that leaves ByPrev alone.
ByPrev(orph) == [p \in Tx |-> {t \in orph : \E o \in Vin[t] : o[1] = p}]

AddOrphanTx(t) ==
    IF t \in mapOrphanTransactions \/ t \in LargeTx
      THEN <<mapOrphanTransactions, mapOrphanTransactionsByPrev>>
      ELSE <<mapOrphanTransactions \cup {t},
             [p \in Tx |-> mapOrphanTransactionsByPrev[p] \cup ByPrev({t})[p]]>>

EraseOrphanOnly(orph, T) == <<orph[1] \ T, orph[2]>>

EraseOrphanTx(orph, T) ==
    <<orph[1] \ T, [p \in Tx |-> orph[2][p] \ ByPrev(T \cap orph[1])[p]]>>

SetOrphans(orph) ==
    /\ mapOrphanTransactions' = orph[1]
    /\ mapOrphanTransactionsByPrev' = orph[2]

\* LimitOrphanTxSize: which orphans are evicted is up to GetRandHash.
Evictions(orph) ==
    {T \in SUBSET orph[1] :
        Cardinality(orph[1] \ T) =
            IF Cardinality(orph[1]) > MAX_ORPHAN_TRANSACTIONS
              THEN MAX_ORPHAN_TRANSACTIONS ELSE Cardinality(orph[1])}

-----------------------------------------------------------------------------
Waiting == pc = "idle" /\ vWorkQueue = << >>

(***************************************************************************)
(* ProcessMessage "tx".  An accepted transaction starts the loop over the   *)
(* orphans that spend it; one with unknown inputs becomes an orphan.        *)
(***************************************************************************)
ReceiveTx(t) ==
    /\ Waiting
    /\ \/ /\ accept(t)
          /\ mempool' = addUnchecked(mempool, {t})
          /\ vWorkQueue' = <<t>> /\ iWork' = 1
          /\ vTry' = mapOrphanTransactionsByPrev[t]
          /\ vEraseQueue' = {t}
          /\ UNCHANGED orphans
       \/ /\ fMissingInputs(t)
          /\ \E T \in Evictions(AddOrphanTx(t)) :
                SetOrphans(EraseOrphanTx(AddOrphanTx(t), T))
          /\ UNCHANGED <<mempool, handler>>
    /\ UNCHANGED vars

\* The body of the inner loop, for the orphan o.
TryOrphan(o) ==
    /\ vWorkQueue # << >>
    /\ o \in vTry
    /\ vTry' = vTry \ {o}
    /\ IF accept(o)
         THEN /\ mempool' = addUnchecked(mempool, {o})
              /\ vWorkQueue' = Append(vWorkQueue, o)
              /\ vEraseQueue' = vEraseQueue \cup {o}
         ELSE /\ vEraseQueue' = IF fMissingInputs(o) THEN vEraseQueue
                                                     ELSE vEraseQueue \cup {o}
              /\ UNCHANGED <<mempool, vWorkQueue>>
    /\ UNCHANGED <<vars, orphans, iWork>>

\* NextWork with the size of vWorkQueue taken once, before the loop.
NextWorkFirst ==
    /\ vWorkQueue # << >>
    /\ vTry = {}
    /\ SetOrphans(EraseOrphanTx(orphans, vEraseQueue))
    /\ vWorkQueue' = << >> /\ iWork' = 0 /\ vEraseQueue' = {}
    /\ UNCHANGED <<vars, mempool, vTry>>

\* The outer loop goes on; after it, what is in vEraseQueue is erased.
NextWork ==
    /\ vWorkQueue # << >>
    /\ vTry = {}
    /\ IF iWork < Len(vWorkQueue)
         THEN /\ iWork' = iWork + 1
              /\ vTry' = mapOrphanTransactionsByPrev[vWorkQueue[iWork + 1]]
              /\ UNCHANGED <<orphans, vWorkQueue, vEraseQueue>>
         ELSE /\ SetOrphans(EraseOrphanTx(orphans, vEraseQueue))
              /\ vWorkQueue' = << >> /\ iWork' = 0 /\ vEraseQueue' = {}
              /\ UNCHANGED vTry
    /\ UNCHANGED <<vars, mempool>>

(***************************************************************************)
(* AcceptToMemoryPool for a transaction of the wallet or of                 *)
(* sendrawtransaction: no orphan is stored or tried.                        *)
(***************************************************************************)
LocalTx(t) ==
    /\ Waiting
    /\ accept(t)
    /\ mempool' = addUnchecked(mempool, {t})
    /\ UNCHANGED <<vars, orphans, handler>>

-----------------------------------------------------------------------------
(***************************************************************************)
(* Resurrect: accept without fCheckInputs for the transactions T, one after *)
(* the other.  What is added, R, is as large as conflicts allow; it is all  *)
(* of the candidates when T is of one chain that spends nothing twice.      *)
(***************************************************************************)
CandidatesAll(p, T) ==
    {t \in T : t \notin p.mapTx /\ Vin[t] \cap DOMAIN p.mapNextTx = {}}

Candidates(p, T) ==
    {t \in T \ (CoinBase \cup CoinStake \cup NonStandard) :
        t \notin p.mapTx /\ Vin[t] \cap DOMAIN p.mapNextTx = {}}

Resurrections(p, T) ==
    {R \in SUBSET Candidates(p, T) :
        /\ \A t, u \in R : t # u => Vin[t] \cap Vin[u] = {}
        /\ \A t \in Candidates(p, T) \ R : Vin[t] \cap Spent(R) # {}}

TxsOf(B) == UNION {Txs(b) : b \in B}

Disconnected == Chain[pindexBest] \ Chain[pindexIntermediate]

Connected == Chain[pindexIntermediate] \ Chain[pindexBest]

\* The chain steps that change the pool: SetBestChainInner removes the
\* transactions of its block, Reorganize resurrects and then deletes.
PoolExtend ==
    /\ ExtendOK
    /\ mempool' = remove(mempool, Txs(pindexNew))

PoolPostponed ==
    /\ PostponedOK
    /\ mempool' = remove(mempool, Txs(NextPostponed))

\* Reorganize that deletes first and resurrects then.
PoolReorganizeSwapped ==
    /\ ReorganizeCommit
    /\ LET p == removeConflicts(remove(mempool, TxsOf(Connected)), TxsOf(Connected))
       IN  \E R \in Resurrections(p, TxsOf(Disconnected)) :
              mempool' = addUnchecked(p, R)

PoolReorganize ==
    /\ ReorganizeCommit
    /\ \E R \in Resurrections(mempool, TxsOf(Disconnected)) :
          mempool' = LET p == remove(addUnchecked(mempool, R), TxsOf(Connected))
                     IN  removeConflicts(p, TxsOf(Connected))

\* The chain steps that leave it alone: blocks, and what else can happen.
BlocksOnly ==
    \/ \E b \in Block : AcceptBlock(b)
    \/ ExtendFails
    \/ ReorganizeDisconnect \/ ReorganizeConnect \/ ReorganizeFails
    \/ PostponedFails \/ UpdateBest

OtherChainSteps ==
    \/ \E b \in SyncCheckpoint : SetBestChainToCheckpoint(b)
    \/ DiskError
    \/ \E b \in Chain[db.tip] : LoadBlockIndex(b)

PoolKill ==
    /\ Kill
    /\ mempool' = EmptyPool
    /\ mapOrphanTransactions' = {}
    /\ mapOrphanTransactionsByPrev' = [t \in Tx |-> {}]
    /\ vWorkQueue' = << >> /\ iWork' = 0 /\ vTry' = {} /\ vEraseQueue' = {}

BlockStep ==
    /\ vWorkQueue = << >>
    /\ \/ BlocksOnly /\ UNCHANGED mempool
       \/ PoolExtend \/ PoolPostponed \/ PoolReorganize
    /\ UNCHANGED <<orphans, handler>>

OtherStep ==
    /\ vWorkQueue = << >>
    /\ OtherChainSteps
    /\ UNCHANGED poolVars

TxStep ==
    \/ \E t \in Tx : ReceiveTx(t) \/ LocalTx(t)
    \/ \E o \in Tx : TryOrphan(o)
    \/ NextWork

PoolNext == TxStep \/ BlockStep \/ OtherStep \/ PoolKill

PoolSpec == PoolInit /\ [][PoolNext]_allVars

\* Nothing but blocks and transactions that arrive.
SteadyPoolSpec == PoolInit /\ [][TxStep \/ BlockStep]_allVars

-----------------------------------------------------------------------------
MapsAgree(p) ==
    /\ DOMAIN p.mapNextTx = Spent(p.mapTx)
    /\ \A o \in DOMAIN p.mapNextTx :
          p.mapNextTx[o] \in p.mapTx /\ o \in Vin[p.mapNextTx[o]]
    /\ \A t \in p.mapTx : \A o \in Vin[t] : p.mapNextTx[o] = t

(***************************************************************************)
(* mapNextTx is the inverse of vin on the pool: it has exactly the prevouts *)
(* of the pool's transactions as keys, and its CInPoints point to a         *)
(* transaction that is in the pool and spends the key.  So no two of them   *)
(* spend the same output, and no pointer outlives its transaction.          *)
(***************************************************************************)
PoolMapsAgree == MapsAgree(mempool)

(***************************************************************************)
(* No transaction of the committed best chain is still in the pool,         *)
(* whichever branch it was on before and however often it changed sides:    *)
(* CreateNewBlock would put it into a block again.                          *)
(***************************************************************************)
PoolNotInChain ==
    ~fPostponedFailed => \A t \in mempool.mapTx : db.pos[t] = None

(***************************************************************************)
(* mapOrphanTransactionsByPrev lists each orphan under each transaction it  *)
(* spends and nothing else, so that the "tx" handler never looks up an      *)
(* orphan that is gone; and LimitOrphanTxSize keeps its bound.              *)
(***************************************************************************)
OrphansIndexed ==
    /\ mapOrphanTransactionsByPrev = ByPrev(mapOrphanTransactions)
    /\ vTry \subseteq mapOrphanTransactions
    /\ Cardinality(mapOrphanTransactions) <= MAX_ORPHAN_TRANSACTIONS

(***************************************************************************)
(* Until a postponed reconnect fails, a transaction leaves the pool of a    *)
(* running node only when the committed chain has it, or spends one of its  *)
(* inputs otherwise, or when one of its inputs is neither in that chain nor *)
(* in the pool any more (remove and removeConflicts, after what Reorganize  *)
(* resurrects).                                                             *)
(***************************************************************************)
LeavesPoolForCause ==
    [][ ~fPostponedFailed /\ pc' # "down" =>
          \A t \in mempool.mapTx \ mempool'.mapTx :
              \/ db'.pos[t] # None
              \/ \E o \in Vin[t] \cap OutPoint : db'.spent[o] \notin {None, t}
              \/ MissingInputs(t)' ]_allVars

(***************************************************************************)
(* When the "tx" handler is done, no orphan that spends a transaction it    *)
(* accepted, directly or by way of other orphans, is left although it       *)
(* could be accepted.                                                       *)
(***************************************************************************)
OrphansResolved ==
    [][ vWorkQueue # << >> /\ vWorkQueue' = << >> /\ pc' = "idle" =>
          \A o \in mapOrphanTransactions' :
              (\E i \in DOMAIN vWorkQueue, p \in Vin[o] : p[1] = vWorkQueue[i])
                 => ~accept(o) ]_allVars

(***************************************************************************)
(* "This should never happen; all transactions in the memory pool should    *)
(* connect to either transactions in the chain or other transactions in the *)
(* memory pool" (CreateNewBlock).                                           *)
(***************************************************************************)
PoolInputsKnown ==
    pc = "idle" => \A t \in mempool.mapTx : ~MissingInputs(t)

=============================================================================
