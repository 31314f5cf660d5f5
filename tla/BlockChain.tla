----------------------------- MODULE BlockChain -----------------------------
(***************************************************************************)
(* The chain state of one node: mapBlockIndex, pindexBest and the pnext     *)
(* links in memory, and the LevelDB store behind CTxDB.  Blocks are         *)
(* accepted in any order their parents allow; SetBestChain extends the best *)
(* chain, or switches to a branch with more trust by Reorganize; the        *)
(* process can be killed between any two writes and is then restarted by    *)
(* LoadBlockIndex.                                                          *)
(*                                                                          *)
(* Everything runs under cs_main, so the only concurrency is that of a kill *)
(* with the steps of SetBestChain.  A batch (CTxDB::TxnBegin .. TxnCommit)  *)
(* reaches the disk whole or not at all; the steps below end at the commits *)
(* and, inside Reorganize's single batch, at each block.                    *)
(***************************************************************************)
EXTENDS TxIndex

\* The blocks a sync-checkpoint may name: what the holder of the master key
\* signs, and the last hardened checkpoint.
CONSTANT SyncCheckpoint

ASSUME SyncCheckpointAssumption == SyncCheckpoint \subseteq Block

\* The blocks whose "blockindex" record AddToBlockIndex may fail to write.
CONSTANT Unwritable

ASSUME UnwritableAssumption == Unwritable \subseteq Block

VARIABLES
    mapBlockIndex,       \* the blocks with a CBlockIndex in memory
    pnext,               \* CBlockIndex::pnext
    pindexBest,          \* the tip in memory (hashBestChain, nBestHeight, ...)
    nBestInvalidTrust,   \* kept in memory and written at once to disk
    dbBlockIndex,        \* the blocks with a "blockindex" record on disk
    db,                  \* the committed store
    txn,                 \* the store as read through the open batch
    pc,                  \* where in SetBestChain the node is
    pindexNew,           \* SetBestChain's argument
    pindexIntermediate,  \* the block Reorganize switches to
    fPostponedFailed     \* history: a postponed reconnect has failed

memory == <<mapBlockIndex, pnext, pindexBest>>
disk == <<dbBlockIndex, db, nBestInvalidTrust>>
control == <<txn, pc, pindexNew, pindexIntermediate, fPostponedFailed>>
vars == <<memory, disk, control>>

PC == {"down", "idle", "extend", "reorganize", "postponed", "update"}

TypeOK ==
    /\ mapBlockIndex \in SUBSET Block
    /\ pnext \in [Block -> Block \cup {None}]
    /\ pindexBest \in Block
    /\ nBestInvalidTrust \in Nat
    /\ dbBlockIndex \in SUBSET Block
    /\ db \in Store
    /\ txn \in Store
    /\ pc \in PC
    /\ pindexNew \in Block
    /\ pindexIntermediate \in Block
    /\ fPostponedFailed \in BOOLEAN

(***************************************************************************)
(* A new data directory after LoadBlockIndex(true): the genesis block is    *)
(* indexed and best, but SetBestChain does not connect it, so that its      *)
(* coinbase is not in the transaction index.                                *)
(***************************************************************************)
NewStore ==
    [tip   |-> Genesis,
     pos   |-> [t \in Tx |-> None],
     spent |-> [o \in OutPoint |-> None],
     next  |-> [b \in Block |-> None]]

Init ==
    /\ mapBlockIndex = {Genesis}
    /\ pnext = [b \in Block |-> None]
    /\ pindexBest = Genesis
    /\ nBestInvalidTrust = 0
    /\ dbBlockIndex = {Genesis}
    /\ db = NewStore
    /\ txn = NewStore
    /\ pc = "idle"
    /\ pindexNew = Genesis
    /\ pindexIntermediate = Genesis
    /\ fPostponedFailed = FALSE

-----------------------------------------------------------------------------
\* Postponed with >= for >: a parent as good as the best block is taken.
PostponedOnTie(new, best) ==
    {b \in Chain[new] \ {Genesis} : ChainTrust[Parent[b]] >= ChainTrust[best]}

(***************************************************************************)
(* vpindexSecondary: SetBestChain leaves to later the blocks whose parent   *)
(* already has more trust than the present best block, and reorganizes to   *)
(* the last block that is not one of them.                                  *)
(***************************************************************************)
Postponed(new, best) ==
    {b \in Chain[new] \ {Genesis} : ChainTrust[Parent[b]] > ChainTrust[best]}

Intermediate(new, best) ==
    CHOOSE b \in Chain[new] \ Postponed(new, best) :
        \A c \in Chain[new] \ Postponed(new, best) : c \in Chain[b]

(***************************************************************************)
(* SetBestChain up to its first batch, called when pindexBest is best.  The *)
(* tip of the batch is the block Reorganize has come to, starting from      *)
(* pindexBest.                                                              *)
(***************************************************************************)
SetBestChain(new, best) ==
    /\ pindexNew' = new
    /\ txn' = [db EXCEPT !.tip = best]
    /\ IF new # Genesis /\ Parent[new] = best
         THEN pc' = "extend" /\ pindexIntermediate' = new
         ELSE pc' = "reorganize" /\ pindexIntermediate' = Intermediate(new, best)

\* InvalidChainFound
InvalidChainFound(b) ==
    nBestInvalidTrust' =
        IF ChainTrust[b] > nBestInvalidTrust THEN ChainTrust[b]
                                             ELSE nBestInvalidTrust

(***************************************************************************)
(* AcceptBlock and AddToBlockIndex.  Block holds the blocks that pass the   *)
(* checks on the block and its ancestors alone; what is left are the parent,*)
(* the height in the coinbase and, for proof of stake, that the kernel's    *)
(* transaction is in the index of the present best chain (CheckProofOfStake)*)
(* AddToBlockIndex inserts the block into mapBlockIndex and then writes its *)
(* record in a batch of its own; where that fails, see IndexRecordFails.    *)
(***************************************************************************)
IsProofOfStake(b) == Len(VTx[b]) > 1 /\ VTx[b][2] \in CoinStake

CheckCoinBaseHeight(b) == CoinBaseHeight[VTx[b][1]] = Height[b]

CheckProofOfStake(b) ==
    IsProofOfStake(b) => db.pos[Kernel[VTx[b][2]][1]] # None

\* AcceptBlock with the test of AddToBlockIndex on heights in place of trusts.
AcceptBlockByHeight(b) ==
    /\ pc = "idle"
    /\ b \notin mapBlockIndex
    /\ b # Genesis /\ Parent[b] \in mapBlockIndex
    /\ CheckCoinBaseHeight(b)
    /\ CheckProofOfStake(b)
    /\ mapBlockIndex' = mapBlockIndex \cup {b}
    /\ dbBlockIndex' = dbBlockIndex \cup {b}
    /\ IF Height[b] > Height[pindexBest]
         THEN SetBestChain(b, pindexBest)
         ELSE UNCHANGED <<txn, pc, pindexNew, pindexIntermediate>>
    /\ UNCHANGED <<pnext, pindexBest, nBestInvalidTrust, db, fPostponedFailed>>

AcceptBlock(b) ==
    /\ pc = "idle"
    /\ b \notin mapBlockIndex
    /\ b # Genesis /\ Parent[b] \in mapBlockIndex
    /\ CheckCoinBaseHeight(b)
    /\ CheckProofOfStake(b)
    /\ mapBlockIndex' = mapBlockIndex \cup {b}
    /\ dbBlockIndex' = dbBlockIndex \cup {b}
    /\ IF ChainTrust[b] > ChainTrust[pindexBest]
         THEN SetBestChain(b, pindexBest)
         ELSE UNCHANGED <<txn, pc, pindexNew, pindexIntermediate>>
    /\ UNCHANGED <<pnext, pindexBest, nBestInvalidTrust, db, fPostponedFailed>>

\* CBlockIndex::IsInMainChain
IsInMainChain(b) == pnext[b] # None \/ b = pindexBest

(***************************************************************************)
(* SetBestChain as ProcessSyncCheckpoint, AcceptPendingSyncCheckpoint and   *)
(* ResetSyncCheckpoint call it: for an indexed block that is not in the     *)
(* main chain, whatever its trust.                                          *)
(***************************************************************************)
SetBestChainToCheckpoint(b) ==
    /\ pc = "idle"
    /\ b \in mapBlockIndex
    /\ ~IsInMainChain(b)
    /\ SetBestChain(b, pindexBest)
    /\ UNCHANGED <<memory, disk, fPostponedFailed>>

-----------------------------------------------------------------------------
\* SetBestChainInner on the block after the best one, and the new best block.
\* ConnectBlock writes the index records of the block and of its parent.
ExtendOK ==
    /\ pc = "extend"
    /\ ConnectBlockOK(db, pindexNew, pindexBest)
    /\ db' = ConnectBlock(db, pindexNew)
    /\ dbBlockIndex' = dbBlockIndex \cup {pindexNew, Parent[pindexNew]}
    /\ txn' = db'
    /\ pnext' = [pnext EXCEPT ![Parent[pindexNew]] = pindexNew]
    /\ pindexBest' = pindexNew
    /\ pc' = "idle"
    /\ UNCHANGED <<mapBlockIndex, nBestInvalidTrust, pindexNew,
                   pindexIntermediate, fPostponedFailed>>

ExtendFails ==
    /\ pc = "extend"
    /\ ~ConnectBlockOK(db, pindexNew, pindexBest)
    /\ txn' = db
    /\ InvalidChainFound(pindexNew)
    /\ pc' = "idle"
    /\ UNCHANGED <<memory, dbBlockIndex, db, pindexNew, pindexIntermediate,
                   fPostponedFailed>>

-----------------------------------------------------------------------------
(***************************************************************************)
(* Reorganize.  txn.tip goes from pindexBest down to the fork and then up   *)
(* to pindexIntermediate, a block at a time, all in the one batch.          *)
(***************************************************************************)
AboveFork == txn.tip \notin Chain[pindexIntermediate]

\* The next element of vConnect, once vDisconnect is done.
NextConnect == ChildOn(txn.tip, pindexIntermediate)

ReorganizeDisconnect ==
    /\ pc = "reorganize"
    /\ AboveFork
    /\ DisconnectBlockOK(txn, txn.tip)
    /\ txn' = DisconnectBlock(txn, txn.tip)
    /\ UNCHANGED <<memory, disk, pc, pindexNew, pindexIntermediate,
                   fPostponedFailed>>

ReorganizeConnect ==
    /\ pc = "reorganize"
    /\ ~AboveFork
    /\ txn.tip # pindexIntermediate
    /\ ConnectBlockOK(txn, NextConnect, pindexBest)
    /\ txn' = ConnectBlock(txn, NextConnect)
    /\ UNCHANGED <<memory, disk, pc, pindexNew, pindexIntermediate,
                   fPostponedFailed>>

\* ReorganizeFails that starts over with a new batch in place of giving up.
ReorganizeRetries ==
    /\ pc = "reorganize"
    /\ \/ AboveFork /\ ~DisconnectBlockOK(txn, txn.tip)
       \/ /\ ~AboveFork
          /\ txn.tip # pindexIntermediate
          /\ ~ConnectBlockOK(txn, NextConnect, pindexBest)
    /\ txn' = [db EXCEPT !.tip = pindexBest]
    /\ InvalidChainFound(pindexNew)
    /\ UNCHANGED <<memory, dbBlockIndex, db, pc, pindexNew, pindexIntermediate,
                   fPostponedFailed>>

\* DisconnectBlock or ConnectBlock returns false: TxnAbort drops the batch.
ReorganizeFails ==
    /\ pc = "reorganize"
    /\ \/ AboveFork /\ ~DisconnectBlockOK(txn, txn.tip)
       \/ /\ ~AboveFork
          /\ txn.tip # pindexIntermediate
          /\ ~ConnectBlockOK(txn, NextConnect, pindexBest)
    /\ txn' = db
    /\ InvalidChainFound(pindexNew)
    /\ pc' = "idle"
    /\ UNCHANGED <<memory, dbBlockIndex, db, pindexNew, pindexIntermediate,
                   fPostponedFailed>>

\* Forgetting to clear pnext of vDisconnect, or to link all of vConnect.
UnlinkedNone == {}

LinkedTipOnly == {pindexIntermediate} \ Chain[pindexBest]

(***************************************************************************)
(* TxnCommit, then the links of vDisconnect and of vConnect in memory.  The *)
(* batch holds the index records that DisconnectBlock and ConnectBlock      *)
(* wrote: the parents of vDisconnect, vConnect and its parents.             *)
(***************************************************************************)
Unlinked == {Parent[b] : b \in Chain[pindexBest] \ Chain[pindexIntermediate]}

Linked == Chain[pindexIntermediate] \ Chain[pindexBest]

ReorganizeCommit ==
    /\ pc = "reorganize"
    /\ txn.tip = pindexIntermediate
    /\ db' = txn
    /\ dbBlockIndex' = dbBlockIndex \cup Unlinked \cup Linked
                                    \cup {Parent[b] : b \in Linked}
    /\ pnext' = [b \in Block |->
                   IF \E c \in Linked : Parent[c] = b
                     THEN CHOOSE c \in Linked : Parent[c] = b
                     ELSE IF b \in Unlinked THEN None ELSE pnext[b]]
    /\ pc' = IF pindexIntermediate = pindexNew THEN "update" ELSE "postponed"
    /\ UNCHANGED <<mapBlockIndex, pindexBest, nBestInvalidTrust, txn,
                   pindexNew, pindexIntermediate, fPostponedFailed>>

-----------------------------------------------------------------------------
(***************************************************************************)
(* The loop over vpindexSecondary: SetBestChainInner on one block after the *)
(* other, each in a batch of its own.  A failure leaves the loop, and the   *)
(* code below the loop is run as after a success.                           *)
(***************************************************************************)
NextPostponed == ChildOn(db.tip, pindexNew)

PostponedOK ==
    /\ pc = "postponed"
    /\ ConnectBlockOK(db, NextPostponed, pindexBest)
    /\ db' = ConnectBlock(db, NextPostponed)
    /\ dbBlockIndex' = dbBlockIndex \cup {NextPostponed, db.tip}
    /\ txn' = db'
    /\ pnext' = [pnext EXCEPT ![db.tip] = NextPostponed]
    /\ pc' = IF NextPostponed = pindexNew THEN "update" ELSE "postponed"
    /\ UNCHANGED <<mapBlockIndex, pindexBest, nBestInvalidTrust, pindexNew,
                   pindexIntermediate, fPostponedFailed>>

PostponedFails ==
    /\ pc = "postponed"
    /\ ~ConnectBlockOK(db, NextPostponed, pindexBest)
    /\ InvalidChainFound(NextPostponed)
    /\ pc' = "update"
    /\ fPostponedFailed' = TRUE
    /\ UNCHANGED <<memory, dbBlockIndex, db, txn, pindexNew,
                   pindexIntermediate>>

\* "New best block" at the end of SetBestChain.
UpdateBest ==
    /\ pc = "update"
    /\ pindexBest' = pindexNew
    /\ pc' = "idle"
    /\ UNCHANGED <<mapBlockIndex, pnext, disk, txn, pindexNew,
                   pindexIntermediate, fPostponedFailed>>

-----------------------------------------------------------------------------
(***************************************************************************)
(* AddToBlockIndex's own TxnCommit returns false, and with it AcceptBlock:  *)
(* the block is in memory without a record on disk, and SetBestChain is not *)
(* called for it, whatever its trust.                                       *)
(***************************************************************************)
IndexRecordFails(b) ==
    /\ pc = "idle"
    /\ b \notin mapBlockIndex
    /\ b # Genesis /\ Parent[b] \in mapBlockIndex
    /\ CheckCoinBaseHeight(b)
    /\ CheckProofOfStake(b)
    /\ mapBlockIndex' = mapBlockIndex \cup {b}
    /\ UNCHANGED <<pnext, pindexBest, disk, control>>

(***************************************************************************)
(* ReadFromDisk or TxnCommit returns false.  Before SetBestChain a block is *)
(* left without its record; SetBestChainInner leaves everything as it was;  *)
(* Reorganize is treated as for an invalid block; and in the loop over      *)
(* vpindexSecondary it is one more error that is passed by.  (AcceptBlock   *)
(* returns without any change when the block's file cannot be written.)     *)
(***************************************************************************)
DiskError ==
    \/ \E b \in Unwritable : IndexRecordFails(b)
    \/ /\ pc = "extend"
       /\ ConnectBlockOK(db, pindexNew, pindexBest)
       /\ txn' = db
       /\ pc' = "idle"
       /\ UNCHANGED <<memory, disk, pindexNew, pindexIntermediate,
                      fPostponedFailed>>
    \/ /\ pc = "reorganize"
       /\ txn' = db
       /\ InvalidChainFound(pindexNew)
       /\ pc' = "idle"
       /\ UNCHANGED <<memory, dbBlockIndex, db, pindexNew, pindexIntermediate,
                      fPostponedFailed>>
    \/ /\ pc = "postponed"
       /\ pc' = "update"
       /\ fPostponedFailed' = TRUE
       /\ UNCHANGED <<memory, disk, txn, pindexNew, pindexIntermediate>>

-----------------------------------------------------------------------------
(***************************************************************************)
(* The process is killed: what is in memory and in the open batch is gone.  *)
(***************************************************************************)
Kill ==
    /\ pc # "down"
    /\ pc' = "down"
    /\ txn' = db
    /\ UNCHANGED <<memory, disk, pindexNew, pindexIntermediate,
                   fPostponedFailed>>

(***************************************************************************)
(* The records on disk make an index: a hashPrev, a hashNext or a           *)
(* hashBestChain without a record is a block without pprev, which           *)
(* GetStakeModifierChecksum's assertion refuses, or an error, and the node  *)
(* does not come up.                                                        *)
(***************************************************************************)
IndexLoads ==
    /\ \A b \in dbBlockIndex : Chain[b] \subseteq dbBlockIndex
    /\ \A b \in dbBlockIndex : db.next[b] # None => db.next[b] \in dbBlockIndex
    /\ db.tip \in dbBlockIndex

(***************************************************************************)
(* CTxDB::LoadBlockIndex.  Its check of the best chain compares block times *)
(* with the present clock (CheckBlock), so that it may decide to move the   *)
(* best chain back to an earlier block: pindexFork, or none.                *)
(***************************************************************************)
LoadBlockIndex(pindexFork) ==
    /\ pc = "down"
    /\ IndexLoads
    /\ mapBlockIndex' = dbBlockIndex
    /\ pnext' = db.next
    /\ pindexBest' = db.tip
    /\ IF pindexFork = db.tip
         THEN pc' = "idle" /\ UNCHANGED <<txn, pindexNew, pindexIntermediate>>
         ELSE SetBestChain(pindexFork, db.tip)
    /\ UNCHANGED <<disk, fPostponedFailed>>

-----------------------------------------------------------------------------
Handler ==
    \/ ExtendOK \/ ExtendFails
    \/ ReorganizeDisconnect \/ ReorganizeConnect
    \/ ReorganizeFails \/ ReorganizeCommit
    \/ PostponedOK \/ PostponedFails \/ UpdateBest

Next ==
    \/ \E b \in Block : AcceptBlock(b)
    \/ \E b \in SyncCheckpoint : SetBestChainToCheckpoint(b)
    \/ Handler
    \/ DiskError
    \/ Kill
    \/ \E b \in Chain[db.tip] : LoadBlockIndex(b)

Spec == Init /\ [][Next]_vars

-----------------------------------------------------------------------------
\* The store d indexes exactly the transactions of the chain that ends in
\* d.tip, each at its own block; every input of one of them is an output of
\* that chain, marked as spent by it, and nothing else is marked.
AllIndexed(d) ==
    \A b \in Chain[d.tip] \ {Genesis} : \A t \in Txs(b) : d.pos[t] = b

OnlyChainIndexed(d) ==
    \A t \in Tx : d.pos[t] # None =>
        d.pos[t] \in Chain[d.tip] \ {Genesis} /\ t \in Txs(d.pos[t])

InputsSpent(d) ==
    \A t \in Tx : d.pos[t] # None =>
        \A o \in Vin[t] :
            /\ o \in OutPoint
            /\ d.spent[o] = t
            /\ d.pos[o[1]] # None
            /\ d.pos[o[1]] \in Chain[d.pos[t]]

OnlyInputsSpent(d) ==
    \A o \in OutPoint : d.spent[o] # None =>
        d.pos[d.spent[o]] # None /\ o \in Vin[d.spent[o]]

IsLedger(d) ==
    AllIndexed(d) /\ OnlyChainIndexed(d) /\ InputsSpent(d) /\ OnlyInputsSpent(d)

(***************************************************************************)
(* Whatever reorganizations, failed attempts, kills and restarts came       *)
(* before, the committed transaction index is the ledger of the chain that  *)
(* hashBestChain names on disk: no output is spent twice on it, no spent    *)
(* mark is left over from a branch that was disconnected (ConnectBlock,     *)
(* DisconnectBlock, TxnCommit and TxnAbort).                                *)
(***************************************************************************)
CommittedIndexIsLedger == ~fPostponedFailed => IsLedger(db)

(***************************************************************************)
(* Between two calls the memory agrees with the disk: "Make sure it's       *)
(* successfully written to disk before changing memory structure".  The     *)
(* index of the disk is part of that in memory and lacks at most blocks     *)
(* whose record AddToBlockIndex failed to write, none of them a block of    *)
(* the committed chain, whatever batch brought it there; and as long as it  *)
(* lacks none, a restart finds an index that loads.                         *)
(***************************************************************************)
MemoryMatchesDisk ==
    /\ dbBlockIndex \subseteq mapBlockIndex
    /\ mapBlockIndex \ dbBlockIndex \subseteq Unwritable
    /\ mapBlockIndex = dbBlockIndex => IndexLoads
    /\ ~fPostponedFailed => Chain[db.tip] \subseteq dbBlockIndex
    /\ pc # "down" => pnext = db.next
    /\ pc = "idle" /\ ~fPostponedFailed => pindexBest = db.tip

(***************************************************************************)
(* CBlockIndex::IsInMainChain, a test of pnext, is true of the ancestors of *)
(* pindexBest and of no other block once SetBestChain is done.              *)
(***************************************************************************)
MainChainIsBestChain ==
    pc = "idle" /\ ~fPostponedFailed =>
        /\ {b \in mapBlockIndex : IsInMainChain(b)} = Chain[pindexBest]
        /\ \A b \in Block : pnext[b] # None => Parent[pnext[b]] = b

(***************************************************************************)
(* Every batch that changes the best chain for a block of more trust leads  *)
(* to a chain of more trust than the one it replaces, the batch that        *)
(* Reorganize commits for an intermediate block included: a kill after any  *)
(* of them never leaves the node on a worse chain.                          *)
(***************************************************************************)
CommitsGainTrust ==
    [][ db'.tip # db.tip /\ ChainTrust[pindexNew] > ChainTrust[pindexBest]
          => ChainTrust[db'.tip] > ChainTrust[db.tip] ]_vars

(***************************************************************************)
(* The committed store implements the abstract Ledger: as a reader sees it, *)
(* best block and spendable outputs change together, in one step, and only  *)
(* to the outputs of a chain that is sound (TxnCommit's batches).           *)
(***************************************************************************)
Spendable(d) == {o \in OutPoint : d.pos[o[1]] # None /\ d.spent[o] = None}

L == INSTANCE Ledger WITH best <- db.tip, utxo <- Spendable(db)

StoreImplementsLedger ==
    L!Init /\ [][fPostponedFailed' \/ L!Next]_<<db.tip, Spendable(db)>>

-----------------------------------------------------------------------------
(***************************************************************************)
(* The inductive invariant behind the properties above.  The index in       *)
(* memory (as it was, while the node is down) is closed under pprev and     *)
(* every coinbase in it carries its height, and the records on disk are all *)
(* of it but for blocks that no committed chain has; until a postponed      *)
(* reconnect fails, the batch of Reorganize is at every block the ledger of *)
(* the chain it has come to, and the committed store stays that of          *)
(* pindexBest until it is replaced.                                         *)
(***************************************************************************)
Running == {"extend", "reorganize", "postponed", "update"}

IndexInv ==
    /\ Genesis \in mapBlockIndex
    /\ \A b \in mapBlockIndex : Chain[b] \subseteq mapBlockIndex
    /\ \A b \in mapBlockIndex \ {Genesis} : CheckCoinBaseHeight(b)
    /\ db.tip \in mapBlockIndex /\ pindexBest \in mapBlockIndex
    /\ dbBlockIndex \subseteq mapBlockIndex
    /\ pc \in Running => pindexNew \in mapBlockIndex
    /\ pc = "extend" => pindexNew # Genesis /\ Parent[pindexNew] = pindexBest
    /\ pc = "reorganize" =>
          /\ pindexIntermediate \in Chain[pindexNew]
          /\ txn.tip \in mapBlockIndex
    /\ pc = "postponed" => db.tip \in Chain[pindexNew] \ {pindexNew}

TrustInv ==
    /\ pc \in {"idle", "extend", "reorganize"} =>
          ChainTrust[db.tip] <= ChainTrust[pindexBest]
    /\ pc = "update" => ChainTrust[db.tip] <= ChainTrust[pindexNew]
    /\ pc = "extend" => ChainTrust[pindexNew] > ChainTrust[pindexBest]
    /\ pc = "reorganize" /\ ChainTrust[pindexNew] > ChainTrust[pindexBest] =>
          ChainTrust[pindexIntermediate] > ChainTrust[pindexBest]

LedgerInv ==
    ~fPostponedFailed =>
        /\ IsLedger(db)
        /\ pc \in {"idle", "extend", "reorganize"} => pindexBest = db.tip
        /\ pc = "reorganize" => IsLedger(txn)
        /\ pc = "update" => db.tip = pindexNew

IndInv == TypeOK /\ IndexInv /\ TrustInv /\ LedgerInv

(***************************************************************************)
(* The invariant of the links, on top of IndInv.  Every hashNext leads to a *)
(* block of the committed chain, and until a postponed reconnect fails      *)
(* every block of that chain is led to.  The committed tip is never off the *)
(* chain of pindexBest, so that what Reorganize's batch has done to the     *)
(* links, block after block, is what it then does to pnext at once.         *)
(***************************************************************************)
LinksOnChain(d) ==
    \A b \in Block : d.next[b] # None =>
        d.next[b] \in Chain[d.tip] \ {Genesis} /\ Parent[d.next[b]] = b

ChainLinked(d) == \A b \in Chain[d.tip] \ {Genesis} : d.next[Parent[b]] = b

\* The links after the batch has come from pindexBest to the block t.
BatchLinks(t) ==
    [b \in Block |->
        IF \E c \in Chain[t] \ Chain[pindexBest] : Parent[c] = b
          THEN CHOOSE c \in Chain[t] \ Chain[pindexBest] : Parent[c] = b
          ELSE IF b \in {Parent[c] : c \in Chain[pindexBest] \ Chain[t]} THEN None
          ELSE db.next[b]]

BatchInv ==
    /\ LinksOnChain(txn)
    /\ ~fPostponedFailed => ChainLinked(txn)
    /\ AboveFork => txn.tip \in Chain[pindexBest]
    /\ Chain[pindexBest] \cap Chain[pindexIntermediate] \subseteq Chain[txn.tip]
    /\ txn.next = BatchLinks(txn.tip)

LinkInv ==
    /\ LinksOnChain(db)
    /\ ~fPostponedFailed => ChainLinked(db)
    /\ pc # "down" => pnext = db.next
    /\ pc \in {"idle", "extend", "reorganize"} => db.tip \in Chain[pindexBest]
    /\ pc = "update" => db.tip \in Chain[pindexNew]
    /\ pc = "reorganize" => BatchInv

\* The records that are missing, on top of IndInv.
RecordInv ==
    /\ mapBlockIndex \ dbBlockIndex \subseteq Unwritable
    /\ ~fPostponedFailed => Chain[db.tip] \subseteq dbBlockIndex

ChainInv == IndInv /\ LinkInv /\ RecordInv

=============================================================================
