------------------------------- MODULE Wallet --------------------------------
(***************************************************************************)
(* What a wallet believes of its transactions - which block each is in and  *)
(* whether its output is spent - next to the chain and the memory pool that *)
(* tell it.  The wallet is told of the transactions of a block, one at a    *)
(* time, when the block has been connected in the batch and before that is  *)
(* committed, and of a disconnected block only for its coinstake.           *)
(*                                                                          *)
(* A transaction has one output, named like it.  Blocks, transactions and   *)
(* payments are handled under cs_main, one after the other; the command     *)
(* repairwallet takes cs_wallet only, which SyncWithWallets releases after  *)
(* every transaction, and reads the committed index.  Maturity and amounts  *)
(* are left out.                                                            *)
(***************************************************************************)
EXTENDS BlockTree, Sequences

CONSTANTS
    None,
    Tx,
    Inputs,         \* the outputs a transaction spends
    VTx,            \* vtx of a block, what matters to the wallet of it
    Mine,           \* the transactions that pay to the wallet
    CoinStake,
    BlockOnly,      \* coinbases and coinstakes, which no pool accepts
    Own,            \* the transactions the wallet's user may make
    Late,           \* the transactions that may come before their inputs
    Repair,         \* whether the user runs repairwallet
    Invalid         \* the blocks ConnectBlock refuses

ASSUME WalletAssumption ==
    /\ Inputs \in [Tx -> SUBSET Tx]
    /\ VTx \in [Block -> Seq(Tx)]
    /\ Mine \subseteq Tx /\ BlockOnly \subseteq Tx /\ CoinStake \subseteq BlockOnly
    /\ Own \subseteq Tx \ BlockOnly
    /\ Late \subseteq Tx /\ \A t \in Late : Inputs[t] \cap Late = {}
    /\ Invalid \subseteq Block \ {Genesis} /\ VTx[Genesis] = << >>
    /\ None \notin Block /\ Repair \in BOOLEAN

(***************************************************************************)
(* What ConnectBlock has tested in a chain of blocks it does not refuse: a  *)
(* transaction is there once, spends what no other one there spends, and    *)
(* finds what it spends in an earlier block or earlier in its own.          *)
(***************************************************************************)
ASSUME ConnectedAssumption ==
    \A b \in Block : Chain[b] \cap Invalid = {} =>
        \A c \in Chain[b] : \A i \in DOMAIN VTx[c] :
            /\ \A d \in Chain[b] : \A j \in DOMAIN VTx[d] :
                  \/ VTx[c][i] = VTx[d][j]
                  \/ Inputs[VTx[c][i]] \cap Inputs[VTx[d][j]] # {}
                  => c = d /\ i = j
            /\ \A o \in Inputs[VTx[c][i]] :
                  \E d \in Chain[c] : \E j \in DOMAIN VTx[d] :
                      VTx[d][j] = o /\ (d = c => j < i)

VARIABLES
    index, best,        \* mapBlockIndex, pindexBest
    pindexNew,          \* of SetBestChain, None when it does not run
    tip, iTx,           \* where its batch is: the block it has come to, and how
                        \* many of that block's transactions the wallet was told
    pool, orphans,      \* mempool, mapOrphanTransactions
    wallet,             \* mapWallet: known, spent (vfSpent), hashBlock
    \* history
    failedReorganize,   \* Reorganize has failed after it told the wallet
    failedCommit,       \* AcceptToMemoryPool has failed in CommitTransaction
    raced               \* repairwallet has run during SetBestChain

chainVars == <<index, best, pindexNew, tip, iTx, failedReorganize>>
poolVars == <<pool, orphans>>
wvars == <<chainVars, poolVars, wallet, failedCommit, raced>>

WalletTypeOK ==
    /\ index \subseteq Block /\ ClosedUnderParent(index) /\ best \in index
    /\ pindexNew \in index \cup {None} /\ tip \in index /\ iTx \in 0 .. Len(VTx[tip])
    /\ pool \subseteq Tx \ BlockOnly /\ orphans \subseteq Late
    /\ wallet \in [known : SUBSET Tx, spent : SUBSET Tx, hashBlock : [Tx -> Block \cup {None}]]
    /\ wallet.spent \subseteq wallet.known \cap Mine
    /\ failedReorganize \in BOOLEAN /\ failedCommit \in BOOLEAN /\ raced \in BOOLEAN

WalletInit ==
    /\ index = {Genesis} /\ best = Genesis
    /\ pindexNew = None /\ tip = Genesis /\ iTx = 0
    /\ pool = {} /\ orphans = {}
    /\ wallet = [known |-> {}, spent |-> {}, hashBlock |-> [t \in Tx |-> None]]
    /\ failedReorganize = FALSE /\ failedCommit = FALSE /\ raced = FALSE

\* The transactions of a block and of the chain that ends in b, and the
\* outputs that transactions spend.
Txs(b) == {VTx[b][i] : i \in DOMAIN VTx[b]}

ChainTx(b) == UNION {Txs(c) : c \in Chain[b]}

SpentBy(S) == UNION {Inputs[t] : t \in S}

-----------------------------------------------------------------------------
(***************************************************************************)
(* AddToWalletIfInvolvingMe, AddToWallet and WalletUpdateSpent.  b is the   *)
(* block, or None for a transaction of the pool.                            *)
(***************************************************************************)
IsFromMe(w, t) == Inputs[t] \cap w.known \cap Mine # {}

\* A plausible bug: the block of a transaction is set only once.
MergeFirst(old, b) == IF old = None THEN b ELSE old

Merge(old, b) == IF b = None THEN old ELSE b

\* A plausible bug: a transaction of a block is not taken as proof that its inputs are spent.
UpdateSpentNotInBlock(w, t, b) ==
    IF b = None THEN w.spent \cup (Inputs[t] \cap w.known \cap Mine)
                ELSE w.spent \ {t}

\* A plausible bug: inputs are marked without a look at whose they are.
UpdateSpentAnyInput(w, t, b) ==
    (w.spent \cup Inputs[t]) \ (IF b = None THEN {} ELSE {t})

UpdateSpent(w, t, b) ==
    (w.spent \cup (Inputs[t] \cap w.known \cap Mine)) \ (IF b = None THEN {} ELSE {t})

AddToWallet(w, t, b) ==
    IF t \in w.known \cup Mine \/ IsFromMe(w, t)
      THEN [known     |-> w.known \cup {t},
            spent     |-> UpdateSpent(w, t, b),
            hashBlock |-> [w.hashBlock EXCEPT ![t] = Merge(@, b)]]
      ELSE w

\* A plausible bug: nothing is given back.
SyncDisconnectNothing(w, b) == w

\* SyncWithWallets at the end of DisconnectBlock, and DisableTransaction.
SyncDisconnect(w, b) ==
    [w EXCEPT !.spent = @ \ SpentBy({t \in Txs(b) \cap CoinStake : IsFromMe(w, t)})]

-----------------------------------------------------------------------------
(***************************************************************************)
(* AcceptBlock and SetBestChain.  A block with more trust than the best one *)
(* is handed to SetBestChain, which holds cs_main until it returns.         *)
(***************************************************************************)
Idle == pindexNew = None

Extends(b) == Parent[b] = best

AcceptBlock(b) ==
    /\ Idle
    /\ b \notin index /\ Parent[b] \in index
    /\ index' = index \cup {b}
    /\ pindexNew' = IF ChainTrust[b] > ChainTrust[best] THEN b ELSE None
    /\ UNCHANGED <<best, tip, iTx, failedReorganize, poolVars, wallet, failedCommit, raced>>

AllTold == iTx = Len(VTx[tip])

\* Reorganize disconnects the best chain down to the fork.
DisconnectBlock ==
    /\ ~ Idle /\ AllTold
    /\ tip \notin Chain[pindexNew]
    /\ wallet' = SyncDisconnect(wallet, tip)
    /\ tip' = Parent[tip] /\ iTx' = Len(VTx[Parent[tip]])
    /\ UNCHANGED <<index, best, pindexNew, failedReorganize, poolVars, failedCommit, raced>>

(***************************************************************************)
(* The next block of the new branch is connected in the batch, or refused:  *)
(* then the batch is dropped, and the wallet keeps what it has been told.   *)
(* (A branch of which more than the last block has more trust than the best *)
(* chain has been refused before, and is again in the block of it that      *)
(* Reorganize is then called with, or below.)                               *)
(***************************************************************************)
ConnectBlock ==
    LET b == ChildOn(tip, pindexNew)
    IN  /\ ~ Idle /\ AllTold
        /\ tip \in Chain[pindexNew] \ {pindexNew}
        /\ IF b \in Invalid
             THEN /\ tip' = best /\ iTx' = Len(VTx[best]) /\ pindexNew' = None
                  /\ failedReorganize' = (failedReorganize \/ ~ Extends(pindexNew))
             ELSE /\ tip' = b /\ iTx' = 0
                  /\ UNCHANGED <<pindexNew, failedReorganize>>
        /\ UNCHANGED <<index, best, poolVars, wallet, failedCommit, raced>>

\* SyncWithWallets at the end of ConnectBlock, for the next transaction.
SyncWithWallets ==
    /\ ~ Idle /\ ~ AllTold
    /\ wallet' = AddToWallet(wallet, VTx[tip][iTx + 1], tip)
    /\ iTx' = iTx + 1
    /\ UNCHANGED <<index, best, pindexNew, tip, failedReorganize, poolVars, failedCommit, raced>>

(***************************************************************************)
(* Reorganize puts the transactions of the disconnected blocks back into    *)
(* the pool, without fCheckInputs, and then takes out those of the new      *)
(* branch and what conflicts with them, with all that builds on it.         *)
(***************************************************************************)
Resurrect(p, T) ==
    p \cup {t \in T \ BlockOnly : t \notin p /\ Inputs[t] \cap SpentBy(p) = {}}

Dependents(p, T) ==
    {u \in p : \A D \in SUBSET p :
        (T \cap p \subseteq D /\ \A t \in p : Inputs[t] \cap D # {} => t \in D) => u \in D}

removeConflicts(p, T) ==
    p \ Dependents(p, {t \in p \ T : Inputs[t] \cap SpentBy(T) # {}})

PoolAfter(b) ==
    LET disconnected == UNION {Txs(c) : c \in Chain[best] \ Chain[b]}
        connected    == UNION {Txs(c) : c \in Chain[b] \ Chain[best]}
    IN  IF Extends(b) THEN pool \ Txs(b)
                      ELSE removeConflicts(Resurrect(pool, disconnected), connected) \ connected

\* TxnCommit, and what SetBestChainInner, Reorganize and SetBestChain do after it.
Commit ==
    /\ ~ Idle /\ AllTold
    /\ tip = pindexNew
    /\ best' = pindexNew /\ pindexNew' = None
    /\ pool' = PoolAfter(pindexNew)
    /\ UNCHANGED <<index, tip, iTx, failedReorganize, orphans, wallet, failedCommit, raced>>

-----------------------------------------------------------------------------
(***************************************************************************)
(* AcceptToMemoryPool for pool p: what it refuses, what it finds missing.   *)
(***************************************************************************)
Refused(p, t) ==
    \/ t \in p \cup ChainTx(best) \cup BlockOnly
    \/ Inputs[t] \cap SpentBy(p) # {}

fMissingInputs(p, t) == ~ Refused(p, t) /\ ~ (Inputs[t] \subseteq ChainTx(best) \cup p)

Accepts(p, t) ==
    /\ ~ Refused(p, t) /\ ~ fMissingInputs(p, t)
    /\ Inputs[t] \cap SpentBy(ChainTx(best)) = {}

\* What T adds to pool p, one after the other in the order of hashes.
Accepted(p, T) ==
    {S \in SUBSET {t \in T : Accepts(p, t)} :
        /\ \A t, u \in S : t # u => Inputs[t] \cap Inputs[u] = {}
        /\ \A t \in T \ S : Accepts(p, t) => Inputs[t] \cap SpentBy(S) # {}}

(***************************************************************************)
(* A tx message.  The wallet is told of t, and then of t again for every    *)
(* orphan that t makes acceptable.  An orphan that is tried goes, unless an *)
(* input of it is still missing when its turn comes.                        *)
(***************************************************************************)
ReceiveTx(t) ==
    /\ Idle
    /\ \/ /\ Accepts(pool, t)
          /\ LET tried == {o \in orphans : t \in Inputs[o]}
                 p     == pool \cup {t}
                 kept  == {o \in tried : fMissingInputs(p, o)}
             IN  \E freed \in Accepted(p, tried) :
                 \E late \in SUBSET {o \in kept : Inputs[o] \cap SpentBy(freed) # {}} :
                    /\ pool' = p \cup freed
                    /\ orphans' = orphans \ ({t} \cup (tried \ kept) \cup late)
          /\ wallet' = AddToWallet(wallet, t, None)
       \/ /\ t \in Late \ orphans
          /\ fMissingInputs(pool, t)
          /\ orphans' = orphans \cup {t}
          /\ UNCHANGED <<pool, wallet>>
    /\ UNCHANGED <<chainVars, failedCommit, raced>>

\* IsTrusted: in the chain, or in the pool and made by this wallet from such
\* (vtxPrev, the copies of the transactions it spends, is taken as complete).
IsConfirmed(o) == wallet.hashBlock[o] \in Chain[best]

Trusted ==
    LET tr[o \in Tx] ==
            \/ IsConfirmed(o)
            \/ o \in pool /\ IsFromMe(wallet, o) /\ \A i \in Inputs[o] : tr[i]
    IN  {o \in Tx : tr[o]}

AvailableCoins == (wallet.known \cap Mine \cap Trusted) \ wallet.spent

(***************************************************************************)
(* CreateTransaction from available coins, and CommitTransaction.           *)
(***************************************************************************)
CommitTransaction(t) ==
    /\ Idle
    /\ t \in Own \ wallet.known
    /\ Inputs[t] \subseteq AvailableCoins
    /\ wallet' = AddToWallet(wallet, t, None)
    /\ IF Accepts(pool, t)
         THEN pool' = pool \cup {t} /\ UNCHANGED failedCommit
         ELSE failedCommit' = TRUE /\ UNCHANGED pool
    /\ UNCHANGED <<chainVars, orphans, raced>>

(***************************************************************************)
(* The command repairwallet: the flags of confirmed transactions from the   *)
(* committed index, at any moment at which nobody holds cs_wallet.          *)
(***************************************************************************)
FixSpentCoins ==
    /\ Repair
    /\ wallet' = [wallet EXCEPT !.spent =
                     (@ \ ChainTx(best)) \cup
                     (SpentBy(ChainTx(best)) \cap ChainTx(best) \cap wallet.known \cap Mine)]
    /\ raced' = (raced \/ ~ Idle)
    /\ UNCHANGED <<chainVars, poolVars, failedCommit>>

ChainStep ==
    \/ \E b \in Block \ {Genesis} : AcceptBlock(b)
    \/ DisconnectBlock \/ ConnectBlock \/ SyncWithWallets \/ Commit

WalletNext ==
    \/ ChainStep
    \/ \E t \in Tx : ReceiveTx(t) \/ CommitTransaction(t)
    \/ FixSpentCoins

WalletSpec == WalletInit /\ [][WalletNext]_wvars

-----------------------------------------------------------------------------
(***************************************************************************)
(* An output of the wallet that the main chain spends is marked as spent,   *)
(* however the chain got there, as long as no Reorganize has failed after   *)
(* ConnectBlock had told the wallet of its blocks, and no repairwallet ran  *)
(* while a block was being connected.                                       *)
(***************************************************************************)
ConfirmedSpendsMarked ==
    Idle /\ ~ failedReorganize /\ ~ raced => SpentBy(ChainTx(best)) \cap Mine \subseteq wallet.spent

(***************************************************************************)
(* As long as no Reorganize has failed, a transaction of the wallet that is *)
(* in the main chain is counted as confirmed: hashBlock follows it from     *)
(* block to block.                                                          *)
(***************************************************************************)
ConfirmedKnown ==
    Idle /\ ~ failedReorganize =>
        \A t \in ChainTx(best) \cap Mine : t \in wallet.known /\ IsConfirmed(t)

(***************************************************************************)
(* No coin is lost: what is marked as spent is spent by a transaction of    *)
(* the wallet that may still be confirmed, which an orphaned coinstake may  *)
(* not ("wallets need to refund inputs when disconnecting coinstake").      *)
(***************************************************************************)
NoLostCoin ==
    Idle /\ ~ failedReorganize /\ ~ raced =>
        \A o \in wallet.spent :
            \E t \in wallet.known : o \in Inputs[t] /\ (t \notin CoinStake \/ t \in ChainTx(best))

(***************************************************************************)
(* What holds between any two of the steps, while a batch is open too.      *)
(* HasHeard(c, i): the i-th transaction of c is on the chain of the batch   *)
(* and the wallet has been told of it.                                      *)
(***************************************************************************)
HasHeard(c, i) == c \in Chain[tip] /\ i \in DOMAIN VTx[c] /\ (c = tip => i <= iTx)

BatchInv ==
    /\ Chain[best] \cap Invalid = {} /\ Chain[tip] \cap Invalid = {}
    /\ Idle => tip = best /\ AllTold
    /\ ~ Idle /\ Extends(pindexNew) => tip \in {best, pindexNew}
    /\ ~ Idle => pindexNew # Genesis

HeardKnown ==
    ~ failedReorganize =>
        \A c \in Block : \A i \in DOMAIN VTx[c] :
            HasHeard(c, i) /\ (VTx[c][i] \in Mine \/ Inputs[VTx[c][i]] \cap Mine # {})
            => VTx[c][i] \in wallet.known /\ wallet.hashBlock[VTx[c][i]] = c

HeardMarked ==
    ~ failedReorganize /\ ~ raced =>
        \A c \in Block : \A i \in DOMAIN VTx[c] :
            HasHeard(c, i) => Inputs[VTx[c][i]] \cap Mine \subseteq wallet.spent

MarkedForCause ==
    ~ failedReorganize /\ ~ raced =>
        \A o \in wallet.spent : \E t \in wallet.known :
            /\ o \in Inputs[t]
            /\ \/ t \notin CoinStake
               \/ \E c \in Block : \E i \in DOMAIN VTx[c] : HasHeard(c, i) /\ VTx[c][i] = t

WalletInv == WalletTypeOK /\ BatchInv /\ HeardKnown /\ HeardMarked /\ MarkedForCause

(***************************************************************************)
(* "This must not fail. The transaction has already been signed and         *)
(* recorded." (CommitTransaction): the pool takes what the wallet makes.    *)
(***************************************************************************)
CommitAccepted == ~ failedCommit

(***************************************************************************)
(* "Make sure it's successfully written to disk before changing memory      *)
(* structure" (Reorganize): when a branch is not written the wallet still   *)
(* counts what is in the main chain as confirmed there.                     *)
(***************************************************************************)
WalletFollowsChain ==
    Idle => \A t \in ChainTx(best) \cap Mine : t \in wallet.known /\ IsConfirmed(t)

(***************************************************************************)
(* "Repair wallet if checkwallet reports any problem." (repairwallet): a    *)
(* repair does not take away the mark of an output that the main chain      *)
(* spends.                                                                  *)
(***************************************************************************)
RepairKeepsMarks ==
    Idle /\ ~ failedReorganize => SpentBy(ChainTx(best)) \cap Mine \subseteq wallet.spent

(***************************************************************************)
(* "make sure all wallets know about the given transaction"                 *)
(* (SyncWithWallets): a payment to the wallet that the pool has taken from  *)
(* a peer is in the wallet.                                                 *)
(***************************************************************************)
PoolPaymentsKnown == pool \cap Mine \subseteq wallet.known

=============================================================================
