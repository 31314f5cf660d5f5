------------------------------- MODULE TxIndex -------------------------------
(***************************************************************************)
(* The transaction index of CTxDB and the two operations that move it along *)
(* the block tree: CBlock::ConnectBlock and CBlock::DisconnectBlock.        *)
(*                                                                          *)
(* A store is a record                                                      *)
(*     tip     the block whose chain the index describes (hashBestChain)    *)
(*     pos     for each transaction the block CTxIndex::pos lies in, or None*)
(*     spent   for each output the transaction at CTxIndex::vSpent, or None *)
(*     next    hashNext of each block's CDiskBlockIndex, or None            *)
(* It stands both for what is committed on disk and for what is read        *)
(* through the batch of an open CTxDB transaction.                          *)
(***************************************************************************)
EXTENDS BlockTree, Sequences

CONSTANTS
    Tx,                 \* every transaction of the instance
    None,               \* an absent index entry, a null position, hash 0
    VTx,                \* CBlock::vtx of every block
    Vin,                \* the prevouts a transaction spends
    Vout,               \* how many outputs it has
    CoinBase,           \* the transactions with IsCoinBase()
    CoinStake,          \* the transactions with IsCoinStake()
    Kernel,             \* vin[0].prevout of a coinstake
    CoinBaseHeight,     \* the height a coinbase's scriptSig starts with
    BadSig,             \* transactions whose signatures do not verify
    Claim,              \* what a block pays itself, beyond its fees
    Reward,             \* what GetProofOfWorkReward allows, by nBestHeight
                        \* (for a proof-of-stake block: per coin-day)
    nCoinbaseMaturity,
    TotalBlocksEstimate \* Checkpoints::GetTotalBlocksEstimate()

Outputs(t) == {t} \X (0 .. (Vout[t] - 1))

OutPoint == UNION {Outputs(t) : t \in Tx}

Txs(b) == {VTx[b][i] : i \in DOMAIN VTx[b]}

(***************************************************************************)
(* What CheckBlock and CheckTransaction have established for every block    *)
(* and transaction: the first transaction of a block and no other is a      *)
(* coinbase, none occurs twice, and only a coinbase spends nothing.         *)
(***************************************************************************)
ASSUME TxAssumption ==
    /\ None \notin Block \cup Tx
    /\ VTx \in [Block -> Seq(Tx)]
    /\ Vin \in [Tx -> SUBSET (Tx \X Nat)]
    /\ Vout \in [Tx -> Nat \ {0}]
    /\ CoinBase \subseteq Tx /\ CoinStake \subseteq Tx
    /\ \A t \in Tx : (Vin[t] = {}) <=> (t \in CoinBase)
    /\ \A b \in Block \ {Genesis} :
          /\ VTx[b] # << >>
          /\ \A i \in DOMAIN VTx[b] : VTx[b][i] \in CoinBase <=> i = 1
          /\ \A i, j \in DOMAIN VTx[b] : VTx[b][i] = VTx[b][j] => i = j
    /\ Kernel \in [CoinStake -> Tx \X Nat]
    /\ \A t \in CoinStake : Kernel[t] \in Vin[t]
    /\ CoinBaseHeight \in [CoinBase -> Nat]
    /\ Claim \in [Block -> Nat]
    /\ Reward \in [{Height[b] : b \in Block} -> Nat]
    /\ nCoinbaseMaturity \in Nat
    /\ TotalBlocksEstimate \in Nat

\* Transactions name their inputs by hash: no transaction is its own ancestor.
ASSUME AcyclicTxAssumption ==
    \A T \in SUBSET Tx :
        T # {} => \E t \in T : \A o \in Vin[t] : o[1] \notin T

Store ==
    [tip   : Block,
     pos   : [Tx -> Block \cup {None}],
     spent : [OutPoint -> Tx \cup {None}],
     next  : [Block -> Block \cup {None}]]

-----------------------------------------------------------------------------
\* In ConnectBlock, mapQueuedChanges holds the block's own earlier entries.
Queued(b, i, t) == \E j \in 1 .. (i - 1) : VTx[b][j] = t

(***************************************************************************)
(* FetchInputs and ConnectInputs for prevout o of the block's i-th          *)
(* transaction: it is found, in the queued changes or in the index, within  *)
(* range, mature and not spent, neither in the index nor earlier in b.      *)
(***************************************************************************)
PosOfPrev(d, b, i, t) == IF Queued(b, i, t) THEN b ELSE d.pos[t]

FetchInput(d, b, i, o) ==
    /\ Queued(b, i, o[1]) \/ d.pos[o[1]] # None
    /\ o \in OutPoint

Mature(d, b, i, o) ==
    LET c == PosOfPrev(d, b, i, o[1])
    IN  o[1] \in CoinBase \cup CoinStake =>
            ~(c \in Chain[b] /\ Height[b] - Height[c] < nCoinbaseMaturity)

\* Unspent without the test of vSpent in the index.
UnspentInBlock(d, b, i, o) ==
    \A j \in 1 .. (i - 1) : o \notin Vin[VTx[b][j]]

Unspent(d, b, i, o) ==
    /\ Queued(b, i, o[1]) \/ d.spent[o] = None
    /\ \A j \in 1 .. (i - 1) : o \notin Vin[VTx[b][j]]

ConnectInputs(d, b, i, best) ==
    /\ \A o \in Vin[VTx[b][i]] :
          FetchInput(d, b, i, o) /\ Mature(d, b, i, o) /\ Unspent(d, b, i, o)
    /\ VTx[b][i] \in BadSig => Height[best] < TotalBlocksEstimate

\* BIP30: a transaction may only overwrite one whose outputs are all spent.
NoOverwrite(d, t) ==
    d.pos[t] # None => \A o \in Outputs(t) : d.spent[o] # None

(***************************************************************************)
(* ConnectBlock returns true.  best is pindexBest while it runs, which is   *)
(* where GetProofOfWorkReward and the signature shortcut take the height    *)
(* from.                                                                    *)
(***************************************************************************)
ConnectBlockOK(d, b, best) ==
    /\ \A i \in DOMAIN VTx[b] :
          NoOverwrite(d, VTx[b][i]) /\ ConnectInputs(d, b, i, best)
    /\ Claim[b] <= Reward[Height[best]]

SpentBy(b, o) == {t \in Txs(b) : o \in Vin[t]}

ConnectBlock(d, b) ==
    [tip   |-> b,
     pos   |-> [t \in Tx |-> IF t \in Txs(b) THEN b ELSE d.pos[t]],
     spent |-> [o \in OutPoint |->
                  IF SpentBy(b, o) # {} THEN CHOOSE t \in SpentBy(b, o) : TRUE
                  ELSE IF o[1] \in Txs(b) THEN None ELSE d.spent[o]],
     next  |-> [d.next EXCEPT ![b] = None, ![Parent[b]] = b]]

(***************************************************************************)
(* DisconnectBlock goes through vtx backwards; DisconnectInputs fails when  *)
(* the entry of a previous transaction is not there or too short.           *)
(***************************************************************************)
DisconnectBlockOK(d, b) ==
    \A i \in DOMAIN VTx[b] : \A o \in Vin[VTx[b][i]] :
        /\ d.pos[o[1]] # None
        /\ \A j \in DOMAIN VTx[b] : j > i => VTx[b][j] # o[1]
        /\ o \in OutPoint

\* DisconnectBlock without DisconnectInputs' SetNull of vSpent, and without
\* EraseTxIndex.
DisconnectKeepsSpent(d, b) ==
    [tip   |-> Parent[b],
     pos   |-> [t \in Tx |-> IF t \in Txs(b) THEN None ELSE d.pos[t]],
     spent |-> d.spent,
     next  |-> [d.next EXCEPT ![Parent[b]] = None]]

DisconnectKeepsIndex(d, b) ==
    [tip   |-> Parent[b],
     pos   |-> d.pos,
     spent |-> [o \in OutPoint |->
                  IF SpentBy(b, o) # {} THEN None ELSE d.spent[o]],
     next  |-> [d.next EXCEPT ![Parent[b]] = None]]

DisconnectBlock(d, b) ==
    [tip   |-> Parent[b],
     pos   |-> [t \in Tx |-> IF t \in Txs(b) THEN None ELSE d.pos[t]],
     spent |-> [o \in OutPoint |->
                  IF SpentBy(b, o) # {} \/ o[1] \in Txs(b) THEN None
                  ELSE d.spent[o]],
     next  |-> [d.next EXCEPT ![Parent[b]] = None]]

=============================================================================
