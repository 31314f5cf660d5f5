-------------------------- MODULE BlockChainProofs --------------------------
(***************************************************************************)
(* Proofs about BlockChain, for every tree of blocks and every set of       *)
(* transactions: ConnectBlock and DisconnectBlock lead from ledger to       *)
(* ledger, and so the committed index is a ledger in every reachable state. *)
(* Then, about ChainSelection: a chain has one ledger, and so a block's     *)
(* validity is its own and the best valid block is the one that is chosen.  *)
(***************************************************************************)
EXTENDS ChainSelection, BlockTreeProofs

-----------------------------------------------------------------------------
\* The transactions of a block, by position.
LEMMA TxsOfBlock ==
    ASSUME NEW b \in Block
    PROVE  /\ Txs(b) \subseteq Tx
           /\ \A t \in Txs(b) : \E i \in DOMAIN VTx[b] : VTx[b][i] = t
           /\ \A i \in DOMAIN VTx[b] : VTx[b][i] \in Txs(b)
           /\ DOMAIN VTx[b] \subseteq Nat
  <1>1. VTx[b] \in Seq(Tx)
    BY TxAssumption
  <1>. QED
    BY <1>1 DEF Txs

\* What is queued for the i-th transaction of a block is in the block.
LEMMA QueuedInBlock ==
    ASSUME NEW b \in Block, NEW i \in DOMAIN VTx[b], NEW t, Queued(b, i, t)
    PROVE  t \in Txs(b)
  <1>1. VTx[b] \in Seq(Tx)
    BY TxAssumption
  <1>2. PICK j \in 1 .. (i - 1) : VTx[b][j] = t
    BY DEF Queued
  <1>3. j \in DOMAIN VTx[b]
    BY <1>1, <1>2
  <1>. QED
    BY <1>2, <1>3 DEF Txs

\* The types of the stores ConnectBlock and DisconnectBlock return.
LEMMA ConnectType ==
    ASSUME NEW d \in Store, NEW b \in Block, b # Genesis
    PROVE  ConnectBlock(d, b) \in Store
  <1>1. \A o : SpentBy(b, o) # {} => (CHOOSE t \in SpentBy(b, o) : TRUE) \in Tx
    BY TxsOfBlock DEF SpentBy
  <1>2. Parent[b] \in Block
    BY BlockAssumption
  <1>. QED
    BY <1>1, <1>2 DEF ConnectBlock, Store

\* DisconnectBlock, too, gives a store.
LEMMA DisconnectType ==
    ASSUME NEW d \in Store, NEW b \in Block, b # Genesis
    PROVE  DisconnectBlock(d, b) \in Store
  <1>1. Parent[b] \in Block
    BY BlockAssumption
  <1>. QED
    BY <1>1 DEF DisconnectBlock, Store

-----------------------------------------------------------------------------
(***************************************************************************)
(* A block that ConnectBlock accepts repeats no transaction of the chain    *)
(* below it: a coinbase because of the height in it, any other because its  *)
(* inputs are spent (the first repeated one has none of its inputs queued). *)
(***************************************************************************)
LEMMA ConnectFresh ==
    ASSUME NEW d \in Store, IsLedger(d),
           NEW b \in Block, b # Genesis, Parent[b] = d.tip,
           \A c \in Chain[b] \ {Genesis} : CheckCoinBaseHeight(c),
           NEW best, ConnectBlockOK(d, b, best)
    PROVE  \A t \in Txs(b) : d.pos[t] = None
  <1>. DEFINE T == {t \in Txs(b) : d.pos[t] # None}
  <1>. SUFFICES ASSUME T # {}
                PROVE  FALSE
    OBVIOUS
  <1>1. PICK t \in T : \A o \in Vin[t] : o[1] \notin T
    <2>1. T \in SUBSET Tx
      BY TxsOfBlock
    <2>. QED
      BY <2>1, AcyclicTxAssumption
  <1>2. t \in Tx /\ t \in Txs(b) /\ d.pos[t] # None
    BY <1>1, TxsOfBlock
  <1>3. PICK i \in DOMAIN VTx[b] : VTx[b][i] = t
    BY <1>2, TxsOfBlock
  <1>. DEFINE c == d.pos[t]
  <1>4. c \in Chain[d.tip] /\ c # Genesis /\ t \in Txs(c)
    BY <1>2 DEF IsLedger, OnlyChainIndexed
  <1>5. CASE t \in CoinBase
    <2>1. Chain[b] = Chain[d.tip] \cup {b} /\ b \notin Chain[d.tip] /\ d.tip \in Block
      BY ChainUnfold, ChainAcyclic
    <2>2. c \in Block /\ c # b /\ c \in Chain[b]
      BY <1>4, <2>1, ChainBasic
    <2>3. PICK j \in DOMAIN VTx[c] : VTx[c][j] = t
      BY <1>4, <2>2, TxsOfBlock
    <2>4. i = 1 /\ j = 1
      BY <1>3, <1>4, <1>5, <2>2, <2>3, TxAssumption
    <2>5. Height[b] = Height[c]
      BY <1>3, <1>4, <2>2, <2>3, <2>4, ChainBasic DEF CheckCoinBaseHeight
    <2>6. Height[c] < Height[b]
      BY <2>2, ChainHeight
    <2>. QED
      BY <2>2, <2>5, <2>6, RecursionAssumption
  <1>6. CASE t \notin CoinBase
    <2>1. PICK o \in Vin[t] : TRUE
      BY <1>2, <1>6, TxAssumption
    <2>2. d.spent[o] = t /\ d.pos[o[1]] # None
      BY <1>2, <2>1 DEF IsLedger, InputsSpent
    <2>3. Unspent(d, b, i, o)
      BY <1>3, <2>1 DEF ConnectBlockOK, ConnectInputs
    <2>4. Queued(b, i, o[1])
      BY <1>2, <2>2, <2>3, TxAssumption DEF Unspent
    <2>5. o[1] \in Txs(b)
      BY <2>4, QueuedInBlock
    <2>. QED
      BY <1>1, <2>1, <2>2, <2>5
  <1>. QED
    BY <1>5, <1>6

\* Two transactions of an accepted block spend different outputs.
LEMMA ConnectSpendsOnce ==
    ASSUME NEW d, NEW b \in Block, NEW best, ConnectBlockOK(d, b, best),
           NEW t \in Txs(b), NEW u \in Txs(b), NEW o \in Vin[t], o \in Vin[u]
    PROVE  t = u
  <1>1. PICK i \in DOMAIN VTx[b] : VTx[b][i] = t
    BY TxsOfBlock
  <1>2. PICK j \in DOMAIN VTx[b] : VTx[b][j] = u
    BY TxsOfBlock
  <1>3. Unspent(d, b, i, o) /\ Unspent(d, b, j, o)
    BY <1>1, <1>2 DEF ConnectBlockOK, ConnectInputs
  <1>4. VTx[b] \in Seq(Tx)
    BY TxAssumption
  <1>5. ~(i < j) /\ ~(j < i)
    <2>1. i \in Nat /\ j \in Nat /\ i >= 1 /\ j >= 1
      BY <1>1, <1>2, <1>4
    <2>2. i < j => i \in 1 .. (j - 1)
      BY <2>1
    <2>3. j < i => j \in 1 .. (i - 1)
      BY <2>1
    <2>. QED
      BY <1>1, <1>2, <1>3, <2>2, <2>3 DEF Unspent
  <1>6. i = j
    BY <1>4, <1>5
  <1>. QED
    BY <1>1, <1>2, <1>6

-----------------------------------------------------------------------------
\* Connecting an accepted block to a ledger gives the ledger of its chain.
LEMMA ConnectLedger ==
    ASSUME NEW d \in Store, IsLedger(d),
           NEW b \in Block, b # Genesis, Parent[b] = d.tip,
           \A c \in Chain[b] \ {Genesis} : CheckCoinBaseHeight(c),
           NEW best, ConnectBlockOK(d, b, best)
    PROVE  IsLedger(ConnectBlock(d, b))
  <1>. DEFINE e == ConnectBlock(d, b)
  <1>1. \A t \in Txs(b) : d.pos[t] = None
    BY ConnectFresh
  <1>2. Chain[b] = Chain[d.tip] \cup {b} /\ b \notin Chain[d.tip]
    BY ChainUnfold, ChainAcyclic
  <1>3. /\ e.tip = b
        /\ \A t \in Tx : e.pos[t] = IF t \in Txs(b) THEN b ELSE d.pos[t]
    BY DEF ConnectBlock
  <1>4. \A o \in OutPoint :
           e.spent[o] = IF SpentBy(b, o) # {} THEN CHOOSE t \in SpentBy(b, o) : TRUE
                        ELSE IF o[1] \in Txs(b) THEN None ELSE d.spent[o]
    BY DEF ConnectBlock
  <1>5. b # None /\ Txs(b) \subseteq Tx
    BY TxAssumption, TxsOfBlock
  <1>6. AllIndexed(e)
    <2>. SUFFICES ASSUME NEW c \in Chain[b] \ {Genesis}, NEW t \in Txs(c)
                  PROVE  e.pos[t] = c
      BY <1>3 DEF AllIndexed
    <2>1. c \in Block /\ t \in Tx
      BY ChainBasic, TxsOfBlock
    <2>2. CASE c = b
      BY <1>3, <2>1, <2>2
    <2>3. CASE c # b
      <3>1. d.pos[t] = c
        BY <1>2, <2>3 DEF IsLedger, AllIndexed
      <3>2. t \notin Txs(b)
        BY <1>1, <2>1, <3>1, TxAssumption
      <3>. QED
        BY <1>3, <2>1, <3>1, <3>2
    <2>. QED
      BY <2>2, <2>3
  <1>7. OnlyChainIndexed(e)
    <2>. SUFFICES ASSUME NEW t \in Tx, e.pos[t] # None
                  PROVE  e.pos[t] \in Chain[b] \ {Genesis} /\ t \in Txs(e.pos[t])
      BY <1>3 DEF OnlyChainIndexed
    <2>1. CASE t \in Txs(b)
      BY <1>2, <1>3, <2>1
    <2>2. CASE t \notin Txs(b)
      <3>1. e.pos[t] = d.pos[t]
        BY <1>3, <2>2
      <3>. QED
        BY <1>2, <3>1 DEF IsLedger, OnlyChainIndexed
    <2>. QED
      BY <2>1, <2>2
  <1>8. InputsSpent(e)
    <2>. SUFFICES ASSUME NEW t \in Tx, e.pos[t] # None, NEW o \in Vin[t]
                  PROVE  /\ o \in OutPoint
                         /\ e.spent[o] = t
                         /\ e.pos[o[1]] # None
                         /\ e.pos[o[1]] \in Chain[e.pos[t]]
      BY DEF InputsSpent
    <2>0. o[1] \in Tx
      BY TxAssumption
    <2>1. CASE t \in Txs(b)
      <3>1. PICK i \in DOMAIN VTx[b] : VTx[b][i] = t
        BY <2>1, TxsOfBlock
      <3>2. FetchInput(d, b, i, o)
        BY <3>1 DEF ConnectBlockOK, ConnectInputs
      <3>3. o \in OutPoint
        BY <3>2 DEF FetchInput
      <3>4. SpentBy(b, o) = {t}
        BY <2>1, ConnectSpendsOnce DEF SpentBy
      <3>5. e.spent[o] = t
        BY <1>4, <3>3, <3>4
      <3>6. o[1] \in Txs(b) \/ d.pos[o[1]] # None
        BY <3>2, QueuedInBlock DEF FetchInput
      <3>7. e.pos[t] = b
        BY <1>3, <2>1
      <3>8. CASE o[1] \in Txs(b)
        BY <1>2, <1>3, <1>5, <2>0, <3>3, <3>5, <3>7, <3>8
      <3>9. CASE o[1] \notin Txs(b)
        <4>1. e.pos[o[1]] = d.pos[o[1]] /\ d.pos[o[1]] # None
          BY <1>3, <2>0, <3>6, <3>9
        <4>2. d.pos[o[1]] \in Chain[d.tip]
          BY <2>0, <4>1 DEF IsLedger, OnlyChainIndexed
        <4>. QED
          BY <1>2, <3>3, <3>5, <3>7, <4>1, <4>2
      <3>. QED
        BY <3>8, <3>9
    <2>2. CASE t \notin Txs(b)
      <3>1. e.pos[t] = d.pos[t]
        BY <1>3, <2>2
      <3>2. /\ o \in OutPoint
            /\ d.spent[o] = t
            /\ d.pos[o[1]] # None
            /\ d.pos[o[1]] \in Chain[d.pos[t]]
        BY <3>1 DEF IsLedger, InputsSpent
      <3>3. o[1] \notin Txs(b)
        BY <1>1, <3>2
      <3>4. SpentBy(b, o) = {}
        <4>. SUFFICES ASSUME NEW u \in SpentBy(b, o)
                      PROVE  FALSE
          OBVIOUS
        <4>1. PICK i \in DOMAIN VTx[b] : VTx[b][i] = u
          BY TxsOfBlock DEF SpentBy
        <4>2. Unspent(d, b, i, o)
          BY <4>1 DEF ConnectBlockOK, ConnectInputs, SpentBy
        <4>3. ~Queued(b, i, o[1])
          BY <3>3, QueuedInBlock
        <4>4. t # None
          BY TxAssumption
        <4>. QED
          BY <3>2, <4>2, <4>3, <4>4 DEF Unspent
      <3>5. e.spent[o] = t
        BY <1>4, <3>2, <3>3, <3>4
      <3>. QED
        BY <1>3, <2>0, <3>1, <3>2, <3>3, <3>5
    <2>. QED
      BY <2>1, <2>2
  <1>9. OnlyInputsSpent(e)
    <2>. SUFFICES ASSUME NEW o \in OutPoint, e.spent[o] # None
                  PROVE  e.pos[e.spent[o]] # None /\ o \in Vin[e.spent[o]]
      BY DEF OnlyInputsSpent
    <2>1. CASE SpentBy(b, o) # {}
      <3>1. e.spent[o] \in SpentBy(b, o)
        BY <1>4, <2>1
      <3>. QED
        BY <1>3, <1>5, <3>1 DEF SpentBy
    <2>2. CASE SpentBy(b, o) = {}
      <3>1. e.spent[o] = d.spent[o]
        BY <1>4, <2>2
      <3>2. d.spent[o] \in Tx
        BY <3>1 DEF Store
      <3>3. d.pos[d.spent[o]] # None /\ o \in Vin[d.spent[o]]
        BY <3>1 DEF IsLedger, OnlyInputsSpent
      <3>. QED
        BY <1>3, <1>5, <3>1, <3>2, <3>3
    <2>. QED
      BY <2>1, <2>2
  <1>. QED
    BY <1>6, <1>7, <1>8, <1>9 DEF IsLedger

\* Disconnecting the last block gives the ledger of the chain below it.
LEMMA DisconnectLedger ==
    ASSUME NEW d \in Store, IsLedger(d), d.tip # Genesis
    PROVE  IsLedger(DisconnectBlock(d, d.tip))
  <1>. DEFINE b == d.tip
              e == DisconnectBlock(d, b)
  <1>1. b \in Block
    BY DEF Store
  <1>2. /\ Parent[b] \in Block
        /\ Chain[b] = Chain[Parent[b]] \cup {b}
        /\ b \notin Chain[Parent[b]]
    BY <1>1, ChainUnfold, ChainAcyclic
  <1>3. /\ e.tip = Parent[b]
        /\ \A t \in Tx : e.pos[t] = IF t \in Txs(b) THEN None ELSE d.pos[t]
    BY DEF DisconnectBlock
  <1>4. \A o \in OutPoint :
           e.spent[o] = IF SpentBy(b, o) # {} \/ o[1] \in Txs(b) THEN None
                        ELSE d.spent[o]
    BY DEF DisconnectBlock
  <1>5. \A t \in Txs(b) : d.pos[t] = b
    BY <1>1, ChainBasic DEF IsLedger, AllIndexed
  <1>6. ASSUME NEW t \in Tx, t \notin Txs(b), d.pos[t] # None
        PROVE  d.pos[t] \in Chain[Parent[b]] \ {Genesis} /\ t \in Txs(d.pos[t])
    BY <1>2, <1>6 DEF IsLedger, OnlyChainIndexed
  <1>7. AllIndexed(e)
    <2>. SUFFICES ASSUME NEW c \in Chain[Parent[b]] \ {Genesis}, NEW t \in Txs(c)
                  PROVE  e.pos[t] = c
      BY <1>3 DEF AllIndexed
    <2>1. c \in Block /\ t \in Tx /\ c # b
      BY <1>2, ChainBasic, TxsOfBlock
    <2>2. d.pos[t] = c
      BY <1>2 DEF IsLedger, AllIndexed
    <2>. QED
      BY <1>3, <1>5, <2>1, <2>2
  <1>8. OnlyChainIndexed(e)
    BY <1>3, <1>6 DEF OnlyChainIndexed
  <1>9. InputsSpent(e)
    <2>. SUFFICES ASSUME NEW t \in Tx, e.pos[t] # None, NEW o \in Vin[t]
                  PROVE  /\ o \in OutPoint
                         /\ e.spent[o] = t
                         /\ e.pos[o[1]] # None
                         /\ e.pos[o[1]] \in Chain[e.pos[t]]
      BY DEF InputsSpent
    <2>1. t \notin Txs(b) /\ e.pos[t] = d.pos[t] /\ o[1] \in Tx
      BY <1>3, TxAssumption
    <2>2. /\ o \in OutPoint
          /\ d.spent[o] = t
          /\ d.pos[o[1]] # None
          /\ d.pos[o[1]] \in Chain[d.pos[t]]
      BY <2>1 DEF IsLedger, InputsSpent
    <2>3. SpentBy(b, o) = {}
      <3>. SUFFICES ASSUME NEW u \in SpentBy(b, o)
                    PROVE  FALSE
        OBVIOUS
      <3>1. u \in Txs(b) /\ u \in Tx /\ o \in Vin[u] /\ d.pos[u] = b
        BY <1>1, <1>5, TxsOfBlock DEF SpentBy
      <3>2. d.pos[u] # None /\ InputsSpent(d)
        BY <1>1, <3>1, TxAssumption DEF IsLedger
      <3>3. d.spent[o] = u
        BY <3>1, <3>2 DEF InputsSpent
      <3>. QED
        BY <2>1, <2>2, <3>1, <3>3
    <2>4. o[1] \notin Txs(b)
      <3>. SUFFICES ASSUME o[1] \in Txs(b)
                    PROVE  FALSE
        OBVIOUS
      <3>1. b \in Chain[d.pos[t]]
        BY <1>5, <2>2
      <3>2. d.pos[t] \in Chain[Parent[b]]
        BY <1>6, <2>1
      <3>. QED
        BY <1>2, <3>1, <3>2, ChainTransitive
    <2>. QED
      BY <1>3, <1>4, <2>1, <2>2, <2>3, <2>4
  <1>10. OnlyInputsSpent(e)
    <2>. SUFFICES ASSUME NEW o \in OutPoint, e.spent[o] # None
                  PROVE  e.pos[e.spent[o]] # None /\ o \in Vin[e.spent[o]]
      BY DEF OnlyInputsSpent
    <2>1. SpentBy(b, o) = {} /\ e.spent[o] = d.spent[o]
      BY <1>4
    <2>2. d.pos[d.spent[o]] # None /\ o \in Vin[d.spent[o]] /\ d.spent[o] \in Tx
      BY <2>1 DEF IsLedger, OnlyInputsSpent, Store
    <2>. QED
      BY <1>3, <2>1, <2>2 DEF SpentBy
  <1>. QED
    BY <1>7, <1>8, <1>9, <1>10 DEF IsLedger

-----------------------------------------------------------------------------
(***************************************************************************)
(* The block SetBestChain reorganizes to is on the chain of its argument,   *)
(* and has more trust than the best block whenever the argument has.        *)
(***************************************************************************)
LEMMA IntermediateOnChain ==
    ASSUME NEW new \in Block, NEW best \in Block
    PROVE  /\ Intermediate(new, best) \in Chain[new]
           /\ ChainTrust[new] > ChainTrust[best] =>
                 ChainTrust[Intermediate(new, best)] > ChainTrust[best]
  <1>. DEFINE R == Chain[new] \ Postponed(new, best)
              S == {e \in Chain[new] : R \subseteq Chain[e]}
              m == Intermediate(new, best)
  <1>1. new \in S /\ S \in SUBSET Block
    BY ChainBasic
  <1>2. PICK e \in S : e = Genesis \/ Parent[e] \notin S
    BY <1>1, AcyclicAssumption
  <1>3. e \in R
    <2>1. CASE e = Genesis
      BY <1>2, <2>1 DEF Postponed
    <2>2. CASE e # Genesis
      <3>. SUFFICES ASSUME e \notin R
                    PROVE  Parent[e] \in S
        BY <1>2, <2>2
      <3>1. Chain[e] = Chain[Parent[e]] \cup {e}
        BY <1>1, <2>2, ChainUnfold
      <3>2. R \subseteq Chain[Parent[e]]
        BY <1>2, <3>1
      <3>3. Parent[e] \in Chain[new]
        BY <1>2, <2>2, ChainBasic DEF ClosedUnderParent
      <3>. QED
        BY <3>2, <3>3
    <2>. QED
      BY <2>1, <2>2
  <1>4. m \in R /\ \A c \in R : c \in Chain[m]
    <2>1. \E x \in R : \A c \in R : c \in Chain[x]
      BY <1>2, <1>3
    <2>. QED
      BY <2>1 DEF Intermediate
  <1>5. ASSUME ChainTrust[new] > ChainTrust[best], m # new
        PROVE  ChainTrust[m] > ChainTrust[best]
    <2>. DEFINE k == ChildOn(m, new)
    <2>1. k \in Chain[new] \ {Genesis} /\ Parent[k] = m
      BY <1>4, <1>5, ChildOnChain
    <2>2. k \in Block
      BY <2>1, ChainBasic
    <2>3. k \notin R
      BY <1>4, <2>1, <2>2, ChainAcyclic
    <2>. QED
      BY <2>1, <2>3 DEF Postponed
  <1>. QED
    BY <1>4, <1>5

-----------------------------------------------------------------------------
\* The initial state satisfies the invariant.
LEMMA InitInv == Init => IndInv
  <1>. SUFFICES ASSUME Init
                PROVE  IndInv
    OBVIOUS
  <1>1. NewStore \in Store
    BY BlockAssumption DEF NewStore, Store
  <1>2. TypeOK
    BY <1>1, BlockAssumption DEF Init, TypeOK, PC
  <1>3. IndexInv
    BY ChainGenesis DEF Init, IndexInv, Running, NewStore
  <1>4. TrustInv
    BY BlockAssumption, RecursionAssumption DEF Init, TrustInv, NewStore
  <1>5. IsLedger(NewStore)
    BY ChainGenesis DEF NewStore, IsLedger, AllIndexed, OnlyChainIndexed,
       InputsSpent, OnlyInputsSpent
  <1>6. LedgerInv
    BY <1>5 DEF Init, LedgerInv, NewStore
  <1>. QED
    BY <1>2, <1>3, <1>4, <1>6 DEF IndInv

\* A call of SetBestChain while the committed tip is best.
LEMMA StartInv ==
    ASSUME NEW new \in Block, NEW best \in Block, db \in Store,
           SetBestChain(new, best)
    PROVE  /\ pindexNew' = new /\ pindexNew' \in Block
           /\ txn' \in Store
           /\ pindexIntermediate' \in Block
           /\ pc' \in {"extend", "reorganize"}
           /\ pc' = "extend" => new # Genesis /\ Parent[new] = best
           /\ pc' = "reorganize" =>
                /\ pindexIntermediate' \in Chain[new]
                /\ txn' = [db EXCEPT !.tip = best]
                /\ txn'.tip = best
                /\ ChainTrust[new] > ChainTrust[best] =>
                      ChainTrust[pindexIntermediate'] > ChainTrust[best]
  <1>1. txn' = [db EXCEPT !.tip = best] /\ pindexNew' = new
    BY DEF SetBestChain
  <1>2. txn' \in Store /\ txn'.tip = best
    BY <1>1 DEF Store
  <1>3. /\ Intermediate(new, best) \in Chain[new]
        /\ Intermediate(new, best) \in Block
        /\ ChainTrust[new] > ChainTrust[best] =>
              ChainTrust[Intermediate(new, best)] > ChainTrust[best]
    BY IntermediateOnChain, ChainBasic
  <1>. QED
    BY <1>1, <1>2, <1>3 DEF SetBestChain

-----------------------------------------------------------------------------
\* The index after a block whose parent is in it has been added.
LEMMA IndexGrows ==
    ASSUME IndexInv, NEW b \in Block, b # Genesis, Parent[b] \in mapBlockIndex,
           CheckCoinBaseHeight(b)
    PROVE  /\ \A c \in mapBlockIndex \cup {b} : Chain[c] \subseteq mapBlockIndex \cup {b}
           /\ \A c \in (mapBlockIndex \cup {b}) \ {Genesis} : CheckCoinBaseHeight(c)
  <1>1. Chain[b] = Chain[Parent[b]] \cup {b}
    BY ChainUnfold
  <1>. QED
    BY <1>1 DEF IndexInv

\* AcceptBlock, whose block becomes best or does not.
LEMMA AcceptInv ==
    ASSUME IndInv, NEW b \in Block, AcceptBlock(b)
    PROVE  IndInv'
  <1>. USE DEF IndInv
  <1>0. b # Genesis /\ b \notin mapBlockIndex /\ Parent[b] \in mapBlockIndex
        /\ CheckCoinBaseHeight(b) /\ pc = "idle"
    BY DEF AcceptBlock
  <1>1. /\ mapBlockIndex' = mapBlockIndex \cup {b}
        /\ dbBlockIndex' = dbBlockIndex \cup {b}
        /\ UNCHANGED <<pnext, pindexBest, nBestInvalidTrust, db, fPostponedFailed>>
    BY DEF AcceptBlock
  <1>2. pindexBest \in Block /\ db \in Store
    BY DEF TypeOK
  <1>3. /\ Genesis \in mapBlockIndex'
        /\ \A c \in mapBlockIndex' : Chain[c] \subseteq mapBlockIndex'
        /\ \A c \in mapBlockIndex' \ {Genesis} : CheckCoinBaseHeight(c)
        /\ db'.tip \in mapBlockIndex' /\ pindexBest' \in mapBlockIndex'
        /\ dbBlockIndex' \subseteq mapBlockIndex'
    BY <1>0, <1>1, IndexGrows DEF IndexInv
  <1>4. CASE ChainTrust[b] > ChainTrust[pindexBest]
    <2>1. SetBestChain(b, pindexBest)
      BY <1>4 DEF AcceptBlock
    <2>2. /\ pindexNew' = b
          /\ txn' \in Store
          /\ pindexIntermediate' \in Block
          /\ pc' \in {"extend", "reorganize"}
          /\ pc' = "extend" => b # Genesis /\ Parent[b] = pindexBest
          /\ pc' = "reorganize" =>
               /\ pindexIntermediate' \in Chain[b]
               /\ txn' = [db EXCEPT !.tip = pindexBest]
               /\ txn'.tip = pindexBest
               /\ ChainTrust[b] > ChainTrust[pindexBest] =>
                     ChainTrust[pindexIntermediate'] > ChainTrust[pindexBest]
      BY <1>2, <2>1, StartInv
    <2>3. TypeOK'
      BY <1>1, <2>2 DEF TypeOK, PC
    <2>4. IndexInv'
      BY <1>1, <1>3, <2>2 DEF IndexInv, Running, CheckCoinBaseHeight
    <2>5. TrustInv'
      BY <1>0, <1>1, <1>4, <2>2 DEF TrustInv
    <2>6. LedgerInv'
      <3>. SUFFICES ASSUME ~fPostponedFailed'
                    PROVE  /\ IsLedger(db)'
                           /\ pindexBest' = db'.tip
                           /\ pc' = "reorganize" => IsLedger(txn)'
        BY <2>2 DEF LedgerInv
      <3>1. IsLedger(db) /\ pindexBest = db.tip
        BY <1>0, <1>1 DEF LedgerInv
      <3>2. pc' = "reorganize" => txn' = db
        BY <1>2, <2>2, <3>1 DEF Store
      <3>. QED
        BY <1>1, <3>1, <3>2
    <2>. QED
      BY <2>3, <2>4, <2>5, <2>6
  <1>5. CASE ~(ChainTrust[b] > ChainTrust[pindexBest])
    <2>1. UNCHANGED <<txn, pc, pindexNew, pindexIntermediate>>
      BY <1>5 DEF AcceptBlock
    <2>2. TypeOK'
      BY <1>1, <2>1 DEF TypeOK
    <2>3. IndexInv'
      BY <1>0, <1>1, <1>3, <2>1 DEF IndexInv, Running, CheckCoinBaseHeight
    <2>4. TrustInv'
      BY <1>1, <2>1 DEF TrustInv
    <2>5. LedgerInv'
      BY <1>0, <1>1, <2>1 DEF LedgerInv
    <2>. QED
      BY <2>2, <2>3, <2>4, <2>5
  <1>. QED
    BY <1>4, <1>5

\* SetBestChain for a sync-checkpoint, from the state between two blocks.
LEMMA CheckpointInv ==
    ASSUME IndInv, NEW b \in SyncCheckpoint, SetBestChainToCheckpoint(b)
    PROVE  IndInv'
  <1>. USE DEF IndInv
  <1>1. /\ pc = "idle" /\ b \in mapBlockIndex /\ b \in Block
        /\ SetBestChain(b, pindexBest)
        /\ UNCHANGED <<mapBlockIndex, pnext, pindexBest, dbBlockIndex, db,
                       nBestInvalidTrust, fPostponedFailed>>
    BY SyncCheckpointAssumption DEF SetBestChainToCheckpoint, memory, disk
  <1>2. /\ pindexBest \in Block /\ db \in Store /\ b \in mapBlockIndex
        /\ pindexBest \in mapBlockIndex
    BY <1>1 DEF TypeOK, IndexInv
  <1>3. /\ pindexNew' = b
        /\ txn' \in Store
        /\ pindexIntermediate' \in Block
        /\ pc' \in {"extend", "reorganize"}
        /\ pc' = "extend" => b # Genesis /\ Parent[b] = pindexBest
        /\ pc' = "reorganize" =>
             /\ pindexIntermediate' \in Chain[b]
             /\ txn' = [db EXCEPT !.tip = pindexBest]
             /\ txn'.tip = pindexBest
             /\ ChainTrust[b] > ChainTrust[pindexBest] =>
                   ChainTrust[pindexIntermediate'] > ChainTrust[pindexBest]
    BY <1>1, <1>2, StartInv
  <1>4. TypeOK'
    BY <1>1, <1>3 DEF TypeOK, PC
  <1>5. IndexInv'
    BY <1>1, <1>2, <1>3 DEF IndexInv, Running, CheckCoinBaseHeight
  <1>6. TrustInv'
    <2>1. pc' = "extend" => ChainTrust[b] > ChainTrust[pindexBest]
      <3>. SUFFICES ASSUME b # Genesis, Parent[b] = pindexBest
                    PROVE  ChainTrust[b] > ChainTrust[pindexBest]
        BY <1>3
      <3>1. pindexBest \in Chain[b] /\ pindexBest # b
        BY <1>1, ChainUnfold, ChainBasic, ChainAcyclic
      <3>2. ChainTrust[pindexBest] < ChainTrust[b]
        BY <1>1, <3>1, ChainTrustGrows
      <3>3. ChainTrust[b] \in Nat /\ ChainTrust[pindexBest] \in Nat
        BY <1>1, <1>2, RecursionAssumption
      <3>. QED
        BY <3>2, <3>3
    <2>. QED
      BY <1>1, <1>3, <2>1 DEF TrustInv
  <1>7. LedgerInv'
    <2>. SUFFICES ASSUME ~fPostponedFailed'
                  PROVE  /\ IsLedger(db)'
                         /\ pindexBest' = db'.tip
                         /\ pc' = "reorganize" => IsLedger(txn)'
      BY <1>3 DEF LedgerInv
    <2>1. IsLedger(db) /\ pindexBest = db.tip
      BY <1>1 DEF LedgerInv
    <2>2. pc' = "reorganize" => txn' = db
      BY <1>2, <1>3, <2>1 DEF Store
    <2>. QED
      BY <1>1, <2>1, <2>2
  <1>. QED
    BY <1>4, <1>5, <1>6, <1>7

\* What the invariant gives about a block to be connected on the index.
LEMMA IndexedChain ==
    ASSUME IndInv, NEW b \in mapBlockIndex
    PROVE  /\ b \in Block
           /\ Chain[b] \subseteq mapBlockIndex
           /\ \A c \in Chain[b] \ {Genesis} : CheckCoinBaseHeight(c)
  BY DEF IndInv, TypeOK, IndexInv

\* InvalidChainFound keeps nBestInvalidTrust a number.
LEMMA InvalidType ==
    ASSUME IndInv, NEW b \in Block, InvalidChainFound(b)
    PROVE  nBestInvalidTrust' \in Nat
  BY RecursionAssumption DEF IndInv, TypeOK, InvalidChainFound

\* The inductive invariant is preserved by SetBestChainInner on the block
\* after the best one, whether it connects or not.
LEMMA ExtendInv ==
    ASSUME IndInv, ExtendOK \/ ExtendFails
    PROVE  IndInv'
  <1>. USE DEF IndInv
  <1>1. /\ pc = "extend" /\ pindexNew # Genesis /\ Parent[pindexNew] = pindexBest
        /\ pindexNew \in mapBlockIndex /\ pindexNew \in Block /\ db \in Store
        /\ pindexBest \in Block
    BY DEF ExtendOK, ExtendFails, IndexInv, Running, TypeOK
  <1>2. CASE ExtendOK
    <2>1. /\ db' = ConnectBlock(db, pindexNew) /\ txn' = db'
          /\ ConnectBlockOK(db, pindexNew, pindexBest)
          /\ pnext' = [pnext EXCEPT ![Parent[pindexNew]] = pindexNew]
          /\ pindexBest' = pindexNew /\ pc' = "idle"
          /\ dbBlockIndex' = dbBlockIndex \cup {pindexNew, Parent[pindexNew]}
          /\ UNCHANGED <<mapBlockIndex, nBestInvalidTrust, pindexNew,
                         pindexIntermediate, fPostponedFailed>>
      BY <1>2 DEF ExtendOK
    <2>2. db' \in Store /\ db'.tip = pindexNew
      BY <1>1, <2>1, ConnectType DEF ConnectBlock
    <2>3. TypeOK'
      BY <1>1, <2>1, <2>2 DEF TypeOK, PC
    <2>4. IndexInv'
      BY <1>1, <2>1, <2>2 DEF IndexInv, Running, CheckCoinBaseHeight
    <2>5. TrustInv'
      BY <1>1, <2>1, <2>2, RecursionAssumption DEF TrustInv
    <2>6. LedgerInv'
      <3>. SUFFICES ASSUME ~fPostponedFailed
                    PROVE  IsLedger(db)'
        BY <2>1, <2>2 DEF LedgerInv
      <3>1. IsLedger(db) /\ pindexBest = db.tip
        BY <1>1 DEF LedgerInv
      <3>2. IsLedger(ConnectBlock(db, pindexNew))
        BY <1>1, <2>1, <3>1, IndexedChain, ConnectLedger
      <3>. QED
        BY <2>1, <3>2
    <2>. QED
      BY <2>3, <2>4, <2>5, <2>6
  <1>3. CASE ExtendFails
    <2>1. /\ txn' = db /\ pc' = "idle" /\ InvalidChainFound(pindexNew)
          /\ UNCHANGED <<mapBlockIndex, pnext, pindexBest, dbBlockIndex, db,
                         pindexNew, pindexIntermediate, fPostponedFailed>>
      BY <1>3 DEF ExtendFails, memory
    <2>2. TypeOK'
      BY <1>1, <2>1, InvalidType DEF TypeOK, PC
    <2>3. IndexInv'
      BY <1>1, <2>1 DEF IndexInv, Running, CheckCoinBaseHeight
    <2>4. TrustInv'
      BY <1>1, <2>1 DEF TrustInv
    <2>5. LedgerInv'
      BY <1>1, <2>1 DEF LedgerInv
    <2>. QED
      BY <2>2, <2>3, <2>4, <2>5
  <1>. QED
    BY <1>2, <1>3

\* ... by a block that Reorganize disconnects or connects in its batch: the
\* batch stays the ledger of the chain it has come to.
LEMMA ReorganizeStepInv ==
    ASSUME IndInv, ReorganizeDisconnect \/ ReorganizeConnect
    PROVE  IndInv'
  <1>. USE DEF IndInv
  <1>1. /\ pc = "reorganize" /\ txn \in Store /\ txn.tip \in mapBlockIndex
        /\ pindexIntermediate \in Chain[pindexNew]
        /\ pindexNew \in mapBlockIndex /\ pindexNew \in Block
        /\ pindexIntermediate \in Block
    BY DEF ReorganizeDisconnect, ReorganizeConnect, IndexInv, Running, TypeOK
  <1>2. /\ UNCHANGED <<mapBlockIndex, pnext, pindexBest, nBestInvalidTrust,
                       dbBlockIndex, db, pc, pindexNew, pindexIntermediate,
                       fPostponedFailed>>
    BY DEF ReorganizeDisconnect, ReorganizeConnect, memory, disk
  <1>3. ASSUME txn' \in Store, txn'.tip \in mapBlockIndex,
               ~fPostponedFailed => IsLedger(txn')
        PROVE  IndInv'
    <2>1. TypeOK'
      BY <1>2, <1>3 DEF TypeOK
    <2>2. IndexInv'
      BY <1>1, <1>2, <1>3 DEF IndexInv, Running, CheckCoinBaseHeight
    <2>3. TrustInv'
      BY <1>2 DEF TrustInv
    <2>4. LedgerInv'
      BY <1>1, <1>2, <1>3 DEF LedgerInv
    <2>. QED
      BY <2>1, <2>2, <2>3, <2>4
  <1>4. CASE ReorganizeDisconnect
    <2>1. AboveFork /\ txn' = DisconnectBlock(txn, txn.tip)
      BY <1>4 DEF ReorganizeDisconnect
    <2>2. txn.tip # Genesis
      BY <1>1, <2>1, ChainHasGenesis DEF AboveFork
    <2>3. txn.tip \in Block /\ Parent[txn.tip] \in mapBlockIndex
      BY <1>1, <2>2, IndexedChain, ChainBasic DEF ClosedUnderParent
    <2>4. txn' \in Store /\ txn'.tip = Parent[txn.tip]
      BY <1>1, <2>1, <2>2, <2>3, DisconnectType DEF DisconnectBlock
    <2>5. ASSUME ~fPostponedFailed
          PROVE  IsLedger(txn')
      <3>1. IsLedger(txn)
        BY <1>1, <2>5 DEF LedgerInv
      <3>. QED
        BY <1>1, <2>1, <2>2, <3>1, DisconnectLedger
    <2>. QED
      BY <1>3, <2>3, <2>4, <2>5
  <1>5. CASE ReorganizeConnect
    <2>. DEFINE b == NextConnect
    <2>1. /\ txn.tip \in Chain[pindexIntermediate] /\ txn.tip # pindexIntermediate
          /\ ConnectBlockOK(txn, b, pindexBest)
          /\ txn' = ConnectBlock(txn, b)
      BY <1>5 DEF ReorganizeConnect, AboveFork
    <2>2. b \in Chain[pindexIntermediate] \ {Genesis} /\ Parent[b] = txn.tip
      BY <1>1, <2>1, ChildOnChain DEF NextConnect
    <2>3. b \in mapBlockIndex /\ b \in Block
      BY <1>1, <2>2, IndexedChain, ChainBasic
    <2>4. txn' \in Store /\ txn'.tip = b
      BY <1>1, <2>1, <2>2, <2>3, ConnectType DEF ConnectBlock
    <2>5. ASSUME ~fPostponedFailed
          PROVE  IsLedger(txn')
      <3>1. IsLedger(txn)
        BY <1>1, <2>5 DEF LedgerInv
      <3>2. \A c \in Chain[b] \ {Genesis} : CheckCoinBaseHeight(c)
        BY <2>3, IndexedChain
      <3>3. IsLedger(ConnectBlock(txn, b))
        BY <1>1, <2>1, <2>2, <2>3, <3>1, <3>2, ConnectLedger
      <3>. QED
        BY <2>1, <3>3
    <2>. QED
      BY <1>3, <2>3, <2>4, <2>5
  <1>. QED
    BY <1>4, <1>5

\* The blocks whose records Reorganize's batch rewrites are indexed.
LEMMA RewrittenIndexed ==
    ASSUME IndInv, pc = "reorganize"
    PROVE  /\ Linked \subseteq mapBlockIndex /\ Unlinked \subseteq mapBlockIndex
           /\ {Parent[c] : c \in Linked} \subseteq mapBlockIndex
  <1>1. /\ pindexNew \in mapBlockIndex /\ pindexBest \in mapBlockIndex
        /\ pindexIntermediate \in Chain[pindexNew]
        /\ pindexNew \in Block /\ pindexBest \in Block /\ pindexIntermediate \in Block
    BY DEF IndInv, TypeOK, IndexInv, Running
  <1>2. pindexIntermediate \in mapBlockIndex
    BY <1>1, IndexedChain
  <1>3. /\ Chain[pindexIntermediate] \subseteq mapBlockIndex
        /\ Chain[pindexBest] \subseteq mapBlockIndex
    BY <1>1, <1>2, IndexedChain
  <1>4. Genesis \in Chain[pindexIntermediate] /\ Genesis \in Chain[pindexBest]
    BY <1>1, ChainHasGenesis
  <1>5. /\ \A c \in Linked : c # Genesis /\ Parent[c] \in Chain[pindexIntermediate]
        /\ \A c \in Chain[pindexBest] \ Chain[pindexIntermediate] :
              c # Genesis /\ Parent[c] \in Chain[pindexBest]
    BY <1>1, <1>4, ChainBasic DEF Linked, ClosedUnderParent
  <1>. QED
    BY <1>3, <1>5 DEF Linked, Unlinked

\* ... by the end of Reorganize: the batch is dropped, or becomes the store.
LEMMA ReorganizeEndInv ==
    ASSUME IndInv, ReorganizeFails \/ ReorganizeCommit
    PROVE  IndInv'
  <1>. USE DEF IndInv
  <1>1. /\ pc = "reorganize" /\ txn \in Store /\ txn.tip \in mapBlockIndex
        /\ pindexIntermediate \in Chain[pindexNew]
        /\ pindexNew \in mapBlockIndex /\ pindexNew \in Block /\ db \in Store
    BY DEF ReorganizeFails, ReorganizeCommit, IndexInv, Running, TypeOK
  <1>2. CASE ReorganizeFails
    <2>1. /\ txn' = db /\ pc' = "idle" /\ InvalidChainFound(pindexNew)
          /\ UNCHANGED <<mapBlockIndex, pnext, pindexBest, dbBlockIndex, db,
                         pindexNew, pindexIntermediate, fPostponedFailed>>
      BY <1>2 DEF ReorganizeFails, memory
    <2>2. TypeOK'
      BY <1>1, <2>1, InvalidType DEF TypeOK, PC
    <2>3. IndexInv'
      BY <1>1, <2>1 DEF IndexInv, Running, CheckCoinBaseHeight
    <2>4. TrustInv'
      BY <1>1, <2>1 DEF TrustInv
    <2>5. LedgerInv'
      BY <1>1, <2>1 DEF LedgerInv
    <2>. QED
      BY <2>2, <2>3, <2>4, <2>5
  <1>3. CASE ReorganizeCommit
    <2>1. /\ db' = txn /\ txn.tip = pindexIntermediate
          /\ pc' = IF pindexIntermediate = pindexNew THEN "update" ELSE "postponed"
          /\ dbBlockIndex' = dbBlockIndex \cup Unlinked \cup Linked
                                          \cup {Parent[c] : c \in Linked}
          /\ UNCHANGED <<mapBlockIndex, pindexBest, nBestInvalidTrust, txn,
                         pindexNew, pindexIntermediate, fPostponedFailed>>
      BY <1>3 DEF ReorganizeCommit
    <2>2. pnext' \in [Block -> Block \cup {None}]
      <3>1. \A b \in Block : (\E c \in Linked : Parent[c] = b) =>
                (CHOOSE c \in Linked : Parent[c] = b) \in Linked
        OBVIOUS
      <3>2. Linked \subseteq Block
        BY ChainBasic DEF Linked, TypeOK
      <3>3. pnext' = [b \in Block |->
                        IF \E c \in Linked : Parent[c] = b
                          THEN CHOOSE c \in Linked : Parent[c] = b
                          ELSE IF b \in Unlinked THEN None ELSE pnext[b]]
        BY <1>3 DEF ReorganizeCommit
      <3>. QED
        BY <3>1, <3>2, <3>3 DEF TypeOK
    <2>7. dbBlockIndex' \subseteq mapBlockIndex
      BY <1>1, <2>1, RewrittenIndexed DEF IndexInv
    <2>3. TypeOK'
      BY <1>1, <2>1, <2>2, <2>7 DEF TypeOK, PC
    <2>4. IndexInv'
      BY <1>1, <2>1, <2>7 DEF IndexInv, Running, CheckCoinBaseHeight
    <2>5. TrustInv'
      <3>1. ChainTrust[pindexNew] \in Nat
        BY <1>1, RecursionAssumption
      <3>. QED
        BY <2>1, <3>1 DEF TrustInv
    <2>6. LedgerInv'
      BY <1>1, <2>1 DEF LedgerInv
    <2>. QED
      BY <2>3, <2>4, <2>5, <2>6
  <1>. QED
    BY <1>2, <1>3

\* ... by a postponed reconnect, which may fail.
LEMMA PostponedInv ==
    ASSUME IndInv, PostponedOK \/ PostponedFails
    PROVE  IndInv'
  <1>. USE DEF IndInv
  <1>. DEFINE b == NextPostponed
  <1>1. /\ pc = "postponed" /\ db \in Store
        /\ db.tip \in Chain[pindexNew] /\ db.tip # pindexNew
        /\ pindexNew \in mapBlockIndex /\ pindexNew \in Block
    BY DEF PostponedOK, PostponedFails, IndexInv, Running, TypeOK
  <1>2. b \in Chain[pindexNew] \ {Genesis} /\ Parent[b] = db.tip
    BY <1>1, ChildOnChain DEF NextPostponed
  <1>3. b \in Block /\ b \in mapBlockIndex
    BY <1>1, <1>2, IndexedChain, ChainBasic
  <1>4. CASE PostponedOK
    <2>1. /\ db' = ConnectBlock(db, b) /\ txn' = db'
          /\ ConnectBlockOK(db, b, pindexBest)
          /\ pnext' = [pnext EXCEPT ![db.tip] = b]
          /\ pc' = IF b = pindexNew THEN "update" ELSE "postponed"
          /\ dbBlockIndex' = dbBlockIndex \cup {b, db.tip}
          /\ UNCHANGED <<mapBlockIndex, pindexBest, nBestInvalidTrust, pindexNew,
                         pindexIntermediate, fPostponedFailed>>
      BY <1>4 DEF PostponedOK
    <2>2. db' \in Store /\ db'.tip = b
      BY <1>1, <1>2, <1>3, <2>1, ConnectType DEF ConnectBlock
    <2>3. TypeOK'
      <3>1. db.tip \in Block
        BY <1>1 DEF Store
      <3>. QED
        BY <1>1, <1>3, <2>1, <2>2, <3>1 DEF TypeOK, PC
    <2>4. IndexInv'
      BY <1>1, <1>2, <1>3, <2>1, <2>2 DEF IndexInv, Running, CheckCoinBaseHeight
    <2>5. TrustInv'
      <3>1. ChainTrust[pindexNew] \in Nat
        BY <1>1, RecursionAssumption
      <3>. QED
        BY <2>1, <2>2, <3>1 DEF TrustInv
    <2>6. LedgerInv'
      <3>. SUFFICES ASSUME ~fPostponedFailed
                    PROVE  IsLedger(db)'
        BY <2>1, <2>2 DEF LedgerInv
      <3>1. IsLedger(db)
        BY DEF LedgerInv
      <3>2. \A c \in Chain[b] \ {Genesis} : CheckCoinBaseHeight(c)
        BY <1>3, IndexedChain
      <3>3. IsLedger(ConnectBlock(db, b))
        BY <1>1, <1>2, <1>3, <2>1, <3>1, <3>2, ConnectLedger
      <3>. QED
        BY <2>1, <3>3
    <2>. QED
      BY <2>3, <2>4, <2>5, <2>6
  <1>5. CASE PostponedFails
    <2>1. /\ pc' = "update" /\ InvalidChainFound(b) /\ fPostponedFailed' = TRUE
          /\ UNCHANGED <<mapBlockIndex, pnext, pindexBest, dbBlockIndex, db,
                         txn, pindexNew, pindexIntermediate>>
      BY <1>5 DEF PostponedFails, memory
    <2>2. TypeOK'
      BY <1>3, <2>1, InvalidType DEF TypeOK, PC
    <2>3. IndexInv'
      BY <1>1, <2>1 DEF IndexInv, Running, CheckCoinBaseHeight
    <2>4. TrustInv'
      <3>1. ChainTrust[db.tip] < ChainTrust[pindexNew]
        BY <1>1, ChainTrustGrows
      <3>2. ChainTrust[db.tip] \in Nat /\ ChainTrust[pindexNew] \in Nat
        BY <1>1, RecursionAssumption DEF Store
      <3>. QED
        BY <2>1, <3>1, <3>2 DEF TrustInv
    <2>5. LedgerInv'
      BY <2>1 DEF LedgerInv
    <2>. QED
      BY <2>2, <2>3, <2>4, <2>5
  <1>. QED
    BY <1>4, <1>5

\* A block that is left in memory without its record on disk.
LEMMA IndexRecordInv ==
    ASSUME IndInv, NEW b \in Block, IndexRecordFails(b)
    PROVE  IndInv'
  <1>. USE DEF IndInv
  <1>1. /\ b # Genesis /\ Parent[b] \in mapBlockIndex /\ CheckCoinBaseHeight(b)
        /\ pc = "idle" /\ mapBlockIndex' = mapBlockIndex \cup {b}
        /\ UNCHANGED <<pnext, pindexBest, nBestInvalidTrust, dbBlockIndex, db, txn,
                       pc, pindexNew, pindexIntermediate, fPostponedFailed>>
    BY DEF IndexRecordFails, disk, control
  <1>2. TypeOK'
    BY <1>1 DEF TypeOK
  <1>3. IndexInv'
    BY <1>1, IndexGrows DEF IndexInv, Running, CheckCoinBaseHeight
  <1>4. TrustInv' /\ LedgerInv'
    BY <1>1 DEF TrustInv, LedgerInv
  <1>. QED
    BY <1>2, <1>3, <1>4

\* A failed read or commit drops the batch, or ends the postponed loop.
LEMMA DiskErrorInv ==
    ASSUME IndInv, DiskError
    PROVE  IndInv'
  <1>. USE DEF IndInv
  <1>1. CASE pc = "extend"
    <2>1. /\ pc' = "idle" /\ txn' = db
          /\ UNCHANGED <<mapBlockIndex, pnext, pindexBest, nBestInvalidTrust,
                         dbBlockIndex, db, pindexNew, pindexIntermediate,
                         fPostponedFailed>>
      BY <1>1 DEF DiskError, IndexRecordFails, memory, disk
    <2>2. TypeOK'
      BY <2>1 DEF TypeOK, PC
    <2>3. IndexInv'
      BY <1>1, <2>1 DEF IndexInv, Running, CheckCoinBaseHeight
    <2>4. TrustInv'
      BY <1>1, <2>1 DEF TrustInv
    <2>5. LedgerInv'
      BY <1>1, <2>1 DEF LedgerInv
    <2>. QED
      BY <2>2, <2>3, <2>4, <2>5
  <1>2. CASE pc = "reorganize"
    <2>1. /\ pc' = "idle" /\ txn' = db /\ InvalidChainFound(pindexNew)
          /\ UNCHANGED <<mapBlockIndex, pnext, pindexBest, dbBlockIndex, db,
                         pindexNew, pindexIntermediate, fPostponedFailed>>
      BY <1>2 DEF DiskError, IndexRecordFails, memory
    <2>2. pindexNew \in Block
      BY DEF TypeOK
    <2>3. TypeOK'
      BY <2>1, <2>2, InvalidType DEF TypeOK, PC
    <2>4. IndexInv'
      BY <1>2, <2>1 DEF IndexInv, Running, CheckCoinBaseHeight
    <2>5. TrustInv'
      BY <1>2, <2>1 DEF TrustInv
    <2>6. LedgerInv'
      BY <1>2, <2>1 DEF LedgerInv
    <2>. QED
      BY <2>3, <2>4, <2>5, <2>6
  <1>3. CASE pc = "postponed"
    <2>1. /\ pc' = "update" /\ fPostponedFailed' = TRUE
          /\ UNCHANGED <<mapBlockIndex, pnext, pindexBest, nBestInvalidTrust,
                         dbBlockIndex, db, txn, pindexNew, pindexIntermediate>>
      BY <1>3 DEF DiskError, IndexRecordFails, memory, disk
    <2>2. /\ db.tip \in Chain[pindexNew] /\ db.tip # pindexNew
          /\ db.tip \in Block /\ pindexNew \in Block
      BY <1>3 DEF IndexInv, TypeOK, Store
    <2>3. TypeOK'
      BY <2>1 DEF TypeOK, PC
    <2>4. IndexInv'
      BY <1>3, <2>1 DEF IndexInv, Running, CheckCoinBaseHeight
    <2>5. TrustInv'
      <3>1. ChainTrust[db.tip] < ChainTrust[pindexNew]
        BY <2>2, ChainTrustGrows
      <3>2. ChainTrust[db.tip] \in Nat /\ ChainTrust[pindexNew] \in Nat
        BY <2>2, RecursionAssumption
      <3>. QED
        BY <2>1, <3>1, <3>2 DEF TrustInv
    <2>6. LedgerInv'
      BY <2>1 DEF LedgerInv
    <2>. QED
      BY <2>3, <2>4, <2>5, <2>6
  <1>4. CASE \E b \in Unwritable : IndexRecordFails(b)
    BY <1>4, UnwritableAssumption, IndexRecordInv
  <1>. QED
    BY <1>1, <1>2, <1>3, <1>4 DEF DiskError

\* ... by the assignments of the new best block that end SetBestChain.
LEMMA UpdateInv ==
    ASSUME IndInv, UpdateBest
    PROVE  IndInv'
  <1>. USE DEF IndInv
  <1>1. /\ pc = "update" /\ pindexBest' = pindexNew /\ pc' = "idle"
        /\ UNCHANGED <<mapBlockIndex, pnext, dbBlockIndex, db, nBestInvalidTrust,
                       txn, pindexNew, pindexIntermediate, fPostponedFailed>>
    BY DEF UpdateBest, disk
  <1>2. TypeOK'
    BY <1>1 DEF TypeOK, PC
  <1>3. IndexInv'
    BY <1>1 DEF IndexInv, Running, CheckCoinBaseHeight
  <1>4. TrustInv'
    BY <1>1 DEF TrustInv
  <1>5. LedgerInv'
    BY <1>1 DEF LedgerInv
  <1>. QED
    BY <1>2, <1>3, <1>4, <1>5

\* A kill and a restart, with the best chain moved back or not.
LEMMA KillInv ==
    ASSUME IndInv, Kill
    PROVE  IndInv'
  <1>. USE DEF IndInv
  <1>1. /\ pc' = "down" /\ txn' = db
        /\ UNCHANGED <<mapBlockIndex, pnext, pindexBest, dbBlockIndex, db,
                       nBestInvalidTrust, pindexNew, pindexIntermediate,
                       fPostponedFailed>>
    BY DEF Kill, memory, disk
  <1>2. TypeOK'
    BY <1>1 DEF TypeOK, PC
  <1>3. IndexInv'
    BY <1>1 DEF IndexInv, Running, CheckCoinBaseHeight
  <1>4. TrustInv' /\ LedgerInv'
    BY <1>1 DEF TrustInv, LedgerInv
  <1>. QED
    BY <1>2, <1>3, <1>4

\* ... and by a restart, which takes everything in memory from the disk and
\* may start a reorganization back to an ancestor of the committed tip.
LEMMA LoadInv ==
    ASSUME IndInv, NEW b \in Chain[db.tip], LoadBlockIndex(b)
    PROVE  IndInv'
  <1>. USE DEF IndInv
  <1>1. /\ pc = "down" /\ mapBlockIndex' = dbBlockIndex /\ pnext' = db.next
        /\ pindexBest' = db.tip
        /\ UNCHANGED <<dbBlockIndex, db, nBestInvalidTrust, fPostponedFailed>>
    BY DEF LoadBlockIndex, disk
  <1>2. /\ db \in Store /\ db.tip \in Block /\ db.tip \in dbBlockIndex
        /\ db.next \in [Block -> Block \cup {None}]
    BY DEF TypeOK, LoadBlockIndex, IndexLoads, Store
  <1>7. /\ Genesis \in dbBlockIndex
        /\ \A c \in dbBlockIndex : Chain[c] \subseteq dbBlockIndex
        /\ \A c \in dbBlockIndex \ {Genesis} : CheckCoinBaseHeight(c)
    BY <1>2, ChainHasGenesis DEF LoadBlockIndex, IndexLoads, IndexInv
  <1>3. b \in Block /\ b \in dbBlockIndex
    BY <1>2, <1>7, ChainBasic
  <1>4. ChainTrust[db.tip] \in Nat /\ ChainTrust[b] \in Nat
    BY <1>2, <1>3, RecursionAssumption
  <1>5. CASE b = db.tip
    <2>1. pc' = "idle" /\ UNCHANGED <<txn, pindexNew, pindexIntermediate>>
      BY <1>5 DEF LoadBlockIndex
    <2>2. TypeOK'
      BY <1>1, <1>2, <2>1 DEF TypeOK, PC
    <2>3. IndexInv'
      BY <1>1, <1>2, <1>7, <2>1 DEF IndexInv, Running, CheckCoinBaseHeight
    <2>4. TrustInv'
      BY <1>1, <1>4, <2>1 DEF TrustInv
    <2>5. LedgerInv'
      BY <1>1, <2>1 DEF LedgerInv
    <2>. QED
      BY <2>2, <2>3, <2>4, <2>5
  <1>6. CASE b # db.tip
    <2>1. SetBestChain(b, db.tip)
      BY <1>6 DEF LoadBlockIndex
    <2>2. /\ pindexNew' = b
          /\ txn' \in Store
          /\ pindexIntermediate' \in Block
          /\ pc' \in {"extend", "reorganize"}
          /\ pc' = "extend" => b # Genesis /\ Parent[b] = db.tip
          /\ pc' = "reorganize" =>
               /\ pindexIntermediate' \in Chain[b]
               /\ txn' = [db EXCEPT !.tip = db.tip]
               /\ txn'.tip = db.tip
               /\ ChainTrust[b] > ChainTrust[db.tip] =>
                     ChainTrust[pindexIntermediate'] > ChainTrust[db.tip]
      BY <1>2, <1>3, <2>1, StartInv
    <2>3. pc' = "reorganize"
      <3>. SUFFICES ASSUME b # Genesis, Parent[b] = db.tip
                    PROVE  FALSE
        BY <2>2
      <3>. QED
        BY <1>3, ChainAcyclic
    <2>4. TypeOK'
      BY <1>1, <1>2, <1>3, <2>2 DEF TypeOK, PC
    <2>5. IndexInv'
      BY <1>1, <1>2, <1>3, <1>7, <2>2, <2>3 DEF IndexInv, Running,
         CheckCoinBaseHeight
    <2>6. TrustInv'
      BY <1>1, <1>4, <2>2, <2>3 DEF TrustInv
    <2>7. LedgerInv'
      <3>1. txn' = db
        BY <1>2, <2>2, <2>3 DEF Store
      <3>. QED
        BY <1>1, <2>3, <3>1 DEF LedgerInv
    <2>. QED
      BY <2>4, <2>5, <2>6, <2>7
  <1>. QED
    BY <1>5, <1>6

-----------------------------------------------------------------------------
\* Every step of the node, a stuttering step included, keeps the invariant.
LEMMA NextInv == IndInv /\ [Next]_vars => IndInv'
  <1>. SUFFICES ASSUME IndInv, [Next]_vars
                PROVE  IndInv'
    OBVIOUS
  <1>1. CASE \E b \in Block : AcceptBlock(b)
    BY <1>1, AcceptInv
  <1>7. CASE \E b \in SyncCheckpoint : SetBestChainToCheckpoint(b)
    BY <1>7, CheckpointInv
  <1>2. CASE Handler
    BY <1>2, ExtendInv, ReorganizeStepInv, ReorganizeEndInv, PostponedInv,
       UpdateInv DEF Handler
  <1>6. CASE DiskError
    BY <1>6, DiskErrorInv
  <1>3. CASE Kill
    BY <1>3, KillInv
  <1>4. CASE \E b \in Chain[db.tip] : LoadBlockIndex(b)
    BY <1>4, LoadInv
  <1>5. CASE UNCHANGED vars
    <2>1. UNCHANGED <<mapBlockIndex, pnext, pindexBest, nBestInvalidTrust,
                      dbBlockIndex, db, txn, pc, pindexNew, pindexIntermediate,
                      fPostponedFailed>>
      BY <1>5 DEF vars, memory, disk, control
    <2>. QED
      BY <2>1 DEF IndInv, TypeOK, IndexInv, TrustInv, LedgerInv,
         CheckCoinBaseHeight
  <1>. QED
    BY <1>1, <1>2, <1>3, <1>4, <1>5, <1>6, <1>7 DEF Next

(***************************************************************************)
(* The inductive invariant of the chain state holds always: for every block *)
(* tree, through reorganizations, failed attempts, disk errors, forced      *)
(* sync-checkpoints, kills and restarts.                                    *)
(***************************************************************************)
THEOREM Invariance == Spec => []IndInv
  BY InitInv, NextInv, PTL DEF Spec

\* The state of the node always has its type.
THEOREM TypeCorrect == Spec => []TypeOK
  <1>1. IndInv => TypeOK
    BY DEF IndInv
  <1>. QED
    BY <1>1, Invariance, PTL

(***************************************************************************)
(* The committed transaction index is the ledger of the committed best      *)
(* chain, through every sequence of blocks, failures, kills and restarts.   *)
(***************************************************************************)
THEOREM LedgerCorrect == Spec => []CommittedIndexIsLedger
  <1>1. IndInv => CommittedIndexIsLedger
    BY DEF IndInv, LedgerInv, CommittedIndexIsLedger
  <1>. QED
    BY <1>1, Invariance, PTL

-----------------------------------------------------------------------------
\* Connecting a block keeps every link on the chain of the new tip, also when
\* the tip is not the block's parent, as after a postponed reconnect failed.
LEMMA ConnectLinks ==
    ASSUME NEW d \in Store, LinksOnChain(d),
           NEW b \in Block, b # Genesis, d.tip \in Chain[Parent[b]]
    PROVE  /\ LinksOnChain(ConnectBlock(d, b))
           /\ d.next[b] = None
           /\ Parent[b] = d.tip /\ ChainLinked(d) => ChainLinked(ConnectBlock(d, b))
  <1>. DEFINE e == ConnectBlock(d, b)
  <1>1. /\ Parent[b] \in Block /\ Parent[b] # b /\ b # None
        /\ Chain[b] = Chain[Parent[b]] \cup {b} /\ b \notin Chain[Parent[b]]
    BY ChainUnfold, ChainAcyclic, ChainBasic, TxAssumption
  <1>2. Chain[d.tip] \subseteq Chain[Parent[b]]
    BY <1>1, ChainTransitive
  <1>3. /\ e.tip = b /\ e.next[b] = None /\ e.next[Parent[b]] = b
        /\ \A c \in Block \ {b, Parent[b]} : e.next[c] = d.next[c]
    BY <1>1 DEF ConnectBlock, Store
  <1>4. LinksOnChain(e)
    <2>. SUFFICES ASSUME NEW c \in Block, e.next[c] # None
                  PROVE  e.next[c] \in Chain[b] \ {Genesis} /\ Parent[e.next[c]] = c
      BY <1>3 DEF LinksOnChain
    <2>. QED
      BY <1>1, <1>2, <1>3 DEF LinksOnChain
  <1>5. d.next[b] = None
    <2>. SUFFICES ASSUME d.next[b] # None
                  PROVE  FALSE
      OBVIOUS
    <2>1. d.next[b] \in Chain[d.tip] \ {Genesis} /\ Parent[d.next[b]] = b
      BY DEF LinksOnChain
    <2>2. d.tip \in Block
      BY DEF Store
    <2>3. b \in Chain[d.tip]
      BY <2>1, <2>2, ChainBasic DEF ClosedUnderParent
    <2>. QED
      BY <1>1, <1>2, <2>3
  <1>6. ASSUME Parent[b] = d.tip, ChainLinked(d)
        PROVE  ChainLinked(e)
    <2>. SUFFICES ASSUME NEW c \in Chain[b] \ {Genesis}
                  PROVE  e.next[Parent[c]] = c
      BY <1>3 DEF ChainLinked
    <2>1. CASE c = b
      BY <1>3, <2>1
    <2>2. CASE c # b
      <3>1. c \in Chain[d.tip] /\ c \in Block /\ d.tip \in Block
        BY <1>1, <1>6, <2>2, ChainBasic DEF Store
      <3>2. d.next[Parent[c]] = c /\ Parent[c] \in Block
        BY <1>6, <3>1, BlockAssumption DEF ChainLinked
      <3>3. Parent[c] # d.tip
        BY <3>1, ChainAcyclic
      <3>4. Parent[c] # b
        BY <1>1, <1>6, <3>1, ChainBasic DEF ClosedUnderParent
      <3>. QED
        BY <1>3, <1>6, <3>2, <3>3, <3>4
    <2>. QED
      BY <2>1, <2>2
  <1>. QED
    BY <1>4, <1>5, <1>6

\* Disconnecting the last block takes back the link that led to it, only.
LEMMA DisconnectLinks ==
    ASSUME NEW d \in Store, LinksOnChain(d), d.tip # Genesis
    PROVE  /\ LinksOnChain(DisconnectBlock(d, d.tip))
           /\ ChainLinked(d) => ChainLinked(DisconnectBlock(d, d.tip))
  <1>. DEFINE b == d.tip
              e == DisconnectBlock(d, b)
  <1>1. b \in Block
    BY DEF Store
  <1>2. /\ Parent[b] \in Block
        /\ Chain[b] = Chain[Parent[b]] \cup {b} /\ b \notin Chain[Parent[b]]
    BY <1>1, ChainUnfold, ChainAcyclic
  <1>3. /\ e.tip = Parent[b] /\ e.next[Parent[b]] = None
        /\ \A c \in Block \ {Parent[b]} : e.next[c] = d.next[c]
    BY <1>2 DEF DisconnectBlock, Store
  <1>4. LinksOnChain(e)
    <2>. SUFFICES ASSUME NEW c \in Block, e.next[c] # None
                  PROVE  /\ e.next[c] \in Chain[Parent[b]] \ {Genesis}
                         /\ Parent[e.next[c]] = c
      BY <1>3 DEF LinksOnChain
    <2>1. c # Parent[b] /\ e.next[c] = d.next[c]
      BY <1>3
    <2>2. d.next[c] \in Chain[b] \ {Genesis} /\ Parent[d.next[c]] = c
      BY <2>1 DEF LinksOnChain
    <2>. QED
      BY <1>2, <2>1, <2>2
  <1>5. ASSUME ChainLinked(d)
        PROVE  ChainLinked(e)
    <2>. SUFFICES ASSUME NEW c \in Chain[Parent[b]] \ {Genesis}
                  PROVE  e.next[Parent[c]] = c
      BY <1>3 DEF ChainLinked
    <2>1. c \in Chain[b] \ {Genesis} /\ c # b /\ c \in Block
      BY <1>2, ChainBasic
    <2>2. d.next[Parent[c]] = c /\ Parent[c] \in Block
      BY <1>5, <2>1, BlockAssumption DEF ChainLinked
    <2>3. Parent[c] # Parent[b]
      BY <1>1, <2>1, ChainBasic, ChainOneChild
    <2>. QED
      BY <1>3, <2>2, <2>3
  <1>. QED
    BY <1>4, <1>5

\* The links of the batch before it has done anything.
LEMMA BatchLinksStart ==
    ASSUME db \in Store, pindexBest \in Block
    PROVE  BatchLinks(pindexBest) = db.next
  BY DEF BatchLinks, Store

\* What disconnecting the block t of the best chain does to the batch's links.
LEMMA BatchLinksDown ==
    ASSUME db \in Store, pindexBest \in Block,
           NEW t \in Chain[pindexBest], t # Genesis
    PROVE  BatchLinks(Parent[t]) = [BatchLinks(t) EXCEPT ![Parent[t]] = None]
  <1>1. /\ t \in Block /\ Parent[t] \in Block /\ Parent[t] \in Chain[pindexBest]
        /\ Chain[t] = Chain[Parent[t]] \cup {t} /\ t \notin Chain[Parent[t]]
    BY ChainBasic, ChainUnfold, ChainAcyclic DEF ClosedUnderParent
  <1>2. Chain[t] \subseteq Chain[pindexBest] /\ Chain[Parent[t]] \subseteq Chain[pindexBest]
    BY <1>1, ChainTransitive
  <1>3. Chain[pindexBest] \ Chain[Parent[t]] = (Chain[pindexBest] \ Chain[t]) \cup {t}
    BY <1>1
  <1>4. BatchLinks(t) =
          [b \in Block |->
             IF b \in {Parent[c] : c \in Chain[pindexBest] \ Chain[t]} THEN None
             ELSE db.next[b]]
    BY <1>2 DEF BatchLinks
  <1>5. BatchLinks(Parent[t]) =
          [b \in Block |->
             IF b \in {Parent[c] : c \in Chain[pindexBest] \ Chain[Parent[t]]} THEN None
             ELSE db.next[b]]
    BY <1>2 DEF BatchLinks
  <1>6. ASSUME NEW b \in Block
        PROVE  b \in {Parent[c] : c \in Chain[pindexBest] \ Chain[Parent[t]]}
               <=> \/ b \in {Parent[c] : c \in Chain[pindexBest] \ Chain[t]}
                   \/ b = Parent[t]
    BY <1>3
  <1>. QED
    BY <1>1, <1>4, <1>5, <1>6

\* What connecting the block u, which is not on the best chain, does to them.
LEMMA BatchLinksUp ==
    ASSUME db \in Store, pindexBest \in Block, LinksOnChain(db),
           db.tip \in Chain[pindexBest],
           NEW u \in Block \ Chain[pindexBest]
    PROVE  /\ u # Genesis
           /\ BatchLinks(u) = [BatchLinks(Parent[u]) EXCEPT ![u] = None, ![Parent[u]] = u]
  <1>. DEFINE t == Parent[u]
              G(s) == Chain[s] \ Chain[pindexBest]
              D(s) == {Parent[c] : c \in Chain[pindexBest] \ Chain[s]}
  <1>1. u # Genesis /\ Genesis \in Chain[pindexBest]
    BY ChainHasGenesis
  <1>2. /\ t \in Block /\ t # u
        /\ Chain[u] = Chain[t] \cup {u} /\ u \notin Chain[t]
    BY <1>1, ChainBasic, ChainUnfold, ChainAcyclic
  <1>3. G(u) = G(t) \cup {u} /\ D(u) = D(t)
    BY <1>2
  <1>4. ASSUME NEW c \in G(u), Parent[c] = t
        PROVE  c = u
    <2>1. c \in Chain[u] \ {Genesis} /\ u \in Chain[u] \ {Genesis}
      BY <1>1, <1>2, <1>4
    <2>. QED
      BY <1>4, <2>1, ChainOneChild
  <1>5. ASSUME NEW c \in G(u)
        PROVE  Parent[c] # u
    <2>1. c \in Chain[u] /\ c # Genesis /\ c \in Block
      BY <1>1, <1>5, ChainBasic
    <2>2. c \in Chain[t] \/ c = u
      BY <1>2, <2>1
    <2>3. c \in Chain[t] => Parent[c] \in Chain[t]
      BY <1>2, <2>1, ChainBasic DEF ClosedUnderParent
    <2>. QED
      BY <1>2, <2>2, <2>3
  <1>6. u \notin D(t)
    <2>1. Genesis \in Chain[t]
      BY <1>2, ChainHasGenesis
    <2>. QED
      BY <2>1, ChainBasic DEF ClosedUnderParent
  <1>7. db.next[u] = None
    <2>. SUFFICES ASSUME db.next[u] # None
                  PROVE  FALSE
      OBVIOUS
    <2>1. db.next[u] \in Chain[db.tip] \ {Genesis} /\ Parent[db.next[u]] = u
      BY DEF LinksOnChain
    <2>2. db.next[u] \in Chain[pindexBest] \ {Genesis}
      BY <2>1, ChainTransitive
    <2>. QED
      BY <2>1, <2>2, ChainBasic DEF ClosedUnderParent
  <1>8. ASSUME NEW b \in Block
        PROVE  BatchLinks(u)[b] =
                 [BatchLinks(t) EXCEPT ![u] = None, ![t] = u][b]
    <2>0. /\ BatchLinks(u)[b] =
               IF \E c \in G(u) : Parent[c] = b THEN CHOOSE c \in G(u) : Parent[c] = b
               ELSE IF b \in D(u) THEN None ELSE db.next[b]
          /\ BatchLinks(t)[b] =
               IF \E c \in G(t) : Parent[c] = b THEN CHOOSE c \in G(t) : Parent[c] = b
               ELSE IF b \in D(t) THEN None ELSE db.next[b]
          /\ DOMAIN BatchLinks(t) = Block
      BY DEF BatchLinks
    <2>1. CASE b = t
      <3>1. u \in G(u) /\ Parent[u] = b
        BY <1>3, <2>1
      <3>2. BatchLinks(u)[b] \in G(u) /\ Parent[BatchLinks(u)[b]] = b
        BY <2>0, <3>1
      <3>3. BatchLinks(u)[b] = u
        BY <1>4, <2>1, <3>2
      <3>. QED
        BY <1>2, <2>0, <2>1, <3>3
    <2>2. CASE b = u
      <3>1. BatchLinks(u)[b] = None
        BY <1>3, <1>5, <1>6, <1>7, <2>0, <2>2
      <3>. QED
        BY <1>2, <2>0, <2>2, <3>1
    <2>3. CASE b # t /\ b # u
      <3>1. \A c : c \in G(u) /\ Parent[c] = b <=> c \in G(t) /\ Parent[c] = b
        BY <1>3, <2>3
      <3>2. BatchLinks(u)[b] = BatchLinks(t)[b]
        BY <1>3, <2>0, <3>1
      <3>. QED
        BY <1>2, <2>0, <2>3, <3>2
    <2>. QED
      BY <2>1, <2>2, <2>3
  <1>9. DOMAIN BatchLinks(u) = Block /\ DOMAIN BatchLinks(t) = Block
    BY DEF BatchLinks
  <1>10. BatchLinks(u) = [b \in Block |-> BatchLinks(u)[b]]
    BY DEF BatchLinks
  <1>11. [BatchLinks(t) EXCEPT ![u] = None, ![t] = u] =
            [b \in Block |-> [BatchLinks(t) EXCEPT ![u] = None, ![t] = u][b]]
    BY <1>9
  <1>. QED
    BY <1>1, <1>8, <1>10, <1>11

-----------------------------------------------------------------------------
\* The batch of Reorganize when SetBestChain opens it.
LEMMA BatchStart ==
    ASSUME db \in Store, LinksOnChain(db), NEW best \in Block,
           db.tip \in Chain[best], pindexBest' = best, txn' = [db EXCEPT !.tip = best],
           UNCHANGED <<db, fPostponedFailed>>,
           ~fPostponedFailed => ChainLinked(db) /\ db.tip = best
    PROVE  BatchInv'
  <1>1. txn' \in Store /\ txn'.tip = best /\ txn'.next = db.next
    BY DEF Store
  <1>2. Chain[db.tip] \subseteq Chain[best] /\ best \in Chain[best]
    BY ChainTransitive, ChainBasic
  <1>3. LinksOnChain(txn)'
    BY <1>1, <1>2 DEF LinksOnChain
  <1>4. ~fPostponedFailed' => ChainLinked(txn)'
    BY <1>1 DEF ChainLinked
  <1>5. (txn.next = BatchLinks(txn.tip))'
    BY <1>1 DEF BatchLinks, Store
  <1>. QED
    BY <1>1, <1>2, <1>3, <1>4, <1>5 DEF BatchInv

\* LinkInv when SetBestChain is called for new while pindexBest is best.
LEMMA StartLinks ==
    ASSUME db \in Store, LinksOnChain(db), NEW best \in Block, NEW new \in Block,
           db.tip \in Chain[best], pindexBest' = best, SetBestChain(new, best),
           UNCHANGED <<db, fPostponedFailed>>, pnext' = db.next,
           ~fPostponedFailed => ChainLinked(db) /\ db.tip = best
    PROVE  LinkInv'
  <1>1. txn' = [db EXCEPT !.tip = best] /\ pc' \in {"extend", "reorganize"}
    BY DEF SetBestChain
  <1>2. BatchInv'
    BY <1>1, BatchStart
  <1>. QED
    BY <1>1, <1>2 DEF LinkInv, LinksOnChain, ChainLinked

\* What the two invariants say of a node between two calls of SetBestChain.
LEMMA IdleLinks ==
    ASSUME ChainInv, pc \in {"idle", "extend", "reorganize"}
    PROVE  /\ db \in Store /\ pindexBest \in Block /\ LinksOnChain(db)
           /\ db.tip \in Block /\ db.tip \in Chain[pindexBest] /\ pnext = db.next
           /\ ~fPostponedFailed => ChainLinked(db) /\ db.tip = pindexBest
  <1>1. pc # "down"
    OBVIOUS
  <1>. QED
    BY <1>1 DEF ChainInv, IndInv, TypeOK, Store, LedgerInv, LinkInv

\* The invariant of the links is preserved by the calls of SetBestChain.
LEMMA AcceptLinks ==
    ASSUME ChainInv, NEW b \in Block, AcceptBlock(b)
    PROVE  LinkInv'
  <1>1. pc = "idle" /\ UNCHANGED <<pnext, pindexBest, db, fPostponedFailed>>
    BY DEF AcceptBlock
  <1>2. CASE ChainTrust[b] > ChainTrust[pindexBest]
    <2>1. SetBestChain(b, pindexBest)
      BY <1>2 DEF AcceptBlock
    <2>. QED
      BY <1>1, <2>1, IdleLinks, StartLinks
  <1>3. CASE ~(ChainTrust[b] > ChainTrust[pindexBest])
    <2>1. pc' = pc
      BY <1>3 DEF AcceptBlock
    <2>. QED
      BY <1>1, <2>1 DEF ChainInv, LinkInv, LinksOnChain, ChainLinked
  <1>. QED
    BY <1>2, <1>3

\* ... by one for a sync-checkpoint.
LEMMA CheckpointLinks ==
    ASSUME ChainInv, NEW b \in SyncCheckpoint, SetBestChainToCheckpoint(b)
    PROVE  LinkInv'
  <1>1. /\ pc = "idle" /\ SetBestChain(b, pindexBest)
        /\ UNCHANGED <<pnext, pindexBest, db, fPostponedFailed>>
    BY DEF SetBestChainToCheckpoint, memory, disk
  <1>. QED
    BY <1>1, SyncCheckpointAssumption, IdleLinks, StartLinks

\* ... by the block after the best one, whether it connects or not.
LEMMA ExtendLinks ==
    ASSUME ChainInv, ExtendOK \/ ExtendFails
    PROVE  LinkInv'
  <1>1. /\ pc = "extend" /\ pindexNew # Genesis /\ Parent[pindexNew] = pindexBest
        /\ pindexNew \in Block
    BY DEF ExtendOK, ExtendFails, ChainInv, IndInv, IndexInv, TypeOK
  <1>2. CASE ExtendOK
    <2>1. /\ db' = ConnectBlock(db, pindexNew) /\ pindexBest' = pindexNew
          /\ pnext' = [pnext EXCEPT ![Parent[pindexNew]] = pindexNew]
          /\ pc' = "idle" /\ fPostponedFailed' = fPostponedFailed
      BY <1>2 DEF ExtendOK
    <2>2. /\ LinksOnChain(ConnectBlock(db, pindexNew)) /\ db.next[pindexNew] = None
          /\ ~fPostponedFailed => ChainLinked(ConnectBlock(db, pindexNew))
      BY <1>1, IdleLinks, ConnectLinks
    <2>3. db'.tip = pindexNew /\ pindexNew \in Chain[pindexNew]
      BY <1>1, <2>1, ChainBasic DEF ConnectBlock
    <2>4. pnext' = db'.next
      <3>1. db'.next = [db.next EXCEPT ![pindexNew] = None, ![pindexBest] = pindexNew]
        BY <1>1, <2>1 DEF ConnectBlock
      <3>2. db.next \in [Block -> Block \cup {None}] /\ pnext = db.next
        BY <1>1, IdleLinks DEF Store
      <3>3. pindexNew # pindexBest
        BY <1>1, ChainAcyclic, ChainBasic
      <3>. QED
        BY <1>1, <2>1, <2>2, <3>1, <3>2, <3>3
    <2>. QED
      BY <2>1, <2>2, <2>3, <2>4 DEF LinkInv, LinksOnChain, ChainLinked
  <1>3. CASE ExtendFails
    <2>1. pc' = "idle" /\ UNCHANGED <<pnext, pindexBest, db, fPostponedFailed>>
      BY <1>3 DEF ExtendFails, memory
    <2>. QED
      BY <1>1, <2>1 DEF ChainInv, LinkInv, LinksOnChain, ChainLinked
  <1>. QED
    BY <1>2, <1>3

\* ... by a block that Reorganize disconnects or connects in its batch.
LEMMA ReorganizeStepLinks ==
    ASSUME ChainInv, ReorganizeDisconnect \/ ReorganizeConnect
    PROVE  LinkInv'
  <1>1. /\ pc = "reorganize" /\ txn \in Store /\ txn.tip \in Block
        /\ pindexIntermediate \in Block /\ BatchInv
    BY DEF ReorganizeDisconnect, ReorganizeConnect, ChainInv, IndInv, TypeOK,
       Store, LinkInv
  <1>2. UNCHANGED <<pnext, pindexBest, db, pc, pindexNew, pindexIntermediate,
                    fPostponedFailed>>
    BY DEF ReorganizeDisconnect, ReorganizeConnect, memory, disk
  <1>3. /\ db \in Store /\ pindexBest \in Block /\ LinksOnChain(db)
        /\ db.tip \in Chain[pindexBest]
    BY <1>1, IdleLinks
  <1>4. BatchInv'
    <2>1. CASE ReorganizeDisconnect
      <3>. DEFINE t == txn.tip
      <3>1. t \notin Chain[pindexIntermediate] /\ txn' = DisconnectBlock(txn, t)
        BY <2>1 DEF ReorganizeDisconnect, AboveFork
      <3>2. t # Genesis /\ t \in Chain[pindexBest]
        BY <1>1, <3>1, ChainHasGenesis DEF BatchInv, AboveFork
      <3>3. /\ Parent[t] \in Chain[pindexBest] /\ Parent[t] \in Block
            /\ Chain[t] = Chain[Parent[t]] \cup {t}
        BY <1>1, <1>3, <3>2, ChainBasic, ChainUnfold DEF ClosedUnderParent
      <3>4. txn'.tip = Parent[t] /\ txn'.next = [txn.next EXCEPT ![Parent[t]] = None]
        BY <3>1 DEF DisconnectBlock
      <3>5. LinksOnChain(txn') /\ (~fPostponedFailed => ChainLinked(txn'))
        BY <1>1, <3>1, <3>2, DisconnectLinks DEF BatchInv
      <3>6. txn'.next = BatchLinks(Parent[t])
        BY <1>1, <1>3, <3>2, <3>4, BatchLinksDown DEF BatchInv
      <3>7. (txn.next = BatchLinks(txn.tip))'
        BY <1>2, <3>4, <3>6 DEF BatchLinks
      <3>8. (Chain[pindexBest] \cap Chain[pindexIntermediate] \subseteq Chain[txn.tip])'
        BY <1>1, <1>2, <3>1, <3>3, <3>4 DEF BatchInv
      <3>. QED
        BY <1>2, <3>3, <3>4, <3>5, <3>7, <3>8 DEF BatchInv, LinksOnChain, ChainLinked
    <2>2. CASE ReorganizeConnect
      <3>. DEFINE t == txn.tip
                  u == NextConnect
      <3>1. /\ t \in Chain[pindexIntermediate] /\ t # pindexIntermediate
            /\ txn' = ConnectBlock(txn, u)
        BY <2>2 DEF ReorganizeConnect, AboveFork
      <3>2. u \in Chain[pindexIntermediate] \ {Genesis} /\ Parent[u] = t /\ u \in Block
        BY <1>1, <3>1, ChildOnChain, ChainBasic DEF NextConnect
      <3>3. Chain[u] = Chain[t] \cup {u} /\ u \notin Chain[t] /\ t \in Chain[t]
        BY <1>1, <3>2, ChainUnfold, ChainAcyclic, ChainBasic
      <3>4. u \notin Chain[pindexBest]
        BY <1>1, <3>2, <3>3 DEF BatchInv
      <3>5. /\ txn'.tip = u
            /\ txn'.next = [txn.next EXCEPT ![u] = None, ![t] = u]
        BY <3>1, <3>2 DEF ConnectBlock
      <3>6. LinksOnChain(txn') /\ (~fPostponedFailed => ChainLinked(txn'))
        BY <1>1, <3>1, <3>2, <3>3, ConnectLinks DEF BatchInv
      <3>7. txn'.next = BatchLinks(u)
        BY <1>1, <1>3, <3>2, <3>4, <3>5, BatchLinksUp DEF BatchInv
      <3>8. (txn.next = BatchLinks(txn.tip))'
        BY <1>2, <3>5, <3>7 DEF BatchLinks
      <3>9. (Chain[pindexBest] \cap Chain[pindexIntermediate] \subseteq Chain[txn.tip])'
        BY <1>1, <1>2, <3>3, <3>5 DEF BatchInv
      <3>10. ~AboveFork'
        BY <1>2, <3>2, <3>5 DEF AboveFork
      <3>. QED
        BY <1>2, <3>6, <3>8, <3>9, <3>10 DEF BatchInv, LinksOnChain, ChainLinked
    <2>. QED
      BY <2>1, <2>2
  <1>. QED
    BY <1>1, <1>2, <1>4 DEF ChainInv, LinkInv, LinksOnChain, ChainLinked

\* ... by the end of Reorganize: the links of the batch are those that the
\* loops over vDisconnect and vConnect then give to pnext.
LEMMA ReorganizeEndLinks ==
    ASSUME ChainInv, ReorganizeFails \/ ReorganizeCommit
    PROVE  LinkInv'
  <1>1. /\ pc = "reorganize" /\ BatchInv /\ pnext = db.next
        /\ pindexIntermediate \in Chain[pindexNew]
        /\ pindexNew \in Block
    BY IdleLinks DEF ReorganizeFails, ReorganizeCommit, ChainInv, IndInv, TypeOK,
       IndexInv, LinkInv
  <1>2. CASE ReorganizeFails
    <2>1. pc' = "idle" /\ UNCHANGED <<pnext, pindexBest, db, fPostponedFailed>>
      BY <1>2 DEF ReorganizeFails, memory
    <2>. QED
      BY <1>1, <2>1 DEF ChainInv, LinkInv, LinksOnChain, ChainLinked
  <1>3. CASE ReorganizeCommit
    <2>1. /\ txn.tip = pindexIntermediate /\ db' = txn
          /\ pc' \in {"update", "postponed"}
          /\ UNCHANGED <<pindexNew, fPostponedFailed>>
      BY <1>3 DEF ReorganizeCommit
    <2>2. pnext' = BatchLinks(pindexIntermediate)
      BY <1>1, <1>3 DEF ReorganizeCommit, BatchLinks, Linked, Unlinked
    <2>3. pnext' = db'.next
      BY <1>1, <2>1, <2>2 DEF BatchInv
    <2>. QED
      BY <1>1, <2>1, <2>3 DEF LinkInv, BatchInv, LinksOnChain, ChainLinked
  <1>. QED
    BY <1>2, <1>3

\* ... by a postponed block.
LEMMA PostponedLinks ==
    ASSUME ChainInv, PostponedOK \/ PostponedFails
    PROVE  LinkInv'
  <1>1. /\ pc = "postponed" /\ db \in Store /\ pindexNew \in Block /\ db.tip \in Block
        /\ db.tip \in Chain[pindexNew] /\ db.tip # pindexNew
        /\ LinksOnChain(db) /\ pnext = db.next
        /\ ~fPostponedFailed => ChainLinked(db)
    BY DEF PostponedOK, PostponedFails, ChainInv, IndInv, TypeOK, Store, IndexInv,
       LinkInv
  <1>2. CASE PostponedOK
    <2>. DEFINE u == NextPostponed
    <2>1. /\ db' = ConnectBlock(db, u) /\ pnext' = [pnext EXCEPT ![db.tip] = u]
          /\ pc' = (IF u = pindexNew THEN "update" ELSE "postponed")
          /\ UNCHANGED <<pindexNew, fPostponedFailed>>
      BY <1>2 DEF PostponedOK
    <2>2. u \in Chain[pindexNew] \ {Genesis} /\ Parent[u] = db.tip /\ u \in Block
      BY <1>1, ChildOnChain, ChainBasic DEF NextPostponed
    <2>3. u # db.tip /\ db.tip \in Chain[db.tip]
      BY <1>1, <2>2, ChainAcyclic, ChainBasic
    <2>4. /\ LinksOnChain(ConnectBlock(db, u)) /\ db.next[u] = None
          /\ ~fPostponedFailed => ChainLinked(ConnectBlock(db, u))
      BY <1>1, <2>2, <2>3, ConnectLinks
    <2>5. pnext' = db'.next
      <3>1. db'.next = [db.next EXCEPT ![u] = None, ![db.tip] = u]
        BY <2>1, <2>2 DEF ConnectBlock
      <3>2. db.next \in [Block -> Block \cup {None}]
        BY <1>1 DEF Store
      <3>. QED
        BY <1>1, <2>1, <2>2, <2>3, <2>4, <3>1, <3>2
    <2>6. db'.tip = u
      BY <2>1 DEF ConnectBlock
    <2>7. pc' \in {"update", "postponed"}
      BY <2>1
    <2>8. LinksOnChain(db') /\ (~fPostponedFailed' => ChainLinked(db'))
      BY <2>1, <2>4
    <2>9. db'.tip \in Chain[pindexNew']
      BY <2>1, <2>2, <2>6
    <2>. QED
      BY <2>5, <2>7, <2>8, <2>9 DEF LinkInv, LinksOnChain, ChainLinked
  <1>3. CASE PostponedFails
    <2>1. /\ pc' = "update" /\ fPostponedFailed' = TRUE
          /\ UNCHANGED <<pnext, db, pindexNew>>
      BY <1>3 DEF PostponedFails, memory
    <2>. QED
      BY <1>1, <2>1 DEF LinkInv, LinksOnChain, ChainLinked
  <1>. QED
    BY <1>2, <1>3

\* ... by an error of the disk and by the end of SetBestChain.
LEMMA DiskErrorLinks ==
    ASSUME ChainInv, DiskError \/ UpdateBest
    PROVE  LinkInv'
  <1>1. CASE pc \in {"extend", "reorganize"}
    <2>1. pc' = "idle" /\ UNCHANGED <<pnext, pindexBest, db, fPostponedFailed>>
      BY <1>1 DEF DiskError, IndexRecordFails, UpdateBest, memory, disk
    <2>. QED
      BY <1>1, <2>1 DEF ChainInv, LinkInv, LinksOnChain, ChainLinked
  <1>2. CASE pc = "postponed"
    <2>1. /\ pc' = "update" /\ fPostponedFailed' = TRUE
          /\ UNCHANGED <<pnext, db, pindexNew>>
      BY <1>2 DEF DiskError, IndexRecordFails, UpdateBest, memory, disk
    <2>2. db.tip \in Chain[pindexNew]
      BY <1>2 DEF ChainInv, IndInv, IndexInv
    <2>. QED
      BY <1>2, <2>1, <2>2 DEF ChainInv, LinkInv, LinksOnChain, ChainLinked
  <1>3. CASE pc = "update"
    <2>1. /\ pc' = "idle" /\ pindexBest' = pindexNew
          /\ UNCHANGED <<pnext, db, fPostponedFailed>>
      BY <1>3 DEF DiskError, IndexRecordFails, UpdateBest, disk
    <2>. QED
      BY <1>3, <2>1 DEF ChainInv, LinkInv, LinksOnChain, ChainLinked
  <1>4. CASE \E b \in Unwritable : IndexRecordFails(b)
    <2>1. /\ pc = "idle"
          /\ UNCHANGED <<pnext, pindexBest, db, pc, fPostponedFailed>>
      BY <1>4 DEF IndexRecordFails, disk, control
    <2>. QED
      BY <2>1 DEF ChainInv, LinkInv, LinksOnChain, ChainLinked
  <1>. QED
    BY <1>1, <1>2, <1>3, <1>4 DEF DiskError, UpdateBest

\* ... and by a kill and a restart, which reads the links from the disk.
LEMMA RestartLinks ==
    ASSUME ChainInv, Kill \/ \E b \in Chain[db.tip] : LoadBlockIndex(b)
    PROVE  LinkInv'
  <1>1. CASE Kill
    <2>1. pc' = "down" /\ UNCHANGED <<db, fPostponedFailed>>
      BY <1>1 DEF Kill, disk
    <2>. QED
      BY <2>1 DEF ChainInv, LinkInv, LinksOnChain, ChainLinked
  <1>2. ASSUME NEW b \in Chain[db.tip], LoadBlockIndex(b)
        PROVE  LinkInv'
    <2>1. /\ pnext' = db.next /\ pindexBest' = db.tip
          /\ UNCHANGED <<db, fPostponedFailed>>
      BY <1>2 DEF LoadBlockIndex, disk
    <2>2. /\ db \in Store /\ db.tip \in Block /\ LinksOnChain(db)
          /\ ~fPostponedFailed => ChainLinked(db)
      BY DEF ChainInv, IndInv, TypeOK, Store, LinkInv
    <2>3. b \in Block /\ db.tip \in Chain[db.tip]
      BY <2>2, ChainBasic
    <2>4. CASE b = db.tip
      <3>1. pc' = "idle"
        BY <1>2, <2>4 DEF LoadBlockIndex
      <3>. QED
        BY <2>1, <2>2, <2>3, <3>1 DEF LinkInv, LinksOnChain, ChainLinked
    <2>5. CASE b # db.tip
      <3>1. SetBestChain(b, db.tip)
        BY <1>2, <2>5 DEF LoadBlockIndex
      <3>. QED
        BY <2>1, <2>2, <2>3, <3>1, StartLinks
    <2>. QED
      BY <2>4, <2>5
  <1>. QED
    BY <1>1, <1>2

\* The committed chain keeps its records and no block but one whose record
\* could not be written goes without: a commit writes the records of all the
\* blocks it connects, and a restart has in memory what is on disk.
LEMMA NextRecords ==
    ASSUME ChainInv, [Next]_vars
    PROVE  RecordInv'
  <1>0. /\ mapBlockIndex \ dbBlockIndex \subseteq Unwritable
        /\ ~fPostponedFailed => Chain[db.tip] \subseteq dbBlockIndex
    BY DEF ChainInv, RecordInv
  <1>1. ASSUME UNCHANGED <<mapBlockIndex, dbBlockIndex, db>>,
               fPostponedFailed' = fPostponedFailed \/ fPostponedFailed' = TRUE
        PROVE  RecordInv'
    BY <1>0, <1>1 DEF RecordInv
  <1>2. CASE \E b \in Block : AcceptBlock(b)
    BY <1>0, <1>2 DEF AcceptBlock, RecordInv
  <1>3. CASE \E b \in Unwritable : IndexRecordFails(b)
    BY <1>0, <1>3 DEF IndexRecordFails, disk, control, RecordInv
  <1>4. CASE ExtendOK
    <2>1. /\ pc = "extend" /\ pindexNew \in Block /\ pindexNew # Genesis
          /\ Parent[pindexNew] = pindexBest
          /\ ~fPostponedFailed => pindexBest = db.tip
      BY <1>4 DEF ExtendOK, ChainInv, IndInv, TypeOK, IndexInv, LedgerInv
    <2>2. /\ db'.tip = pindexNew
          /\ dbBlockIndex' = dbBlockIndex \cup {pindexNew, Parent[pindexNew]}
          /\ UNCHANGED <<mapBlockIndex, fPostponedFailed>>
      BY <1>4 DEF ExtendOK, ConnectBlock
    <2>3. Chain[pindexNew] = Chain[Parent[pindexNew]] \cup {pindexNew}
      BY <2>1, ChainUnfold
    <2>. QED
      BY <1>0, <2>1, <2>2, <2>3 DEF RecordInv
  <1>5. CASE ReorganizeCommit
    <2>1. pc = "reorganize" /\ (~fPostponedFailed => pindexBest = db.tip)
      BY <1>5 DEF ReorganizeCommit, ChainInv, IndInv, LedgerInv
    <2>2. /\ db'.tip = pindexIntermediate
          /\ dbBlockIndex \cup Linked \subseteq dbBlockIndex'
          /\ UNCHANGED <<mapBlockIndex, fPostponedFailed>>
      BY <1>5 DEF ReorganizeCommit
    <2>. QED
      BY <1>0, <2>1, <2>2 DEF RecordInv, Linked
  <1>6. CASE PostponedOK
    <2>1. /\ pc = "postponed" /\ db.tip \in Chain[pindexNew] /\ db.tip # pindexNew
          /\ pindexNew \in Block
      BY <1>6 DEF PostponedOK, ChainInv, IndInv, TypeOK, IndexInv
    <2>2. NextPostponed \in Chain[pindexNew] \ {Genesis} /\ Parent[NextPostponed] = db.tip
      BY <2>1, ChildOnChain DEF NextPostponed
    <2>3. Chain[NextPostponed] = Chain[db.tip] \cup {NextPostponed}
      BY <2>1, <2>2, ChainUnfold, ChainBasic
    <2>4. /\ db'.tip = NextPostponed
          /\ dbBlockIndex' = dbBlockIndex \cup {NextPostponed, db.tip}
          /\ UNCHANGED <<mapBlockIndex, fPostponedFailed>>
      BY <1>6 DEF PostponedOK, ConnectBlock
    <2>. QED
      BY <1>0, <2>3, <2>4 DEF RecordInv
  <1>7. CASE \E b \in Chain[db.tip] : LoadBlockIndex(b)
    BY <1>0, <1>7 DEF LoadBlockIndex, disk, RecordInv
  <1>8. CASE \/ \E b \in SyncCheckpoint : SetBestChainToCheckpoint(b)
             \/ ExtendFails \/ ReorganizeDisconnect \/ ReorganizeConnect
             \/ ReorganizeFails \/ PostponedFails \/ UpdateBest \/ Kill
             \/ UNCHANGED vars
    BY <1>1, <1>8 DEF SetBestChainToCheckpoint, ExtendFails, ReorganizeDisconnect,
       ReorganizeConnect, ReorganizeFails, PostponedFails, UpdateBest, Kill, vars,
       memory, disk, control
  <1>9. CASE DiskError
    BY <1>1, <1>3, <1>9 DEF DiskError, memory, disk
  <1>. QED
    BY <1>2, <1>4, <1>5, <1>6, <1>7, <1>8, <1>9 DEF Next, Handler

\* Every step keeps the three invariants.
LEMMA NextLinks == ChainInv /\ [Next]_vars => ChainInv'
  <1>. SUFFICES ASSUME ChainInv, [Next]_vars
                PROVE  LinkInv'
    BY NextInv, NextRecords DEF ChainInv
  <1>1. CASE \E b \in Block : AcceptBlock(b)
    BY <1>1, AcceptLinks
  <1>2. CASE \E b \in SyncCheckpoint : SetBestChainToCheckpoint(b)
    BY <1>2, CheckpointLinks
  <1>3. CASE Handler
    BY <1>3, ExtendLinks, ReorganizeStepLinks, ReorganizeEndLinks, PostponedLinks,
       DiskErrorLinks DEF Handler
  <1>4. CASE DiskError
    BY <1>4, DiskErrorLinks
  <1>5. CASE Kill \/ \E b \in Chain[db.tip] : LoadBlockIndex(b)
    BY <1>5, RestartLinks
  <1>6. CASE UNCHANGED vars
    <2>1. UNCHANGED <<pnext, pindexBest, db, txn, pc, pindexNew,
                      pindexIntermediate, fPostponedFailed>>
      BY <1>6 DEF vars, memory, disk, control
    <2>. QED
      BY <2>1 DEF ChainInv, LinkInv, BatchInv, BatchLinks, AboveFork, LinksOnChain,
         ChainLinked
  <1>. QED
    BY <1>1, <1>2, <1>3, <1>4, <1>5, <1>6 DEF Next

(***************************************************************************)
(* The invariants of the ledger, of the links and of the index records hold *)
(* always.                                                                  *)
(***************************************************************************)
THEOREM LinkInvariance == Spec => []ChainInv
  <1>1. Init => ChainInv
    <2>. SUFFICES ASSUME Init
                  PROVE  LinkInv /\ RecordInv
      BY InitInv DEF ChainInv
    <2>1. LinkInv
      BY ChainGenesis DEF Init, NewStore, LinkInv, LinksOnChain, ChainLinked
    <2>2. RecordInv
      BY ChainGenesis DEF Init, NewStore, RecordInv
    <2>. QED
      BY <2>1, <2>2
  <1>. QED
    BY <1>1, NextLinks, PTL DEF Spec

(***************************************************************************)
(* pnext in memory is hashNext on disk whenever the node is up, in the      *)
(* middle of SetBestChain too; the blocks indexed in memory but not on disk *)
(* are some whose record could not be written, none of them is on the       *)
(* committed chain, and without one a restart can load the index; between   *)
(* two calls the best block is that of the disk.                            *)
(***************************************************************************)
THEOREM MemoryCorrect == Spec => []MemoryMatchesDisk
  <1>1. ChainInv => MemoryMatchesDisk
    <2>. SUFFICES ASSUME ChainInv
                  PROVE  mapBlockIndex = dbBlockIndex => IndexLoads
      BY DEF ChainInv, IndInv, IndexInv, LedgerInv, LinkInv, RecordInv,
         MemoryMatchesDisk
    <2>1. /\ \A b \in mapBlockIndex : b \in Block /\ Chain[b] \subseteq mapBlockIndex
          /\ db.tip \in mapBlockIndex
      BY DEF ChainInv, IndInv, TypeOK, IndexInv
    <2>2. \A b \in Block : db.next[b] # None => db.next[b] \in Chain[db.tip]
      BY DEF ChainInv, LinkInv, LinksOnChain
    <2>. QED
      BY <2>1, <2>2 DEF IndexLoads
  <1>. QED
    BY <1>1, LinkInvariance, PTL

(***************************************************************************)
(* IsInMainChain is true of the ancestors of the best block and of no other *)
(* block, after any sequence of reorganizations, errors and restarts.       *)
(***************************************************************************)
THEOREM MainChainCorrect == Spec => []MainChainIsBestChain
  <1>1. ChainInv => MainChainIsBestChain
    <2>. SUFFICES ASSUME ChainInv, pc = "idle", ~fPostponedFailed
                  PROVE  /\ {b \in mapBlockIndex : IsInMainChain(b)} = Chain[pindexBest]
                         /\ \A b \in Block : pnext[b] # None => Parent[pnext[b]] = b
      BY DEF MainChainIsBestChain
    <2>1. /\ db.tip = pindexBest /\ pindexBest \in Block /\ pnext = db.next
          /\ LinksOnChain(db) /\ ChainLinked(db)
      BY IdleLinks
    <2>2. /\ mapBlockIndex \subseteq Block /\ Chain[pindexBest] \subseteq mapBlockIndex
      BY DEF ChainInv, IndInv, TypeOK, IndexInv
    <2>3. ASSUME NEW b \in mapBlockIndex, IsInMainChain(b)
          PROVE  b \in Chain[pindexBest]
      <3>1. b = pindexBest \/ pnext[b] # None
        BY <2>3 DEF IsInMainChain
      <3>2. CASE pnext[b] # None
        <4>1. pnext[b] \in Chain[pindexBest] \ {Genesis} /\ Parent[pnext[b]] = b
          BY <2>1, <2>2, <3>2 DEF LinksOnChain
        <4>. QED
          BY <2>1, <4>1, ChainBasic DEF ClosedUnderParent
      <3>. QED
        BY <2>1, <3>1, <3>2, ChainBasic
    <2>4. ASSUME NEW b \in Chain[pindexBest]
          PROVE  b \in mapBlockIndex /\ IsInMainChain(b)
      <3>1. CASE b = pindexBest
        BY <2>2, <3>1 DEF IsInMainChain
      <3>2. CASE b # pindexBest
        <4>. DEFINE c == ChildOn(b, pindexBest)
        <4>1. c \in Chain[pindexBest] \ {Genesis} /\ Parent[c] = b /\ c # None
          BY <2>1, <3>2, ChildOnChain, ChainBasic, TxAssumption
        <4>2. pnext[b] = c
          BY <2>1, <4>1 DEF ChainLinked
        <4>. QED
          BY <2>2, <4>1, <4>2 DEF IsInMainChain
      <3>. QED
        BY <3>1, <3>2
    <2>5. \A b \in Block : pnext[b] # None => Parent[pnext[b]] = b
      BY <2>1 DEF LinksOnChain
    <2>. QED
      BY <2>3, <2>4, <2>5
  <1>. QED
    BY <1>1, LinkInvariance, PTL

-----------------------------------------------------------------------------
\* The steps that change the committed store, and what becomes of its tip.
LEMMA CommitStep ==
    ASSUME IndInv, [Next]_vars, db' # db
    PROVE  /\ db' \in Store /\ db'.tip \in Block
           /\ \/ ChainTrust[db'.tip] > ChainTrust[db.tip]
              \/ ChainTrust[pindexNew] <= ChainTrust[pindexBest]
  <1>0. db' \in Store /\ db'.tip \in Block
    BY NextInv DEF IndInv, TypeOK, Store
  <1>a. db \in Store /\ db.tip \in Block /\ pindexBest \in Block /\ pindexNew \in Block
    BY DEF IndInv, TypeOK, Store
  <1>b. /\ ChainTrust[db.tip] \in Nat /\ ChainTrust[pindexBest] \in Nat
        /\ ChainTrust[pindexNew] \in Nat /\ ChainTrust[db'.tip] \in Nat
    BY <1>0, <1>a, RecursionAssumption
  <1>1. ExtendOK \/ ReorganizeCommit \/ PostponedOK
    <2>1. Next
      BY DEF vars, disk
    <2>. QED
      BY <2>1 DEF Next, Handler, AcceptBlock, ExtendFails, ReorganizeDisconnect,
         ReorganizeConnect, ReorganizeFails, PostponedFails, UpdateBest, DiskError, Kill,
         SetBestChainToCheckpoint, IndexRecordFails, LoadBlockIndex, disk
  <1>2. CASE ExtendOK
    <2>1. pc = "extend" /\ db'.tip = pindexNew
      BY <1>2 DEF ExtendOK, ConnectBlock
    <2>. QED
      BY <1>0, <1>b, <2>1 DEF IndInv, TrustInv
  <1>3. CASE ReorganizeCommit
    <2>1. pc = "reorganize" /\ db'.tip = pindexIntermediate
      BY <1>3 DEF ReorganizeCommit
    <2>3. CASE ChainTrust[pindexNew] > ChainTrust[pindexBest]
      BY <1>0, <1>b, <2>1, <2>3 DEF IndInv, TrustInv
    <2>4. CASE ~(ChainTrust[pindexNew] > ChainTrust[pindexBest])
      BY <1>0, <1>b, <2>4
    <2>. QED
      BY <2>3, <2>4
  <1>4. CASE PostponedOK
    <2>1. pc = "postponed" /\ db'.tip = NextPostponed
      BY <1>4 DEF PostponedOK, ConnectBlock
    <2>2. db.tip \in Chain[pindexNew] /\ db.tip # pindexNew
      BY <2>1 DEF IndInv, IndexInv
    <2>3. NextPostponed # Genesis /\ Parent[NextPostponed] = db.tip
      BY <1>a, <2>2, ChildOnChain DEF NextPostponed
    <2>4. db.tip \in Chain[db'.tip] /\ db.tip # db'.tip
      BY <1>0, <1>a, <2>1, <2>3, ChainUnfold, ChainBasic, ChainAcyclic
    <2>. QED
      BY <1>0, <1>b, <2>4, ChainTrustGrows
  <1>. QED
    BY <1>1, <1>2, <1>3, <1>4

\* A batch written for a block of more trust never ends on a worse chain.
THEOREM TrustTheorem == Spec => CommitsGainTrust
  <1>1. IndInv /\ [Next]_vars =>
          [ db'.tip # db.tip /\ ChainTrust[pindexNew] > ChainTrust[pindexBest]
              => ChainTrust[db'.tip] > ChainTrust[db.tip] ]_vars
    <2>. SUFFICES ASSUME IndInv, [Next]_vars, db'.tip # db.tip,
                         ChainTrust[pindexNew] > ChainTrust[pindexBest]
                  PROVE  ChainTrust[db'.tip] > ChainTrust[db.tip]
      OBVIOUS
    <2>1. ChainTrust[pindexNew] \in Nat /\ ChainTrust[pindexBest] \in Nat
      BY RecursionAssumption DEF IndInv, TypeOK
    <2>. QED
      BY <2>1, CommitStep
  <1>. QED
    BY <1>1, Invariance, PTL DEF Spec, CommitsGainTrust

-----------------------------------------------------------------------------
\* A store that is a ledger shows the spendable outputs of a sound chain.
LEMMA LedgerIsSound ==
    ASSUME NEW d \in Store, IsLedger(d)
    PROVE  /\ L!Sound(d.tip)
           /\ Spendable(d) = L!Created(d.tip) \ L!Consumed(d.tip)
  <1>1. d.tip \in Block
    BY DEF Store
  <1>2. ASSUME NEW t
        PROVE  t \in L!ChainTxs(d.tip) <=> t \in Tx /\ d.pos[t] # None
    <2>1. ASSUME t \in L!ChainTxs(d.tip)
          PROVE  t \in Tx /\ d.pos[t] # None
      <3>1. PICK c \in Chain[d.tip] \ {Genesis} : t \in Txs(c)
        BY <2>1 DEF L!ChainTxs
      <3>2. c \in Block
        BY <1>1, <3>1, ChainBasic
      <3>. QED
        BY <3>1, <3>2, TxsOfBlock, TxAssumption DEF IsLedger, AllIndexed
    <2>2. ASSUME t \in Tx, d.pos[t] # None
          PROVE  t \in L!ChainTxs(d.tip)
      BY <2>2 DEF IsLedger, OnlyChainIndexed, L!ChainTxs
    <2>. QED
      BY <2>1, <2>2
  <1>3. ASSUME NEW t \in L!ChainTxs(d.tip), NEW u \in L!ChainTxs(d.tip),
               NEW o \in Vin[t], o \in Vin[u]
        PROVE  t = u
    BY <1>2, <1>3 DEF IsLedger, InputsSpent
  <1>4. ASSUME NEW o \in OutPoint
        PROVE  o[1] \in Tx /\ o \in Outputs(o[1])
               /\ \A t : o \in Outputs(t) => t = o[1]
    BY <1>4 DEF OutPoint, Outputs
  <1>5. ASSUME NEW o
        PROVE  o \in L!Created(d.tip) <=> o \in OutPoint /\ d.pos[o[1]] # None
    <2>1. ASSUME o \in L!Created(d.tip)
          PROVE  o \in OutPoint /\ d.pos[o[1]] # None
      <3>1. PICK t \in L!ChainTxs(d.tip) : o \in Outputs(t)
        BY <2>1 DEF L!Created
      <3>2. t \in Tx /\ d.pos[t] # None
        BY <1>2, <3>1
      <3>3. o \in OutPoint
        BY <3>1, <3>2 DEF OutPoint
      <3>. QED
        BY <1>4, <3>1, <3>2, <3>3
    <2>2. ASSUME o \in OutPoint, d.pos[o[1]] # None
          PROVE  o \in L!Created(d.tip)
      BY <1>2, <1>4, <2>2 DEF L!Created
    <2>. QED
      BY <2>1, <2>2
  <1>6. ASSUME NEW o \in OutPoint
        PROVE  o \in L!Consumed(d.tip) <=> d.spent[o] # None
    <2>1. ASSUME o \in L!Consumed(d.tip)
          PROVE  d.spent[o] # None
      <3>1. PICK t \in L!ChainTxs(d.tip) : o \in Vin[t]
        BY <2>1 DEF L!Consumed
      <3>. QED
        BY <1>2, <3>1, TxAssumption DEF IsLedger, InputsSpent
    <2>2. ASSUME d.spent[o] # None
          PROVE  o \in L!Consumed(d.tip)
      <3>1. d.spent[o] \in Tx
        BY <2>2 DEF Store
      <3>2. d.pos[d.spent[o]] # None /\ o \in Vin[d.spent[o]]
        BY <2>2 DEF IsLedger, OnlyInputsSpent
      <3>. QED
        BY <1>2, <3>1, <3>2 DEF L!Consumed
    <2>. QED
      BY <2>1, <2>2
  <1>7. L!Consumed(d.tip) \subseteq L!Created(d.tip)
    <2>. SUFFICES ASSUME NEW o \in L!Consumed(d.tip)
                  PROVE  o \in L!Created(d.tip)
      OBVIOUS
    <2>1. PICK t \in L!ChainTxs(d.tip) : o \in Vin[t]
      BY DEF L!Consumed
    <2>2. o \in OutPoint /\ d.pos[o[1]] # None
      BY <1>2, <2>1 DEF IsLedger, InputsSpent
    <2>. QED
      BY <1>5, <2>2
  <1>8. L!Sound(d.tip)
    BY <1>3, <1>7 DEF L!Sound
  <1>9. Spendable(d) = L!Created(d.tip) \ L!Consumed(d.tip)
    BY <1>5, <1>6 DEF Spendable
  <1>. QED
    BY <1>8, <1>9

(***************************************************************************)
(* The committed store implements the abstract ledger: each commit is one   *)
(* Switch, and every other step leaves what a reader sees unchanged.        *)
(***************************************************************************)
THEOREM Refinement == Spec => StoreImplementsLedger
  <1>1. Init => L!Init
    <2>1. \A o \in OutPoint : o[1] \in Tx
      BY DEF OutPoint, Outputs
    <2>. QED
      BY <2>1 DEF Init, NewStore, L!Init, Spendable
  <1>2. IndInv /\ [Next]_vars =>
          [fPostponedFailed' \/ L!Next]_<<db.tip, Spendable(db)>>
    <2>. SUFFICES ASSUME IndInv, [Next]_vars, ~fPostponedFailed',
                         <<db.tip, Spendable(db)>>' # <<db.tip, Spendable(db)>>
                  PROVE  L!Next
      OBVIOUS
    <2>1. db' # db
      BY DEF Spendable
    <2>2. db' \in Store /\ db'.tip \in Block
      BY <2>1, CommitStep
    <2>3. ~fPostponedFailed
      BY DEF Next, Handler, AcceptBlock, ExtendOK, ExtendFails,
         ReorganizeDisconnect, ReorganizeConnect, ReorganizeFails,
         ReorganizeCommit, PostponedOK, PostponedFails, UpdateBest, DiskError,
         IndexRecordFails, Kill, SetBestChainToCheckpoint, LoadBlockIndex, vars,
         control
    <2>5. IsLedger(db')
      <3>1. LedgerInv'
        BY NextInv DEF IndInv
      <3>. QED
        BY <3>1 DEF LedgerInv
    <2>6. L!Sound(db'.tip) /\ Spendable(db') = L!Created(db'.tip) \ L!Consumed(db'.tip)
      BY <2>2, <2>5, LedgerIsSound
    <2>. QED
      BY <2>2, <2>6 DEF L!Next, L!Switch
  <1>. QED
    BY <1>1, <1>2, Invariance, PTL DEF Spec, StoreImplementsLedger

-----------------------------------------------------------------------------
\* The entries of StoreAt are what their definition chooses from.
LEMMA StoreAtEntries ==
    ASSUME NEW b \in Block
    PROVE  /\ \A t \in Tx : BlocksWith(b, t) # {} => StoreAt[b].pos[t] \in BlocksWith(b, t)
           /\ \A t \in Tx : BlocksWith(b, t) = {} => StoreAt[b].pos[t] = None
           /\ \A o \in OutPoint : SpendersOn(b, o) # {} => StoreAt[b].spent[o] \in SpendersOn(b, o)
           /\ \A o \in OutPoint : SpendersOn(b, o) = {} => StoreAt[b].spent[o] = None
  <1>1. /\ StoreAt[b].pos = [t \in Tx |->
                      IF BlocksWith(b, t) # {} THEN CHOOSE c \in BlocksWith(b, t) : TRUE
                                               ELSE None]
        /\ StoreAt[b].spent = [o \in OutPoint |->
                      IF SpendersOn(b, o) # {} THEN CHOOSE t \in SpendersOn(b, o) : TRUE
                                               ELSE None]
    BY DEF StoreAt
  <1>2. \A S : S # {} => (CHOOSE x \in S : TRUE) \in S
    OBVIOUS
  <1>. QED
    BY <1>1, <1>2

\* A chain has one ledger: every store that is a ledger of it agrees with
\* StoreAt, however the node came to it.
LEMMA LedgerUnique ==
    ASSUME NEW d \in Store, IsLedger(d)
    PROVE  /\ \A t \in Tx : d.pos[t] = StoreAt[d.tip].pos[t]
           /\ \A o \in OutPoint : d.spent[o] = StoreAt[d.tip].spent[o]
  <1>. DEFINE b == d.tip
  <1>1. b \in Block /\ None \notin Block
    BY TxAssumption DEF Store
  <1>2. /\ \A t \in Tx : BlocksWith(b, t) # {} => StoreAt[b].pos[t] \in BlocksWith(b, t)
        /\ \A t \in Tx : BlocksWith(b, t) = {} => StoreAt[b].pos[t] = None
        /\ \A o \in OutPoint : SpendersOn(b, o) # {} => StoreAt[b].spent[o] \in SpendersOn(b, o)
        /\ \A o \in OutPoint : SpendersOn(b, o) = {} => StoreAt[b].spent[o] = None
    BY <1>1, StoreAtEntries
  <1>3. \A t \in Tx : \A c \in BlocksWith(b, t) : d.pos[t] = c /\ c \in Block
    BY <1>1, ChainBasic DEF IsLedger, AllIndexed, BlocksWith
  <1>4. \A t \in Tx : d.pos[t] # None => d.pos[t] \in BlocksWith(b, t)
    BY DEF IsLedger, OnlyChainIndexed, BlocksWith
  <1>5. ASSUME NEW t \in Tx
        PROVE  d.pos[t] = StoreAt[b].pos[t]
    BY <1>2, <1>3, <1>4
  <1>6. ASSUME NEW o \in OutPoint
        PROVE  d.spent[o] = StoreAt[b].spent[o]
    <2>1. ASSUME NEW t \in SpendersOn(b, o)
          PROVE  d.spent[o] = t
      <3>1. t \in Tx /\ o \in Vin[t] /\ BlocksWith(b, t) # {}
        BY DEF SpendersOn
      <3>2. d.pos[t] # None
        BY <1>1, <1>3, <3>1
      <3>. QED
        BY <3>1, <3>2 DEF IsLedger, InputsSpent
    <2>2. ASSUME d.spent[o] # None
          PROVE  d.spent[o] \in SpendersOn(b, o)
      <3>1. d.spent[o] \in Tx
        BY <2>2 DEF Store
      <3>2. d.pos[d.spent[o]] # None /\ o \in Vin[d.spent[o]]
        BY <2>2 DEF IsLedger, OnlyInputsSpent
      <3>. QED
        BY <1>4, <3>1, <3>2 DEF SpendersOn
    <2>. QED
      BY <1>2, <2>1, <2>2
  <1>. QED
    BY <1>5, <1>6

\* On a ledger of the chain below it, whichever block is best, ConnectBlock
\* decides whether b connects to its own chain.
LEMMA ConnectsSame ==
    ASSUME TipIndependent, NEW d \in Store, IsLedger(d),
           NEW b \in Block, b # Genesis, Parent[b] = d.tip, NEW best \in Block
    PROVE  ConnectBlockOK(d, b, best) <=> ConnectBlockOK(StoreAt[d.tip], b, d.tip)
  <1>. DEFINE e == StoreAt[d.tip]
  <1>1. /\ \A t \in Tx : d.pos[t] = e.pos[t]
        /\ \A o \in OutPoint : d.spent[o] = e.spent[o]
    BY LedgerUnique
  <1>2. d.tip \in Block
    BY DEF Store
  <1>3. Claim[b] <= Reward[Height[best]] <=> Claim[b] <= Reward[Height[d.tip]]
    BY <1>2 DEF TipIndependent
  <1>. HIDE DEF e
  <1>4. ASSUME NEW i \in DOMAIN VTx[b]
        PROVE  /\ NoOverwrite(d, VTx[b][i]) <=> NoOverwrite(e, VTx[b][i])
               /\ ConnectInputs(d, b, i, best) <=> ConnectInputs(e, b, i, d.tip)
    <2>. DEFINE t == VTx[b][i]
    <2>1. t \in Txs(b) /\ t \in Tx
      BY TxsOfBlock
    <2>2. Outputs(t) \subseteq OutPoint
      BY <2>1 DEF OutPoint
    <2>3. NoOverwrite(d, t) <=> NoOverwrite(e, t)
      BY <1>1, <2>1, <2>2 DEF NoOverwrite
    <2>4. (t \in BadSig => Height[best] < TotalBlocksEstimate)
            <=> (t \in BadSig => Height[d.tip] < TotalBlocksEstimate)
      BY <1>2, <2>1 DEF TipIndependent
    <2>5. ASSUME NEW o \in Vin[t]
          PROVE  (FetchInput(d, b, i, o) /\ Mature(d, b, i, o) /\ Unspent(d, b, i, o))
                   <=> (FetchInput(e, b, i, o) /\ Mature(e, b, i, o) /\ Unspent(e, b, i, o))
      <3>1. o[1] \in Tx
        BY <2>1, TxAssumption
      <3>2. FetchInput(d, b, i, o) <=> FetchInput(e, b, i, o)
        BY <1>1, <3>1 DEF FetchInput
      <3>3. Mature(d, b, i, o) <=> Mature(e, b, i, o)
        BY <1>1, <3>1 DEF Mature, PosOfPrev
      <3>4. o \in OutPoint => (Unspent(d, b, i, o) <=> Unspent(e, b, i, o))
        BY <1>1 DEF Unspent
      <3>. QED
        BY <3>2, <3>3, <3>4 DEF FetchInput
    <2>. QED
      BY <2>3, <2>4, <2>5 DEF ConnectInputs
  <1>. QED
    BY <1>3, <1>4 DEF ConnectBlockOK, e

\* A block is valid when its parent is and it connects; a valid block has
\* valid ancestors only.
LEMMA ValidUnfold ==
    ASSUME NEW b \in Block
    PROVE  /\ b # Genesis => (Valid[b] <=> Valid[Parent[b]] /\ Connects(b))
           /\ \A c \in Chain[b] : Valid[b] => Valid[c]
  <1>1. \A c \in Block : Valid[c] <=> \A a \in Chain[c] \ {Genesis} : Connects(a)
    BY DEF Valid
  <1>2. b # Genesis => Parent[b] \in Block /\ Chain[b] = Chain[Parent[b]] \cup {b}
    BY ChainUnfold
  <1>3. \A c \in Chain[b] : c \in Block /\ Chain[c] \subseteq Chain[b]
    BY ChainTransitive
  <1>. QED
    BY <1>1, <1>2, <1>3

\* The last block of a valid chain can be disconnected: its inputs are in
\* the index, those of its own transactions before the ones that use them.
LEMMA DisconnectPossible ==
    ASSUME NEW d \in Store, IsLedger(d), d.tip # Genesis, Valid[d.tip]
    PROVE  DisconnectBlockOK(d, d.tip)
  <1>. DEFINE b == d.tip
              e == StoreAt[Parent[b]]
  <1>1. b \in Block /\ Parent[b] \in Block /\ b \notin Chain[Parent[b]]
        /\ Chain[b] = Chain[Parent[b]] \cup {b}
    BY ChainUnfold, ChainAcyclic DEF Store
  <1>2. ConnectBlockOK(e, b, Parent[b])
    BY <1>1, ValidUnfold DEF Connects
  <1>. SUFFICES ASSUME NEW i \in DOMAIN VTx[b], NEW o \in Vin[VTx[b][i]]
                PROVE  /\ d.pos[o[1]] # None
                       /\ \A j \in DOMAIN VTx[b] : j > i => VTx[b][j] # o[1]
                       /\ o \in OutPoint
    BY DEF DisconnectBlockOK
  <1>3. VTx[b][i] \in Txs(b) /\ VTx[b][i] \in Tx /\ o[1] \in Tx
    BY <1>1, TxsOfBlock, TxAssumption
  <1>4. d.pos[VTx[b][i]] = b /\ b # None
    BY <1>1, <1>3, TxAssumption DEF IsLedger, AllIndexed
  <1>5. d.pos[o[1]] # None /\ o \in OutPoint
    BY <1>3, <1>4 DEF IsLedger, InputsSpent
  <1>6. ASSUME NEW j \in DOMAIN VTx[b], j > i, VTx[b][j] = o[1]
        PROVE  FALSE
    <2>1. o[1] \in Txs(b) /\ d.pos[o[1]] = b
      BY <1>1, <1>6, TxsOfBlock DEF IsLedger, AllIndexed
    <2>2. Queued(b, i, o[1]) \/ e.pos[o[1]] # None
      <3>. HIDE DEF e
      <3>. QED
        BY <1>2 DEF ConnectBlockOK, ConnectInputs, FetchInput
    <2>3. CASE Queued(b, i, o[1])
      <3>1. PICK k \in 1 .. (i - 1) : VTx[b][k] = o[1]
        BY <2>3 DEF Queued
      <3>2. VTx[b] \in Seq(Tx)
        BY <1>1, TxAssumption
      <3>3. k \in DOMAIN VTx[b] /\ k # j
        BY <1>6, <3>1, <3>2
      <3>. QED
        BY <1>1, <1>6, <3>1, <3>3, TxAssumption
    <2>4. CASE e.pos[o[1]] # None
      <3>1. PICK c \in BlocksWith(Parent[b], o[1]) : TRUE
        BY <1>1, <1>3, <2>4, StoreAtEntries
      <3>2. c \in Chain[Parent[b]] \ {Genesis} /\ o[1] \in Txs(c)
        BY DEF BlocksWith
      <3>3. d.pos[o[1]] = c
        BY <1>1, <3>2 DEF IsLedger, AllIndexed
      <3>. QED
        BY <1>1, <2>1, <3>2, <3>3
    <2>. QED
      BY <2>2, <2>3, <2>4
  <1>. QED
    BY <1>5, <1>6

-----------------------------------------------------------------------------
\* SelectInv after a block has been accepted: the one block that may now be
\* better than pindexBest is the one SetBestChain is called for.
LEMMA AcceptSelects ==
    ASSUME IndInv, SelectInv, NEW b \in Block, AcceptBlock(b)
    PROVE  SelectInv'
  <1>1. /\ pc = "idle" /\ b \notin mapBlockIndex
        /\ mapBlockIndex' = mapBlockIndex \cup {b}
        /\ UNCHANGED <<pindexBest, db, fPostponedFailed>>
    BY DEF AcceptBlock
  <1>2. /\ ~fPostponedFailed /\ Valid[pindexBest]
        /\ \A c \in mapBlockIndex : Valid[c] => ChainTrust[c] <= ChainTrust[pindexBest]
    BY <1>1 DEF SelectInv
  <1>3. /\ pindexBest \in Block /\ db \in Store
        /\ ChainTrust[b] \in Nat /\ ChainTrust[pindexBest] \in Nat
    BY RecursionAssumption DEF IndInv, TypeOK
  <1>4. CASE ChainTrust[b] > ChainTrust[pindexBest]
    <2>1. /\ pindexNew' = b /\ pc' \in {"extend", "reorganize"}
          /\ pc' = "reorganize" => txn'.tip = pindexBest
      BY <1>3, <1>4, StartInv DEF AcceptBlock
    <2>. QED
      BY <1>1, <1>2, <1>4, <2>1 DEF SelectInv
  <1>5. CASE ~(ChainTrust[b] > ChainTrust[pindexBest])
    <2>1. UNCHANGED <<txn, pc, pindexNew>>
      BY <1>5 DEF AcceptBlock
    <2>2. ChainTrust[b] <= ChainTrust[pindexBest]
      BY <1>3, <1>5
    <2>. QED
      BY <1>1, <1>2, <2>1, <2>2 DEF SelectInv
  <1>. QED
    BY <1>4, <1>5

\* The block that is tried becomes the best one, or turns out invalid.
LEMMA TrialEnds ==
    ASSUME IndInv, SelectInv, pc # "idle", pc' = "idle",
           UNCHANGED <<mapBlockIndex, fPostponedFailed>>,
           \/ pindexBest' = pindexNew /\ Valid[pindexNew]
           \/ pindexBest' = pindexBest /\ ~Valid[pindexNew]
    PROVE  SelectInv'
  <1>1. /\ \A b \in mapBlockIndex : b \in Block /\ ChainTrust[b] \in Nat
        /\ ChainTrust[pindexNew] \in Nat /\ ChainTrust[pindexBest] \in Nat
    BY RecursionAssumption DEF IndInv, TypeOK
  <1>2. /\ ~fPostponedFailed /\ Valid[pindexBest]
        /\ \A b \in mapBlockIndex :
              Valid[b] /\ b # pindexNew => ChainTrust[b] <= ChainTrust[pindexBest]
        /\ ChainTrust[pindexNew] > ChainTrust[pindexBest]
    BY DEF SelectInv
  <1>3. \A b \in mapBlockIndex : Valid[b] => ChainTrust[b] <= ChainTrust[pindexBest']
    BY <1>1, <1>2
  <1>. QED
    BY <1>2, <1>3 DEF SelectInv

\* ... by SetBestChainInner on the block after the best one.
LEMMA ExtendSelects ==
    ASSUME TipIndependent, IndInv, SelectInv, ExtendOK \/ ExtendFails
    PROVE  SelectInv'
  <1>1. /\ pc = "extend" /\ pindexNew # Genesis /\ Parent[pindexNew] = pindexBest
        /\ pindexNew \in mapBlockIndex /\ pindexNew \in Block /\ db \in Store
        /\ pindexBest \in Block
    BY DEF ExtendOK, ExtendFails, IndInv, IndexInv, Running, TypeOK
  <1>2. IsLedger(db) /\ db.tip = pindexBest /\ Valid[pindexBest]
    BY <1>1 DEF IndInv, LedgerInv, SelectInv
  <1>3. CheckCoinBaseHeight(pindexNew)
    BY <1>1 DEF IndInv, IndexInv
  <1>4. Valid[pindexNew] <=> ConnectBlockOK(db, pindexNew, pindexBest)
    BY <1>1, <1>2, <1>3, ConnectsSame, ValidUnfold DEF Connects
  <1>5. CASE ExtendOK
    BY <1>1, <1>4, <1>5, TrialEnds DEF ExtendOK
  <1>6. CASE ExtendFails
    BY <1>1, <1>4, <1>6, TrialEnds DEF ExtendFails, memory
  <1>. QED
    BY <1>5, <1>6

\* What Reorganize's batch meets: a block to disconnect can be disconnected,
\* and a block to connect is connected just when it is valid.
LEMMA BatchDecides ==
    ASSUME TipIndependent, IndInv, SelectInv, pc = "reorganize"
    PROVE  /\ AboveFork => /\ DisconnectBlockOK(txn, txn.tip)
                           /\ Valid[Parent[txn.tip]]
           /\ ~AboveFork /\ txn.tip # pindexIntermediate =>
                 /\ NextConnect \in Chain[pindexNew]
                 /\ Valid[NextConnect] <=> ConnectBlockOK(txn, NextConnect, pindexBest)
  <1>1. /\ txn \in Store /\ txn.tip \in mapBlockIndex /\ txn.tip \in Block
        /\ pindexIntermediate \in Chain[pindexNew]
        /\ pindexNew \in mapBlockIndex /\ pindexNew \in Block
        /\ pindexIntermediate \in Block /\ pindexBest \in Block
    BY DEF IndInv, IndexInv, Running, TypeOK, Store
  <1>2. IsLedger(txn) /\ Valid[txn.tip]
    BY DEF IndInv, LedgerInv, SelectInv
  <1>3. ASSUME AboveFork
        PROVE  DisconnectBlockOK(txn, txn.tip) /\ Valid[Parent[txn.tip]]
    <2>1. txn.tip # Genesis
      BY <1>1, <1>3, ChainHasGenesis DEF AboveFork
    <2>. QED
      BY <1>1, <1>2, <2>1, DisconnectPossible, ValidUnfold
  <1>4. ASSUME ~AboveFork, txn.tip # pindexIntermediate
        PROVE  /\ NextConnect \in Chain[pindexNew]
               /\ Valid[NextConnect] <=> ConnectBlockOK(txn, NextConnect, pindexBest)
    <2>. DEFINE b == NextConnect
    <2>1. b \in Chain[pindexIntermediate] \ {Genesis} /\ Parent[b] = txn.tip
      BY <1>1, <1>4, ChildOnChain DEF NextConnect, AboveFork
    <2>2. b \in Chain[pindexNew] /\ b \in Block
      BY <1>1, <2>1, ChainTransitive
    <2>3. CheckCoinBaseHeight(b)
      BY <1>1, <2>1, <2>2, IndexedChain
    <2>. HIDE DEF b
    <2>. QED
      BY <1>1, <1>2, <2>1, <2>2, <2>3, ConnectsSame, ValidUnfold DEF Connects, b
  <1>. QED
    BY <1>3, <1>4

\* ... by Reorganize, which ends with the block it was called for or with
\* nothing: an intermediate block that connects is no better than pindexBest.
LEMMA ReorganizeSelects ==
    ASSUME TipIndependent, IndInv, SelectInv,
           \/ ReorganizeDisconnect \/ ReorganizeConnect
           \/ ReorganizeFails \/ ReorganizeCommit
    PROVE  SelectInv'
  <1>1. /\ pc = "reorganize" /\ txn \in Store
        /\ pindexIntermediate \in Chain[pindexNew]
        /\ pindexNew \in mapBlockIndex /\ pindexNew \in Block
    BY DEF ReorganizeDisconnect, ReorganizeConnect, ReorganizeFails,
       ReorganizeCommit, IndInv, IndexInv, Running, TypeOK
  <1>2. CASE ReorganizeDisconnect \/ ReorganizeConnect
    <2>1. UNCHANGED <<mapBlockIndex, pindexBest, pc, pindexNew, fPostponedFailed>>
      BY <1>2 DEF ReorganizeDisconnect, ReorganizeConnect, memory
    <2>2. Valid[txn'.tip]
      <3>1. CASE ReorganizeDisconnect
        BY <1>1, <3>1, BatchDecides DEF ReorganizeDisconnect, DisconnectBlock
      <3>2. CASE ReorganizeConnect
        BY <1>1, <3>2, BatchDecides DEF ReorganizeConnect, ConnectBlock
      <3>. QED
        BY <1>2, <3>1, <3>2
    <2>. QED
      BY <1>1, <2>1, <2>2 DEF SelectInv
  <1>3. CASE ReorganizeFails
    <2>1. /\ ~AboveFork /\ txn.tip # pindexIntermediate
          /\ ~ConnectBlockOK(txn, NextConnect, pindexBest)
      BY <1>1, <1>3, BatchDecides DEF ReorganizeFails
    <2>2. ~Valid[pindexNew]
      BY <1>1, <2>1, BatchDecides, ValidUnfold
    <2>. QED
      BY <1>1, <1>3, <2>2, TrialEnds DEF ReorganizeFails, memory
  <1>4. CASE ReorganizeCommit
    <2>1. /\ txn.tip = pindexIntermediate
          /\ pc' = IF pindexIntermediate = pindexNew THEN "update" ELSE "postponed"
          /\ UNCHANGED <<mapBlockIndex, pindexBest, pindexNew, fPostponedFailed>>
      BY <1>4 DEF ReorganizeCommit
    <2>2. Valid[pindexIntermediate] /\ ChainTrust[pindexNew] > ChainTrust[pindexBest]
      BY <1>1, <2>1 DEF SelectInv
    <2>3. ChainTrust[pindexIntermediate] > ChainTrust[pindexBest]
      BY <1>1, <2>2 DEF IndInv, TrustInv
    <2>4. pindexIntermediate \in mapBlockIndex
      BY <1>1, IndexedChain
    <2>5. ChainTrust[pindexIntermediate] \in Nat /\ ChainTrust[pindexBest] \in Nat
      BY RecursionAssumption DEF IndInv, TypeOK
    <2>6. pindexIntermediate = pindexNew
      <3>. SUFFICES ASSUME pindexIntermediate # pindexNew
                    PROVE  FALSE
        OBVIOUS
      <3>1. ChainTrust[pindexIntermediate] <= ChainTrust[pindexBest]
        BY <2>2, <2>4 DEF SelectInv
      <3>. QED
        BY <2>3, <2>5, <3>1
    <2>. QED
      BY <1>1, <2>1, <2>2, <2>6 DEF SelectInv
  <1>. QED
    BY <1>2, <1>3, <1>4

\* ... by the end of SetBestChain; nothing is ever postponed.
LEMMA UpdateSelects ==
    ASSUME IndInv, SelectInv, PostponedOK \/ PostponedFails \/ UpdateBest
    PROVE  SelectInv'
  <1>1. UpdateBest
    BY DEF SelectInv, PostponedOK, PostponedFails
  <1>2. pc = "update" /\ Valid[pindexNew]
    BY <1>1 DEF SelectInv, UpdateBest
  <1>. QED
    BY <1>1, <1>2, TrialEnds DEF UpdateBest

\* Together with IndInv, SelectInv is inductive for a steady node.
LEMMA SteadyStep ==
    ASSUME TipIndependent, IndInv, SelectInv, [SteadyNext]_vars
    PROVE  IndInv' /\ SelectInv'
  <1>1. [Next]_vars
    BY DEF SteadyNext, Next
  <1>2. IndInv'
    BY <1>1, NextInv
  <1>3. CASE \E b \in Block : AcceptBlock(b)
    BY <1>2, <1>3, AcceptSelects
  <1>4. CASE Handler
    BY <1>2, <1>4, ExtendSelects, ReorganizeSelects, UpdateSelects DEF Handler
  <1>5. CASE UNCHANGED vars
    BY <1>2, <1>5 DEF SelectInv, vars, memory, control
  <1>. QED
    BY <1>3, <1>4, <1>5 DEF SteadyNext

(***************************************************************************)
(* A node that runs undisturbed is between two blocks always on a valid     *)
(* block that no valid block it knows exceeds in trust, in whatever order   *)
(* the blocks came and whichever attempts failed before, provided that the  *)
(* limits ConnectBlock takes from pindexBest do not depend on it.           *)
(***************************************************************************)
THEOREM SelectionCorrect ==
    ASSUME TipIndependent
    PROVE  SteadySpec => []NoBetterValidBlock
  <1>1. Init => IndInv /\ SelectInv
    <2>. SUFFICES ASSUME Init
                  PROVE  SelectInv
      BY InitInv
    <2>1. Valid[Genesis] /\ ChainTrust[Genesis] \in Nat
      BY BlockAssumption, ChainGenesis, RecursionAssumption DEF Valid
    <2>. QED
      BY <2>1 DEF Init, SelectInv
  <1>2. IndInv /\ SelectInv /\ [SteadyNext]_vars => (IndInv /\ SelectInv)'
    BY SteadyStep
  <1>3. IndInv /\ SelectInv => NoBetterValidBlock
    BY DEF SelectInv, NoBetterValidBlock
  <1>. QED
    BY <1>1, <1>2, <1>3, PTL DEF SteadySpec

=============================================================================
