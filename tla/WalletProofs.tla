---------------------------- MODULE WalletProofs -----------------------------
(***************************************************************************)
(* Proofs about what a wallet believes, for every tree of blocks with any   *)
(* transactions in them, any wallet and any pool.  The invariant WalletInv  *)
(* says of the chain that the open batch has come to, and of the            *)
(* transactions the wallet has been told of so far, what the properties     *)
(* say of the main chain between two blocks.                                *)
(***************************************************************************)
EXTENDS Wallet, BlockTreeProofs

WalletType == [known : SUBSET Tx, spent : SUBSET Tx, hashBlock : [Tx -> Block \cup {None}]]

\* A wallet whose marks are on its own outputs.
SoundWallet(w) == w \in WalletType /\ w.spent \subseteq w.known \cap Mine

\* What AddToWalletIfInvolvingMe may change, and what it must.
LEMMA AddToWalletFacts ==
    ASSUME NEW w, SoundWallet(w), NEW t \in Tx, NEW b \in Block \cup {None}
    PROVE  LET x == AddToWallet(w, t, b)
           IN  /\ SoundWallet(x)
               /\ w.known \subseteq x.known
               /\ t \in Mine \/ Inputs[t] \cap w.known \cap Mine # {} => t \in x.known
               /\ \A u \in Tx : u # t \/ b = None => x.hashBlock[u] = w.hashBlock[u]
               /\ t \in x.known /\ b # None => x.hashBlock[t] = b
               /\ w.spent \cup (Inputs[t] \cap w.known \cap Mine)
                    \subseteq x.spent \cup (IF b = None THEN {} ELSE {t})
               /\ \A o \in x.spent \ w.spent : o \in Inputs[t] /\ t \in x.known
  <1>. DEFINE x == AddToWallet(w, t, b)
  <1>0. /\ w.known \subseteq Tx /\ w.spent \subseteq Tx /\ w.spent \subseteq w.known \cap Mine
        /\ w.hashBlock \in [Tx -> Block \cup {None}]
        /\ Inputs[t] \subseteq Tx
    BY WalletAssumption DEF SoundWallet, WalletType
  <1>1. CASE t \in w.known \cup Mine \/ IsFromMe(w, t)
    <2>1. x = [known     |-> w.known \cup {t},
               spent     |-> UpdateSpent(w, t, b),
               hashBlock |-> [w.hashBlock EXCEPT ![t] = Merge(@, b)]]
      BY <1>1 DEF AddToWallet
    <2>2. /\ x.known = w.known \cup {t}
          /\ x.spent = (w.spent \cup (Inputs[t] \cap w.known \cap Mine))
                         \ (IF b = None THEN {} ELSE {t})
          /\ x.hashBlock = [w.hashBlock EXCEPT ![t] = Merge(@, b)]
      BY <2>1 DEF UpdateSpent
    <2>3. /\ Merge(w.hashBlock[t], b) \in Block \cup {None}
          /\ b = None => Merge(w.hashBlock[t], b) = w.hashBlock[t]
          /\ b # None => Merge(w.hashBlock[t], b) = b
      BY <1>0 DEF Merge
    <2>4. /\ x.hashBlock \in [Tx -> Block \cup {None}]
          /\ \A u \in Tx : u # t \/ b = None => x.hashBlock[u] = w.hashBlock[u]
          /\ b # None => x.hashBlock[t] = b
      BY <1>0, <2>2, <2>3
    <2>5. x \in WalletType
      BY <1>0, <2>1, <2>2, <2>4 DEF WalletType
    <2>. QED
      BY <1>0, <2>2, <2>4, <2>5 DEF SoundWallet
  <1>2. CASE ~ (t \in w.known \cup Mine \/ IsFromMe(w, t))
    <2>1. x = w /\ t \notin Mine /\ t \notin w.known /\ Inputs[t] \cap w.known \cap Mine = {}
      BY <1>2 DEF AddToWallet, IsFromMe
    <2>. QED
      BY <1>0, <2>1
  <1>. QED
    BY <1>1, <1>2

\* What DisableTransaction may change for the transactions of block b.
LEMMA SyncDisconnectFacts ==
    ASSUME NEW w, SoundWallet(w), NEW b \in Block
    PROVE  LET x == SyncDisconnect(w, b)
           IN  /\ SoundWallet(x)
               /\ x.known = w.known /\ x.hashBlock = w.hashBlock
               /\ x.spent \subseteq w.spent
               /\ \A o \in w.spent \ x.spent : \E t \in Txs(b) : o \in Inputs[t]
               /\ \A o \in x.spent : \A t \in Txs(b) \cap CoinStake : o \notin Inputs[t]
  <1>. DEFINE S == {t \in Txs(b) \cap CoinStake : IsFromMe(w, t)}
              x == SyncDisconnect(w, b)
  <1>0. w \in WalletType /\ w.spent \subseteq w.known \cap Mine
    BY DEF SoundWallet
  <1>1. x = [known |-> w.known, spent |-> w.spent \ SpentBy(S), hashBlock |-> w.hashBlock]
    <2>1. x = [w EXCEPT !.spent = w.spent \ SpentBy(S)]
      BY DEF SyncDisconnect
    <2>. HIDE DEF x, S
    <2>. QED
      BY <1>0, <2>1 DEF WalletType
  <1>2. x.known = w.known /\ x.spent = w.spent \ SpentBy(S) /\ x.hashBlock = w.hashBlock
    BY <1>1
  <1>3. x \in WalletType
    BY <1>0, <1>1 DEF WalletType
  <1>4. ASSUME NEW o \in w.spent \ x.spent
        PROVE  \E t \in Txs(b) : o \in Inputs[t]
    BY <1>2 DEF SpentBy
  <1>5. ASSUME NEW o \in x.spent, NEW t \in Txs(b) \cap CoinStake, o \in Inputs[t]
        PROVE  FALSE
    <2>1. IsFromMe(w, t)
      BY <1>0, <1>2, <1>5 DEF IsFromMe
    <2>. QED
      BY <1>2, <1>5, <2>1 DEF SpentBy
  <1>. QED
    BY <1>0, <1>2, <1>3, <1>4, <1>5 DEF SoundWallet

-----------------------------------------------------------------------------
\* Initially.
LEMMA WalletInitInv == WalletInit => WalletInv
  <1>. SUFFICES ASSUME WalletInit
                PROVE  WalletInv
    OBVIOUS
  <1>1. /\ Chain[Genesis] = {Genesis} /\ VTx[Genesis] = << >> /\ Genesis \in Block
        /\ Genesis \notin Invalid /\ None \notin Block
    BY ChainGenesis, BlockAssumption, WalletAssumption
  <1>2. WalletTypeOK
    <2>1. wallet \in WalletType /\ wallet.spent = {}
      BY DEF WalletInit, WalletType
    <2>2. iTx \in 0 .. Len(VTx[tip])
      BY <1>1 DEF WalletInit
    <2>3. ClosedUnderParent(index)
      BY DEF WalletInit, ClosedUnderParent
    <2>. QED
      BY <1>1, <2>1, <2>2, <2>3 DEF WalletInit, WalletTypeOK, WalletType
  <1>3. BatchInv
    BY <1>1 DEF WalletInit, BatchInv, Idle, AllTold
  <1>4. \A c \in Block : \A i \in DOMAIN VTx[c] : ~ HasHeard(c, i)
    BY <1>1 DEF WalletInit, HasHeard
  <1>. QED
    BY <1>2, <1>3, <1>4 DEF WalletInit, WalletInv, HeardKnown, HeardMarked, MarkedForCause

\* The next block of the branch hangs on the chain the batch has come to.
LEMMA ConnectBlockFacts ==
    ASSUME WalletInv, ConnectBlock
    PROVE  LET b == ChildOn(tip, pindexNew)
           IN  /\ b \in Chain[pindexNew] \ {Genesis} /\ b \in Block /\ Parent[b] = tip
               /\ Chain[b] = Chain[tip] \cup {b} /\ b \notin Chain[tip]
               /\ Extends(pindexNew) => b = pindexNew /\ tip = best
  <1>. DEFINE b == ChildOn(tip, pindexNew)
  <1>1. /\ pindexNew \in index /\ pindexNew \in Block /\ tip \in Chain[pindexNew] /\ tip # pindexNew
        /\ pindexNew # Genesis
        /\ Extends(pindexNew) => tip = best
    BY DEF WalletInv, WalletTypeOK, BatchInv, ConnectBlock, Idle
  <1>2. /\ b \in Chain[pindexNew] \ {Genesis} /\ Parent[b] = tip
        /\ \A c \in Chain[pindexNew] \ {Genesis} : Parent[c] = tip => c = b
    BY <1>1, ChildOnChain
  <1>3. b \in Block /\ pindexNew \in Chain[pindexNew]
    BY <1>1, <1>2, ChainBasic
  <1>4. Chain[b] = Chain[tip] \cup {b} /\ b \notin Chain[tip]
    BY <1>2, <1>3, ChainUnfold, ChainAcyclic
  <1>5. Extends(pindexNew) => b = pindexNew
    BY <1>1, <1>2, <1>3 DEF Extends
  <1>. QED
    BY <1>1, <1>2, <1>3, <1>4, <1>5

\* A disconnected block is not the genesis block.
LEMMA DisconnectBlockFacts ==
    ASSUME WalletInv, DisconnectBlock
    PROVE  /\ tip \in Block \ {Genesis} /\ pindexNew \in Block
           /\ Parent[tip] \in Block
           /\ Chain[tip] = Chain[Parent[tip]] \cup {tip} /\ tip \notin Chain[Parent[tip]]
  <1>1. tip \in Block /\ pindexNew \in Block /\ tip \notin Chain[pindexNew]
    BY DEF WalletInv, WalletTypeOK, DisconnectBlock, Idle
  <1>2. tip # Genesis
    BY <1>1, ChainHasGenesis
  <1>. QED
    BY <1>1, <1>2, ChainUnfold, ChainAcyclic

-----------------------------------------------------------------------------
\* Types: the wallet is sound after every step that changes it.
LEMMA SoundKept ==
    ASSUME WalletInv, [WalletNext]_wvars
    PROVE  SoundWallet(wallet')
  <1>0. SoundWallet(wallet) /\ tip \in Block /\ iTx \in 0 .. Len(VTx[tip])
    BY DEF WalletInv, WalletTypeOK, SoundWallet, WalletType
  <1>1. CASE UNCHANGED wallet
    BY <1>0, <1>1
  <1>2. CASE DisconnectBlock
    BY <1>0, <1>2, SyncDisconnectFacts DEF DisconnectBlock
  <1>3. CASE SyncWithWallets
    <2>1. VTx[tip] \in Seq(Tx) /\ iTx + 1 \in DOMAIN VTx[tip]
      BY <1>0, <1>3, WalletAssumption DEF SyncWithWallets, AllTold
    <2>. QED
      BY <1>0, <1>3, <2>1, AddToWalletFacts DEF SyncWithWallets
  <1>4. ASSUME NEW t \in Tx, wallet' = AddToWallet(wallet, t, None)
        PROVE  SoundWallet(wallet')
    BY <1>0, <1>4, AddToWalletFacts
  <1>5. CASE FixSpentCoins
    <2>1. wallet' = [wallet EXCEPT !.spent =
                       (wallet.spent \ ChainTx(best)) \cup
                       (SpentBy(ChainTx(best)) \cap ChainTx(best) \cap wallet.known \cap Mine)]
      BY <1>5 DEF FixSpentCoins
    <2>. QED
      BY <1>0, <2>1 DEF SoundWallet, WalletType
  <1>. QED
    BY <1>1, <1>2, <1>3, <1>4, <1>5
       DEF WalletNext, ChainStep, wvars, AcceptBlock, ConnectBlock, Commit, ReceiveTx, CommitTransaction

\* Types: the chain, the batch and the pool.
LEMMA TypeKept ==
    ASSUME WalletInv, [WalletNext]_wvars
    PROVE  WalletTypeOK'
  <1>0. /\ WalletTypeOK /\ SoundWallet(wallet') /\ index \subseteq Block
        /\ VTx \in [Block -> Seq(Tx)]
    BY SoundKept, WalletAssumption DEF WalletInv, WalletTypeOK
  <1>w. wallet' \in [known : SUBSET Tx, spent : SUBSET Tx, hashBlock : [Tx -> Block \cup {None}]]
        /\ wallet'.spent \subseteq wallet'.known \cap Mine
    BY <1>0 DEF SoundWallet, WalletType
  <1>l. \A b \in Block : Len(VTx[b]) \in Nat /\ Len(VTx[b]) \in 0 .. Len(VTx[b]) /\ 0 \in 0 .. Len(VTx[b])
    BY <1>0
  <1>1. ASSUME NEW b \in Block \ {Genesis}, AcceptBlock(b)
        PROVE  WalletTypeOK'
    <2>1. ClosedUnderParent(index')
      BY <1>0, <1>1 DEF AcceptBlock, WalletTypeOK, ClosedUnderParent
    <2>. QED
      BY <1>0, <1>w, <1>1, <2>1 DEF AcceptBlock, WalletTypeOK, poolVars
  <1>2. CASE DisconnectBlock
    <2>1. Parent[tip] \in index /\ Parent[tip] \in Block
      BY <1>0, <1>2, DisconnectBlockFacts DEF WalletTypeOK, ClosedUnderParent
    <2>. QED
      BY <1>0, <1>w, <1>l, <1>2, <2>1 DEF DisconnectBlock, WalletTypeOK, poolVars, ClosedUnderParent
  <1>3. CASE ConnectBlock
    <2>1. Chain[pindexNew] \subseteq index /\ ChildOn(tip, pindexNew) \in Chain[pindexNew]
      <3>1. pindexNew \in index /\ pindexNew \in Block /\ index \in SUBSET Block
        BY <1>0, <1>3 DEF ConnectBlock, Idle, WalletTypeOK
      <3>. QED
        BY <1>0, <1>3, <3>1, ChainLeast, ConnectBlockFacts DEF WalletTypeOK
    <2>. QED
      BY <1>0, <1>w, <1>l, <1>3, <2>1 DEF ConnectBlock, WalletTypeOK, poolVars, ClosedUnderParent
  <1>4. CASE SyncWithWallets
    <2>1. iTx' \in 0 .. Len(VTx[tip'])
      BY <1>0, <1>l, <1>4 DEF SyncWithWallets, AllTold, WalletTypeOK
    <2>. QED
      BY <1>0, <1>w, <1>4, <2>1 DEF SyncWithWallets, WalletTypeOK, poolVars, ClosedUnderParent
  <1>5. CASE Commit
    <2>1. pool' \subseteq Tx \ BlockOnly
      <3>. DEFINE D == UNION {Txs(c) : c \in Chain[best] \ Chain[pindexNew]}
      <3>1. /\ best \in Block /\ pool \subseteq Tx \ BlockOnly
            /\ pool' = PoolAfter(pindexNew)
        BY <1>0, <1>5 DEF Commit, WalletTypeOK
      <3>2. D \subseteq Tx
        BY <1>0, <3>1, ChainBasic DEF Txs
      <3>3. Resurrect(pool, D) \subseteq Tx \ BlockOnly
        BY <3>1, <3>2 DEF Resurrect
      <3>. QED
        BY <3>1, <3>3 DEF PoolAfter, removeConflicts
    <2>. QED
      BY <1>0, <1>w, <1>5, <2>1 DEF Commit, WalletTypeOK, Idle, ClosedUnderParent
  <1>6. ASSUME NEW t \in Tx, ReceiveTx(t)
        PROVE  WalletTypeOK'
    <2>1. pool' \subseteq Tx \ BlockOnly
      BY <1>0, <1>6, WalletAssumption DEF ReceiveTx, WalletTypeOK, Accepted, Accepts, Refused
    <2>2. orphans' \subseteq Late
      BY <1>0, <1>6 DEF ReceiveTx, WalletTypeOK
    <2>. QED
      BY <1>0, <1>w, <1>6, <2>1, <2>2 DEF ReceiveTx, WalletTypeOK, chainVars, ClosedUnderParent
  <1>7. ASSUME NEW t \in Tx, CommitTransaction(t)
        PROVE  WalletTypeOK'
    <2>1. pool' \subseteq Tx \ BlockOnly /\ failedCommit' \in BOOLEAN
      BY <1>0, <1>7, WalletAssumption DEF CommitTransaction, WalletTypeOK
    <2>. QED
      BY <1>0, <1>w, <1>7, <2>1 DEF CommitTransaction, WalletTypeOK, chainVars, ClosedUnderParent
  <1>8. CASE FixSpentCoins
    BY <1>0, <1>w, <1>8 DEF FixSpentCoins, WalletTypeOK, chainVars, poolVars, ClosedUnderParent
  <1>9. CASE UNCHANGED wvars
    BY <1>0, <1>9 DEF WalletTypeOK, wvars, chainVars, poolVars, ClosedUnderParent
  <1>. QED
    BY <1>1, <1>2, <1>3, <1>4, <1>5, <1>6, <1>7, <1>8, <1>9 DEF WalletNext, ChainStep

\* The batch: what it has connected is valid, and it is back at the best chain.
LEMMA BatchKept ==
    ASSUME WalletInv, [WalletNext]_wvars
    PROVE  BatchInv'
  <1>0. /\ BatchInv /\ index \subseteq Block /\ best \in index /\ tip \in index
        /\ pindexNew \in index \cup {None} /\ None \notin Block
    BY WalletAssumption DEF WalletInv, WalletTypeOK
  <1>1. ASSUME NEW b \in Block \ {Genesis}, AcceptBlock(b)
        PROVE  BatchInv'
    BY <1>0, <1>1 DEF AcceptBlock, BatchInv, Idle, AllTold, Extends
  <1>2. CASE DisconnectBlock
    <2>1. /\ Chain[Parent[tip]] \cap Invalid = {}
          /\ ~ Extends(pindexNew)
      <3>1. Chain[Parent[tip]] \subseteq Chain[tip] /\ pindexNew \in Block /\ tip \notin Chain[pindexNew]
        BY <1>2, DisconnectBlockFacts DEF DisconnectBlock
      <3>2. Extends(pindexNew) => best \in Chain[pindexNew] /\ pindexNew \in Chain[pindexNew]
        BY <1>0, <1>2, <3>1, ChainBasic DEF Extends, BatchInv, ClosedUnderParent, DisconnectBlock
      <3>. QED
        BY <1>0, <1>2, <3>1, <3>2 DEF BatchInv, DisconnectBlock
    <2>. QED
      BY <1>0, <1>2, <2>1 DEF DisconnectBlock, BatchInv, Idle, Extends, AllTold
  <1>3. CASE ConnectBlock
    BY <1>0, <1>3, ConnectBlockFacts DEF ConnectBlock, BatchInv, Idle, Extends, AllTold
  <1>4. CASE SyncWithWallets
    BY <1>0, <1>4 DEF SyncWithWallets, BatchInv, Idle, Extends, AllTold
  <1>5. CASE Commit
    BY <1>0, <1>5 DEF Commit, BatchInv, Idle, Extends, AllTold
  <1>6. CASE UNCHANGED chainVars
    BY <1>0, <1>6 DEF chainVars, BatchInv, Idle, Extends, AllTold
  <1>. QED
    BY <1>1, <1>2, <1>3, <1>4, <1>5, <1>6
       DEF WalletNext, ChainStep, wvars, ReceiveTx, CommitTransaction, FixSpentCoins

-----------------------------------------------------------------------------
\* What the wallet has heard: a block that is connected adds nothing yet, and
\* one that is refused on top of the best chain takes nothing away.
LEMMA HeardSame ==
    ASSUME WalletInv, ConnectBlock \/ UNCHANGED <<tip, iTx>>, ~ failedReorganize',
           NEW c \in Block, NEW i \in DOMAIN VTx[c]
    PROVE  HasHeard(c, i)' <=> HasHeard(c, i)
  <1>1. CASE UNCHANGED <<tip, iTx>>
    BY <1>1 DEF HasHeard
  <1>2. CASE ConnectBlock
    <2>. DEFINE b == ChildOn(tip, pindexNew)
    <2>0. /\ b \in Block /\ Chain[b] = Chain[tip] \cup {b} /\ b \notin Chain[tip]
          /\ Extends(pindexNew) => tip = best
          /\ tip \in Chain[tip]
      BY <1>2, ConnectBlockFacts, ChainBasic DEF WalletInv, WalletTypeOK
    <2>. HIDE DEF b
    <2>1. i \in Nat /\ i >= 1 /\ i <= Len(VTx[c]) /\ iTx = Len(VTx[tip])
      BY <1>2, WalletAssumption DEF ConnectBlock, AllTold
    <2>2. CASE b \in Invalid
      BY <1>2, <2>0, <2>1, <2>2 DEF ConnectBlock, HasHeard, b
    <2>3. CASE b \notin Invalid
      <3>1. tip' = b /\ iTx' = 0
        BY <1>2, <2>3 DEF ConnectBlock, b
      <3>. QED
        BY <2>0, <2>1, <3>1 DEF HasHeard
    <2>. QED
      BY <2>2, <2>3
  <1>. QED
    BY <1>1, <1>2

\* A disconnected block is forgotten.
LEMMA HeardLess ==
    ASSUME WalletInv, DisconnectBlock, NEW c \in Block, NEW i \in DOMAIN VTx[c]
    PROVE  HasHeard(c, i)' <=> HasHeard(c, i) /\ c # tip
  <1>1. /\ Chain[tip] = Chain[Parent[tip]] \cup {tip} /\ tip \notin Chain[Parent[tip]]
        /\ tip' = Parent[tip] /\ iTx' = Len(VTx[Parent[tip]]) /\ Parent[tip] \in Block
    BY DisconnectBlockFacts DEF DisconnectBlock
  <1>2. i <= Len(VTx[c])
    BY WalletAssumption
  <1>. QED
    BY <1>1, <1>2 DEF HasHeard

\* SyncWithWallets adds the next transaction of the connected block.
LEMMA HeardMore ==
    ASSUME WalletInv, SyncWithWallets
    PROVE  /\ tip \in Block /\ iTx + 1 \in DOMAIN VTx[tip] /\ VTx[tip][iTx + 1] \in Tx
           /\ ~ HasHeard(tip, iTx + 1)
           /\ \A c \in Block : \A i \in DOMAIN VTx[c] :
                 HasHeard(c, i)' <=> HasHeard(c, i) \/ (c = tip /\ i = iTx + 1)
  <1>1. /\ tip \in Block /\ iTx \in 0 .. Len(VTx[tip]) /\ iTx # Len(VTx[tip])
        /\ tip' = tip /\ iTx' = iTx + 1 /\ VTx \in [Block -> Seq(Tx)] /\ tip \in Chain[tip]
    BY WalletAssumption, ChainBasic DEF WalletInv, WalletTypeOK, SyncWithWallets, AllTold
  <1>2. iTx + 1 \in DOMAIN VTx[tip] /\ VTx[tip][iTx + 1] \in Tx
    BY <1>1
  <1>3. ASSUME NEW c \in Block, NEW i \in DOMAIN VTx[c]
        PROVE  HasHeard(c, i)' <=> HasHeard(c, i) \/ (c = tip /\ i = iTx + 1)
    <2>1. i \in Nat
      BY <1>1
    <2>. QED
      BY <1>1, <2>1 DEF HasHeard
  <1>. QED
    BY <1>1, <1>2, <1>3 DEF HasHeard

\* On the chain of the batch a transaction is met once, spends what no other
\* one spends, and what it spends is there before it.
LEMMA TipChain ==
    ASSUME WalletInv, NEW c \in Chain[tip], NEW i \in DOMAIN VTx[c]
    PROVE  /\ \A d \in Chain[tip] : \A j \in DOMAIN VTx[d] :
                 VTx[c][i] = VTx[d][j] \/ Inputs[VTx[c][i]] \cap Inputs[VTx[d][j]] # {}
                 => c = d /\ i = j
           /\ \A o \in Inputs[VTx[c][i]] :
                 \E d \in Chain[c] : \E j \in DOMAIN VTx[d] :
                     d \in Chain[tip] /\ VTx[d][j] = o /\ (d = c => j < i)
           /\ VTx[c][i] \in Tx /\ c \in Block
  <1>1. tip \in Block /\ Chain[tip] \cap Invalid = {}
    BY DEF WalletInv, WalletTypeOK, BatchInv
  <1>2. c \in Block /\ Chain[c] \subseteq Chain[tip]
    BY <1>1, ChainTransitive
  <1>3. /\ \A d \in Chain[tip] : \A j \in DOMAIN VTx[d] :
              VTx[c][i] = VTx[d][j] \/ Inputs[VTx[c][i]] \cap Inputs[VTx[d][j]] # {}
              => c = d /\ i = j
        /\ \A o \in Inputs[VTx[c][i]] :
              \E d \in Chain[c] : \E j \in DOMAIN VTx[d] : VTx[d][j] = o /\ (d = c => j < i)
    <2>. DEFINE Once(e, x, k) ==
                  /\ \A d \in Chain[e] : \A j \in DOMAIN VTx[d] :
                        VTx[x][k] = VTx[d][j] \/ Inputs[VTx[x][k]] \cap Inputs[VTx[d][j]] # {}
                        => x = d /\ k = j
                  /\ \A o \in Inputs[VTx[x][k]] :
                        \E d \in Chain[x] : \E j \in DOMAIN VTx[d] :
                            VTx[d][j] = o /\ (d = x => j < k)
    <2>1. \A e \in Block : Chain[e] \cap Invalid = {} =>
             \A x \in Chain[e] : \A k \in DOMAIN VTx[x] : Once(e, x, k)
      BY ConnectedAssumption
    <2>. HIDE DEF Once
    <2>2. Once(tip, c, i)
      BY <1>1, <2>1
    <2>. QED
      BY <2>2 DEF Once
  <1>4. VTx[c][i] \in Tx
    BY <1>2, WalletAssumption
  <1>. QED
    BY <1>2, <1>3, <1>4, Zenon

\* What a transaction the wallet hears of next spends, it has heard of before.
LEMMA InputsHeard ==
    ASSUME WalletInv, SyncWithWallets, NEW o \in Inputs[VTx[tip][iTx + 1]]
    PROVE  \E d \in Block : \E j \in DOMAIN VTx[d] : HasHeard(d, j) /\ VTx[d][j] = o
  <1>1. tip \in Block /\ iTx + 1 \in DOMAIN VTx[tip] /\ tip \in Chain[tip] /\ iTx \in Nat
    BY HeardMore, ChainBasic DEF WalletInv, WalletTypeOK
  <1>2. PICK d \in Chain[tip] : \E j \in DOMAIN VTx[d] : VTx[d][j] = o /\ (d = tip => j < iTx + 1)
    BY <1>1, TipChain
  <1>3. PICK j \in DOMAIN VTx[d] : VTx[d][j] = o /\ (d = tip => j < iTx + 1)
    BY <1>2
  <1>4. d \in Block /\ j \in Nat
    BY <1>1, ChainBasic, WalletAssumption
  <1>. QED
    BY <1>1, <1>3, <1>4 DEF HasHeard

\* Which transactions of the pool the wallet may hear of.
LEMMA PoolTx ==
    ASSUME NEW t \in Tx, ReceiveTx(t) \/ CommitTransaction(t)
    PROVE  /\ wallet' = wallet \/ (t \notin CoinStake /\ wallet' = AddToWallet(wallet, t, None))
           /\ UNCHANGED <<tip, iTx, failedReorganize, raced>>
  BY WalletAssumption DEF ReceiveTx, CommitTransaction, chainVars, Accepts, Refused

-----------------------------------------------------------------------------
\* Of what it has heard, the wallet knows what concerns it, and in which block.
LEMMA HeardKnownKept ==
    ASSUME WalletInv, [WalletNext]_wvars
    PROVE  HeardKnown'
  <1>. SUFFICES ASSUME ~ failedReorganize', NEW c \in Block, NEW i \in DOMAIN VTx[c],
                       HasHeard(c, i)', VTx[c][i] \in Mine \/ Inputs[VTx[c][i]] \cap Mine # {}
                PROVE  VTx[c][i] \in wallet'.known /\ wallet'.hashBlock[VTx[c][i]] = c
    BY DEF HeardKnown
  <1>0. /\ ~ failedReorganize
        /\ SoundWallet(wallet) /\ VTx[c][i] \in Tx
    <2>1. ~ failedReorganize
      BY DEF WalletNext, ChainStep, wvars, chainVars, AcceptBlock, DisconnectBlock, ConnectBlock,
             SyncWithWallets, Commit, ReceiveTx, CommitTransaction, FixSpentCoins
    <2>. QED
      BY <2>1, WalletAssumption DEF WalletInv, WalletTypeOK, SoundWallet, WalletType
  <1>1. HasHeard(c, i) => VTx[c][i] \in wallet.known /\ wallet.hashBlock[VTx[c][i]] = c
    BY <1>0 DEF WalletInv, HeardKnown
  <1>2. CASE (ConnectBlock \/ UNCHANGED <<tip, iTx>>) /\ wallet' = wallet
    BY <1>1, <1>2, HeardSame
  <1>3. CASE DisconnectBlock
    <2>1. wallet'.known = wallet.known /\ wallet'.hashBlock = wallet.hashBlock
      BY <1>0, <1>3, DisconnectBlockFacts, SyncDisconnectFacts DEF DisconnectBlock
    <2>. QED
      BY <1>1, <1>3, <2>1, HeardLess
  <1>4. CASE SyncWithWallets
    <2>. DEFINE t == VTx[tip][iTx + 1]
    <2>0. tip \in Block /\ tip # None /\ iTx + 1 \in DOMAIN VTx[tip] /\ t \in Tx
      BY <1>4, HeardMore, WalletAssumption
    <2>1. /\ wallet.known \subseteq wallet'.known
          /\ t \in Mine \/ Inputs[t] \cap wallet.known \cap Mine # {} => t \in wallet'.known
          /\ \A u \in Tx : u # t => wallet'.hashBlock[u] = wallet.hashBlock[u]
          /\ t \in wallet'.known => wallet'.hashBlock[t] = tip
      <3>1. wallet' = AddToWallet(wallet, t, tip)
        BY <1>4 DEF SyncWithWallets
      <3>. HIDE DEF t
      <3>. QED
        BY <1>0, <2>0, <3>1, AddToWalletFacts
    <2>2. CASE HasHeard(c, i)
      <3>1. VTx[c][i] # t
        <4>1. c \in Chain[tip] /\ tip \in Chain[tip]
          BY <2>0, <2>2, ChainBasic DEF HasHeard
        <4>2. VTx[c][i] = t => c = tip /\ i = iTx + 1
          BY <2>0, <4>1, TipChain
        <4>. QED
          BY <1>4, <2>2, <4>2, HeardMore
      <3>. QED
        BY <1>0, <1>1, <2>1, <2>2, <3>1
    <2>3. CASE c = tip /\ i = iTx + 1
      <3>1. Inputs[t] \cap Mine \subseteq wallet.known
        <4>. SUFFICES ASSUME NEW o \in Inputs[t], o \in Mine
                      PROVE  o \in wallet.known
          OBVIOUS
        <4>1. PICK d \in Block : \E j \in DOMAIN VTx[d] : HasHeard(d, j) /\ VTx[d][j] = o
          BY <1>4, InputsHeard
        <4>. QED
          BY <1>0, <4>1 DEF WalletInv, HeardKnown
      <3>. QED
        BY <2>1, <2>3, <3>1
    <2>. QED
      BY <1>4, <2>2, <2>3, HeardMore
  <1>5. ASSUME NEW t \in Tx, ReceiveTx(t) \/ CommitTransaction(t)
        PROVE  VTx[c][i] \in wallet'.known /\ wallet'.hashBlock[VTx[c][i]] = c
    <2>1. HasHeard(c, i) /\ UNCHANGED <<tip, iTx>>
      BY <1>5, PoolTx, HeardSame
    <2>2. CASE wallet' = wallet
      BY <1>1, <2>1, <2>2
    <2>3. CASE wallet' = AddToWallet(wallet, t, None)
      BY <1>0, <1>1, <2>1, <2>3, AddToWalletFacts
    <2>. QED
      BY <1>5, <2>2, <2>3, PoolTx
  <1>6. CASE FixSpentCoins
    <2>1. wallet'.known = wallet.known /\ wallet'.hashBlock = wallet.hashBlock
      BY <1>0, <1>6 DEF FixSpentCoins, SoundWallet, WalletType
    <2>. QED
      BY <1>1, <1>6, <2>1, HeardSame DEF FixSpentCoins, chainVars
  <1>. QED
    BY <1>2, <1>3, <1>4, <1>5, <1>6
       DEF WalletNext, ChainStep, wvars, chainVars, AcceptBlock, ConnectBlock, Commit

\* With neither a failure nor a race after the step there was none before it,
\* and then the wallet knows everything of its own that it has heard of.
LEMMA Untroubled ==
    ASSUME WalletInv, [WalletNext]_wvars, ~ failedReorganize', ~ raced'
    PROVE  /\ ~ failedReorganize /\ ~ raced /\ SoundWallet(wallet)
           /\ HeardKnown /\ HeardMarked /\ MarkedForCause
  <1>1. ~ failedReorganize
    BY DEF WalletNext, ChainStep, wvars, chainVars, AcceptBlock, DisconnectBlock, ConnectBlock,
           SyncWithWallets, Commit, ReceiveTx, CommitTransaction, FixSpentCoins
  <1>2. ~ raced
    <2>1. CASE FixSpentCoins
      BY <2>1 DEF FixSpentCoins
    <2>2. CASE raced' = raced
      BY <2>2
    <2>. QED
      BY <2>1, <2>2
         DEF WalletNext, ChainStep, wvars, AcceptBlock, DisconnectBlock, ConnectBlock,
             SyncWithWallets, Commit, ReceiveTx, CommitTransaction
  <1>. QED
    BY <1>1, <1>2 DEF WalletInv, WalletTypeOK, SoundWallet, WalletType

\* Between two blocks the wallet has heard of the main chain.
LEMMA HeardWhenIdle ==
    ASSUME WalletInv, Idle, NEW t
    PROVE  t \in ChainTx(best) <=>
               \E c \in Chain[best] : \E i \in DOMAIN VTx[c] :
                   c \in Block /\ HasHeard(c, i) /\ VTx[c][i] = t
  <1>1. tip = best /\ iTx = Len(VTx[tip]) /\ best \in Block
    BY DEF WalletInv, BatchInv, WalletTypeOK, AllTold
  <1>2. ASSUME NEW c \in Chain[best], NEW i \in DOMAIN VTx[c]
        PROVE  c \in Block /\ HasHeard(c, i)
    <2>1. c \in Block /\ i <= Len(VTx[c])
      BY <1>1, ChainBasic, WalletAssumption
    <2>. QED
      BY <1>1, <2>1 DEF HasHeard
  <1>. QED
    BY <1>2 DEF ChainTx, Txs

\* repairwallet between two blocks looks at the very chain the wallet has
\* heard of.
LEMMA RepairWhenIdle ==
    ASSUME WalletInv, FixSpentCoins, ~ raced'
    PROVE  /\ Idle /\ UNCHANGED <<tip, iTx>>
           /\ \A o : o \in ChainTx(best) <=>
                 \E c \in Block : \E i \in DOMAIN VTx[c] : HasHeard(c, i) /\ VTx[c][i] = o
           /\ wallet'.known = wallet.known
           /\ wallet'.spent = (wallet.spent \ ChainTx(best)) \cup
                  (SpentBy(ChainTx(best)) \cap ChainTx(best) \cap wallet.known \cap Mine)
  <1>1. Idle /\ UNCHANGED <<tip, iTx>>
    BY DEF FixSpentCoins, chainVars
  <1>2. tip = best
    BY <1>1 DEF WalletInv, BatchInv
  <1>3. \A o : o \in ChainTx(best) <=>
           \E c \in Block : \E i \in DOMAIN VTx[c] : HasHeard(c, i) /\ VTx[c][i] = o
    BY <1>1, <1>2, HeardWhenIdle DEF HasHeard
  <1>4. /\ wallet'.known = wallet.known
        /\ wallet'.spent = (wallet.spent \ ChainTx(best)) \cup
              (SpentBy(ChainTx(best)) \cap ChainTx(best) \cap wallet.known \cap Mine)
    <2>1. wallet \in WalletType
      BY DEF WalletInv, WalletTypeOK, WalletType
    <2>. QED
      BY <2>1 DEF FixSpentCoins, WalletType
  <1>. QED
    BY <1>1, <1>3, <1>4

\* The outputs of the wallet that what it has heard of spends are marked.
LEMMA HeardMarkedKept ==
    ASSUME WalletInv, [WalletNext]_wvars
    PROVE  HeardMarked'
  <1>. SUFFICES ASSUME ~ failedReorganize', ~ raced', NEW c \in Block, NEW i \in DOMAIN VTx[c],
                       HasHeard(c, i)', NEW o \in Inputs[VTx[c][i]], o \in Mine
                PROVE  o \in wallet'.spent
    BY DEF HeardMarked
  <1>0. /\ ~ failedReorganize /\ ~ raced /\ SoundWallet(wallet)
        /\ HeardKnown /\ HeardMarked
    BY Untroubled
  <1>1. HasHeard(c, i) => o \in wallet.spent
    BY <1>0 DEF HeardMarked
  <1>2. CASE (ConnectBlock \/ UNCHANGED <<tip, iTx>>) /\ wallet' = wallet
    BY <1>1, <1>2, HeardSame
  <1>3. CASE DisconnectBlock
    <2>1. tip \in Block /\ wallet' = SyncDisconnect(wallet, tip) /\ HasHeard(c, i) /\ c # tip
      BY <1>3, HeardLess, DisconnectBlockFacts DEF DisconnectBlock
    <2>2. ASSUME NEW t \in Txs(tip), o \in Inputs[t]
          PROVE  FALSE
      <3>1. PICK j \in DOMAIN VTx[tip] : t = VTx[tip][j]
        BY DEF Txs
      <3>2. c \in Chain[tip] /\ tip \in Chain[tip]
        BY <2>1, ChainBasic DEF HasHeard
      <3>3. Inputs[VTx[c][i]] \cap Inputs[VTx[tip][j]] # {}
        BY <2>2, <3>1
      <3>. QED
        BY <2>1, <3>2, <3>3, TipChain
    <2>. QED
      BY <1>0, <1>1, <2>1, <2>2, SyncDisconnectFacts
  <1>4. CASE SyncWithWallets
    <2>. DEFINE t == VTx[tip][iTx + 1]
    <2>0. /\ tip \in Block /\ tip # None /\ iTx + 1 \in DOMAIN VTx[tip] /\ t \in Tx
          /\ tip \in Chain[tip]
      BY <1>4, HeardMore, WalletAssumption, ChainBasic
    <2>1. wallet.spent \cup (Inputs[t] \cap wallet.known \cap Mine) \subseteq wallet'.spent \cup {t}
      <3>1. wallet' = AddToWallet(wallet, t, tip)
        BY <1>4 DEF SyncWithWallets
      <3>. HIDE DEF t
      <3>. QED
        BY <1>0, <2>0, <3>1, AddToWalletFacts
    <2>2. c \in Chain[tip] /\ (HasHeard(c, i) \/ (c = tip /\ i = iTx + 1))
      BY <1>4, <2>0, HeardMore DEF HasHeard
    <2>3. PICK d \in Chain[c] : \E j \in DOMAIN VTx[d] :
             d \in Chain[tip] /\ VTx[d][j] = o /\ (d = c => j < i)
      BY <2>2, TipChain
    <2>4. PICK j \in DOMAIN VTx[d] : d \in Chain[tip] /\ VTx[d][j] = o /\ (d = c => j < i)
      BY <2>3
    <2>5. o # t
      <3>. SUFFICES ASSUME o = t
                    PROVE  FALSE
        OBVIOUS
      <3>1. d = tip /\ j = iTx + 1
        BY <2>0, <2>4, TipChain
      <3>2. c = tip
        <4>1. c \in Block /\ tip \in Chain[c]
          BY <2>0, <2>2, <2>3, <3>1, ChainBasic
        <4>2. c # tip => Height[c] < Height[tip] /\ Height[tip] < Height[c]
          BY <2>0, <2>2, <4>1, ChainHeight
        <4>. QED
          BY <2>0, <4>1, <4>2, RecursionAssumption
      <3>3. i \in Nat /\ iTx \in Nat /\ i <= iTx + 1
        BY <2>0, <2>2, <3>2, WalletAssumption DEF HasHeard, WalletInv, WalletTypeOK
      <3>. QED
        BY <2>4, <3>1, <3>2, <3>3
    <2>6. CASE HasHeard(c, i)
      BY <1>1, <2>1, <2>5, <2>6
    <2>7. CASE c = tip /\ i = iTx + 1
      <3>1. PICK e \in Block : \E k \in DOMAIN VTx[e] : HasHeard(e, k) /\ VTx[e][k] = o
        BY <1>4, <2>7, InputsHeard
      <3>2. o \in wallet.known
        BY <1>0, <3>1 DEF HeardKnown
      <3>. QED
        BY <2>1, <2>5, <2>7, <3>2
    <2>. QED
      BY <2>2, <2>6, <2>7
  <1>5. ASSUME NEW t \in Tx, ReceiveTx(t) \/ CommitTransaction(t)
        PROVE  o \in wallet'.spent
    <2>1. HasHeard(c, i)
      BY <1>5, PoolTx, HeardSame
    <2>2. CASE wallet' = wallet
      BY <1>1, <2>1, <2>2
    <2>3. CASE wallet' = AddToWallet(wallet, t, None)
      BY <1>0, <1>1, <2>1, <2>3, AddToWalletFacts
    <2>. QED
      BY <1>5, <2>2, <2>3, PoolTx
  <1>6. CASE FixSpentCoins
    <2>1. HasHeard(c, i) /\ c \in Chain[tip]
      BY <1>6, RepairWhenIdle, HeardSame DEF HasHeard
    <2>2. o \in wallet.spent /\ o \in wallet.known
      BY <1>0, <1>1, <2>1 DEF SoundWallet
    <2>3. VTx[c][i] \in ChainTx(best)
      BY <1>6, <2>1, RepairWhenIdle
    <2>4. o \in SpentBy(ChainTx(best))
      BY <2>3 DEF SpentBy
    <2>. QED
      BY <1>6, <2>2, <2>4, RepairWhenIdle
  <1>. QED
    BY <1>2, <1>3, <1>4, <1>5, <1>6
       DEF WalletNext, ChainStep, wvars, chainVars, AcceptBlock, ConnectBlock, Commit

\* What is marked is spent by a transaction of the wallet that is no orphaned
\* coinstake.
LEMMA MarkedForCauseKept ==
    ASSUME WalletInv, [WalletNext]_wvars
    PROVE  MarkedForCause'
  <1>. DEFINE Live(t) == \/ t \notin CoinStake
                         \/ \E c \in Block : \E i \in DOMAIN VTx[c] : HasHeard(c, i) /\ VTx[c][i] = t
              Live2(t) == \/ t \notin CoinStake
                          \/ \E c \in Block : \E i \in DOMAIN VTx[c] : HasHeard(c, i)' /\ VTx[c][i] = t
  <1>. SUFFICES ASSUME ~ failedReorganize', ~ raced', NEW o \in wallet'.spent
                PROVE  \E t \in wallet'.known : o \in Inputs[t] /\ Live2(t)
    BY DEF MarkedForCause
  <1>0. /\ ~ failedReorganize /\ ~ raced /\ SoundWallet(wallet)
        /\ HeardKnown /\ MarkedForCause
    BY Untroubled
  <1>1. ASSUME o \in wallet.spent
        PROVE  \E t \in wallet.known : o \in Inputs[t] /\ Live(t)
    BY <1>0, <1>1 DEF MarkedForCause
  <1>2. CASE (ConnectBlock \/ UNCHANGED <<tip, iTx>>) /\ wallet' = wallet
    <2>1. \A t : Live2(t) <=> Live(t)
      BY <1>2, HeardSame
    <2>. HIDE DEF Live, Live2
    <2>. QED
      BY <1>1, <1>2, <2>1
  <1>3. CASE DisconnectBlock
    <2>1. tip \in Block /\ wallet' = SyncDisconnect(wallet, tip)
      BY <1>3, DisconnectBlockFacts DEF DisconnectBlock
    <2>2. /\ o \in wallet.spent /\ wallet'.known = wallet.known
          /\ \A t \in Txs(tip) \cap CoinStake : o \notin Inputs[t]
      BY <1>0, <2>1, SyncDisconnectFacts
    <2>3. PICK t \in wallet.known : o \in Inputs[t] /\ Live(t)
      BY <1>1, <2>2
    <2>4. Live2(t)
      <3>. SUFFICES ASSUME t \in CoinStake
                    PROVE  \E c \in Block : \E i \in DOMAIN VTx[c] : HasHeard(c, i)' /\ VTx[c][i] = t
        OBVIOUS
      <3>1. PICK c \in Block : \E i \in DOMAIN VTx[c] : HasHeard(c, i) /\ VTx[c][i] = t
        BY <2>3
      <3>2. PICK i \in DOMAIN VTx[c] : HasHeard(c, i) /\ VTx[c][i] = t
        BY <3>1
      <3>3. c # tip
        BY <2>2, <2>3, <3>2 DEF Txs
      <3>4. HasHeard(c, i)'
        BY <1>3, <3>2, <3>3, HeardLess
      <3>. QED
        BY <3>2, <3>4
    <2>. HIDE DEF Live, Live2
    <2>. QED
      BY <2>2, <2>3, <2>4
  <1>4. CASE SyncWithWallets
    <2>. DEFINE t == VTx[tip][iTx + 1]
    <2>0. tip \in Block /\ iTx + 1 \in DOMAIN VTx[tip] /\ t \in Tx
      BY <1>4, HeardMore
    <2>1. /\ wallet.known \subseteq wallet'.known
          /\ o \notin wallet.spent => o \in Inputs[t] /\ t \in wallet'.known
      <3>1. wallet' = AddToWallet(wallet, t, tip)
        BY <1>4 DEF SyncWithWallets
      <3>. HIDE DEF t
      <3>. QED
        BY <1>0, <2>0, <3>1, AddToWalletFacts
    <2>2. (\A u : Live(u) => Live2(u)) /\ Live2(t)
      <3>1. \A c \in Block : \A i \in DOMAIN VTx[c] :
              HasHeard(c, i)' <=> HasHeard(c, i) \/ (c = tip /\ i = iTx + 1)
        BY <1>4, HeardMore
      <3>2. \E c \in Block : \E i \in DOMAIN VTx[c] : HasHeard(c, i)' /\ VTx[c][i] = t
        BY <2>0, <3>1
      <3>3. ASSUME NEW u, Live(u)
            PROVE  Live2(u)
        BY <3>1, <3>3
      <3>. QED
        BY <3>2, <3>3
    <2>. HIDE DEF Live, Live2
    <2>. QED
      BY <1>1, <2>1, <2>2
  <1>5. ASSUME NEW t \in Tx, ReceiveTx(t) \/ CommitTransaction(t)
        PROVE  \E u \in wallet'.known : o \in Inputs[u] /\ Live2(u)
    <2>1. \A u : Live2(u) <=> Live(u)
      BY <1>5, PoolTx, HeardSame
    <2>2. CASE wallet' = wallet
      <3>. HIDE DEF Live, Live2
      <3>. QED
        BY <1>1, <2>1, <2>2
    <2>3. CASE t \notin CoinStake /\ wallet' = AddToWallet(wallet, t, None)
      <3>1. /\ wallet.known \subseteq wallet'.known
            /\ o \notin wallet.spent => o \in Inputs[t] /\ t \in wallet'.known
        BY <1>0, <2>3, AddToWalletFacts
      <3>2. Live2(t)
        BY <2>3
      <3>. HIDE DEF Live, Live2
      <3>. QED
        BY <1>1, <2>1, <3>1, <3>2
    <2>. QED
      BY <1>5, <2>2, <2>3, PoolTx
  <1>6. CASE FixSpentCoins
    <2>1. \A u : Live2(u) <=> Live(u)
      BY <1>6, RepairWhenIdle, HeardSame
    <2>2. wallet'.known = wallet.known
      BY <1>6, RepairWhenIdle
    <2>3. CASE o \in wallet.spent
      <3>. HIDE DEF Live, Live2
      <3>. QED
        BY <1>1, <2>1, <2>2, <2>3
    <2>4. CASE o \notin wallet.spent
      <3>1. o \in SpentBy(ChainTx(best)) /\ o \in Mine
        BY <1>6, <2>4, RepairWhenIdle
      <3>2. PICK u \in ChainTx(best) : o \in Inputs[u]
        BY <3>1 DEF SpentBy
      <3>3. PICK c \in Block : \E i \in DOMAIN VTx[c] : HasHeard(c, i) /\ VTx[c][i] = u
        BY <1>6, <3>2, RepairWhenIdle
      <3>4. u \in wallet.known
        BY <1>0, <3>1, <3>2, <3>3 DEF HeardKnown
      <3>5. Live(u)
        BY <3>3
      <3>. HIDE DEF Live, Live2
      <3>. QED
        BY <2>1, <2>2, <3>2, <3>4, <3>5
    <2>. QED
      BY <2>3, <2>4
  <1>. QED
    BY <1>2, <1>3, <1>4, <1>5, <1>6
       DEF WalletNext, ChainStep, wvars, chainVars, AcceptBlock, ConnectBlock, Commit

-----------------------------------------------------------------------------
(***************************************************************************)
(* WalletInv holds after every step: between any two transactions the       *)
(* wallet is told of, before and after a batch is committed or dropped.     *)
(***************************************************************************)
THEOREM WalletInvariance == WalletSpec => []WalletInv
  <1>1. WalletInv /\ [WalletNext]_wvars => WalletInv'
    BY TypeKept, BatchKept, HeardKnownKept, HeardMarkedKept, MarkedForCauseKept DEF WalletInv
  <1>. QED
    BY <1>1, WalletInitInv, PTL DEF WalletSpec

(***************************************************************************)
(* Types: mapWallet, the batch and the pool, with marks only on the         *)
(* wallet's own outputs and no coinbase or coinstake in the pool.           *)
(***************************************************************************)
THEOREM WalletTypeCorrect == WalletSpec => []WalletTypeOK
  <1>1. WalletInv => WalletTypeOK
    BY DEF WalletInv
  <1>. QED
    BY <1>1, WalletInvariance, PTL

(***************************************************************************)
(* WalletUpdateSpent marks every output of the wallet that the main chain   *)
(* spends: for every tree and every order of blocks, transactions, payments *)
(* and repairs, before a failed Reorganize or a repair in its midst.        *)
(***************************************************************************)
THEOREM SpendsMarked == WalletSpec => []ConfirmedSpendsMarked
  <1>1. WalletInv => ConfirmedSpendsMarked
    <2>. SUFFICES ASSUME WalletInv, Idle, ~ failedReorganize, ~ raced,
                         NEW t \in ChainTx(best), NEW o \in Inputs[t], o \in Mine
                  PROVE  o \in wallet.spent
      BY DEF ConfirmedSpendsMarked, SpentBy
    <2>1. PICK c \in Chain[best] : \E i \in DOMAIN VTx[c] :
             c \in Block /\ HasHeard(c, i) /\ VTx[c][i] = t
      BY HeardWhenIdle
    <2>. QED
      BY <2>1 DEF WalletInv, HeardMarked
  <1>. QED
    BY <1>1, WalletInvariance, PTL

(***************************************************************************)
(* AddToWallet's merge keeps hashBlock on the block of the main chain that  *)
(* holds the transaction, however often it has changed sides.               *)
(***************************************************************************)
THEOREM ConfirmationsKnown == WalletSpec => []ConfirmedKnown
  <1>1. WalletInv => ConfirmedKnown
    <2>. SUFFICES ASSUME WalletInv, Idle, ~ failedReorganize,
                         NEW t \in ChainTx(best), t \in Mine
                  PROVE  t \in wallet.known /\ IsConfirmed(t)
      BY DEF ConfirmedKnown
    <2>1. PICK c \in Chain[best] : \E i \in DOMAIN VTx[c] :
             c \in Block /\ HasHeard(c, i) /\ VTx[c][i] = t
      BY HeardWhenIdle
    <2>2. t \in wallet.known /\ wallet.hashBlock[t] = c
      BY <2>1 DEF WalletInv, HeardKnown
    <2>. QED
      BY <2>2 DEF IsConfirmed
  <1>. QED
    BY <1>1, WalletInvariance, PTL

(***************************************************************************)
(* DisableTransaction gives back what an orphaned coinstake had spent, and  *)
(* no other step marks an output without a transaction that spends it.      *)
(***************************************************************************)
THEOREM CoinsKept == WalletSpec => []NoLostCoin
  <1>1. WalletInv => NoLostCoin
    <2>. SUFFICES ASSUME WalletInv, Idle, ~ failedReorganize, ~ raced, NEW o \in wallet.spent
                  PROVE  \E t \in wallet.known :
                            o \in Inputs[t] /\ (t \notin CoinStake \/ t \in ChainTx(best))
      BY DEF NoLostCoin
    <2>1. PICK t \in wallet.known :
             /\ o \in Inputs[t]
             /\ \/ t \notin CoinStake
                \/ \E c \in Block : \E i \in DOMAIN VTx[c] : HasHeard(c, i) /\ VTx[c][i] = t
      BY DEF WalletInv, MarkedForCause
    <2>2. ASSUME NEW c \in Block, NEW i \in DOMAIN VTx[c], HasHeard(c, i), VTx[c][i] = t
          PROVE  t \in ChainTx(best)
      BY <2>2 DEF HasHeard, WalletInv, BatchInv, ChainTx, Txs
    <2>. QED
      BY <2>1, <2>2
  <1>. QED
    BY <1>1, WalletInvariance, PTL

=============================================================================
