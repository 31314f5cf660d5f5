--------------------------- MODULE BlockTreeProofs ---------------------------
(***************************************************************************)
(* What the definitions of BlockTree say of every tree of blocks.  Induction*)
(* along pprev is AcyclicAssumption applied to the set of counterexamples.  *)
(***************************************************************************)
EXTENDS BlockTree, TLAPS

\* A chain is made of blocks, has its own last block and is closed under pprev.
LEMMA ChainBasic ==
    ASSUME NEW b \in Block
    PROVE  /\ Chain[b] \subseteq Block
           /\ b \in Chain[b]
           /\ ClosedUnderParent(Chain[b])
  <1>1. Chain[b] \subseteq Block /\ b \in Chain[b]
    BY DEF Chain
  <1>2. ASSUME NEW c \in Chain[b], c # Genesis
        PROVE  Parent[c] \in Chain[b]
    <2>1. c \in Block /\ Parent[c] \in Block
      BY <1>1, <1>2, BlockAssumption
    <2>2. ASSUME NEW S \in SUBSET Block, b \in S, ClosedUnderParent(S)
          PROVE  Parent[c] \in S
      <3>1. c \in S
        BY <2>2 DEF Chain
      <3>. QED
        BY <1>2, <2>2, <3>1 DEF ClosedUnderParent
    <2>. QED
      BY <2>1, <2>2 DEF Chain
  <1>. QED
    BY <1>1, <1>2 DEF ClosedUnderParent

\* A chain is the least such set.
LEMMA ChainLeast ==
    ASSUME NEW b \in Block, NEW S \in SUBSET Block,
           b \in S, ClosedUnderParent(S)
    PROVE  Chain[b] \subseteq S
  BY DEF Chain

\* Following pprev from an ancestor stays among the ancestors.
LEMMA ChainTransitive ==
    ASSUME NEW b \in Block, NEW c \in Chain[b]
    PROVE  c \in Block /\ Chain[c] \subseteq Chain[b]
  <1>1. c \in Block /\ Chain[b] \in SUBSET Block
    BY ChainBasic
  <1>. QED
    BY <1>1, ChainBasic, ChainLeast

\* The genesis block's chain, and the chain of any other block.
LEMMA ChainGenesis == Chain[Genesis] = {Genesis}
  <1>1. ClosedUnderParent({Genesis}) /\ {Genesis} \in SUBSET Block
    BY BlockAssumption DEF ClosedUnderParent
  <1>2. Chain[Genesis] \subseteq {Genesis}
    BY <1>1, BlockAssumption, ChainLeast
  <1>. QED
    BY <1>2, BlockAssumption, ChainBasic

\* Following pprev from b meets b and then what it meets from b's parent.
LEMMA ChainUnfold ==
    ASSUME NEW b \in Block, b # Genesis
    PROVE  /\ Parent[b] \in Block
           /\ Chain[b] = Chain[Parent[b]] \cup {b}
  <1>1. Parent[b] \in Block
    BY BlockAssumption
  <1>2. Parent[b] \in Chain[b]
    BY ChainBasic DEF ClosedUnderParent
  <1>3. Chain[Parent[b]] \cup {b} \subseteq Chain[b]
    BY <1>2, ChainBasic, ChainTransitive
  <1>4. ClosedUnderParent(Chain[Parent[b]] \cup {b})
    BY <1>1, ChainBasic DEF ClosedUnderParent
  <1>5. Chain[b] \subseteq Chain[Parent[b]] \cup {b}
    <2>1. Chain[Parent[b]] \cup {b} \in SUBSET Block
      BY <1>1, ChainBasic
    <2>. QED
      BY <1>4, <2>1, ChainLeast
  <1>. QED
    BY <1>1, <1>3, <1>5

\* A block is not an ancestor of its parent.
LEMMA ChainAcyclic ==
    ASSUME NEW b \in Block, b # Genesis
    PROVE  b \notin Chain[Parent[b]]
  <1>. SUFFICES ASSUME b \in Chain[Parent[b]]
                PROVE  FALSE
    OBVIOUS
  <1>. DEFINE S == {c \in Chain[b] : b \in Chain[c]}
  <1>1. b \in S /\ S \in SUBSET Block
    BY ChainBasic
  <1>2. PICK c \in S : c = Genesis \/ Parent[c] \notin S
    BY <1>1, AcyclicAssumption
  <1>3. c \in Block /\ c # Genesis
    BY <1>2, <1>1, ChainGenesis
  <1>4. Parent[c] \in Chain[b]
    BY <1>2, <1>3, ChainBasic DEF ClosedUnderParent
  <1>5. b \in Chain[Parent[c]]
    BY <1>2, <1>3, ChainUnfold
  <1>. QED
    BY <1>2, <1>3, <1>4, <1>5

\* Every chain starts with the genesis block.
LEMMA ChainHasGenesis ==
    ASSUME NEW b \in Block
    PROVE  Genesis \in Chain[b]
  <1>1. Chain[b] \in SUBSET Block /\ Chain[b] # {}
    BY ChainBasic
  <1>2. PICK c \in Chain[b] : c = Genesis \/ Parent[c] \notin Chain[b]
    BY <1>1, AcyclicAssumption
  <1>. QED
    BY <1>2, ChainBasic DEF ClosedUnderParent

\* Two ancestors of a block are on one line.
LEMMA ChainLinear ==
    ASSUME NEW b \in Block, NEW c \in Chain[b], NEW d \in Chain[b]
    PROVE  c \in Chain[d] \/ d \in Chain[c]
  <1>. SUFFICES ASSUME c \notin Chain[d], d \notin Chain[c]
                PROVE  FALSE
    OBVIOUS
  <1>. DEFINE S == {e \in Block : c \in Chain[e] /\ d \in Chain[e]}
  <1>1. b \in S /\ S \in SUBSET Block
    OBVIOUS
  <1>2. PICK e \in S : e = Genesis \/ Parent[e] \notin S
    BY <1>1, AcyclicAssumption
  <1>3. e # Genesis
    BY <1>2, ChainGenesis
  <1>4. c = e \/ d = e
    BY <1>2, <1>3, ChainUnfold
  <1>. QED
    BY <1>2, <1>4

\* An ancestor other than the block itself is lower.
LEMMA ChainHeight ==
    ASSUME NEW b \in Block, NEW c \in Chain[b], c # b
    PROVE  Height[c] < Height[b]
  <1>. DEFINE Bad == {e \in Block : c \in Chain[e] /\ c # e /\ ~(Height[c] < Height[e])}
  <1>. SUFFICES ASSUME Bad # {}
                PROVE  FALSE
    OBVIOUS
  <1>1. PICK e \in Bad : e = Genesis \/ Parent[e] \notin Bad
    BY AcyclicAssumption
  <1>2. e \in Block /\ c \in Block /\ e # Genesis
    BY <1>1, ChainGenesis, ChainBasic
  <1>3. Parent[e] \in Block /\ c \in Chain[Parent[e]]
    BY <1>1, <1>2, ChainUnfold
  <1>4. Height[c] <= Height[Parent[e]]
    BY <1>1, <1>2, <1>3, RecursionAssumption
  <1>. QED
    BY <1>1, <1>2, <1>3, <1>4, RecursionAssumption

\* nChainTrust grows along every chain.
LEMMA ChainTrustGrows ==
    ASSUME NEW b \in Block, NEW c \in Chain[b], c # b
    PROVE  ChainTrust[c] < ChainTrust[b]
  <1>. DEFINE Bad == {e \in Block : c \in Chain[e] /\ c # e
                                    /\ ~(ChainTrust[c] < ChainTrust[e])}
  <1>. SUFFICES ASSUME Bad # {}
                PROVE  FALSE
    OBVIOUS
  <1>1. PICK e \in Bad : e = Genesis \/ Parent[e] \notin Bad
    BY AcyclicAssumption
  <1>2. e \in Block /\ c \in Block /\ e # Genesis
    BY <1>1, ChainGenesis, ChainBasic
  <1>3. Parent[e] \in Block /\ c \in Chain[Parent[e]]
    BY <1>1, <1>2, ChainUnfold
  <1>4. ChainTrust[c] <= ChainTrust[Parent[e]]
    BY <1>1, <1>2, <1>3, RecursionAssumption
  <1>5. BlockTrust[e] \in Nat \ {0} /\ ChainTrust[e] = ChainTrust[Parent[e]] + BlockTrust[e]
    BY <1>2, BlockAssumption, RecursionAssumption
  <1>6. ChainTrust[c] \in Nat /\ ChainTrust[Parent[e]] \in Nat
    BY <1>2, <1>3, RecursionAssumption
  <1>. QED
    BY <1>1, <1>4, <1>5, <1>6

\* The child of c on the way to a block above it exists and is unique.
LEMMA ChildOnChain ==
    ASSUME NEW d \in Block, NEW c \in Chain[d], c # d
    PROVE  /\ ChildOn(c, d) \in Chain[d] \ {Genesis}
           /\ Parent[ChildOn(c, d)] = c
           /\ \A b \in Chain[d] \ {Genesis} : Parent[b] = c => b = ChildOn(c, d)
  <1>. DEFINE S == {e \in Chain[d] : c \in Chain[e] /\ e # c}
  <1>1. d \in S /\ S \in SUBSET Block
    BY ChainBasic
  <1>2. PICK e \in S : e = Genesis \/ Parent[e] \notin S
    BY <1>1, AcyclicAssumption
  <1>3. e \in Block /\ e # Genesis
    BY <1>1, <1>2, ChainGenesis
  <1>4. c \in Chain[Parent[e]] /\ Parent[e] \in Chain[d]
    BY <1>2, <1>3, ChainUnfold, ChainBasic DEF ClosedUnderParent
  <1>5. Parent[e] = c
    BY <1>2, <1>3, <1>4
  <1>6. ChildOn(c, d) \in Chain[d] \ {Genesis} /\ Parent[ChildOn(c, d)] = c
    BY <1>2, <1>3, <1>5 DEF ChildOn
  <1>7. ASSUME NEW a1 \in Chain[d] \ {Genesis}, NEW a2 \in Chain[d] \ {Genesis},
               Parent[a1] = c, Parent[a2] = c
        PROVE  a1 = a2
    <2>1. a1 \in Block /\ a2 \in Block
      BY ChainBasic
    <2>2. a1 \in Chain[a2] \/ a2 \in Chain[a1]
      BY ChainLinear
    <2>. QED
      BY <1>7, <2>1, <2>2, ChainUnfold, ChainAcyclic
  <1>. QED
    BY <1>6, <1>7

\* Two blocks of one chain that have the same parent are the same block.
LEMMA ChainOneChild ==
    ASSUME NEW d \in Block, NEW b \in Chain[d] \ {Genesis},
           NEW c \in Chain[d] \ {Genesis}, Parent[b] = Parent[c]
    PROVE  b = c
  <1>1. b \in Block /\ Parent[b] \in Chain[d]
    BY ChainBasic DEF ClosedUnderParent
  <1>2. Parent[b] # d
    BY <1>1, ChainAcyclic
  <1>. QED
    BY <1>1, <1>2, ChildOnChain

=============================================================================
