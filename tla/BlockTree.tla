------------------------------ MODULE BlockTree ------------------------------
(***************************************************************************)
(* The tree of blocks a node can be handed, and what a CBlockIndex derives  *)
(* from a block's position in it.  A block is identified with its hash, so  *)
(* hashPrevBlock, the target of pprev, is a constant function; heights and  *)
(* chain trusts are what AddToBlockIndex and LoadBlockIndex compute by      *)
(* adding to the fields of pprev.                                           *)
(***************************************************************************)
EXTENDS Integers

CONSTANTS
    Block,        \* every block of the instance, the genesis block included
    Genesis,      \* hashGenesisBlock
    Parent,       \* hashPrevBlock of every other block
    BlockTrust    \* CBlockIndex::GetBlockTrust, from nBits

(***************************************************************************)
(* A hash cannot occur in its own preimage, so following hashPrevBlock ends:*)
(* every non-empty set of blocks has a member whose parent lies outside it. *)
(***************************************************************************)
ASSUME BlockAssumption ==
    /\ Genesis \in Block
    /\ Parent \in [Block \ {Genesis} -> Block]
    /\ BlockTrust \in [Block -> Nat \ {0}]

ASSUME AcyclicAssumption ==
    \A S \in SUBSET Block :
        S # {} => \E b \in S : b = Genesis \/ Parent[b] \notin S

\* A set that contains the target of every pprev pointer it contains.
ClosedUnderParent(S) == \A b \in S \ {Genesis} : Parent[b] \in S

\* The blocks met when pprev is followed from b, b itself included.
Chain ==
    [b \in Block |->
        {c \in Block : \A S \in SUBSET Block :
                          (b \in S /\ ClosedUnderParent(S)) => c \in S}]

\* nHeight and nChainTrust.
Height[b \in Block] ==
    IF b = Genesis THEN 0 ELSE Height[Parent[b]] + 1

ChainTrust[b \in Block] ==
    IF b = Genesis THEN BlockTrust[b]
                   ELSE ChainTrust[Parent[b]] + BlockTrust[b]

(***************************************************************************)
(* The two recursive definitions have the solution they describe.  This     *)
(* follows from AcyclicAssumption; it is assumed because the recursion      *)
(* theorem is not available to the provers.                                 *)
(***************************************************************************)
ASSUME RecursionAssumption ==
    /\ Height \in [Block -> Nat]
    /\ ChainTrust \in [Block -> Nat]
    /\ Height[Genesis] = 0
    /\ \A b \in Block \ {Genesis} :
          /\ Height[b] = Height[Parent[b]] + 1
          /\ ChainTrust[b] = ChainTrust[Parent[b]] + BlockTrust[b]

\* The block of d's chain that comes directly after its ancestor c.
ChildOn(c, d) == CHOOSE b \in Chain[d] \ {Genesis} : Parent[b] = c

=============================================================================
