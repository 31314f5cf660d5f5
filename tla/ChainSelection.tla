--------------------------- MODULE ChainSelection ---------------------------
(***************************************************************************)
(* Which chain a node ends up on.  The reference is the validity a block    *)
(* has on its own chain, independent of what the node has seen before: it   *)
(* and each of its ancestors connects to the store that the chain below it  *)
(* amounts to, with its parent as the best block.                           *)
(***************************************************************************)
EXTENDS BlockChain

\* Where b's chain has t, and which of its transactions spend the output o.
BlocksWith(b, t) == {c \in Chain[b] \ {Genesis} : t \in Txs(c)}

SpendersOn(b, o) == {t \in Tx : o \in Vin[t] /\ BlocksWith(b, t) # {}}

\* The store that the chain of b amounts to.
StoreAt ==
    [b \in Block |->
        [tip   |-> b,
         pos   |-> [t \in Tx |->
                      IF BlocksWith(b, t) # {} THEN CHOOSE c \in BlocksWith(b, t) : TRUE
                                               ELSE None],
         spent |-> [o \in OutPoint |->
                      IF SpendersOn(b, o) # {} THEN CHOOSE t \in SpendersOn(b, o) : TRUE
                                               ELSE None]]]

Connects(b) ==
    CheckCoinBaseHeight(b) /\ ConnectBlockOK(StoreAt[Parent[b]], b, Parent[b])

Valid == [b \in Block |-> \A c \in Chain[b] \ {Genesis} : Connects(c)]

(***************************************************************************)
(* A node that is not killed and receives no sync-checkpoint, whose disk    *)
(* does not fail, and whose peers deliver every block.  The                 *)
(* handler runs to its end because nothing in it waits: fairness of its     *)
(* steps is the scheduling of a runnable thread.                            *)
(***************************************************************************)
SteadyNext == (\E b \in Block : AcceptBlock(b)) \/ Handler

SteadySpec ==
    /\ Init /\ [][SteadyNext]_vars
    /\ WF_vars(Handler)
    /\ \A b \in Block : WF_vars(AcceptBlock(b))

(***************************************************************************)
(* The blocks a node knows decide which block is best, not the order they   *)
(* came in: no indexed block that is valid on its own chain has more trust  *)
(* than pindexBest (AddToBlockIndex's test, SetBestChain, Reorganize).      *)
(***************************************************************************)
NoBetterValidBlock ==
    pc = "idle" =>
        /\ Valid[pindexBest]
        /\ \A b \in mapBlockIndex :
              Valid[b] => ChainTrust[b] <= ChainTrust[pindexBest]

(***************************************************************************)
(* With every block delivered, the node comes to rest on a valid block, and *)
(* the store on disk is that of its chain.  There is no valid block of more *)
(* trust but those whose chain has a proof of stake that CheckProofOfStake  *)
(* keeps refusing because its kernel is not on the chain the node is on     *)
(* ("expect this during initial block download"): the node does stay on     *)
(* less trust for those.                                                    *)
(***************************************************************************)
KernelOffChain(b) == \E c \in Chain[b] \ mapBlockIndex : ~CheckProofOfStake(c)

SettlesOnBestValid ==
    <>[] /\ Valid[pindexBest]
         /\ \A b \in Block :
               Valid[b] /\ ChainTrust[b] > ChainTrust[pindexBest] => KernelOffChain(b)
         /\ db.pos = StoreAt[pindexBest].pos
         /\ db.spent = StoreAt[pindexBest].spent

(***************************************************************************)
(* ConnectBlock takes the reward and the end of the signature shortcut from *)
(* pindexBest, and not from the block it connects.  What it decides is      *)
(* still the block's own validity where neither depends on which of the     *)
(* blocks is best: between two changes of the reward, with the blocks all   *)
(* above or all below the last checkpoint.                                  *)
(***************************************************************************)
TipIndependent ==
    \A b, c, d \in Block :
        /\ Claim[b] <= Reward[Height[c]] => Claim[b] <= Reward[Height[d]]
        /\ Txs(b) \cap BadSig # {} /\ Height[c] < TotalBlocksEstimate
              => Height[d] < TotalBlocksEstimate

(***************************************************************************)
(* The inductive invariant behind NoBetterValidBlock, on top of IndInv.  No *)
(* valid block but the one being tried is better than pindexBest, so that a *)
(* reorganization never stops at an intermediate block that connects: it    *)
(* would have been the best block before.                                   *)
(***************************************************************************)
SelectInv ==
    /\ ~fPostponedFailed
    /\ pc \in {"idle", "extend", "reorganize", "update"}
    /\ Valid[pindexBest]
    /\ \A b \in mapBlockIndex :
          Valid[b] /\ ~(pc # "idle" /\ b = pindexNew)
              => ChainTrust[b] <= ChainTrust[pindexBest]
    /\ pc # "idle" => ChainTrust[pindexNew] > ChainTrust[pindexBest]
    /\ pc = "reorganize" => Valid[txn.tip]
    /\ pc = "update" => Valid[pindexNew]

-----------------------------------------------------------------------------
\* The node with kills, and restarts that are not put off for ever.
FairSpec ==
    /\ Spec
    /\ WF_vars(Handler)
    /\ WF_vars(\E b \in Chain[db.tip] : LoadBlockIndex(b))

\* Unless it is killed again and again, or finds an index that does not load,
\* the node always gets back to waiting for the next block: no loop of
\* SetBestChain runs for ever, from whatever state a restart finds on disk.
SetBestChainReturns ==
    []<><<Kill>>_vars \/ <>[](pc = "down" /\ ~IndexLoads) \/ []<>(pc = "idle")

-----------------------------------------------------------------------------
(***************************************************************************)
(* Kills and restarts, with a disk that reads and writes without errors.    *)
(***************************************************************************)
CrashSpec ==
    Init /\ [][ \/ SteadyNext
               \/ Kill
               \/ \E b \in Chain[db.tip] : LoadBlockIndex(b) ]_vars

(***************************************************************************)
(* "Make sure it's successfully written to disk before changing memory      *)
(* structure" (Reorganize): the best block in memory is the committed one   *)
(* whenever SetBestChain is done, also after a postponed reconnect failed.  *)
(***************************************************************************)
BestBlockWasWritten == pc = "idle" => pindexBest = db.tip

=============================================================================
