---------------------------- MODULE OrphanBlocks ----------------------------
(***************************************************************************)
(* ProcessBlock, seen from the download of blocks: blocks come in any       *)
(* order, one whose parent is unknown is held in mapOrphanBlocks, and the   *)
(* peer is asked for the block its chain lacks.  Of two blocks with one     *)
(* proof of stake the second is dropped, unless a block that is held builds *)
(* on it.  A block with too little work or stake for the time since the     *)
(* last sync-checkpoint is dropped before it is held or accepted.           *)
(*                                                                          *)
(* mapOrphanBlocksByPrev changes together with mapOrphanBlocks and          *)
(* setStakeSeen together with mapBlockIndex; both are defined from them.    *)
(* The node is past its initial download.  Orphans are not stored, so a     *)
(* restart is an initial state with more blocks.                            *)
(***************************************************************************)
EXTENDS BlockTree

CONSTANTS
    None,
    Stake,          \* GetProofOfStake of a block, None for proof of work
    Refusable,      \* the blocks AcceptBlock may refuse before it indexes them
    Unconnectable,  \* the ones it may refuse after that: a commit or SetBestChain fails
    TooLittle,      \* the blocks of little work or stake for the time they claim
    Pending         \* hashPendingCheckpoint while it is not indexed, or None

ASSUME OrphanAssumption ==
    /\ DOMAIN Stake = Block
    /\ Refusable \subseteq Block \ {Genesis}
    /\ Unconnectable \subseteq Block \ {Genesis}
    /\ TooLittle \subseteq Block \ {Genesis}
    /\ Pending \in Block \cup {None}

VARIABLES
    mapBlockIndex,
    mapOrphanBlocks,
    setStakeSeenOrphan,
    asked,              \* the blocks the peers have been asked for by AskFor
    refused,            \* history: the blocks AcceptBlock has returned false for
    turnedAway          \* history: the ones ProcessBlock has found too little work in

ovars == <<mapBlockIndex, mapOrphanBlocks, setStakeSeenOrphan, asked, refused, turnedAway>>

Stakes(S) == {Stake[b] : b \in S} \ {None}

OrphanTypeOK ==
    /\ mapBlockIndex \subseteq Block
    /\ Genesis \in mapBlockIndex /\ ClosedUnderParent(mapBlockIndex)
    /\ mapOrphanBlocks \subseteq Block \ mapBlockIndex
    /\ setStakeSeenOrphan \subseteq Stakes(Block)
    /\ asked \subseteq Block
    /\ refused \subseteq Block
    /\ turnedAway \subseteq Block

OrphanInit ==
    /\ mapBlockIndex \in {S \in SUBSET Block : Genesis \in S /\ ClosedUnderParent(S)}
    /\ mapOrphanBlocks = {}
    /\ setStakeSeenOrphan = {}
    /\ asked = {}
    /\ refused = {}
    /\ turnedAway = {}

setStakeSeen == Stakes(mapBlockIndex)

\* mapOrphanBlocksByPrev
OrphansByPrev(S, h) == {b \in S : Parent[b] = h}

(***************************************************************************)
(* WantedByOrphan: back along the orphans S to the parent of the first one. *)
(***************************************************************************)
WantedByOrphan(S, b) ==
    Parent[CHOOSE r \in Chain[b] \ {Genesis} :
              /\ Chain[b] \ Chain[Parent[r]] \subseteq S \cup {b}
              /\ Parent[r] \notin S]

WantedByPendingSyncCheckpoint(h) ==
    \/ h = Pending
    \/ Pending \in mapOrphanBlocks /\ h = WantedByOrphan(mapOrphanBlocks, Pending)

\* A plausible bug: an orphan child makes no exception.
DuplicateWithoutException(b, seen) == Stake[b] \in seen

\* "Duplicate stake allowed only when there is orphan child block"
DuplicateStake(b, seen) ==
    /\ Stake[b] \in seen
    /\ OrphansByPrev(mapOrphanBlocks, b) = {}
    /\ ~ WantedByPendingSyncCheckpoint(b)

\* AskForPendingSyncCheckpoint
AskForPending ==
    IF Pending \in Block \ (mapBlockIndex \cup mapOrphanBlocks) THEN {Pending} ELSE {}

(***************************************************************************)
(* A block whose parent is not known is put aside.                          *)
(***************************************************************************)
\* A plausible bug: the wanted block is left to getblocks.
AddOrphanNoAsk(b) ==
    /\ Parent[b] \notin mapBlockIndex
    /\ IF DuplicateStake(b, setStakeSeenOrphan)
          THEN /\ asked' = (asked \ {b}) \cup AskForPending
               /\ UNCHANGED <<mapOrphanBlocks, setStakeSeenOrphan>>
          ELSE /\ mapOrphanBlocks' = mapOrphanBlocks \cup {b}
               /\ setStakeSeenOrphan' = setStakeSeenOrphan \cup Stakes({b})
               /\ asked' = (asked \ {b}) \cup AskForPending
    /\ UNCHANGED <<mapBlockIndex, refused, turnedAway>>

AddOrphan(b) ==
    /\ Parent[b] \notin mapBlockIndex
    /\ IF DuplicateStake(b, setStakeSeenOrphan)
          THEN /\ asked' = (asked \ {b}) \cup AskForPending
               /\ UNCHANGED <<mapOrphanBlocks, setStakeSeenOrphan>>
          ELSE /\ mapOrphanBlocks' = mapOrphanBlocks \cup {b}
               /\ setStakeSeenOrphan' = setStakeSeenOrphan \cup Stakes({b})
               /\ asked' = (asked \ {b}) \cup AskForPending
                              \cup {WantedByOrphan(mapOrphanBlocks, b)}
    /\ UNCHANGED <<mapBlockIndex, refused, turnedAway>>

(***************************************************************************)
(* The work queue.  An orphan is taken from the maps when its parent has    *)
(* been accepted in this call, whether it is accepted itself or not; fails  *)
(* are the blocks AcceptBlock returns false for.                            *)
(***************************************************************************)
\* A plausible bug: only the direct children of b are tried.
WorkQueueChildren(b, fails) ==
    IF b \in fails THEN {} ELSE OrphansByPrev(mapOrphanBlocks, b)

WorkQueue(b, fails) ==
    IF b \in fails THEN {}
    ELSE {c \in mapOrphanBlocks \ {b} :
             /\ b \in Chain[c]
             /\ Chain[Parent[c]] \ Chain[b] \subseteq mapOrphanBlocks \ fails}

\* A plausible bug: the stakes of the orphans that go are left behind.
EraseNoStake(S) == setStakeSeenOrphan' = setStakeSeenOrphan

EraseStakes(S) == setStakeSeenOrphan' = setStakeSeenOrphan \ Stakes(S)

AcceptWithOrphans(b) ==
    \E notIndexed \in SUBSET Refusable, notConnected \in SUBSET Unconnectable :
        LET fails == notIndexed \cup notConnected
            done  == WorkQueue(b, fails)
            tried == done \cup {b}
        IN  /\ Parent[b] \in mapBlockIndex
            /\ notIndexed \cap notConnected = {} /\ fails \subseteq tried
            /\ mapBlockIndex' = mapBlockIndex \cup (tried \ notIndexed)
            /\ mapOrphanBlocks' = mapOrphanBlocks \ done
            /\ EraseStakes(done)
            /\ refused' = refused \cup fails
            /\ asked' = (asked \ {b}) \cup AskForPending
            /\ UNCHANGED turnedAway

(***************************************************************************)
(* "block with too little proof-of-stake" or proof-of-work, measured from   *)
(* the last sync-checkpoint of that moment, so the same block may be turned *)
(* away now and let in later.  A block on top of the best one is spared,    *)
(* and so is what the pending checkpoint waits for.  The orphans of the     *)
(* work queue have passed this test when they came.                         *)
(***************************************************************************)
TurnAway(b) ==
    /\ b \in TooLittle
    /\ mapBlockIndex # {Parent[b]}      \* hashBestChain is another indexed block
    /\ ~ WantedByPendingSyncCheckpoint(b)
    /\ turnedAway' = turnedAway \cup {b}
    /\ asked' = asked \ {b}
    /\ UNCHANGED <<mapBlockIndex, mapOrphanBlocks, setStakeSeenOrphan, refused>>

(***************************************************************************)
(* A block message, asked for or not.                                       *)
(***************************************************************************)
\* A plausible bug: the orphans are not looked at for a second copy.
ProcessBlockIndexOnly(b) ==
    /\ b \notin mapBlockIndex
    /\ IF DuplicateStake(b, setStakeSeen)
          THEN asked' = asked \ {b} /\ UNCHANGED <<mapBlockIndex, mapOrphanBlocks,
                                                   setStakeSeenOrphan, refused, turnedAway>>
          ELSE TurnAway(b) \/ AddOrphan(b) \/ AcceptWithOrphans(b)

ProcessBlock(b) ==
    /\ b \notin mapBlockIndex \cup mapOrphanBlocks
    /\ IF DuplicateStake(b, setStakeSeen)
          THEN asked' = asked \ {b} /\ UNCHANGED <<mapBlockIndex, mapOrphanBlocks,
                                                   setStakeSeenOrphan, refused, turnedAway>>
          ELSE TurnAway(b) \/ AddOrphan(b) \/ AcceptWithOrphans(b)

\* A second copy of a block the node has.
AlreadyHave(b) ==
    /\ b \in asked /\ b \in mapBlockIndex \cup mapOrphanBlocks
    /\ asked' = asked \ {b}
    /\ UNCHANGED <<mapBlockIndex, mapOrphanBlocks, setStakeSeenOrphan, refused, turnedAway>>

OrphanNext == \E b \in Block \ {Genesis} : ProcessBlock(b) \/ AlreadyHave(b)

Answer(b) == b \in asked /\ (ProcessBlock(b) \/ AlreadyHave(b))

(***************************************************************************)
(* The peer that has sent an orphan has its ancestors too and answers when  *)
(* it is asked for one; nobody has to send anything unasked.                *)
(***************************************************************************)
OrphanSpec ==
    OrphanInit /\ [][OrphanNext]_ovars /\ \A b \in Block \ {Genesis} : WF_ovars(Answer(b))

-----------------------------------------------------------------------------
(***************************************************************************)
(* No stake stays behind when the orphans that hold it are gone: it would   *)
(* keep out every block with that stake for as long as the process runs     *)
(* (ProcessBlock's two erasures and two returns).                           *)
(***************************************************************************)
NoStaleStake == setStakeSeenOrphan \subseteq Stakes(mapOrphanBlocks)

(***************************************************************************)
(* "Recursively process any orphan blocks that depended on this one": an    *)
(* orphan whose parent is known builds on a block that was refused.  Such a *)
(* block would never be tried again: a second copy is "already have".       *)
(***************************************************************************)
NoReadyOrphan ==
    \A b \in mapOrphanBlocks : Parent[b] \in mapBlockIndex => Parent[b] \in refused

\* The inductive invariant: the three hold together.
OrphanInv == OrphanTypeOK /\ NoStaleStake /\ NoReadyOrphan

(***************************************************************************)
(* An orphan is connected in the end, unless AcceptBlock has refused one of *)
(* its ancestors or ProcessBlock has turned one away for too little work,   *)
(* which nobody asks for a second time: the block an orphan waits for is    *)
(* asked for again after it was dropped as a duplicate stake ("so we ask    *)
(* for it again directly").                                                 *)
(***************************************************************************)
OrphansConnected ==
    \A b \in Block :
        b \in mapOrphanBlocks ~>
            b \in mapBlockIndex \/ Chain[b] \cap (refused \cup turnedAway) # {}

(***************************************************************************)
(* "Duplicate stake allowed only when there is orphan child block": of the  *)
(* orphans with one stake at most one has no orphan built on it.            *)
(***************************************************************************)
DuplicateOnlyWithChild ==
    \A b, c \in mapOrphanBlocks :
        /\ b # c /\ Stake[b] # None /\ Stake[b] = Stake[c]
        /\ ~ WantedByPendingSyncCheckpoint(b) /\ ~ WantedByPendingSyncCheckpoint(c)
        => OrphansByPrev(mapOrphanBlocks, b) # {} \/ OrphansByPrev(mapOrphanBlocks, c) # {}

=============================================================================
