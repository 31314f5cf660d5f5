--------------------------- MODULE SyncCheckpoint ---------------------------
(***************************************************************************)
(* Synchronized checkpoints: the block a node holds on to, named by signed  *)
(* messages of the checkpoint master, and reset to a compiled-in checkpoint *)
(* when a release brings another master key.  The records are written in    *)
(* commits of their own, next to those of the chain, and the process can be *)
(* killed between any two.                                                  *)
(*                                                                          *)
(* The chain is abstract here: SetBestChain moves to a block, in one        *)
(* commit, when no block up to it is Invalid (module BlockChain has the     *)
(* details).  A postponed reconnect that fails leaves memory and disk at    *)
(* different blocks (run postponed_failure), and an index record that is    *)
(* not written leaves a block in memory only (run chain); those cases end a *)
(* behaviour of this module.  The policy is the default one, STRICT.        *)
(***************************************************************************)
EXTENDS BlockTree, FiniteSets

CONSTANTS
    None,
    Invalid,        \* the blocks ConnectBlock refuses
    Release,        \* the releases of the program
    MasterKey,      \* strMasterPubKey of a release
    Hardened,       \* its mapCheckpoints, the genesis block among them
    MaxKills        \* bound on the number of kills

ASSUME SyncAssumption ==
    /\ None \notin Block
    /\ Genesis \notin Invalid /\ Invalid \subseteq Block
    /\ Hardened \in [Release -> SUBSET Block]
    /\ \A r \in Release : Genesis \in Hardened[r]
    \* mapCheckpoints is finite: rbegin() is its highest entry
    /\ \A r \in Release : \E h \in Hardened[r] :
          \A c \in Hardened[r] : Height[c] <= Height[h]
    /\ None \notin {MasterKey[r] : r \in Release}
    /\ MaxKills \in Nat

VARIABLES
    \* on disk
    index,          \* the "blockindex" records, which are also mapBlockIndex
    best,           \* hashBestChain, or None
    diskSync,       \* "hashSyncCheckpoint", or None
    diskKey,        \* "strCheckpointPubKey", or None
    \* in memory
    hashSyncCheckpoint, hashPendingCheckpoint,
    phase,          \* where the program is
    target,         \* the checkpoint to write once the chain has moved
    release,
    \* ghosts
    movedBack,      \* the last move of the chain was that of a start, back
    resetKey,       \* the key for which ResetSyncCheckpoint returned true, None after a change
    kills

chain == <<best, movedBack>>
disk == <<index, chain, diskSync, diskKey>>
memory == <<hashSyncCheckpoint, hashPendingCheckpoint, target>>
syncvars == <<disk, memory, phase, release, resetKey, kills>>

Key == {MasterKey[r] : r \in Release}

SyncTypeOK ==
    /\ index \subseteq Block /\ ClosedUnderParent(index)
    /\ best \in index \cup {None} /\ movedBack \in BOOLEAN
    /\ diskSync \in index \cup {None}
    /\ diskKey \in Key \cup {None} /\ resetKey \in Key \cup {None}
    /\ hashSyncCheckpoint \in Block \cup {None}
    /\ hashPendingCheckpoint \in Block \cup {None}
    /\ target \in Block \cup {None}
    /\ phase \in {"off", "failed", "genesis", "initialize", "key", "reset", "resetWrite",
                  "up", "accepted", "write"}
    /\ release \in Release
    /\ kills \in 0 .. MaxKills

SyncInit ==
    /\ index = {} /\ best = None /\ diskSync = None /\ diskKey = None
    /\ hashSyncCheckpoint = None /\ hashPendingCheckpoint = None /\ target = None
    /\ phase = "off"
    /\ release \in Release
    /\ movedBack = FALSE /\ resetKey = None
    /\ kills = 0

Valid(b) == Chain[b] \cap Invalid = {}

IsInMainChain(b) == b \in Chain[best]

\* SetBestChain, done.
MoveTo(b) == best' = b /\ movedBack' = FALSE

(***************************************************************************)
(* SetBestChain fails when Reorganize, or the one block it adds, does: the  *)
(* blocks whose parent already has more trust than the best block come      *)
(* after that.                                                              *)
(***************************************************************************)
SetBestChainFails(b) ==
    \E c \in Chain[b] \cap Invalid :
        c = Genesis \/ ChainTrust[Parent[c]] <= ChainTrust[best]

-----------------------------------------------------------------------------
(***************************************************************************)
(* CTxDB::LoadBlockIndex.  A block index without a best block or without a  *)
(* sync-checkpoint is refused.  Its last step may move the best chain back  *)
(* to any earlier block, pindexFork, where the blocks after it do not pass  *)
(* CheckBlock with the present clock; the sync-checkpoint stays what it is. *)
(***************************************************************************)
MoveBack(pindexFork) ==
    /\ best' = pindexFork
    /\ movedBack' = (movedBack \/ pindexFork # best)

Load ==
    /\ phase = "off" /\ index # {}
    /\ IF best = None \/ diskSync = None
          THEN phase' = "failed" /\ UNCHANGED <<chain, hashSyncCheckpoint>>
          ELSE /\ phase' = "key" /\ hashSyncCheckpoint' = diskSync
               /\ \E pindexFork \in Chain[best] : MoveBack(pindexFork)
    /\ UNCHANGED <<index, diskSync, diskKey, hashPendingCheckpoint, target, release,
                   resetKey, kills>>

\* A start that failed; the user tries again.
Retry ==
    /\ phase = "failed"
    /\ phase' = "off"
    /\ hashSyncCheckpoint' = None /\ hashPendingCheckpoint' = None /\ target' = None
    /\ UNCHANGED <<disk, release, resetKey, kills>>

(***************************************************************************)
(* The first start: AddToBlockIndex of the genesis block commits its index  *)
(* record, then SetBestChain hashBestChain; the sync-checkpoint is last.    *)
(***************************************************************************)
AddGenesis ==
    /\ phase = "off" /\ index = {}
    /\ index' = {Genesis}
    /\ phase' = "genesis"
    /\ UNCHANGED <<chain, diskSync, diskKey, memory, release, resetKey, kills>>

SetBestGenesis ==
    /\ phase = "genesis"
    /\ MoveTo(Genesis)
    /\ phase' = "initialize"
    /\ UNCHANGED <<index, diskSync, diskKey, memory, release, resetKey, kills>>

InitSyncCheckpoint ==
    /\ phase = "initialize"
    /\ diskSync' = Genesis /\ hashSyncCheckpoint' = Genesis
    /\ phase' = "key"
    /\ UNCHANGED <<index, chain, diskKey, hashPendingCheckpoint, target, release, resetKey, kills>>

(***************************************************************************)
(* The end of LoadBlockIndex: a new master key is committed, then the       *)
(* sync-checkpoint is reset.                                                *)
(***************************************************************************)
\* A plausible bug: the key is left for later.
CheckMasterKeyUnwritten ==
    /\ phase = "key"
    /\ phase' = IF diskKey = MasterKey[release] THEN "up" ELSE "reset"
    /\ resetKey' = IF diskKey = MasterKey[release] THEN resetKey ELSE None
    /\ UNCHANGED <<disk, memory, release, kills>>

CheckMasterKey ==
    /\ phase = "key"
    /\ diskKey' = MasterKey[release]
    /\ phase' = IF diskKey = MasterKey[release] THEN "up" ELSE "reset"
    /\ resetKey' = IF diskKey = MasterKey[release] THEN resetKey ELSE None
    /\ UNCHANGED <<index, chain, diskSync, memory, release, kills>>

LastHardened ==
    CHOOSE h \in Hardened[release] : \A c \in Hardened[release] : Height[c] <= Height[h]

(***************************************************************************)
(* ResetSyncCheckpoint: first to the chain of the last hardened checkpoint, *)
(* which may fail, and waits for that block if it is not known yet; then    *)
(* the last hardened checkpoint of the main chain is written.               *)
(***************************************************************************)
ResetChain ==
    /\ phase = "reset"
    /\ \/ /\ LastHardened \notin index
          /\ hashPendingCheckpoint' = LastHardened
          /\ phase' = "resetWrite"
          /\ UNCHANGED chain
       \/ /\ LastHardened \in index /\ IsInMainChain(LastHardened)
          /\ phase' = "resetWrite"
          /\ UNCHANGED <<chain, hashPendingCheckpoint>>
       \/ /\ LastHardened \in index /\ ~ IsInMainChain(LastHardened)
          /\ Valid(LastHardened)
          /\ MoveTo(LastHardened)
          /\ phase' = "resetWrite"
          /\ UNCHANGED hashPendingCheckpoint
       \/ /\ LastHardened \in index /\ ~ IsInMainChain(LastHardened)
          /\ phase' = "failed"
          /\ UNCHANGED <<chain, hashPendingCheckpoint>>
    /\ UNCHANGED <<index, diskSync, diskKey, hashSyncCheckpoint, target, release, resetKey, kills>>

\* Plausible bug: the last hardened checkpoint is written, known or not.
ResetWriteLast ==
    /\ phase = "resetWrite"
    /\ diskSync' = LastHardened /\ hashSyncCheckpoint' = LastHardened
    /\ resetKey' = MasterKey[release]
    /\ phase' = "up"
    /\ UNCHANGED <<index, chain, diskKey, hashPendingCheckpoint, target, release, kills>>

ResetWrite ==
    /\ phase = "resetWrite"
    /\ \E c \in Hardened[release] \cap Chain[best] :
          /\ \A d \in Hardened[release] \cap Chain[best] : Height[d] <= Height[c]
          /\ diskSync' = c /\ hashSyncCheckpoint' = c
    /\ resetKey' = MasterKey[release]
    /\ phase' = "up"
    /\ UNCHANGED <<index, chain, diskKey, hashPendingCheckpoint, target, release, kills>>

-----------------------------------------------------------------------------
(***************************************************************************)
(* ValidateSyncCheckpoint: only a descendant of the current one.            *)
(***************************************************************************)
\* A plausible bug: any higher block will do.
ValidateByHeight(c) == Height[c] > Height[hashSyncCheckpoint]

\* Another one: the check for the branch also lets an ancestor pass.
ValidateSameBranch(c) == hashSyncCheckpoint \in Chain[c] \/ c \in Chain[hashSyncCheckpoint]

ValidateSyncCheckpoint(c) ==
    /\ Height[c] > Height[hashSyncCheckpoint]
    /\ hashSyncCheckpoint \in Chain[c]

\* WriteSyncCheckpoint, and nothing is pending any more.
WriteSyncCheckpoint(c) ==
    /\ diskSync' = c /\ hashSyncCheckpoint' = c
    /\ hashPendingCheckpoint' = None /\ target' = None
    /\ phase' = "up"
    /\ UNCHANGED <<index, diskKey, release, resetKey, kills>>

(***************************************************************************)
(* What ProcessSyncCheckpoint and AcceptPendingSyncCheckpoint do with a     *)
(* valid checkpoint: the chain moves to it first, if need be, in a commit   *)
(* of its own.                                                              *)
(***************************************************************************)
TakeCheckpoint(c) ==
    \/ IsInMainChain(c) /\ WriteSyncCheckpoint(c) /\ UNCHANGED chain
    \/ /\ ~ IsInMainChain(c) /\ Valid(c)
       /\ MoveTo(c)
       /\ target' = c /\ phase' = "write"
       /\ UNCHANGED <<index, diskSync, diskKey, hashSyncCheckpoint, hashPendingCheckpoint,
                      release, resetKey, kills>>
    \/ /\ ~ IsInMainChain(c) /\ SetBestChainFails(c)
       /\ phase' = "up"
       /\ UNCHANGED <<disk, memory, release, resetKey, kills>>

WriteTarget ==
    /\ phase = "write"
    /\ WriteSyncCheckpoint(target)
    /\ UNCHANGED chain

\* A signed message of the master, about any block.
ProcessSyncCheckpoint(c) ==
    /\ phase = "up"
    /\ \/ /\ c \notin index
          /\ hashPendingCheckpoint' = c
          /\ UNCHANGED <<disk, hashSyncCheckpoint, target, phase, release, resetKey, kills>>
       \/ c \in index /\ ValidateSyncCheckpoint(c) /\ TakeCheckpoint(c)

AcceptPendingSyncCheckpoint ==
    /\ phase = "accepted"
    /\ \/ /\ hashPendingCheckpoint \notin index
          /\ phase' = "up"
          /\ UNCHANGED <<disk, memory, release, resetKey, kills>>
       \/ /\ hashPendingCheckpoint \in index
          /\ ~ ValidateSyncCheckpoint(hashPendingCheckpoint)
          /\ hashPendingCheckpoint' = None
          /\ phase' = "up"
          /\ UNCHANGED <<disk, hashSyncCheckpoint, target, release, resetKey, kills>>
       \/ /\ hashPendingCheckpoint \in index
          /\ ValidateSyncCheckpoint(hashPendingCheckpoint)
          /\ TakeCheckpoint(hashPendingCheckpoint)

-----------------------------------------------------------------------------
CheckHardened(b) == \A c \in Hardened[release] : Height[c] = Height[b] => c = b

\* A block that is not indexed yet must descend from the sync-checkpoint.
CheckSync(b) == hashSyncCheckpoint \in Chain[Parent[b]]

(***************************************************************************)
(* AcceptBlock: the index record, and the chain when it has more trust.     *)
(* AcceptPendingSyncCheckpoint is the last step, and is skipped when        *)
(* SetBestChain fails.                                                      *)
(***************************************************************************)
\* A plausible bug: the pending checkpoint is looked at only after a chain move.
AcceptBlockOnBest(b) ==
    /\ phase = "up"
    /\ b \notin index /\ Parent[b] \in index
    /\ CheckHardened(b) /\ CheckSync(b)
    /\ index' = index \cup {b}
    /\ IF ChainTrust[b] > ChainTrust[best] /\ Valid(b)
         THEN MoveTo(b) /\ phase' = "accepted"
         ELSE UNCHANGED <<chain, phase>>
    /\ UNCHANGED <<diskSync, diskKey, memory, release, resetKey, kills>>

AcceptBlock(b) ==
    /\ phase = "up"
    /\ b \notin index /\ Parent[b] \in index
    /\ CheckHardened(b) /\ CheckSync(b)
    /\ index' = index \cup {b}
    /\ IF ChainTrust[b] <= ChainTrust[best]
         THEN phase' = "accepted" /\ UNCHANGED chain
         ELSE \/ Valid(b) /\ MoveTo(b) /\ phase' = "accepted"
              \/ SetBestChainFails(b) /\ UNCHANGED <<chain, phase>>
    /\ UNCHANGED <<diskSync, diskKey, memory, release, resetKey, kills>>

(***************************************************************************)
(* A kill, which may come between the index record of a block and the chain;*)
(* before the next start another release may be installed.                  *)
(***************************************************************************)
Killed ==
    /\ kills < MaxKills
    /\ kills' = kills + 1
    /\ phase' = "off"
    /\ hashSyncCheckpoint' = None /\ hashPendingCheckpoint' = None /\ target' = None
    /\ release' \in Release
    /\ UNCHANGED resetKey

Kill ==
    /\ phase # "off"
    /\ Killed
    /\ UNCHANGED disk

KillInAccept(b) ==
    /\ phase = "up"
    /\ b \notin index /\ Parent[b] \in index
    /\ CheckHardened(b) /\ CheckSync(b)
    /\ index' = index \cup {b}
    /\ Killed
    /\ UNCHANGED <<chain, diskSync, diskKey>>

Startup ==
    \/ Load \/ Retry \/ AddGenesis \/ SetBestGenesis \/ InitSyncCheckpoint
    \/ CheckMasterKey \/ ResetChain \/ ResetWrite

Running == AcceptPendingSyncCheckpoint \/ WriteTarget

SyncNext ==
    \/ Startup \/ Running \/ Kill
    \/ \E c \in Block : ProcessSyncCheckpoint(c)
    \/ \E b \in Block \ {Genesis} : AcceptBlock(b) \/ KillInAccept(b)

(***************************************************************************)
(* A start and a handler that have begun go on; the user starts the node    *)
(* again.  Blocks and messages may never come.                              *)
(***************************************************************************)
SyncSpec == SyncInit /\ [][SyncNext]_syncvars /\ WF_syncvars(Startup \/ Running)

-----------------------------------------------------------------------------
IsRunning == phase \in {"up", "accepted", "write"}

(***************************************************************************)
(* "sync-checkpoint should always be accepted block" (CheckSync), and more: *)
(* it is in the main chain, so that the node can extend its own chain, and  *)
(* the record on disk is the same; for a node whose reset is complete.  A   *)
(* start that moved the chain back can leave it above the best block, on    *)
(* the branch of the best block still, and only until the chain moves again.*)
(***************************************************************************)
SyncInMainChain ==
    IsRunning /\ resetKey = MasterKey[release] =>
        /\ hashSyncCheckpoint \in index /\ diskSync = hashSyncCheckpoint
        /\ \/ IsInMainChain(hashSyncCheckpoint)
           \/ movedBack /\ best \in Chain[hashSyncCheckpoint]

(***************************************************************************)
(* A pending checkpoint whose block has arrived does not stay pending,      *)
(* unless its chain is invalid (AcceptPendingSyncCheckpoint).               *)
(***************************************************************************)
PendingServed ==
    phase = "up" /\ hashPendingCheckpoint \in index => ~ Valid(hashPendingCheckpoint)

(***************************************************************************)
(* "only descendant of current sync-checkpoint is allowed": while the node  *)
(* runs, the checkpoint moves along one chain only.                         *)
(***************************************************************************)
SyncAdvances ==
    [][IsRunning /\ phase' # "off" => hashSyncCheckpoint \in Chain[hashSyncCheckpoint']]_syncvars

(***************************************************************************)
(* The inductive invariant behind the three.  From LoadBlockIndex on the    *)
(* checkpoint in memory is the record on disk; a reset that is complete put *)
(* the record in the main chain, and only the reset for another key, which  *)
(* forgets that, can take the chain to another branch, and only a start     *)
(* below the record; nothing is pending at a start but a hardened           *)
(* checkpoint that is not known.                                            *)
(***************************************************************************)
Loaded == {"key", "reset", "resetWrite"} \cup {"up", "accepted", "write"}

StartInv ==
    /\ index # {} => Genesis \in index
    /\ phase \in {"genesis", "initialize"} => index # {}
    /\ phase = "initialize" => best # None
    /\ phase \in Loaded =>
          best \in index /\ diskSync \in index /\ hashSyncCheckpoint = diskSync

ResetInv ==
    /\ phase \in {"genesis", "initialize", "reset", "resetWrite"} => resetKey = None
    /\ resetKey # None =>
          /\ best \in index /\ diskSync \in index
          /\ diskSync \in Chain[best] \/ (movedBack /\ best \in Chain[diskSync])

PendingInv ==
    /\ phase \in {"off", "genesis", "initialize", "key", "reset"} =>
          hashPendingCheckpoint = None
    /\ phase = "resetWrite" => hashPendingCheckpoint \notin index
    /\ PendingServed

SyncInv ==
    /\ SyncTypeOK /\ StartInv /\ ResetInv /\ PendingInv
    /\ phase = "write" => target = best /\ hashSyncCheckpoint \in Chain[target]

(***************************************************************************)
(* Once the first sync-checkpoint is on disk the node comes up again after  *)
(* every kill, even when the reset of the sync-checkpoint fails.            *)
(***************************************************************************)
ComesUpAgain == [](diskSync # None => <>(phase = "up"))

(***************************************************************************)
(* "if checkpoint master key changed must reset sync-checkpoint"            *)
(* (LoadBlockIndex): a running node has made the reset for its key.         *)
(***************************************************************************)
ResetForKey == phase = "up" => resetKey = MasterKey[release]

=============================================================================
