------------------------ MODULE SyncCheckpointProofs -------------------------
(***************************************************************************)
(* Proofs about the synchronized checkpoints, for every tree of blocks, any *)
(* releases with their keys and hardened checkpoints, and any kills.        *)
(***************************************************************************)
EXTENDS SyncCheckpoint, BlockTreeProofs

-----------------------------------------------------------------------------
\* The last entry of mapCheckpoints is a block.
LEMMA LastHardenedIsBlock ==
    ASSUME release \in Release
    PROVE  LastHardened \in Block /\ LastHardened \in Hardened[release]
  <1>1. LastHardened \in Hardened[release]
    BY SyncAssumption DEF LastHardened
  <1>. QED
    BY <1>1, SyncAssumption

\* The block index is closed under pprev: it holds the chains of its blocks.
LEMMA ChainIndexed ==
    ASSUME SyncTypeOK, NEW b \in index
    PROVE  b \in Block /\ Chain[b] \subseteq index
  BY ChainLeast DEF SyncTypeOK

\* SetBestChain fails only for a block with an invalid one on its chain.
LEMMA FailsInvalid ==
    ASSUME NEW b, SetBestChainFails(b)
    PROVE  ~Valid(b)
  BY DEF SetBestChainFails, Valid

\* The invariant is preserved by LoadBlockIndex up to the sync-checkpoint, by
\* a start that is given up, and by the first start.
LEMMA LoadSync ==
    ASSUME SyncInv, Load \/ Retry
    PROVE  SyncInv'
  <1>. USE DEF SyncInv
  <1>0. \/ UNCHANGED <<best, movedBack>>
        \/ /\ best # None /\ best' \in Chain[best]
           /\ movedBack' = (movedBack \/ best' # best)
    BY DEF Load, MoveBack, Retry, disk, chain
  <1>1. /\ UNCHANGED <<index, diskSync, diskKey, release, resetKey, kills>>
        /\ phase' \in {"failed", "key", "off"}
        /\ hashSyncCheckpoint' \in {hashSyncCheckpoint, diskSync, None}
        /\ phase' = "key" => best # None /\ diskSync # None /\ hashSyncCheckpoint' = diskSync
        /\ target' \in {target, None} /\ hashPendingCheckpoint' = None
    BY DEF Load, Retry, disk, PendingInv
  <1>6. /\ movedBack' \in BOOLEAN
        /\ best = None => best' = None
        /\ best \in index => best' \in index
    BY <1>0, ChainIndexed DEF SyncTypeOK
  <1>2. SyncTypeOK'
    BY <1>1, <1>6 DEF SyncTypeOK
  <1>3. StartInv'
    BY <1>1, <1>6 DEF SyncTypeOK, StartInv, Loaded
  <1>4. ResetInv'
    <2>1. CASE UNCHANGED <<best, movedBack>>
      BY <1>1, <2>1 DEF ResetInv
    <2>2. CASE best' \in Chain[best] /\ movedBack' = (movedBack \/ best' # best)
      <3>1. ASSUME resetKey # None
            PROVE  \/ diskSync \in Chain[best']
                   \/ movedBack' /\ best' \in Chain[diskSync]
        <4>1. /\ best \in Block /\ diskSync \in Block
              /\ diskSync \in Chain[best] \/ (movedBack /\ best \in Chain[diskSync])
          BY <3>1, ChainIndexed DEF ResetInv
        <4>2. CASE best' = best
          BY <2>2, <4>1, <4>2
        <4>3. CASE best' # best /\ diskSync \in Chain[best]
          BY <2>2, <4>1, <4>3, ChainLinear
        <4>4. CASE best' # best /\ best \in Chain[diskSync]
          BY <2>2, <4>1, <4>4, ChainTransitive
        <4>. QED
          BY <4>1, <4>2, <4>3, <4>4
      <3>. QED
        BY <1>1, <1>6, <3>1 DEF ResetInv
    <2>. QED
      BY <1>0, <2>1, <2>2
  <1>5. PendingInv'
    BY <1>1, SyncAssumption DEF SyncTypeOK, PendingInv, PendingServed
  <1>. QED
    BY <1>1, <1>2, <1>3, <1>4, <1>5

\* ... by the three commits of a first start.
LEMMA FirstStartSync ==
    ASSUME SyncInv, AddGenesis \/ SetBestGenesis \/ InitSyncCheckpoint
    PROVE  SyncInv'
  <1>. USE DEF SyncInv
  <1>1. /\ UNCHANGED <<diskKey, hashPendingCheckpoint, target, release, resetKey, kills>>
        /\ hashPendingCheckpoint = None
    BY DEF AddGenesis, SetBestGenesis, InitSyncCheckpoint, memory, PendingInv
  <1>5. movedBack' \in BOOLEAN
    BY DEF AddGenesis, SetBestGenesis, MoveTo, InitSyncCheckpoint, chain, SyncTypeOK
  <1>2. CASE AddGenesis
    <2>1. /\ index = {} /\ index' = {Genesis} /\ phase' = "genesis"
          /\ UNCHANGED <<best, diskSync, hashSyncCheckpoint>>
      BY <1>2 DEF AddGenesis, memory, chain
    <2>2. best = None /\ diskSync = None /\ resetKey = None
      BY <2>1 DEF SyncTypeOK, ResetInv
    <2>3. SyncTypeOK'
      BY <1>1, <1>5, <2>1, <2>2, BlockAssumption DEF SyncTypeOK, ClosedUnderParent
    <2>4. StartInv' /\ ResetInv'
      BY <1>1, <2>1, <2>2 DEF StartInv, ResetInv, Loaded
    <2>5. PendingInv'
      BY <1>1, <2>1 DEF PendingInv, PendingServed
    <2>. QED
      BY <2>1, <2>3, <2>4, <2>5
  <1>3. CASE SetBestGenesis
    <2>1. /\ phase = "genesis" /\ best' = Genesis /\ phase' = "initialize"
          /\ UNCHANGED <<index, diskSync, hashSyncCheckpoint>>
      BY <1>3 DEF SetBestGenesis, MoveTo, memory
    <2>2. Genesis \in index /\ Genesis # None /\ resetKey = None
      BY <2>1, BlockAssumption, SyncAssumption DEF StartInv, ResetInv
    <2>3. SyncTypeOK'
      BY <1>1, <1>5, <2>1, <2>2 DEF SyncTypeOK
    <2>4. StartInv' /\ ResetInv'
      BY <1>1, <2>1, <2>2 DEF StartInv, ResetInv, Loaded
    <2>5. PendingInv'
      BY <1>1, <2>1 DEF PendingInv, PendingServed
    <2>. QED
      BY <2>1, <2>3, <2>4, <2>5
  <1>4. CASE InitSyncCheckpoint
    <2>1. /\ phase = "initialize" /\ phase' = "key"
          /\ diskSync' = Genesis /\ hashSyncCheckpoint' = Genesis
          /\ UNCHANGED <<index, best>>
      BY <1>4 DEF InitSyncCheckpoint, chain
    <2>2. Genesis \in index /\ best \in index /\ resetKey = None /\ Genesis \in Block
      BY <2>1, BlockAssumption DEF StartInv, ResetInv, SyncTypeOK
    <2>3. SyncTypeOK'
      BY <1>1, <1>5, <2>1, <2>2 DEF SyncTypeOK
    <2>4. StartInv' /\ ResetInv'
      BY <1>1, <2>1, <2>2 DEF StartInv, ResetInv, Loaded
    <2>5. PendingInv'
      BY <1>1, <2>1 DEF PendingInv, PendingServed
    <2>. QED
      BY <2>1, <2>3, <2>4, <2>5
  <1>. QED
    BY <1>2, <1>3, <1>4

\* ... by the check of the master key and the two steps of the reset.
LEMMA ResetSync ==
    ASSUME SyncInv, CheckMasterKey \/ ResetChain \/ ResetWrite
    PROVE  SyncInv'
  <1>. USE DEF SyncInv
  <1>1. /\ phase \in {"key", "reset", "resetWrite"}
        /\ UNCHANGED <<index, target, release, kills>>
    BY DEF CheckMasterKey, ResetChain, ResetWrite, memory
  <1>2. /\ best \in index /\ diskSync \in index /\ hashSyncCheckpoint = diskSync
        /\ release \in Release /\ None \notin index
    BY <1>1, SyncAssumption DEF StartInv, Loaded, SyncTypeOK
  <1>3. CASE CheckMasterKey
    <2>1. /\ phase = "key" /\ diskKey' = MasterKey[release] /\ phase' \in {"up", "reset"}
          /\ phase' = "reset" => resetKey' = None
          /\ resetKey' \in {resetKey, None}
          /\ UNCHANGED <<best, movedBack, diskSync, hashSyncCheckpoint,
                         hashPendingCheckpoint>>
      BY <1>3 DEF CheckMasterKey, memory, chain
    <2>2. hashPendingCheckpoint = None
      BY <2>1 DEF PendingInv
    <2>3. SyncTypeOK'
      BY <1>1, <1>2, <2>1 DEF SyncTypeOK, Key
    <2>4. StartInv'
      BY <1>1, <1>2, <2>1 DEF StartInv
    <2>5. ResetInv'
      BY <1>1, <2>1 DEF ResetInv
    <2>6. PendingInv'
      BY <1>1, <1>2, <2>1, <2>2 DEF PendingInv, PendingServed
    <2>. QED
      BY <2>1, <2>3, <2>4, <2>5, <2>6
  <1>4. CASE ResetChain
    <2>1. /\ phase = "reset" /\ phase' \in {"resetWrite", "failed"}
          /\ best' \in index /\ movedBack' \in {movedBack, FALSE}
          /\ hashPendingCheckpoint' \in Block \cup {None}
          /\ hashPendingCheckpoint' \notin index
          /\ UNCHANGED <<diskSync, diskKey, hashSyncCheckpoint, resetKey>>
      BY <1>2, <1>4, LastHardenedIsBlock DEF ResetChain, MoveTo, chain, PendingInv
    <2>2. resetKey = None
      BY <2>1 DEF ResetInv
    <2>3. SyncTypeOK'
      BY <1>1, <2>1 DEF SyncTypeOK
    <2>4. StartInv'
      BY <1>1, <1>2, <2>1 DEF StartInv
    <2>5. ResetInv'
      BY <2>1, <2>2 DEF ResetInv
    <2>6. PendingInv'
      BY <1>1, <2>1 DEF PendingInv, PendingServed
    <2>. QED
      BY <2>1, <2>3, <2>4, <2>5, <2>6
  <1>5. CASE ResetWrite
    <2>1. /\ phase = "resetWrite" /\ phase' = "up" /\ resetKey' = MasterKey[release]
          /\ diskSync' \in Chain[best] /\ hashSyncCheckpoint' = diskSync'
          /\ UNCHANGED <<best, movedBack, diskKey, hashPendingCheckpoint>>
      BY <1>5 DEF ResetWrite, chain
    <2>2. diskSync' \in index /\ diskSync' \in Block
      BY <1>2, <2>1, ChainIndexed DEF SyncTypeOK
    <2>3. SyncTypeOK'
      BY <1>1, <1>2, <2>1, <2>2 DEF SyncTypeOK, Key
    <2>4. StartInv'
      BY <1>1, <1>2, <2>1, <2>2 DEF StartInv
    <2>5. ResetInv'
      BY <1>1, <1>2, <2>1, <2>2 DEF ResetInv
    <2>6. PendingInv'
      BY <1>1, <2>1 DEF PendingInv, PendingServed
    <2>. QED
      BY <2>1, <2>3, <2>4, <2>5, <2>6
  <1>. QED
    BY <1>3, <1>4, <1>5

-----------------------------------------------------------------------------
\* ... by what is done with a valid checkpoint, whether the chain has to move
\* to it, has already, or cannot.
LEMMA TakeSync ==
    ASSUME SyncInv, phase \in {"up", "accepted"}, NEW c \in index,
           ValidateSyncCheckpoint(c), TakeCheckpoint(c),
           phase = "accepted" => c = hashPendingCheckpoint
    PROVE  SyncInv'
  <1>. USE DEF SyncInv
  <1>1. /\ best \in index /\ diskSync \in index /\ hashSyncCheckpoint = diskSync
        /\ c \in Block /\ hashSyncCheckpoint \in Chain[c] /\ None \notin index
    BY ChainIndexed, SyncAssumption DEF StartInv, Loaded, ValidateSyncCheckpoint, SyncTypeOK
  <1>2. UNCHANGED <<index, diskKey, release, resetKey, kills>>
    BY DEF TakeCheckpoint, WriteSyncCheckpoint, disk
  <1>3. CASE IsInMainChain(c) /\ WriteSyncCheckpoint(c) /\ UNCHANGED chain
    <2>1. /\ c \in Chain[best] /\ best' = best /\ movedBack' = movedBack
          /\ diskSync' = c /\ hashSyncCheckpoint' = c
          /\ hashPendingCheckpoint' = None /\ target' = None /\ phase' = "up"
      BY <1>3 DEF IsInMainChain, WriteSyncCheckpoint, chain
    <2>2. SyncTypeOK'
      BY <1>1, <1>2, <2>1 DEF SyncTypeOK
    <2>3. StartInv'
      BY <1>1, <1>2, <2>1 DEF StartInv
    <2>4. ResetInv'
      BY <1>1, <1>2, <2>1 DEF ResetInv
    <2>5. PendingInv'
      BY <1>1, <1>2, <2>1 DEF PendingInv, PendingServed
    <2>. QED
      BY <2>1, <2>2, <2>3, <2>4, <2>5
  <1>4. CASE /\ best' = c /\ movedBack' = FALSE /\ target' = c /\ phase' = "write"
             /\ UNCHANGED <<diskSync, hashSyncCheckpoint, hashPendingCheckpoint>>
    <2>2. SyncTypeOK'
      BY <1>1, <1>2, <1>4 DEF SyncTypeOK
    <2>3. StartInv'
      BY <1>1, <1>2, <1>4 DEF StartInv
    <2>4. ResetInv'
      BY <1>1, <1>2, <1>4 DEF ResetInv
    <2>5. PendingInv'
      BY <1>2, <1>4 DEF PendingInv, PendingServed
    <2>. QED
      BY <1>1, <1>4, <2>2, <2>3, <2>4, <2>5
  <1>5. CASE SetBestChainFails(c) /\ phase' = "up" /\ UNCHANGED <<disk, memory>>
    <2>1. /\ ~Valid(c) /\ phase' = "up"
          /\ UNCHANGED <<best, movedBack, diskSync, hashSyncCheckpoint,
                         hashPendingCheckpoint, target>>
      BY <1>5, FailsInvalid DEF disk, chain, memory
    <2>2. SyncTypeOK'
      BY <1>2, <2>1 DEF SyncTypeOK
    <2>3. StartInv'
      BY <1>1, <1>2, <2>1 DEF StartInv
    <2>4. ResetInv'
      BY <1>2, <2>1 DEF ResetInv
    <2>5. PendingInv'
      BY <1>2, <2>1 DEF PendingInv, PendingServed, Valid
    <2>. QED
      BY <2>1, <2>2, <2>3, <2>4, <2>5
  <1>. QED
    BY <1>3, <1>4, <1>5 DEF TakeCheckpoint, MoveTo

\* ... by a message of the master and by the end of AcceptBlock.
LEMMA MessageSync ==
    ASSUME SyncInv, AcceptPendingSyncCheckpoint \/ \E c \in Block : ProcessSyncCheckpoint(c)
    PROVE  SyncInv'
  <1>. USE DEF SyncInv
  <1>1. phase \in {"up", "accepted"}
    BY DEF AcceptPendingSyncCheckpoint, ProcessSyncCheckpoint
  <1>2. CASE \E c \in index : /\ ValidateSyncCheckpoint(c) /\ TakeCheckpoint(c)
                              /\ phase = "accepted" => c = hashPendingCheckpoint
    BY <1>1, <1>2, TakeSync
  <1>3. CASE /\ phase' = "up" /\ hashPendingCheckpoint' \in Block \cup {None}
             /\ hashPendingCheckpoint' \notin index
             /\ UNCHANGED <<index, best, movedBack, diskSync, diskKey,
                            hashSyncCheckpoint, target, release, resetKey, kills>>
    <2>1. SyncTypeOK'
      BY <1>3 DEF SyncTypeOK
    <2>2. StartInv'
      BY <1>1, <1>3 DEF StartInv, Loaded
    <2>3. ResetInv'
      BY <1>3 DEF ResetInv
    <2>4. PendingInv'
      BY <1>3 DEF PendingInv, PendingServed
    <2>. QED
      BY <1>3, <2>1, <2>2, <2>3, <2>4
  <1>4. None \notin index
    BY SyncAssumption DEF SyncTypeOK
  <1>5. CASE AcceptPendingSyncCheckpoint
    <2>1. /\ phase = "accepted"
          /\ \/ /\ hashPendingCheckpoint \notin index
                /\ phase' = "up"
                /\ UNCHANGED <<disk, memory, release, resetKey, kills>>
             \/ /\ hashPendingCheckpoint' = None
                /\ phase' = "up"
                /\ UNCHANGED <<disk, hashSyncCheckpoint, target, release, resetKey, kills>>
             \/ /\ hashPendingCheckpoint \in index
                /\ ValidateSyncCheckpoint(hashPendingCheckpoint)
                /\ TakeCheckpoint(hashPendingCheckpoint)
      BY <1>5 DEF AcceptPendingSyncCheckpoint
    <2>2. hashPendingCheckpoint \in Block \cup {None}
      BY DEF SyncTypeOK
    <2>. QED
      BY <1>2, <1>3, <1>4, <2>1, <2>2 DEF disk, chain, memory
  <1>6. CASE \E c \in Block : ProcessSyncCheckpoint(c)
    <2>1. PICK c \in Block : ProcessSyncCheckpoint(c)
      BY <1>6
    <2>. QED
      BY <1>2, <1>3, <2>1 DEF ProcessSyncCheckpoint, disk, chain
  <1>. QED
    BY <1>5, <1>6

\* ... by the record of a checkpoint the chain has been moved to.
LEMMA WriteSync ==
    ASSUME SyncInv, WriteTarget
    PROVE  SyncInv'
  <1>. USE DEF SyncInv
  <1>1. /\ phase = "write" /\ diskSync' = target /\ hashSyncCheckpoint' = target
        /\ hashPendingCheckpoint' = None /\ target' = None /\ phase' = "up"
        /\ UNCHANGED <<index, best, movedBack, diskKey, release, resetKey, kills>>
    BY DEF WriteTarget, WriteSyncCheckpoint, chain
  <1>2. target = best /\ best \in index /\ best \in Block /\ target \in Chain[best]
    BY <1>1, ChainBasic DEF StartInv, Loaded, SyncTypeOK
  <1>3. SyncTypeOK'
    BY <1>1, <1>2 DEF SyncTypeOK
  <1>4. StartInv'
    BY <1>1, <1>2 DEF StartInv
  <1>5. ResetInv'
    BY <1>1, <1>2 DEF ResetInv
  <1>6. PendingInv'
    BY <1>1, SyncAssumption DEF PendingInv, PendingServed, SyncTypeOK
  <1>. QED
    BY <1>1, <1>3, <1>4, <1>5, <1>6

\* ... by a block that is accepted or, with the chain left alone, refused.
LEMMA AcceptSync ==
    ASSUME SyncInv, NEW b \in Block \ {Genesis}, AcceptBlock(b)
    PROVE  SyncInv'
  <1>. USE DEF SyncInv
  <1>1. /\ phase = "up" /\ b \notin index /\ Parent[b] \in index
        /\ hashSyncCheckpoint \in Chain[Parent[b]] /\ index' = index \cup {b}
        /\ \/ phase' = "accepted" /\ best' = b /\ movedBack' = FALSE
           \/ phase' = "accepted" /\ UNCHANGED <<best, movedBack>>
           \/ SetBestChainFails(b) /\ phase' = "up" /\ UNCHANGED <<best, movedBack>>
        /\ UNCHANGED <<diskSync, diskKey, hashSyncCheckpoint, hashPendingCheckpoint, target,
                       release, resetKey, kills>>
    BY DEF AcceptBlock, MoveTo, CheckSync, chain, memory
  <1>2. best \in index /\ diskSync \in index /\ hashSyncCheckpoint = diskSync
    BY <1>1 DEF StartInv, Loaded
  <1>3. diskSync \in Chain[b]
    BY <1>1, <1>2, ChainUnfold
  <1>4. SyncTypeOK'
    BY <1>1, <1>2 DEF SyncTypeOK, ClosedUnderParent
  <1>5. StartInv'
    BY <1>1, <1>2 DEF StartInv
  <1>6. ResetInv'
    BY <1>1, <1>2, <1>3 DEF ResetInv
  <1>7. PendingInv'
    BY <1>1, FailsInvalid DEF PendingInv, PendingServed, Valid
  <1>. QED
    BY <1>1, <1>4, <1>5, <1>6, <1>7

\* ... and by a kill, also one between the index record and the chain.
LEMMA KillSync ==
    ASSUME SyncInv, Kill \/ \E b \in Block \ {Genesis} : KillInAccept(b)
    PROVE  SyncInv'
  <1>. USE DEF SyncInv
  <1>1. /\ phase' = "off" /\ kills < MaxKills /\ kills' = kills + 1 /\ release' \in Release
        /\ hashSyncCheckpoint' = None /\ hashPendingCheckpoint' = None /\ target' = None
        /\ UNCHANGED <<best, movedBack, diskSync, diskKey, resetKey>>
    BY DEF Kill, KillInAccept, Killed, disk, chain
  <1>2. /\ index \subseteq index' /\ index' \subseteq Block /\ ClosedUnderParent(index')
        /\ index' # {} => Genesis \in index'
    BY DEF Kill, KillInAccept, disk, SyncTypeOK, StartInv, ClosedUnderParent
  <1>3. kills' \in 0 .. MaxKills
    BY <1>1, SyncAssumption DEF SyncTypeOK
  <1>4. SyncTypeOK'
    BY <1>1, <1>2, <1>3 DEF SyncTypeOK
  <1>5. StartInv'
    BY <1>1, <1>2 DEF StartInv, Loaded
  <1>6. ResetInv'
    BY <1>1, <1>2 DEF ResetInv
  <1>7. PendingInv'
    BY <1>1 DEF PendingInv, PendingServed
  <1>. QED
    BY <1>1, <1>4, <1>5, <1>6, <1>7

\* Every step keeps the invariant.
LEMMA SyncNextInv == SyncInv /\ [SyncNext]_syncvars => SyncInv'
  <1>. SUFFICES ASSUME SyncInv, [SyncNext]_syncvars
                PROVE  SyncInv'
    OBVIOUS
  <1>1. CASE Startup
    BY <1>1, LoadSync, FirstStartSync, ResetSync DEF Startup
  <1>2. CASE Running
    BY <1>2, MessageSync, WriteSync DEF Running
  <1>3. CASE \E c \in Block : ProcessSyncCheckpoint(c)
    BY <1>3, MessageSync
  <1>4. CASE \E b \in Block \ {Genesis} : AcceptBlock(b)
    BY <1>4, AcceptSync
  <1>5. CASE Kill \/ \E b \in Block \ {Genesis} : KillInAccept(b)
    BY <1>5, KillSync
  <1>6. CASE UNCHANGED syncvars
    BY <1>6 DEF syncvars, disk, chain, memory, SyncInv, SyncTypeOK, StartInv, ResetInv,
       PendingInv, PendingServed, Valid
  <1>. QED
    BY <1>1, <1>2, <1>3, <1>4, <1>5, <1>6 DEF SyncNext

(***************************************************************************)
(* The invariant of the sync-checkpoint holds always, whatever the master   *)
(* signs, and whichever release is started after whichever kill.            *)
(***************************************************************************)
THEOREM SyncInvariance == SyncSpec => []SyncInv
  <1>1. SyncInit => SyncInv
    <2>. SUFFICES ASSUME SyncInit
                  PROVE  SyncInv
      OBVIOUS
    <2>1. kills \in 0 .. MaxKills
      BY SyncAssumption DEF SyncInit
    <2>2. SyncTypeOK
      BY <2>1 DEF SyncInit, SyncTypeOK, ClosedUnderParent
    <2>. QED
      BY <2>2 DEF SyncInit, SyncInv, StartInv, ResetInv, PendingInv, PendingServed, Loaded
  <1>. QED
    BY <1>1, SyncNextInv, PTL DEF SyncSpec

\* The records and the state in memory have their types; the index on disk
\* holds the best block and the sync-checkpoint.
THEOREM SyncTypeCorrect == SyncSpec => []SyncTypeOK
  <1>1. SyncInv => SyncTypeOK
    BY DEF SyncInv
  <1>. QED
    BY <1>1, SyncInvariance, PTL

\* A running node whose reset is complete has its sync-checkpoint on disk and
\* in the main chain or, after a start that moved the chain back and until the
\* chain moves again, above the best block on its branch.
THEOREM SyncCheckpointCorrect == SyncSpec => []SyncInMainChain
  <1>1. SyncInv => SyncInMainChain
    <2>. SUFFICES ASSUME SyncInv, IsRunning, resetKey = MasterKey[release]
                  PROVE  /\ hashSyncCheckpoint \in index /\ diskSync = hashSyncCheckpoint
                         /\ \/ IsInMainChain(hashSyncCheckpoint)
                            \/ movedBack /\ best \in Chain[hashSyncCheckpoint]
      BY DEF SyncInMainChain
    <2>1. resetKey # None
      BY SyncAssumption DEF SyncInv, SyncTypeOK
    <2>. QED
      BY <2>1 DEF SyncInv, StartInv, ResetInv, Loaded, IsRunning, IsInMainChain
  <1>. QED
    BY <1>1, SyncInvariance, PTL

\* A pending checkpoint whose block is known and valid does not stay pending.
THEOREM PendingCorrect == SyncSpec => []PendingServed
  <1>1. SyncInv => PendingServed
    BY DEF SyncInv, PendingInv
  <1>. QED
    BY <1>1, SyncInvariance, PTL

\* While the node runs its sync-checkpoint only moves to descendants.
THEOREM SyncCheckpointAdvances == SyncSpec => SyncAdvances
  <1>1. SyncInv /\ [SyncNext]_syncvars =>
          [IsRunning /\ phase' # "off" =>
              hashSyncCheckpoint \in Chain[hashSyncCheckpoint']]_syncvars
    <2>. SUFFICES ASSUME SyncInv, SyncNext, IsRunning, phase' # "off"
                  PROVE  hashSyncCheckpoint \in Chain[hashSyncCheckpoint']
      OBVIOUS
    <2>1. hashSyncCheckpoint \in Chain[hashSyncCheckpoint]
      BY ChainBasic DEF SyncInv, SyncTypeOK, StartInv, Loaded, IsRunning
    <2>2. phase = "write" => hashSyncCheckpoint \in Chain[target]
      BY DEF SyncInv
    <2>3. ASSUME NEW c, ValidateSyncCheckpoint(c), TakeCheckpoint(c)
          PROVE  hashSyncCheckpoint \in Chain[hashSyncCheckpoint']
      BY <2>1, <2>3 DEF ValidateSyncCheckpoint, TakeCheckpoint, WriteSyncCheckpoint, memory
    <2>4. CASE Startup
      BY <2>4 DEF Startup, Load, Retry, AddGenesis, SetBestGenesis, InitSyncCheckpoint,
         CheckMasterKey, ResetChain, ResetWrite, IsRunning
    <2>5. CASE WriteTarget
      BY <2>2, <2>5 DEF WriteTarget, WriteSyncCheckpoint
    <2>6. CASE AcceptPendingSyncCheckpoint
      BY <2>1, <2>3, <2>6 DEF AcceptPendingSyncCheckpoint, memory
    <2>7. CASE \E c \in Block : ProcessSyncCheckpoint(c)
      BY <2>1, <2>3, <2>7 DEF ProcessSyncCheckpoint
    <2>8. CASE \E b \in Block \ {Genesis} : AcceptBlock(b)
      BY <2>1, <2>8 DEF AcceptBlock, memory
    <2>9. CASE Kill \/ \E b \in Block \ {Genesis} : KillInAccept(b)
      BY <2>9 DEF Kill, KillInAccept, Killed
    <2>. QED
      BY <2>4, <2>5, <2>6, <2>7, <2>8, <2>9 DEF SyncNext, Running
  <1>. QED
    BY <1>1, SyncInvariance, PTL DEF SyncSpec, SyncAdvances

=============================================================================
