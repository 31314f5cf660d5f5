---------------------------- MODULE SupportProofs ----------------------------
(***************************************************************************)
(* Proofs about what the chain state is fed from and kept in: ProcessBlock  *)
(* with the blocks it holds back (OrphanBlocks), for every tree of blocks;  *)
(* the requests for one item (Inventory), for any number of peers; and      *)
(* CTxDB, which implements the transactional store for every set of keys,   *)
(* values and objects and for batches of every length.                      *)
(***************************************************************************)
EXTENDS OrphanBlocks, Inventory, TxDB, BlockTreeProofs, FiniteSetTheorems

-----------------------------------------------------------------------------
\* Two blocks that are on each other's chains are the same.
LEMMA ChainAntisymmetric ==
    ASSUME NEW b \in Block, NEW c \in Chain[b], b \in Chain[c]
    PROVE  b = c
  <1>. SUFFICES ASSUME b # c
                PROVE  FALSE
    OBVIOUS
  <1>1. c \in Block /\ Height[c] < Height[b] /\ Height[b] < Height[c]
    BY ChainBasic, ChainHeight
  <1>. QED
    BY <1>1, RecursionAssumption

(***************************************************************************)
(* Back along a chain of orphans there is a first one: WantedByOrphan names *)
(* a block, and one that is not an orphan itself.                           *)
(***************************************************************************)
LEMMA WantedIsBlock ==
    ASSUME NEW S \in SUBSET (Block \ {Genesis}), NEW b \in Block \ {Genesis}
    PROVE  WantedByOrphan(S, b) \in Block /\ WantedByOrphan(S, b) \notin S
  <1>. DEFINE Back(r) == Chain[b] \ Chain[Parent[r]] \subseteq S \cup {b}
              A == {r \in Chain[b] \ {Genesis} : Back(r)}
  <1>1. b \in A /\ A \subseteq Block
    BY ChainBasic, ChainUnfold
  <1>2. PICK r \in A : Parent[r] \notin A
    BY <1>1, AcyclicAssumption
  <1>3. /\ r \in Chain[b] \ {Genesis} /\ r \in Block /\ Back(r)
        /\ Parent[r] \in Block /\ Parent[r] \in Chain[b]
    BY <1>1, <1>2, ChainBasic, BlockAssumption DEF ClosedUnderParent
  <1>4. Parent[r] \notin S
    <2>. SUFFICES ASSUME Parent[r] \in S
                  PROVE  FALSE
      OBVIOUS
    <2>1. /\ Parent[r] # Genesis
          /\ Chain[Parent[r]] = Chain[Parent[Parent[r]]] \cup {Parent[r]}
      BY <1>3, ChainUnfold
    <2>2. Back(Parent[r])
      BY <1>3, <2>1
    <2>. QED
      BY <1>2, <1>3, <2>1, <2>2
  <1>. DEFINE w == CHOOSE q \in Chain[b] \ {Genesis} : Back(q) /\ Parent[q] \notin S
  <1>5. w \in Chain[b] \ {Genesis} /\ Parent[w] \notin S
    BY <1>3, <1>4
  <1>6. Parent[w] \in Block
    BY <1>5, ChainBasic, BlockAssumption
  <1>. QED
    BY <1>5, <1>6 DEF WantedByOrphan

(***************************************************************************)
(* What the work queue goes through, when b itself is accepted: it is closed*)
(* under the orphan children of the blocks that are accepted, and each of   *)
(* its blocks comes after its parent.                                       *)
(***************************************************************************)
LEMMA WorkQueueClosed ==
    ASSUME NEW b \in Block, b \notin mapOrphanBlocks, NEW fails, b \notin fails,
           mapOrphanBlocks \in SUBSET (Block \ {Genesis})
    PROVE  /\ \A c \in mapOrphanBlocks :
                Parent[c] \in (WorkQueue(b, fails) \cup {b}) \ fails =>
                    c \in WorkQueue(b, fails)
           /\ \A c \in WorkQueue(b, fails) :
                Parent[c] \in (WorkQueue(b, fails) \cup {b}) \ fails
  <1>. DEFINE Q == WorkQueue(b, fails)
  <1>1. Q = {c \in mapOrphanBlocks \ {b} :
                /\ b \in Chain[c]
                /\ Chain[Parent[c]] \ Chain[b] \subseteq mapOrphanBlocks \ fails}
    BY DEF WorkQueue
  <1>. HIDE DEF Q
  <1>2. ASSUME NEW c \in mapOrphanBlocks, Parent[c] \in (Q \cup {b}) \ fails
        PROVE  c \in Q
    <2>1. c \in Block \ {Genesis} /\ Chain[c] = Chain[Parent[c]] \cup {c}
          /\ Parent[c] \in Chain[Parent[c]] /\ c # b
      BY ChainUnfold, ChainBasic
    <2>2. CASE Parent[c] = b
      BY <1>1, <2>1, <2>2
    <2>3. CASE Parent[c] \in Q
      <3>. DEFINE p == Parent[c]
      <3>1. p \in mapOrphanBlocks /\ p \in Block \ {Genesis} /\ b \in Chain[p] /\ p \notin fails
            /\ Chain[Parent[p]] \ Chain[b] \subseteq mapOrphanBlocks \ fails
        BY <1>1, <1>2, <2>3
      <3>2. Chain[p] = Chain[Parent[p]] \cup {p}
        BY <3>1, ChainUnfold
      <3>. QED
        BY <1>1, <2>1, <3>1, <3>2
    <2>. QED
      BY <1>2, <2>2, <2>3
  <1>3. ASSUME NEW c \in Q
        PROVE  Parent[c] \in (Q \cup {b}) \ fails
    <2>. DEFINE p == Parent[c]
    <2>1. /\ c \in mapOrphanBlocks /\ c # b /\ b \in Chain[c] /\ c \in Block \ {Genesis}
          /\ Chain[p] \ Chain[b] \subseteq mapOrphanBlocks \ fails
      BY <1>1
    <2>2. p \in Block /\ p \in Chain[p] /\ Chain[c] = Chain[p] \cup {c}
      BY <2>1, ChainUnfold, ChainBasic
    <2>3. CASE p = b
      BY <2>3
    <2>4. CASE p # b
      <3>1. b \in Chain[p]
        BY <2>1, <2>2
      <3>2. p \notin Chain[b]
        BY <2>2, <2>4, <3>1, ChainAntisymmetric
      <3>3. p \in mapOrphanBlocks /\ p \notin fails /\ p \in Block \ {Genesis}
        BY <2>1, <2>2, <3>2
      <3>4. Chain[Parent[p]] \subseteq Chain[p]
        BY <3>3, ChainUnfold
      <3>. QED
        BY <1>1, <2>1, <2>4, <3>1, <3>3, <3>4
    <2>. QED
      BY <2>3, <2>4
  <1>. QED
    BY <1>2, <1>3 DEF Q

-----------------------------------------------------------------------------
\* What AskForPendingSyncCheckpoint asks for is a block.
LEMMA PendingIsBlock == AskForPending \subseteq Block
  BY OrphanAssumption DEF AskForPending

\* The inductive invariant of the orphan blocks is preserved when a block is
\* put aside, or dropped as a duplicate stake.
LEMMA AddOrphanInv ==
    ASSUME OrphanInv, NEW b \in Block \ {Genesis}, AddOrphan(b),
           b \notin mapBlockIndex \cup mapOrphanBlocks
    PROVE  OrphanInv'
  <1>. USE DEF OrphanInv
  <1>1. Parent[b] \notin mapBlockIndex /\ UNCHANGED <<mapBlockIndex, refused, turnedAway>>
    BY DEF AddOrphan
  <1>2. CASE DuplicateStake(b, setStakeSeenOrphan)
    <2>1. /\ asked' = (asked \ {b}) \cup AskForPending
          /\ UNCHANGED <<mapOrphanBlocks, setStakeSeenOrphan>>
      BY <1>2 DEF AddOrphan
    <2>. QED
      BY <1>1, <2>1, PendingIsBlock DEF OrphanTypeOK, NoStaleStake, NoReadyOrphan
  <1>3. CASE ~DuplicateStake(b, setStakeSeenOrphan)
    <2>1. /\ mapOrphanBlocks' = mapOrphanBlocks \cup {b}
          /\ setStakeSeenOrphan' = setStakeSeenOrphan \cup Stakes({b})
          /\ asked' = (asked \ {b}) \cup AskForPending
                         \cup {WantedByOrphan(mapOrphanBlocks, b)}
      BY <1>3 DEF AddOrphan
    <2>2. WantedByOrphan(mapOrphanBlocks, b) \in Block
      BY WantedIsBlock DEF OrphanTypeOK
    <2>3. Stakes({b}) \subseteq Stakes(Block) /\ Stakes({b}) \subseteq Stakes(mapOrphanBlocks')
          /\ Stakes(mapOrphanBlocks) \subseteq Stakes(mapOrphanBlocks')
      BY <2>1 DEF Stakes
    <2>4. OrphanTypeOK'
      BY <1>1, <2>1, <2>2, <2>3, PendingIsBlock DEF OrphanTypeOK
    <2>5. NoStaleStake'
      BY <2>1, <2>3 DEF NoStaleStake
    <2>6. NoReadyOrphan'
      BY <1>1, <2>1 DEF NoReadyOrphan
    <2>. QED
      BY <2>4, <2>5, <2>6
  <1>. QED
    BY <1>2, <1>3

(***************************************************************************)
(* ... and when a block with a known parent is taken up, together with the  *)
(* orphans the work queue goes through, whichever of them are refused.      *)
(***************************************************************************)
LEMMA AcceptWithOrphansInv ==
    ASSUME OrphanInv, NEW b \in Block \ {Genesis}, AcceptWithOrphans(b),
           b \notin mapBlockIndex \cup mapOrphanBlocks
    PROVE  OrphanInv'
  <1>. USE DEF OrphanInv
  <1>1. PICK notIndexed \in SUBSET Refusable, notConnected \in SUBSET Unconnectable :
          LET fails == notIndexed \cup notConnected
              done  == WorkQueue(b, fails)
              tried == done \cup {b}
          IN  /\ Parent[b] \in mapBlockIndex
              /\ notIndexed \cap notConnected = {} /\ fails \subseteq tried
              /\ mapBlockIndex' = mapBlockIndex \cup (tried \ notIndexed)
              /\ mapOrphanBlocks' = mapOrphanBlocks \ done
              /\ EraseStakes(done)
              /\ refused' = refused \cup fails
              /\ asked' = (asked \ {b}) \cup AskForPending
              /\ UNCHANGED turnedAway
    BY DEF AcceptWithOrphans
  <1>. DEFINE fails == notIndexed \cup notConnected
              done  == WorkQueue(b, fails)
  <1>2. /\ Parent[b] \in mapBlockIndex /\ fails \subseteq done \cup {b}
        /\ mapBlockIndex' = mapBlockIndex \cup ((done \cup {b}) \ notIndexed)
        /\ mapOrphanBlocks' = mapOrphanBlocks \ done
        /\ setStakeSeenOrphan' = setStakeSeenOrphan \ Stakes(done)
        /\ refused' = refused \cup fails
        /\ asked' = (asked \ {b}) \cup AskForPending
        /\ UNCHANGED turnedAway
    BY <1>1 DEF EraseStakes
  <1>3. done \subseteq mapOrphanBlocks
    BY DEF WorkQueue
  <1>4. mapOrphanBlocks \in SUBSET (Block \ {Genesis})
    BY DEF OrphanTypeOK
  <1>5. b \in fails => done = {}
    BY DEF WorkQueue
  <1>6. ASSUME NEW c \in mapOrphanBlocks, Parent[c] \in (done \cup {b}) \ fails
        PROVE  c \in done
    <2>1. b \notin fails
      BY <1>5, <1>6
    <2>. QED
      BY <1>4, <1>6, <2>1, WorkQueueClosed
  <1>7. ASSUME NEW c \in done
        PROVE  Parent[c] \in (done \cup {b}) \ fails
    <2>1. b \notin fails
      BY <1>5, <1>7
    <2>. QED
      BY <1>4, <1>7, <2>1, WorkQueueClosed
  <1>. HIDE DEF done
  <1>8. OrphanTypeOK'
    <2>1. ClosedUnderParent(mapBlockIndex')
      <3>. SUFFICES ASSUME NEW c \in mapBlockIndex' \ {Genesis}
                    PROVE  Parent[c] \in mapBlockIndex'
        BY DEF ClosedUnderParent
      <3>1. CASE c \in mapBlockIndex
        BY <1>2, <3>1 DEF OrphanTypeOK, ClosedUnderParent
      <3>2. CASE c \in done
        BY <1>2, <1>7, <3>2
      <3>3. CASE c = b
        BY <1>2, <3>3
      <3>. QED
        BY <1>2, <3>1, <3>2, <3>3
    <2>. QED
      BY <1>2, <1>3, <2>1, PendingIsBlock DEF OrphanTypeOK, ClosedUnderParent
  <1>9. NoStaleStake'
    <2>. SUFFICES ASSUME NEW s \in setStakeSeenOrphan'
                  PROVE  s \in Stakes(mapOrphanBlocks')
      BY DEF NoStaleStake
    <2>1. s \in Stakes(mapOrphanBlocks) /\ s \notin Stakes(done)
      BY <1>2 DEF NoStaleStake
    <2>. QED
      BY <1>2, <2>1 DEF Stakes
  <1>10. NoReadyOrphan'
    <2>. SUFFICES ASSUME NEW c \in mapOrphanBlocks', Parent[c] \in mapBlockIndex',
                         Parent[c] \notin refused'
                  PROVE  FALSE
      BY DEF NoReadyOrphan
    <2>1. c \in mapOrphanBlocks /\ c \notin done
      BY <1>2
    <2>2. Parent[c] \notin mapBlockIndex /\ Parent[c] \notin fails
      BY <1>2, <2>1 DEF NoReadyOrphan
    <2>. QED
      BY <1>2, <1>6, <2>1, <2>2
  <1>. QED
    BY <1>8, <1>9, <1>10

\* Every block message, and every other step, keeps the invariant.
LEMMA OrphanNextInv == OrphanInv /\ [OrphanNext]_ovars => OrphanInv'
  <1>. SUFFICES ASSUME OrphanInv, [OrphanNext]_ovars
                PROVE  OrphanInv'
    OBVIOUS
  <1>1. ASSUME NEW b \in Block \ {Genesis}, ProcessBlock(b)
        PROVE  OrphanInv'
    <2>1. b \notin mapBlockIndex \cup mapOrphanBlocks
      BY <1>1 DEF ProcessBlock
    <2>2. CASE DuplicateStake(b, setStakeSeen)
      <3>1. asked' = asked \ {b} /\ UNCHANGED <<mapBlockIndex, mapOrphanBlocks,
                                                setStakeSeenOrphan, refused, turnedAway>>
        BY <1>1, <2>2 DEF ProcessBlock
      <3>. QED
        BY <3>1 DEF OrphanInv, OrphanTypeOK, NoStaleStake, NoReadyOrphan
    <2>3. CASE AddOrphan(b)
      BY <2>1, <2>3, AddOrphanInv
    <2>4. CASE AcceptWithOrphans(b)
      BY <2>1, <2>4, AcceptWithOrphansInv
    <2>5. CASE TurnAway(b)
      BY <2>5 DEF TurnAway, OrphanInv, OrphanTypeOK, NoStaleStake, NoReadyOrphan
    <2>. QED
      BY <1>1, <2>2, <2>3, <2>4, <2>5 DEF ProcessBlock
  <1>2. ASSUME NEW b \in Block \ {Genesis}, AlreadyHave(b)
        PROVE  OrphanInv'
    BY <1>2 DEF AlreadyHave, OrphanInv, OrphanTypeOK, NoStaleStake, NoReadyOrphan
  <1>3. CASE UNCHANGED ovars
    BY <1>3 DEF ovars, OrphanInv, OrphanTypeOK, NoStaleStake, NoReadyOrphan
  <1>. QED
    BY <1>1, <1>2, <1>3 DEF OrphanNext

(***************************************************************************)
(* For every tree of blocks, every order of arrival and every choice of     *)
(* blocks that are refused, the invariant of the orphans holds always.      *)
(***************************************************************************)
THEOREM OrphanInvariance == OrphanSpec => []OrphanInv
  <1>1. OrphanInit => OrphanInv
    BY DEF OrphanInit, OrphanInv, OrphanTypeOK, NoStaleStake, NoReadyOrphan
  <1>. QED
    BY <1>1, OrphanNextInv, PTL DEF OrphanSpec

\* The maps of ProcessBlock have their types; the index is closed under pprev
\* and shares no block with the orphans.
THEOREM OrphanTypeCorrect == OrphanSpec => []OrphanTypeOK
  <1>1. OrphanInv => OrphanTypeOK
    BY DEF OrphanInv
  <1>. QED
    BY <1>1, OrphanInvariance, PTL

\* setStakeSeenOrphan holds no stake whose orphans are all gone.
THEOREM StakesCorrect == OrphanSpec => []NoStaleStake
  <1>1. OrphanInv => NoStaleStake
    BY DEF OrphanInv
  <1>. QED
    BY <1>1, OrphanInvariance, PTL

\* The work queue leaves no orphan behind whose parent it has accepted.
THEOREM WorkQueueComplete == OrphanSpec => []NoReadyOrphan
  <1>1. OrphanInv => NoReadyOrphan
    BY DEF OrphanInv
  <1>. QED
    BY <1>1, OrphanInvariance, PTL

-----------------------------------------------------------------------------
\* How many peers have announced the item, before and after one more does.
LEMMA AnnouncedCount ==
    ASSUME NEW A \in SUBSET Peer
    PROVE  /\ Cardinality(A) \in Nat /\ Cardinality(A) <= Cardinality(Peer)
           /\ Cardinality(Peer) \in Nat
           /\ A # {} => Cardinality(A) >= 1
           /\ \A p \in Peer \ A : Cardinality(A \cup {p}) = Cardinality(A) + 1
  <1>1. IsFiniteSet(Peer) /\ IsFiniteSet(A)
    BY InventoryAssumption, FS_Subset
  <1>. QED
    BY <1>1, FS_Subset, FS_CardinalityType, FS_EmptySet, FS_AddElement

(***************************************************************************)
(* The inductive invariant of the requests is preserved by an announcement: *)
(* the request it queues is at most one retry later than the last one, and  *)
(* so never beyond the end of the clock.                                    *)
(***************************************************************************)
LEMMA InvInv ==
    ASSUME InventoryInv, NEW p \in Peer, Inv(p)
    PROVE  InventoryInv'
  <1>. USE DEF InventoryInv
  <1>1. /\ p \notin announced /\ clock <= LastInv /\ announced' = announced \cup {p}
        /\ UNCHANGED <<clock, getdata, have, forgotten, lastSent, verdict>>
    BY DEF Inv
  <1>2. /\ clock \in Nat /\ mapAlreadyAskedFor \in Nat /\ LastInv \in Nat /\ MaxClock \in Nat
        /\ lastSent \in Int /\ mapAskFor \in [Peer -> SUBSET Time]
        /\ announced \subseteq Peer /\ announced' \subseteq Peer
        /\ clock <= MaxClock /\ mapAlreadyAskedFor <= MaxClock
    BY <1>1, InventoryAssumption DEF InventoryTypeOK, Time
  <1>. DEFINE n == Cardinality(announced)
              N == Cardinality(Peer)
  <1>3. /\ n \in Nat /\ N \in Nat /\ Cardinality(announced') = n + 1 /\ n + 1 <= N
    BY <1>1, <1>2, AnnouncedCount
  <1>4. MaxClock >= LastInv + 2 * (N - 1)
    BY ClockAssumption DEF Retry
  <1>5. mapAlreadyAskedFor <= LastInv + 2 * (n - 1)
    BY <1>1 DEF Retry
  <1>. HIDE DEF n, N
  <1>6. CASE have
    <2>1. UNCHANGED <<mapAlreadyAskedFor, mapAskFor>>
      BY <1>6 DEF Inv
    <2>2. mapAlreadyAskedFor <= LastInv + 2 * n
      BY <1>2, <1>3, <1>5
    <2>3. mapAlreadyAskedFor <= LastInv + Retry * (Cardinality(announced') - 1)
      BY <1>2, <1>3, <2>2 DEF Retry
    <2>. QED
      BY <1>1, <1>2, <2>1, <2>3 DEF InventoryTypeOK
  <1>7. CASE ~have
    <2>. DEFINE t == Later(mapAlreadyAskedFor + Retry, clock)
    <2>1. /\ mapAlreadyAskedFor' = t
          /\ mapAskFor' = [mapAskFor EXCEPT ![p] = @ \cup {t}]
      BY <1>7 DEF Inv, AskFor
    <2>2. /\ t \in Nat /\ t <= LastInv + 2 * n /\ t >= mapAlreadyAskedFor
      BY <1>1, <1>2, <1>3, <1>5 DEF Later, Retry
    <2>3. t <= MaxClock
      BY <1>2, <1>3, <1>4, <2>2
    <2>4. t \in Time
      BY <1>2, <2>2, <2>3 DEF Time
    <2>5. t <= LastInv + Retry * (Cardinality(announced') - 1)
      BY <1>2, <1>3, <2>2 DEF Retry
    <2>6. lastSent <= t
      BY <1>2, <2>2
    <2>. HIDE DEF t
    <2>7. InventoryTypeOK'
      BY <1>1, <1>2, <2>1, <2>4 DEF InventoryTypeOK
    <2>8. \A q \in Peer : mapAskFor'[q] # {} => q \in announced'
      BY <1>1, <1>2, <2>1
    <2>. QED
      BY <1>1, <2>1, <2>5, <2>6, <2>7, <2>8
  <1>. QED
    BY <1>6, <1>7

\* ... and by every other step.
LEMMA InventoryNextInv == InventoryInv /\ [InventoryNext]_ivars => InventoryInv'
  <1>. SUFFICES ASSUME InventoryInv, [InventoryNext]_ivars
                PROVE  InventoryInv'
    OBVIOUS
  <1>. USE DEF InventoryInv
  <1>1. /\ clock \in Nat /\ mapAlreadyAskedFor \in Nat /\ LastInv \in Nat /\ MaxClock \in Nat
        /\ lastSent \in Int /\ mapAskFor \in [Peer -> SUBSET Time]
        /\ announced \subseteq Peer /\ clock <= MaxClock
        /\ Cardinality(announced) \in Nat
        /\ announced # {} => Cardinality(announced) >= 1
    BY InventoryAssumption, AnnouncedCount DEF InventoryTypeOK, Time
  <1>2. ASSUME NEW p \in Peer, SendGetData(p)
        PROVE  InventoryInv'
    <2>1. PICK t \in mapAskFor[p] :
            /\ mapAskFor' = [mapAskFor EXCEPT ![p] = @ \ {t}]
            /\ IF have
                 THEN UNCHANGED <<getdata, lastSent, mapAlreadyAskedFor>>
                 ELSE /\ getdata' = getdata \cup {p}
                      /\ mapAlreadyAskedFor' = clock /\ lastSent' = clock
            /\ UNCHANGED <<clock, have, forgotten, announced, verdict>>
      BY <1>2 DEF SendGetData
    <2>2. InventoryTypeOK'
      BY <1>1, <2>1 DEF InventoryTypeOK
    <2>3. \A q \in Peer : mapAskFor'[q] # {} => q \in announced'
      BY <1>1, <2>1
    <2>4. Cardinality(announced) >= 1
      BY <1>1, <2>1
    <2>5. clock <= LastInv => clock <= LastInv + Retry * (Cardinality(announced) - 1)
      BY <1>1, <2>4 DEF Retry
    <2>. QED
      BY <1>1, <2>1, <2>2, <2>3, <2>5
  <1>3. ASSUME NEW p \in Peer, Receive(p)
        PROVE  InventoryInv'
    <2>1. /\ getdata' = getdata \ {p} /\ verdict' = TRUE /\ have' \in {have, TRUE}
          /\ \/ mapAlreadyAskedFor' = 0 /\ lastSent' = -1
             \/ UNCHANGED <<mapAlreadyAskedFor, lastSent>>
          /\ UNCHANGED <<clock, mapAskFor, forgotten, announced>>
      BY <1>3 DEF Receive
    <2>5. have' \in BOOLEAN /\ verdict' \in BOOLEAN
      BY <2>1, Zenon DEF InventoryTypeOK
    <2>6. mapAlreadyAskedFor' \in Time /\ lastSent' \in Time \cup {-1}
      BY <1>1, <2>1 DEF InventoryTypeOK, Time
    <2>2. InventoryTypeOK'
      BY <2>1, <2>5, <2>6 DEF InventoryTypeOK
    <2>3. mapAlreadyAskedFor' <= mapAlreadyAskedFor /\ mapAlreadyAskedFor' \in Nat
      BY <1>1, <2>1
    <2>4. clock <= LastInv =>
            mapAlreadyAskedFor' <= LastInv + Retry * (Cardinality(announced) - 1)
      BY <1>1, <2>3 DEF Retry
    <2>. QED
      BY <1>1, <2>1, <2>2, <2>4
  <1>4. ASSUME NEW p \in Peer, Disconnect(p)
        PROVE  InventoryInv'
    BY <1>1, <1>4 DEF Disconnect, InventoryTypeOK
  <1>5. CASE Forget
    <2>1. /\ have' = FALSE /\ forgotten < MaxForgotten /\ forgotten' = forgotten + 1
          /\ UNCHANGED <<clock, mapAlreadyAskedFor, mapAskFor, getdata, announced,
                         lastSent, verdict>>
      BY <1>5 DEF Forget
    <2>2. forgotten' \in 0 .. MaxForgotten
      BY <2>1, InventoryAssumption DEF InventoryTypeOK
    <2>3. InventoryTypeOK'
      BY <2>1, <2>2 DEF InventoryTypeOK
    <2>. QED
      BY <2>1, <2>3
  <1>6. CASE Tick
    BY <1>1, <1>6 DEF Tick, InventoryTypeOK, Time
  <1>7. CASE UNCHANGED ivars
    BY <1>7 DEF ivars, InventoryTypeOK
  <1>. QED
    BY <1>2, <1>3, <1>4, <1>5, <1>6, <1>7, InvInv DEF InventoryNext

(***************************************************************************)
(* For any number of peers the invariant of the requests holds always: in   *)
(* particular every request is due before the bound on the clock.           *)
(***************************************************************************)
THEOREM InventoryInvariance == InventorySpec => []InventoryInv
  <1>1. InventoryInit => InventoryInv
    <2>. SUFFICES ASSUME InventoryInit
                  PROVE  InventoryInv
      OBVIOUS
    <2>1. Cardinality(announced) = 0
      BY FS_EmptySet DEF InventoryInit
    <2>2. Retry \in Time /\ 0 \in Time
      BY InventoryAssumption, ClockAssumption DEF Retry, Time
    <2>4. forgotten \in 0 .. MaxForgotten
      BY InventoryAssumption DEF InventoryInit
    <2>5. mapAskFor \in [Peer -> SUBSET Time]
      BY DEF InventoryInit
    <2>3. InventoryTypeOK
      BY <2>2, <2>4, <2>5 DEF InventoryInit, InventoryTypeOK
    <2>. QED
      BY <2>1, <2>3, InventoryAssumption DEF InventoryInit, InventoryInv, Retry
  <1>. QED
    BY <1>1, InventoryNextInv, PTL DEF InventorySpec

\* The state of the requests has its type.
THEOREM InventoryTypeCorrect == InventorySpec => []InventoryTypeOK
  <1>1. InventoryInv => InventoryTypeOK
    BY DEF InventoryInv
  <1>. QED
    BY <1>1, InventoryInvariance, PTL

\* A request that is queued after a getdata waits for the retry interval,
\* whichever peer the two are for.
THEOREM RequestsWait == InventorySpec => NewRequestsWait
  <1>1. InventoryInv /\ [InventoryNext]_ivars =>
          [\A p \in Peer : \A t \in mapAskFor'[p] \ mapAskFor[p] :
              lastSent >= 0 => t >= lastSent + Retry]_ivars
    <2>. SUFFICES ASSUME InventoryInv, InventoryNext, NEW p \in Peer,
                         NEW t \in mapAskFor'[p], t \notin mapAskFor[p]
                  PROVE  t >= lastSent + Retry
      BY DEF ivars
    <2>1. /\ clock \in Nat /\ mapAlreadyAskedFor \in Nat /\ lastSent \in Int
          /\ mapAskFor \in [Peer -> SUBSET Time] /\ lastSent <= mapAlreadyAskedFor
      BY InventoryAssumption DEF InventoryInv, InventoryTypeOK, Time
    <2>2. PICK q \in Peer : Inv(q)
      BY <2>1 DEF InventoryNext, SendGetData, Receive, Disconnect, Forget, Tick
    <2>3. mapAskFor' = [mapAskFor EXCEPT ![q] =
                           @ \cup {Later(mapAlreadyAskedFor + Retry, clock)}]
      BY <2>2 DEF Inv, AskFor
    <2>4. t = Later(mapAlreadyAskedFor + Retry, clock)
      BY <2>1, <2>3
    <2>. QED
      BY <2>1, <2>4 DEF Later, Retry
  <1>. QED
    BY <1>1, InventoryInvariance, PTL DEF InventorySpec, NewRequestsWait

-----------------------------------------------------------------------------
(***************************************************************************)
(* The strengthening: a key with entries in a batch has a last one.  It     *)
(* holds of every finite sequence; kept as an invariant, it follows from    *)
(* the one entry that each step appends.                                    *)
(***************************************************************************)
HasLast(batch) ==
    \A k \in Key : Entries(batch, k) # {} =>
        \E i \in Entries(batch, k) : \A j \in Entries(batch, k) : j <= i

TxDBInv ==
    /\ TxDBTypeOK
    /\ NoOldRecords
    /\ \A h \in Handle : activeBatch[h] # NoTxn => HasLast(activeBatch[h])

-----------------------------------------------------------------------------
\* The empty batch changes nothing.
LEMMA EmptyBatch ==
  /\ <<>> \in Seq(Entry)
  /\ HasLast(<<>>)
  /\ \A k \in Key : ScanBatch(<<>>, k) = Untouched
  BY DEF HasLast, Entries, ScanBatch

\* The last entry is one of the entries, and there is only one last.
LEMMA LastUnique ==
  ASSUME NEW b \in Seq(Entry), NEW k \in Key, NEW i \in Entries(b, k),
         \A j \in Entries(b, k) : j <= i
  PROVE  LastEntry(b, k) = i
  <1>1. /\ LastEntry(b, k) \in Entries(b, k)
        /\ \A j \in Entries(b, k) : j <= LastEntry(b, k)
    BY DEF LastEntry
  <1>2. LastEntry(b, k) \in Int /\ i \in Int
    BY <1>1 DEF Entries
  <1>. QED
    BY <1>1, <1>2

\* What a key of a batch reads as is a value, a deletion or nothing.
LEMMA ScanType ==
  ASSUME NEW b \in Seq(Entry), HasLast(b), NEW k \in Key
  PROVE  ScanBatch(b, k) \in Value \cup {Absent, Untouched}
  <1>1. CASE Entries(b, k) = {}
    BY <1>1 DEF ScanBatch
  <1>2. CASE Entries(b, k) # {}
    <2>1. LastEntry(b, k) \in Entries(b, k)
      BY <1>2, LastUnique DEF HasLast
    <2>2. b[LastEntry(b, k)] \in Entry
      BY <2>1 DEF Entries
    <2>. QED
      BY <1>2, <2>2 DEF ScanBatch, Entry
  <1>. QED
    BY <1>1, <1>2

(***************************************************************************)
(* Append replaces what the batch says of its key, and of no other.         *)
(***************************************************************************)
LEMMA ScanAppend ==
  ASSUME NEW b \in Seq(Entry), HasLast(b), NEW c \in Key, NEW v \in Value \cup {Absent}
  PROVE  LET a == Append(b, [key |-> c, value |-> v])
         IN  /\ a \in Seq(Entry)
             /\ HasLast(a)
             /\ \A k \in Key : ScanBatch(a, k) = IF k = c THEN v ELSE ScanBatch(b, k)
  <1>. DEFINE e == [key |-> c, value |-> v]
              a == Append(b, e)
              n == Len(b) + 1
  <1>1. e \in Entry /\ e.key = c /\ e.value = v
    BY DEF Entry
  <1>2. /\ a \in Seq(Entry)
        /\ DOMAIN a = 1 .. n
        /\ a[n] = e
        /\ \A i \in DOMAIN b : i \in 1 .. (n - 1) /\ a[i] = b[i]
        /\ DOMAIN b = 1 .. (n - 1) /\ n \in Nat \ {0}
    BY <1>1
  <1>3. ASSUME NEW k \in Key
        PROVE  /\ k = c => n \in Entries(a, k) /\ \A j \in Entries(a, k) : j <= n
               /\ k # c => Entries(a, k) = Entries(b, k)
    <2>. HIDE DEF a, e, n
    <2>1. CASE k = c
      <3>0. n \in 1 .. n
        BY <1>2
      <3>1. n \in DOMAIN a /\ a[n].key = c
        BY <1>1, <1>2, <3>0
      <3>2. \A j \in DOMAIN a : j <= n
        BY <1>2
      <3>. QED
        BY <2>1, <3>1, <3>2 DEF Entries
    <2>2. CASE k # c
      <3>1. n \notin Entries(a, k)
        BY <1>1, <1>2, <2>2 DEF Entries
      <3>2. ASSUME NEW i PROVE i \in Entries(a, k) <=> i \in Entries(b, k)
        BY <1>2, <3>1 DEF Entries
      <3>. QED
        BY <3>2, <2>2
    <2>. QED
      BY <2>1, <2>2
  <1>4. HasLast(a)
    <2>. HIDE DEF a, e, n
    <2>. QED
      BY <1>3 DEF HasLast
  <1>5. ASSUME NEW k \in Key
        PROVE  ScanBatch(a, k) = IF k = c THEN v ELSE ScanBatch(b, k)
    <2>1. CASE k = c
      <3>1. LastEntry(a, k) = n /\ Entries(a, k) # {}
        <4>. HIDE DEF a, e, n
        <4>. QED
          BY <1>2, <1>3, <2>1, LastUnique
      <3>. HIDE DEF a, e, n
      <3>. QED
        BY <1>1, <1>2, <2>1, <3>1 DEF ScanBatch
    <2>2. CASE k # c
      <3>1. Entries(a, k) = Entries(b, k)
        BY <1>3, <2>2
      <3>2. CASE Entries(b, k) = {}
        BY <2>2, <3>1, <3>2 DEF ScanBatch
      <3>3. CASE Entries(b, k) # {}
        <4>1. PICK i \in Entries(b, k) : \A j \in Entries(b, k) : j <= i
          BY <3>3 DEF HasLast
        <4>2. LastEntry(b, k) = i
          BY <4>1, LastUnique
        <4>3. LastEntry(a, k) = i
          <5>. HIDE DEF a, e, n
          <5>. QED
            BY <1>2, <3>1, <4>1, LastUnique
        <4>4. a[i] = b[i]
          <5>1. i \in DOMAIN b
            BY <4>1 DEF Entries
          <5>. HIDE DEF a, e, n
          <5>. QED
            BY <1>2, <5>1
        <4>. HIDE DEF a, e, n
        <4>. QED
          BY <2>2, <3>1, <3>3, <4>2, <4>3, <4>4 DEF ScanBatch
      <3>. QED
        BY <3>2, <3>3
    <2>. QED
      BY <2>1, <2>2
  <1>. QED
    BY <1>2, <1>4, <1>5

-----------------------------------------------------------------------------
\* A committed batch leaves a value or nothing for every key.
LEMMA WriteBatchType ==
  ASSUME TxDBInv, NEW h \in Handle, activeBatch[h] # NoTxn
  PROVE  WriteBatch(activeBatch[h]) \in [Key -> Value \cup {Absent}]
  BY ScanType DEF WriteBatch, TxDBInv, TxDBTypeOK

\* A read gives a value or nothing.
LEMMA ReadKeyType ==
  ASSUME TxDBInv, NEW h \in Handle, NEW k \in Key
  PROVE  ReadKey(h, k) \in Value \cup {Absent}
  BY ScanType DEF ReadKey, TxDBInv, TxDBTypeOK

\* Every step keeps the invariant.
LEMMA TxDBInvNext == TxDBInv /\ [TxDBNext]_dvars => TxDBInv'
  <1>. SUFFICES ASSUME TxDBInv, [TxDBNext]_dvars PROVE TxDBInv'
    OBVIOUS
  <1>. USE DEF TxDBInv
  <1>1. CASE OpenCurrent
    BY <1>1 DEF OpenCurrent, TxDBTypeOK, NoOldRecords
  <1>2. CASE OpenNew
    BY <1>2 DEF OpenNew, TxDBTypeOK, NoOldRecords
  <1>3. CASE RemoveOld
    BY <1>3 DEF RemoveOld, TxDBTypeOK, NoOldRecords
  <1>4. CASE WriteVersion
    BY <1>4 DEF WriteVersion, TxDBTypeOK, NoOldRecords
  <1>5. CASE Stop
    BY <1>5 DEF Stop, TxDBTypeOK, NoOldRecords
  <1>6. ASSUME NEW h \in Handle, TxnBegin(h) PROVE TxDBInv'
    BY <1>6, EmptyBatch DEF TxnBegin, TxDBTypeOK, NoOldRecords
  <1>7. ASSUME NEW h \in Handle, TxnCommit(h) PROVE TxDBInv'
    BY <1>7, WriteBatchType DEF TxnCommit, TxDBTypeOK, NoOldRecords
  <1>8. ASSUME NEW h \in Handle, TxnAbort(h) PROVE TxDBInv'
    BY <1>8 DEF TxnAbort, TxDBTypeOK, NoOldRecords
  <1>9. ASSUME NEW h \in Handle, NEW k \in Key, NEW v \in Value \cup {Absent}, Write(h, k, v)
        PROVE  TxDBInv'
    <2>1. CASE activeBatch[h] = NoTxn
      BY <1>9, <2>1 DEF Write, TxDBTypeOK, NoOldRecords
    <2>2. CASE activeBatch[h] # NoTxn
      <3>. DEFINE a == Append(activeBatch[h], [key |-> k, value |-> v])
      <3>1. a \in Seq(Entry) /\ HasLast(a)
        BY <2>2, ScanAppend DEF TxDBTypeOK
      <3>2. /\ activeBatch' = [activeBatch EXCEPT ![h] = a]
            /\ UNCHANGED <<pdb, version, phase, answer>>
        BY <1>9, <2>2 DEF Write
      <3>. HIDE DEF a
      <3>. QED
        BY <3>1, <3>2 DEF TxDBTypeOK, NoOldRecords
    <2>. QED
      BY <2>1, <2>2
  <1>10. ASSUME NEW h \in Handle, NEW k \in Key, Read(h, k) PROVE TxDBInv'
    BY <1>10, ReadKeyType DEF Read, TxDBTypeOK, NoOldRecords
  <1>11. CASE UNCHANGED dvars
    BY <1>11 DEF dvars, TxDBTypeOK, NoOldRecords
  <1>. QED
    BY <1>1, <1>2, <1>3, <1>4, <1>5, <1>6, <1>7, <1>8, <1>9, <1>10, <1>11 DEF TxDBNext

\* The invariant holds from the start.
LEMMA TxDBInvInit == TxDBInit => TxDBInv
  BY DEF TxDBInit, TxDBInv, TxDBTypeOK, NoOldRecords

\* The types of the database's files, handles and batches (CTxDB).
THEOREM TxDBTypeCorrect == TxDBSpec => []TxDBTypeOK
  <1>1. TxDBInv => TxDBTypeOK
    BY DEF TxDBInv
  <1>. QED
    BY <1>1, TxDBInvInit, TxDBInvNext, PTL DEF TxDBSpec

(***************************************************************************)
(* No record of an old database in a new one, whenever the process is       *)
(* killed (CTxDB::CTxDB).                                                   *)
(***************************************************************************)
THEOREM TxDBCorrect == TxDBSpec => []NoOldRecords
  <1>1. TxDBInv => NoOldRecords
    BY DEF TxDBInv
  <1>. QED
    BY <1>1, TxDBInvInit, TxDBInvNext, PTL DEF TxDBSpec

-----------------------------------------------------------------------------
\* The scanner finds the last change of a key.
LEMMA ScanIsLastChange ==
  ASSUME NEW b \in Seq(Entry), HasLast(b), NEW k \in Key
  PROVE  ScanBatch(b, k) = LastChange(b, k)
  <1>1. CASE Entries(b, k) = {}
    BY <1>1 DEF ScanBatch, LastChange, Entries
  <1>2. CASE Entries(b, k) # {}
    <2>1. PICK i \in Entries(b, k) : \A j \in Entries(b, k) : j <= i
      BY <1>2 DEF HasLast
    <2>2. LastEntry(b, k) = i
      BY <2>1, LastUnique
    <2>. DEFINE P(x) == b[x].key = k /\ \A j \in DOMAIN b : b[j].key = k => j <= x
                c == CHOOSE x \in DOMAIN b : P(x)
    <2>3. i \in DOMAIN b /\ P(i)
      BY <2>1 DEF Entries
    <2>4. c \in DOMAIN b /\ P(c)
      BY <2>3
    <2>5. c = i
      <3>1. c \in Int /\ i \in Int
        BY <2>3, <2>4
      <3>. QED
        BY <2>3, <2>4, <3>1
    <2>6. LastChange(b, k) = b[c].value
      BY <2>3 DEF LastChange
    <2>. QED
      BY <1>2, <2>2, <2>5, <2>6 DEF ScanBatch
  <1>. QED
    BY <1>1, <1>2

\* A key of an open transaction, in the abstract store.
LEMMA TxnOpen ==
  ASSUME TxDBInv, NEW h \in Handle
  PROVE  /\ Txn[h] = NoTxn <=> activeBatch[h] = NoTxn
         /\ activeBatch[h] # NoTxn =>
               /\ Txn[h] = [k \in Key |-> ScanBatch(activeBatch[h], k)]
               /\ Txn[h] \in [Key -> Value \cup {Absent, Untouched}]
  BY ScanType, ScanIsLastChange, TxDBAssumption DEF Txn, TxDBInv, TxDBTypeOK

\* Reading through the batch is reading through the transaction.
LEMMA ReadIsView ==
  ASSUME TxDBInv, NEW h \in Handle, NEW k \in Key
  PROVE  ReadKey(h, k) = KV!View(h)[k]
  BY TxnOpen DEF ReadKey, KV!View

\* Every step of a CTxDB is a step of the store, or none.
LEMMA TxDBStep ==
  TxDBInv /\ TxDBInv' /\ [TxDBNext]_dvars => [KV!Next]_(KV!kvars)
  <1>. SUFFICES ASSUME TxDBInv, TxDBInv', [TxDBNext]_dvars
                PROVE  [KV!Next]_(KV!kvars)
    OBVIOUS
  <1>1. ASSUME UNCHANGED <<pdb, activeBatch, answer>>
        PROVE  UNCHANGED KV!kvars
    BY <1>1 DEF KV!kvars, Txn
  <1>2. CASE OpenCurrent \/ OpenNew \/ WriteVersion \/ UNCHANGED dvars
    BY <1>1, <1>2 DEF OpenCurrent, OpenNew, WriteVersion, dvars
  <1>3. CASE RemoveOld
    <2>1. KV!Erase
      BY <1>3 DEF RemoveOld, KV!Erase, Txn
    <2>. QED
      BY <2>1 DEF KV!Next
  <1>4. CASE Stop
    <2>1. KV!Crash
      BY <1>4 DEF Stop, KV!Crash, Txn
    <2>. QED
      BY <2>1 DEF KV!Next
  <1>5. ASSUME NEW h \in Handle, TxnBegin(h) PROVE KV!Begin(h)
    <2>1. Txn' = [Txn EXCEPT ![h] = KV!NoChange]
      <3>1. activeBatch'[h] = <<>> /\ <<>> # NoTxn
        BY <1>5, EmptyBatch, TxDBAssumption DEF TxnBegin, TxDBInv, TxDBTypeOK, Entry
      <3>2. Txn'[h] = KV!NoChange
        BY <3>1, EmptyBatch, ScanIsLastChange DEF Txn, KV!NoChange
      <3>3. \A g \in Handle \ {h} : Txn'[g] = Txn[g]
        BY <1>5 DEF TxnBegin, Txn, TxDBInv, TxDBTypeOK
      <3>. QED
        BY <3>2, <3>3 DEF Txn
    <2>. QED
      BY <1>5, <2>1, TxnOpen DEF TxnBegin, KV!Begin
  <1>6. ASSUME NEW h \in Handle, activeBatch' = [activeBatch EXCEPT ![h] = NoTxn]
        PROVE  Txn' = [Txn EXCEPT ![h] = NoTxn]
    BY <1>6 DEF Txn, TxDBInv, TxDBTypeOK
  <1>7. ASSUME NEW h \in Handle, TxnCommit(h) PROVE KV!Commit(h)
    <2>1. WriteBatch(activeBatch[h]) = KV!View(h)
      BY <1>7, TxnOpen DEF TxnCommit, WriteBatch, KV!View
    <2>. QED
      BY <1>6, <1>7, <2>1, TxnOpen DEF TxnCommit, KV!Commit
  <1>8. ASSUME NEW h \in Handle, TxnAbort(h) PROVE KV!Abort(h)
    BY <1>6, <1>8 DEF TxnAbort, KV!Abort
  <1>9. ASSUME NEW h \in Handle, NEW k \in Key, NEW v \in Value \cup {Absent}, Write(h, k, v)
        PROVE  KV!Change(h, k, v)
    <2>1. CASE activeBatch[h] = NoTxn
      <3>1. Txn[h] = NoTxn /\ Txn' = Txn
        BY <1>9, <2>1 DEF Write, Txn
      <3>. QED
        BY <1>9, <2>1, <3>1 DEF Write, KV!Change
    <2>2. CASE activeBatch[h] # NoTxn
      <3>. DEFINE b == activeBatch[h]
                  a == Append(b, [key |-> k, value |-> v])
      <3>1. b \in Seq(Entry) /\ HasLast(b)
        BY <2>2 DEF TxDBInv, TxDBTypeOK
      <3>2. /\ a \in Seq(Entry)
            /\ HasLast(a)
            /\ \A c \in Key : ScanBatch(a, c) = IF c = k THEN v ELSE ScanBatch(b, c)
        BY <3>1, ScanAppend
      <3>3. a # NoTxn
        BY <3>2, TxDBAssumption DEF Entry
      <3>4. activeBatch' = [activeBatch EXCEPT ![h] = a]
        BY <1>9, <2>2 DEF Write
      <3>5. activeBatch'[h] = a /\ \A g \in Handle \ {h} : activeBatch'[g] = activeBatch[g]
        BY <3>4 DEF TxDBInv, TxDBTypeOK
      <3>6. Txn[h] = [c \in Key |-> ScanBatch(b, c)]
        BY <2>2, TxnOpen
      <3>7. Txn'[h] = [Txn[h] EXCEPT ![k] = v]
        <4>1. Txn'[h] = [c \in Key |-> ScanBatch(a, c)]
          BY <3>2, <3>3, <3>5, ScanIsLastChange DEF Txn
        <4>. HIDE DEF a, b
        <4>. QED
          BY <3>2, <3>6, <4>1
      <3>8. \A g \in Handle \ {h} : Txn'[g] = Txn[g]
        BY <3>5 DEF Txn
      <3>9. Txn' = [Txn EXCEPT ![h][k] = v]
        BY <3>7, <3>8 DEF Txn
      <3>10. Txn[h] # NoTxn
        BY <2>2, TxnOpen
      <3>. QED
        BY <1>9, <2>2, <3>9, <3>10 DEF Write, KV!Change
    <2>. QED
      BY <2>1, <2>2
  <1>10. ASSUME NEW h \in Handle, NEW k \in Key, Read(h, k) PROVE KV!Get(h, k)
    BY <1>10, ReadIsView DEF Read, KV!Get, Txn
  <1>. QED
    BY <1>2, <1>3, <1>4, <1>5, <1>7, <1>8, <1>9, <1>10 DEF TxDBNext, KV!Next

(***************************************************************************)
(* CTxDB implements the transactional store: what Read returns is what the  *)
(* object's own writes, then the database, say; a commit takes all of a     *)
(* batch or none of it (txdb-leveldb.h, TxnCommit, ScanBatch).              *)
(***************************************************************************)
THEOREM TxDBImplements == TxDBSpec => Implements
  <1>1. TxDBInit => KV!Init
    BY DEF TxDBInit, KV!Init, Txn
  <1>. QED
    BY <1>1, TxDBInvInit, TxDBInvNext, TxDBStep, PTL DEF TxDBSpec, Implements, KV!Spec

=============================================================================
