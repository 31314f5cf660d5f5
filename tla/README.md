# Electra: a verification project for the node's core

Electra is a proof-of-work / proof-of-stake currency of the PPCoin and Bitcoin family. This
directory holds TLA+ models of the node in `src/src/`, the TLC runs that check them on small
instances, and TLAPS proofs of the results that hold for every instance.

Paths below are relative to `src/src/`.

## 1. Inventory

The node is one process. Nearly everything that changes the state of the chain runs under the lock
`cs_main`: the message thread (`net.cpp`, `main.cpp`), the RPC threads (`Electrarpc.cpp`, `rpc*.cpp`), the
stake thread (`miner.cpp`) and the wallet. What is hard about it is thus less the interleaving of
threads than the *order* in which blocks and transactions come in, the multi-block operations that
can fail half way, and the process that ends between two writes. The exception is the stake thread, which
searches a kernel without the lock.

| Component | State | Operations | What makes it correct |
|---|---|---|---|
| Block tree (`main.h`, `main.cpp`) | `mapBlockIndex`; per block `pprev`, `nHeight`, `nChainTrust` | `AddToBlockIndex` | closed under `pprev`; trust adds up |
| Transaction index (`main.cpp`, `txdb-leveldb.cpp`) | `CTxIndex` per transaction: its position and, per output, who spent it | `ConnectBlock`, `DisconnectBlock` | it is the ledger of exactly one chain; nothing spent twice |
| Chain state (`main.cpp`) | `pindexBest`, `pnext`, `hashBestChain` on disk, the open batch | `AcceptBlock`, `SetBestChain`, `Reorganize` | all of a switch or nothing; memory agrees with disk; more trust after it than before; the same chain whatever the order |
| Chain database (`txdb-leveldb.cpp`, `.h`) | LevelDB, a write batch per `CTxDB` object, the version record | `Read`, `Write`, `Erase`, `TxnBegin/Commit/Abort`, the constructor, `LoadBlockIndex` | a batch reads as what its commit will leave; restart finds a consistent store of the current version |
| Memory pool (`main.cpp`, `main.h`) | `mapTx`, `mapNextTx` | `accept`, `remove`, `removeConflicts`, resurrection | the maps agree; nothing of the chain in it; nothing lost without cause; all inputs known |
| Orphan transactions (`main.cpp`) | `mapOrphanTransactions`, `...ByPrev` | `AddOrphanTx`, `EraseOrphanTx`, `LimitOrphanTxSize`, the `tx` message | index exact, bound kept, everything that can be resolved is |
| Orphan blocks (`main.cpp`) | `mapOrphanBlocks`, `setStakeSeen`, `setStakeSeenOrphan` | `ProcessBlock` | every block with a known parent is processed; the stake filter blocks no chain for good |
| Sync-checkpoints (`checkpoints.cpp`) | `hashSyncCheckpoint`, the pending one, the master key on disk | `ProcessSyncCheckpoint`, `AcceptPending...`, `Reset...`, `CheckSync` | the checkpoint only moves forward and is always on the branch of the best block |
| Block creation (`miner.cpp`) | a template and the `pindexPrev` it was made for | `CreateNewBlock`, `CheckWork`, `CheckStake` | what is submitted connects |
| Kernel (`kernel.cpp`) | stake modifiers of the block index | `ComputeNextStakeModifier`, `CheckProofOfStake` | deterministic, bounded selection |
| Wallet (`wallet.cpp`) | `mapWallet`, spent flags | `AddToWalletIfInvolvingMe`, `DisableTransaction`, `CreateCoinStake` | flags agree with the chain after a reorganization |
| Network (`net.cpp`, `net.h`) | peers, `mapAskFor`, `mapAlreadyAskedFor`, ban scores | handshake, `inv`/`getdata`, `Misbehaving` | what is announced is eventually asked for |
| Addresses (`addrman.cpp`, `.h`) | new and tried tables, `vRandom`, reference counts | `Add_`, `Good_`, `Attempt_`, the file | the tables agree (`Check_`), keep their bounds and come back from the file |

The interactions: a block goes from `ProcessBlock` to `AcceptBlock`, `AddToBlockIndex` and `SetBestChain`,
which calls `ConnectBlock` and `DisconnectBlock` on a batch of `CTxDB`, the wallets on each of them
(`SyncWithWallets`), and the pool after the commit. A transaction goes to `CTxMemPool::accept`, which
reads the index and the pool. A sync-checkpoint calls `SetBestChain` whatever the trust of its block.
`CreateNewBlock` reads all of them.

Everything that was found hard to test is in the `hazards` of `PROJECT.json`, with its line and the
properties that would catch it.

## 2. Modules

| Module | What it is |
|---|---|
| `BlockTree` | the tree of blocks as constants; `Chain`, `Height`, `ChainTrust` |
| `TxIndex` | a store (best block, positions, spent marks, `hashNext`) and `ConnectBlock`, `DisconnectBlock` on it |
| `BlockChain` | the state machine: memory, disk, batch, `SetBestChain` step by step, kill and restart |
| `Ledger` | the abstract specification: a best block and its spendable outputs, exchanged in one step |
| `ChainSelection` | the reference for validity (`StoreAt`, the store a chain amounts to, and `Valid`, in closed form), liveness, and the properties about which chain wins |
| `Mempool` | the pool, the orphans and the `tx` handler, composed with `BlockChain` |
| `TxDB` | `CTxDB`: batches as sequences of entries, reads that scan them, the version check, kills |
| `KVStore` | the abstract specification of `TxDB`: a store with transactions |
| `SyncCheckpoint` | the sync-checkpoint, the pending one and the master key, in memory and on disk, over `BlockTree` |
| `OrphanBlocks` | `ProcessBlock`: orphan blocks, their stakes and the requests for what is missing, over `BlockTree` |
| `Inventory` | `AskFor`, `mapAlreadyAskedFor` and `getdata` for one item and several peers |
| `Wallet` | `mapWallet` with `hashBlock` and the spent flags, next to an abstract chain and pool, over `BlockTree` |
| `StakeMiner` | the stake thread from `CreateNewBlock` to `CheckStake`, with everything that moves under it |
| `AddrMan` | the address tables, one step per operation |
| `MCBlockChain`, `MCMempool`, ... | the instances for TLC |
| `BlockTreeProofs`, `BlockChainProofs`, `MempoolProofs`, `SupportProofs`, `SyncCheckpointProofs`, `WalletProofs`, `StakeMinerProofs`, `AddrManProofs` | the theorems |

### The chain state

A *block* is identified with its hash. `Block` holds the blocks that pass the tests of `CheckBlock` and
`AcceptBlock` which look at the block and its ancestors alone (proof of work, target, times, merkle
root, signature of the block, hardened checkpoints, kernel hash). The tests that depend on what the node
has seen are in the actions: the parent is indexed, the height in the coinbase
(`CheckCoinBaseHeight`; in the model because the proof that no coinbase is repeated rests on it), the
kernel's transaction is in the index of the *present* best chain (`CheckProofOfStake`).

A *transaction* is a model value with its prevouts and a number of outputs. Values and scripts are
abstracted: `BadSig` are the transactions whose signature does not verify (it is skipped below
`GetTotalBlocksEstimate`), `Claim` and `Reward` what a block pays itself and what the schedule allows
at the height of `pindexBest`. Fees and value ranges only depend on the transaction and its
inputs and decide whether it is in `Tx`.

A *store* stands for the LevelDB database and equally for what is read through an open
batch. `db` is the committed one, `txn` the batch's. The steps of `SetBestChain` are cut where a kill or a
failure can be told apart:

| `pc` | code | actions |
|---|---|---|
| `idle` | between two blocks | `AcceptBlock`, `SetBestChainToCheckpoint` |
| `extend` | `SetBestChainInner` for `hashPrevBlock == hashBestChain` | `ExtendOK`, `ExtendFails` |
| `reorganize` | `Reorganize`, a block at a time in one batch | `ReorganizeDisconnect`, `ReorganizeConnect`, `ReorganizeFails`, `ReorganizeCommit` |
| `postponed` | the loop over `vpindexSecondary`, a batch per block | `PostponedOK`, `PostponedFails` |
| `update` | "New best block" | `UpdateBest` |
| `down` | the process has ended | `LoadBlockIndex` |

`DiskError` is a `ReadFromDisk` or `TxnCommit` that returns false; `Kill` can happen anywhere. The first of these commits is that of
`AddToBlockIndex` itself (`IndexRecordFails`, for the blocks in the constant `Unwritable`): the block has been put into `mapBlockIndex`, gets no
record on disk, and `SetBestChain` is not called. It counts as known from then on; its children are accepted and write records that name it, and its own
record is written when `ConnectBlock` or `DisconnectBlock` passes it, since each writes the record of the block and that of its parent. So `mapBlockIndex`
and `dbBlockIndex` differ by such blocks, and `MemoryMatchesDisk` says that they differ by nothing else, and never by a block of the committed chain.
`IndexLoads` says what `CTxDB::LoadBlockIndex` needs of the records: a `hashPrev` or `hashNext` that leads to no record becomes an empty `CBlockIndex`
without `pprev`, at which the assertion in `GetStakeModifierChecksum` (`kernel.cpp:379`) ends the process at every start. A node that was killed while it had a
child's record and not the parent's stays down, and the run `chain` reaches this.

`LoadBlockIndex` verifies the best chain with `CheckBlock`, which compares times with the clock, so that it may decide to
move the best chain back to any earlier block (`pindexFork`). A kill is the end of the process, not of
the machine: `TxnCommit` writes without `sync`, and what a power failure does to LevelDB's log is not modelled.

`SetBestChainToCheckpoint` is the effect of a sync-checkpoint; `AcceptBlock` calls
`AcceptPendingSyncCheckpoint` as its last act, when the model is back at `idle`. The model lets it happen
between any two blocks, for any block in the constant `SyncCheckpoint`.

`fPostponedFailed` is a history variable: it becomes true when a block of `vpindexSecondary`
fails to connect. The code then goes on as after a success (see the findings), so the properties
that relate memory and disk are stated for the time before.

### The pool

`Mempool` extends `BlockChain`. Its actions are those of the `tx` message (`ReceiveTx`, then `TryOrphan` and
`NextWork` for the two nested loops, which nothing but a kill can interrupt; `vWorkQueue` keeps what was accepted, as in the
code, and `iWork` is the index of the outer loop), `LocalTx` for the wallet and
`sendrawtransaction`, and the chain's actions conjoined with what they do to the pool:

* `PoolExtend`, `PoolPostponed`: `SetBestChainInner` removes the block's transactions, and leaves conflicts;
* `PoolReorganize`: the transactions of the disconnected blocks come back without a test of their inputs, then
  those of the connected blocks are removed, and their conflicts recursively.

The removals are written for the whole set of transactions. This is exact because the transactions of one chain
spend nothing twice. Resurrection goes one transaction at a time in an order
that depends on the blocks; the result is a maximal subset without conflicts (`Resurrections`), and is
unique when the disconnected blocks do not conflict among themselves. The free-transaction rate limiter
in `accept` is unreachable: it is for fees below `MIN_RELAY_TX_FEE`, and `GetMinFee` in the relay mode has
refused those. `NonStandard` are the transactions a block may have but `IsStandard` refuses.

### The chain database

`BlockChain` has a batch `txn` as a second store. `TxDB` shows that this is right: there a batch is the sequence of its
`Put` and `Delete` entries, `ScanBatch` looks through it for the last entry of a key, and `Read` falls back to LevelDB. Any number of
`CTxDB` objects share `pdb`, as the nested `CTxDB txdb("r")` of the code do. `LevelDB::Write` is external: the entries in
order, atomically. `TxDB` implements `KVStore`, where a transaction is a set of changes, its owner reads
through them, and a commit is one step. The constructor is cut at the writes that a kill can separate: the removal of a database
of an old version and the new version record.

### Sync-checkpoints

`SyncCheckpoint` has its own, abstract, chain: `SetBestChain` moves to a valid block in one commit. It is the records that are modelled
in full: `hashSyncCheckpoint` and the master key on disk, each written in a commit of its own, with a kill between any two
(`phase` is where the program is). `Startup` is `LoadBlockIndex`, from the first start to `ResetSyncCheckpoint` after a release
with another master key. `ProcessSyncCheckpoint` may name any block at any time, so that checkpoints come before their blocks, after them,
and out of order. A start may end with the move back to `pindexFork` (`MoveBack`, `txdb-leveldb.cpp:561-571`), which leaves `hashSyncCheckpoint` alone and
can so leave it above the best block. `movedBack` is a history variable for that: it is set by such a start and cleared by the next move of the chain, and
`SyncInMainChain` demands of the time in between that the best block is an ancestor of the checkpoint. A block that fails in the postponed part of a reorganization (finding 1) is not followed further here.

### Orphan blocks and inventory

In `OrphanBlocks` blocks arrive in any order. `ProcessBlock` is one step: the test for a known block, the duplicate stake test with its two
exceptions, the refusal of a block with too little work or stake, the orphan branch, or `AcceptBlock` followed by the work queue over the orphans that wait for it.
What is too little is computed from the times and targets of the block and of the last sync-checkpoint, which moves, and a block on top of the best one
is spared: `TurnAway` may therefore refuse a block of `TooLittle` or not, each time it comes. Nothing asks for such a block again, so `OrphansConnected` is stated
for orphans without an ancestor that was turned away. `AcceptBlock` is abstract: `Refusable` blocks may be refused before they are indexed, `Unconnectable` ones after. `asked` are the blocks the node has
asked for, with the orphan's root and the pending checkpoint; a block that was dropped is not asked for again
until another orphan needs it.

`Inventory` is about the requests for one item and counts time in half retry intervals. Peers other than the honest ones may
be silent or go away with their `mapAskFor`; the node may lose the item (an orphan that is evicted). `nLastTime` of `AskFor`, which
orders the entries of different items, is left out.

### The wallet

`Wallet` follows `wallet.known`, `hashBlock` and the spent flags through `AddToWallet`, `WalletUpdateSpent` and
`DisableTransaction`, as `ConnectBlock`, `DisconnectBlock`, the `tx` message and `CommitTransaction` call them. A transaction has one output,
so that it stands for its coin. The chain next to it is `SetBestChain` from block to block: `AcceptBlock` hands a block of more trust to it,
`DisconnectBlock` and `ConnectBlock` move the batch (`tip`), `SyncWithWallets` tells the wallet of one transaction after the other of the
block just connected (`iTx` says how many), and only `Commit` changes `best` and the pool. What matters is this order: the wallet is told before
the batch is committed. `Invalid` blocks fail in `ConnectBlock`, after the blocks before them in the same batch have been
reported; `failedReorganize` is a history variable that says that this has happened. That a reorganization leaves no block to the
postponed part here is what `SelectInv` of `ChainSelection` shows of a node without failures.

Blocks, transactions and payments are handled under `cs_main`. The command `repairwallet` (`FixSpentCoins`, switched on by `Repair`) is the exception: it is
registered as `unlocked`, to be run without `cs_main` (`Electrarpc.cpp:305`), and takes `cs_wallet`, which `SyncWithWallets` releases after every
transaction. So it can come at any step of `SetBestChain`, where it reads the committed index, and the history
variable `raced` says that it has.

### The stake thread

`StakeMiner` cuts the thread where it does not hold `cs_main`: `ReadBest`, `Collect` (the part of `CreateNewBlock` under the lock),
`StartSearch`, `Search` (`CreateCoinStake`), `SignBlock`, `CheckStake`. Between any two the clock moves, transactions enter the pool, and peers' blocks
arrive. A best block is named by its height, since the chain only grows here; times are in seconds, with the median of the last
eleven blocks as the limit.

### Addresses

Every operation of `CAddrMan` holds its lock and is one step of `AddrMan`. Buckets come from a hash with a secret and are
constants; which entry is evicted, and whether an announcement counts, is chosen nondeterministically. `Restart` writes and reads `peers.dat`, which
holds neither the reference counts nor the tried buckets. That any entry of a full tried bucket may be evicted is also what the
code does: `SelectTried` notes the position of the oldest entry it inspects before it swaps that entry to another place, so that what
it returns need not be the oldest.

## 3. Runs

| Run | Spec | Instance | What it shows |
|---|---|---|---|
| `chain` | `FairSpec` | 13 blocks | `ChainInv`, `CommittedIndexIsLedger`, `MemoryMatchesDisk`, `MainChainIsBestChain`, `CommitsGainTrust`, that the store implements `Ledger`, and `SetBestChainReturns`: every call of `SetBestChain` comes to its end (the loops that find the fork are replaced by `Chain`; that they end is `AcyclicAssumption`) |
| `selection` | `SteadySpec` | 13 blocks of uneven trust | `NoBetterValidBlock`, and `SettlesOnBestValid`: the node ends on a valid chain with that chain's store, and of greatest trust but for chains with a stake whose kernel is not on it (`KernelOffChain`) |
| `postponed_failure` | `CrashSpec` | 13 blocks | violated: `BestBlockWasWritten` |
| `mempool` | `PoolSpec` | 7 blocks, 7 loose transactions, at most 2 orphans | `PoolTypeOK`, `PoolMapsAgree`, `PoolNotInChain`, `LeavesPoolForCause`, `OrphansIndexed`, `OrphansResolved` |
| `pool_inputs` | `SteadyPoolSpec` | 7 blocks | violated: `PoolInputsKnown` |
| `txdb` | `TxDBSpec` | 2 keys, 1 value, 3 objects, batches up to 2 entries | `TxDBTypeOK`, `NoOldRecords`, and that it implements `KVStore` |
| `sync_checkpoint` | `SyncSpec` | 6 blocks, 2 releases, 3 kills | `SyncTypeOK`, `SyncInMainChain`, `PendingServed`, `SyncAdvances`, `ComesUpAgain` |
| `orphan_blocks` | `OrphanSpec` | 9 blocks, 2 stakes, one of them in 3 blocks | `OrphanTypeOK`, `NoStaleStake`, `NoReadyOrphan`, and `OrphansConnected`: every orphan without an ancestor that was refused or turned away is connected in the end |
| `inventory` | `InventorySpec` | 3 peers, one of them honest | `InventoryTypeOK`, `NewRequestsWait`, and `ItemArrives`: what an honest peer announced is received |
| `wallet` | `WalletSpec` | 10 blocks in 3 branches, 9 transactions | `WalletTypeOK`, `ConfirmedSpendsMarked`, `ConfirmedKnown`, `NoLostCoin` |
| `stake_miner` | `StakeSpec` | 2 blocks, 2 transactions, 5 seconds | `StakeTypeOK`, and `SubmittedFits`: a block that is not stale fits the chain it extends |
| `addrman` | `AddrManSpec` | 4 addresses, 2 sources, 2 new buckets of 2, 2 tried buckets of 1 | `Check`, `BucketsBounded`, `TriedNotDeleted`, `RestartRestores` |

**Bounds.** The trees are chosen so that each case of the code occurs. `MCBlockChain` has two branches that spend the same
output in different ways, a branch with a double spend (`a3`), with a repeated coinbase (`d3`, BIP30, its
height is wrong), with a bad signature (`f3`), with a spend of an immature coinbase (`e4`), with a
transaction whose input is spent on that branch (`b4`), and two coinstakes: `b3` with its kernel in the common
part, and `e3` with its kernel on its own branch, which `CheckProofOfStake` refuses while the node is on the other one
("previous transaction not in main chain", `kernel.cpp:352`). In `selection` `a2` has trust 3 and `e3` too: a node that has `a2` before `b2` and `b3` keeps
refusing `e3`, whose chain would have more trust, and the exception of `SettlesOnBestValid` is needed; without it TLC finds the property
violated. `Unwritable` is `a2`, a block that is first in its branch, so that it can be connected later, and has children that the node
accepts with and without its record. With trust 1 per
block a competing branch is taken when it is one block longer, so that a reorganization that
disconnects two blocks and fails at the second one it connects, and a postponed reconnect after a restart that
moved the chain back, both happen.
`MCMempool` has two conflicting transactions, one of them in each branch, one that is in both
branches, a chain of descendants, one that spends a coinstake, and one whose signature is bad. Two orphans are the least with which a
chain of orphans is resolved and a third one evicted; one is oversized, one invalid. Every action and disjunct fires. Maturity is 1 in all of them: 0 would make the
rule empty, and larger values need longer chains and make no other decision.

`TxDB.cfg` needs two entries in a batch, so that an erase and a write of one key come in both orders, and a third, read-only, object.
`MCSyncCheckpoint` has a branch that is invalid at its end and a second release with another key and a hardened checkpoint on the
other branch: three kills allow a first start that is interrupted, an interrupted reset and one more. In `MCOrphanBlocks`
three blocks of different branches have one stake, two of them with children in other orders, which is what it takes for a stake to be erased while
another orphan has it; `b1`, which two orphans may wait for, is the block of too little work. `Inventory`'s clock runs past the last slot that the announcements can fill (`ClockAssumption`). `MCWallet` has a
branch with a coinstake that is disconnected, one that fails after two of its blocks were reported, a payment with its change spent
twice, and a payment to the wallet whose parent comes later. `MCAddrMan` is the smallest instance in which a promoted address
evicts one whose own new bucket is full. In `MCStakeMiner` a transaction is later than the earliest kernel
that can be found.

**Deadlock** is switched off in `chain`, where a node whose index does not load (`IndexLoads`) stays down for good, in `selection`, where the node rests once every block is delivered, and in `pool_inputs`. It is off in `sync_checkpoint`
(a node that has seen every block and used up its kills just runs), in `orphan_blocks` (every block is had), in `inventory` (the clock is bounded),
in `wallet` (nothing is left to happen), and in `stake_miner` (bounds on the chain and the clock); in all of these nobody waits for
anybody in such a state.

**Fairness.** `SteadySpec` and `FairSpec` are weakly fair in `Handler`: the steps of
`SetBestChain` are plain code under a lock that is held, with no wait in it, so a runnable thread gets to their end.
`SteadySpec` is fair in `AcceptBlock(b)` for each block, which is the assumption that peers deliver it (the
question there is which chain wins once they do). `FairSpec` assumes that a node that is down is started again.
`SetBestChainReturns` is stated with "or killed again and again" and "or down with an index that does not load". `SyncSpec` is weakly fair in a start or a handler that has begun, for the same
reason, and assumes that the user starts the node again; blocks and messages need never come. `OrphanSpec` is weakly fair in
`Answer(b)`: a peer that sent an orphan has its ancestors, and answers when it is asked for the first of them. `InventorySpec` is weakly fair in
`Tick`, in `SendGetData` (`ThreadMessageHandler` serves its peers in turn) and in the answers of honest
peers, which are defined by that.

**Mutants.** For each property `PROJECT.json` names a change to a modelled definition, of the kind a slip in the
code would make, under which TLC finds the property violated; the changed definitions stand next to the originals.

### Findings

* `postponed_failure`. After a reorganization to an intermediate block the remaining blocks are connected
  one by one. When one fails, `break` leaves the loop, and `hashBestChain` and `pindexBest` are set to
  `pindexNew`, which was never connected, while the store ends earlier. TLC's trace needs no disk
  error, only a restart that moved the chain back and an invalid block.
* `pool_inputs`. `SetBestChainInner` does not remove conflicts from the pool. With a later reorganization the pool
  gets a transaction with a missing input, of which `CreateNewBlock` says that "This should never happen".

### Further configurations

These are not part of the regular runs. Each checks one property that states what a comment of the code says and that TLC finds
violated (`tlc -config <file> <module>`); the properties of the runs above are stated so that they hold beside them.

| Configuration | Module | Property | What the code does |
|---|---|---|---|
| `RewardByTip.cfg` | `MCBlockChain` | `NoBetterValidBlock` | `GetProofOfWorkReward`, `GetProofOfStakeReward` and `GetCoinAge` look at `pindexBest`, which during `Reorganize` is the tip of the branch that is given up. At a step of the schedule a valid branch of more trust is refused by the nodes on the other side of the step (`main.cpp:1948` wants "a consistent view of the coin age"). |
| `TxDBExists.cfg` | `TxDB` | `ExistsAgreesWithRead` | After an `Erase` in a batch, `Exists` goes on to LevelDB and finds the record; `Read` does not (`txdb-leveldb.cpp:181`). No caller depends on it today. |
| `CheckpointReset.cfg` | `MCSyncCheckpoint` | `ResetForKey` | The new master key is committed before the checkpoint is reset. A kill, or a failed reset, in between, and no later start does it (`main.cpp:2643`). |
| `DuplicateStakes.cfg` | `MCOrphanBlocks` | `DuplicateOnlyWithChild` | One entry of `setStakeSeenOrphan` stands for all orphans with that stake, and the first of them to leave erases it (`main.cpp:2348`). |
| `RetrySpacing.cfg` | `Inventory` | `RetriesSpaced` | `SendMessages` sets `mapAlreadyAskedFor` back to the present, and the next `AskFor` takes a slot that an entry of another peer already has (`net.h:326`). |
| `WalletCommit.cfg` | `MCWallet` | `CommitAccepted` | A block that confirms a transaction makes its change unspent again although a transaction of the wallet in the pool spends it; a payment made of it is recorded and refused (`wallet.cpp:1815`). |
| `OrphanPayment.cfg` | `MCWallet` | `PoolPaymentsKnown` | When an orphan transaction is accepted, the wallets are given its parent once more instead of it (`main.cpp:133`). |
| `WalletReorganize.cfg` | `MCWallet` | `WalletFollowsChain` | What a failed reorganization has told the wallet is never taken back (`main.cpp:1770`). `ConfirmedSpendsMarked`, `ConfirmedKnown` and `NoLostCoin` are therefore stated for the time before the first failure. |
| `RepairRace.cfg` | `MCWallet` | `RepairKeepsMarks` | `repairwallet` ("Repair wallet if checkwallet reports any problem.", `rpcwallet.cpp:1726`) runs without `cs_main`. Between `SyncWithWallets` and `TxnCommit` the index does not yet show the spend that the wallet has just been told of, and the repair takes its mark away. `ConfirmedSpendsMarked` and `NoLostCoin` are stated for repairs between two blocks. |
| `StakeTime.cfg` | `MCStakeMiner` | `CoinStakeTimeKept` | A transaction of the template that is later than the kernel moves the block's time away from the coinstake's, and `CheckBlock` refuses the node's own block (`main.cpp:2427`). |

## 4. Proofs

TLAPS proves, for every block tree, every set of transactions, peers and addresses and every value of the other constants:

| Theorem | States |
|---|---|
| `BlockChainProofs!LinkInvariance` | `Spec => []ChainInv`, the inductive invariant of the chain state |
| `BlockChainProofs!TypeCorrect` | `Spec => []TypeOK` |
| `BlockChainProofs!LedgerCorrect` | `Spec => []CommittedIndexIsLedger` |
| `BlockChainProofs!MemoryCorrect` | `Spec => []MemoryMatchesDisk` |
| `BlockChainProofs!MainChainCorrect` | `Spec => []MainChainIsBestChain` |
| `BlockChainProofs!TrustTheorem` | `Spec => CommitsGainTrust` |
| `BlockChainProofs!Refinement` | `Spec => StoreImplementsLedger` |
| `BlockChainProofs!SelectionCorrect` | `SteadySpec => []NoBetterValidBlock`, if `TipIndependent` |
| `MempoolProofs!PoolImplementsChain` | `PoolSpec => Spec` |
| `MempoolProofs!PoolTypeCorrect` | `PoolSpec => []PoolTypeOK` |
| `MempoolProofs!PoolCorrect` | `PoolSpec => []PoolMapsAgree` |
| `MempoolProofs!PoolDisjoint` | `PoolSpec => []PoolNotInChain` |
| `MempoolProofs!LeavesCorrect` | `PoolSpec => LeavesPoolForCause` |
| `MempoolProofs!OrphansCorrect` | `PoolSpec => []OrphansIndexed` |
| `MempoolProofs!ResolvedCorrect` | `PoolSpec => OrphansResolved` |
| `SupportProofs!TxDBTypeCorrect` | `TxDBSpec => []TxDBTypeOK` |
| `SupportProofs!TxDBCorrect` | `TxDBSpec => []NoOldRecords` |
| `SupportProofs!TxDBImplements` | `TxDBSpec => Implements` |
| `SupportProofs!OrphanTypeCorrect` | `OrphanSpec => []OrphanTypeOK` |
| `SupportProofs!StakesCorrect` | `OrphanSpec => []NoStaleStake` |
| `SupportProofs!WorkQueueComplete` | `OrphanSpec => []NoReadyOrphan` |
| `SupportProofs!InventoryTypeCorrect` | `InventorySpec => []InventoryTypeOK` |
| `SupportProofs!RequestsWait` | `InventorySpec => NewRequestsWait` |
| `SyncCheckpointProofs!SyncTypeCorrect` | `SyncSpec => []SyncTypeOK` |
| `SyncCheckpointProofs!SyncCheckpointCorrect` | `SyncSpec => []SyncInMainChain` |
| `SyncCheckpointProofs!PendingCorrect` | `SyncSpec => []PendingServed` |
| `SyncCheckpointProofs!SyncCheckpointAdvances` | `SyncSpec => SyncAdvances` |
| `WalletProofs!WalletInvariance` | `WalletSpec => []WalletInv`, the inductive invariant of the wallet |
| `WalletProofs!WalletTypeCorrect` | `WalletSpec => []WalletTypeOK` |
| `WalletProofs!SpendsMarked` | `WalletSpec => []ConfirmedSpendsMarked` |
| `WalletProofs!ConfirmationsKnown` | `WalletSpec => []ConfirmedKnown` |
| `WalletProofs!CoinsKept` | `WalletSpec => []NoLostCoin` |
| `StakeMinerProofs!StakeTypeCorrect` | `StakeSpec => []StakeTypeOK` |
| `StakeMinerProofs!SubmittedCorrect` | `StakeSpec => []SubmittedFits` |
| `AddrManProofs!CheckCorrect` | `AddrManSpec => []Check` |
| `AddrManProofs!BucketsBoundedCorrect` | `AddrManSpec => []BucketsBounded` |
| `AddrManProofs!TriedKept` | `AddrManSpec => TriedNotDeleted` |
| `AddrManProofs!RestartCorrectly` | `AddrManSpec => RestartRestores` |

`BlockTreeProofs` has the lemmas on the tree that several of them use: a chain is linear, contains the genesis block, grows
in height and trust, and has one child of each of its blocks. `SupportProofs` takes `TxDB`, `OrphanBlocks` and `Inventory` together;
`BlockChainProofs` has the theorem on `ChainSelection` too.

**Assumptions.** Those on the constants are in the modules that declare them, and TLC evaluates them on
every run: hashes are acyclic (`AcyclicAssumption`, `AcyclicTxAssumption`), blocks and transactions have
the form `CheckBlock` and `CheckTransaction` require (`TxAssumption`). `RecursionAssumption` says that the recursive
definitions of `Height` and `ChainTrust` have the solution they describe; it follows from acyclicity, but the
recursion theorem is out of the provers' reach. Finiteness is assumed of the transactions of `StakeMiner` and of the addresses
and new buckets of `AddrMan`, whose counters count them, and of the peers of `Inventory`; `SyncAssumption` says that the hardened checkpoints
have a highest one, because `mapCheckpoints` is a finite map. `ConnectedAssumption` of `Wallet` says of a chain of blocks that `ConnectBlock` does not
refuse that no transaction is repeated on it, nothing is spent twice, and what is spent comes earlier: this is what `LedgerIsSound` and
`ConnectFresh` prove of `ConnectBlock` in `BlockChainProofs`.

`TipIndependent` is a hypothesis of one theorem and not an assumption of a module, because the code does not guarantee it: it says that the
reward limit and the signature shortcut, which `ConnectBlock` takes from `pindexBest`, decide the same for every block that may be
best. It holds where the reward is the same for all the heights in question (as in the run `selection`), and `RewardByTip.cfg` is a trace without it.

**The argument.** That the committed store is a ledger is not inductive by itself: `Reorganize` works on the batch, so the batch
must be the ledger of the block it has come to, at each block (`LedgerInv`); to disconnect a block from a
ledger one must know that its transactions' inputs are on the chain below it and were marked by it, which is
what `IsLedger` says; to connect one, that none of its transactions is indexed already. BIP30 alone does not
give the latter, since it lets a transaction be overwritten when all its outputs are spent:
for a coinbase it is the height in it that makes it unique on its chain (`IndexInv`,
`CheckCoinBaseHeight`), and for another transaction it is that its inputs are spent by its first
occurrence. `TrustInv` relates the trusts of `pindexBest`, of the intermediate block and of the
committed tip, and gives `CommitsGainTrust`. The refinement then needs, from `IsLedger`, that the outputs
without a spent mark are `Created \ Consumed`, and that a ledger's chain is `Sound`.

`RecordInv` is about the index records. That the committed chain has all its records is not inductive while a batch is open: the blocks connected in
it, and the ones disconnected, have theirs only with the commit. `IndexInv` says that the index in memory is closed under `pprev`, and that the disk's is part of
it; `RecordInv` that what is missing is `Unwritable`, and that the records of the committed chain are there. `RewrittenIndexed` is the lemma on the commit.

`LinkInv` adds the links to `IndInv`. What memory and disk have in common is not inductive by itself, because the batch of `Reorganize`
changes `hashNext` block by block while `pnext` stays as it is, and the loops over `vDisconnect` and `vConnect` then change it at
once. `BatchLinks(t)` is the closed form of the first: the links after the batch has come from `pindexBest` to the block
`t`. It holds at each block on the way down and up (`BatchLinksDown`, `BatchLinksUp`), and at the commit it is the second. That
every block of the committed chain is led to (`ChainLinked`) holds until a postponed reconnect fails; that every link leads to
a block of it (`LinksOnChain`) holds always. `IsInMainChain` is exact because of both.

Which chain wins rests on two facts. A chain has one ledger (`LedgerUnique`): two stores that satisfy `IsLedger` with one tip agree, so the store that
any history of reorganizations leads to is `StoreAt` of its tip, and what `ConnectBlock` decides on it is `Valid`, for which only the
chain of the block counts (`ConnectsSame`). And a valid last block can be disconnected (`DisconnectPossible`), so that `Reorganize` fails only at an
invalid block. `NoBetterValidBlock` is then not inductive while a block is tried: `SelectInv` excepts that one block, and says that
the batch stands on a valid block. From it follows that the intermediate block to which `SetBestChain` reorganizes is the block it was called for,
or does not connect: an intermediate block that is valid and has more trust than `pindexBest` would have been the best block already. The loop over
`vpindexSecondary` is thus reached, under `TipIndependent`, only after a kill, a disk error or a sync-checkpoint; that is where `postponed_failure` happens.

For the pool, `MapsAgree` is inductive once what `accept` and `Resurrections` add is known to be free of
conflicts. `PoolNotInChain` uses that a block connected to a ledger leaves the rest of the index alone,
and that a reorganization indexes exactly the connected blocks' transactions besides those of the common part.
`OrphanInv` carries the bound and the finiteness of the set of orphans.

`LeavesPoolForCause` has no invariant of its own. `Dependents` is a least closed set: that it is contained in every closed
set, is closed, and has only members with a cause are three lemmas. With them, what the new chain has is
not among the dependents, since without it they would still be closed: a ledger spends nothing twice, and what is in it spends
only what is in it. This uses that the batch is a ledger, so the property is stated for the time before a postponed reconnect has failed:
after it, a disconnect can clear spent marks that belong to other transactions, and the argument does not hold. For `OrphansResolved` the invariant is
`TriesPending`: an orphan that spends what was accepted, and is acceptable, is still to come in one of the two loops. A transaction that is
added to the pool makes only those acceptable that spend it (`AcceptMonotone`), and these are behind the entry it gets in `vWorkQueue`. The
property is about the transactions the handler accepted, not about all of `vEraseQueue`: an orphan that the pool already has is
put there without its own descendants being tried.

For the database, the refinement mapping takes a batch to the last change of every key (`LastChange`). The lemmas say that an entry
appended to a batch changes exactly its own key's last change, and that the empty batch changes nothing; the type invariant is what
keeps `NoTxn` apart from a batch.

For the orphan blocks, types, stakes and the work queue hold together (`OrphanInv` of `OrphanBlocks`): each return of `ProcessBlock` keeps
the stakes within those of the orphans that are left, and the blocks the queue reaches are exactly those that would be ready. For the
requests, `InventoryInv` bounds the time noted in `mapAlreadyAskedFor` by the number of announcements, which keeps it a time, and from below by
the last `getdata`, which gives `NewRequestsWait`.

For the checkpoints, `SyncInv` says what is known in each phase of a start: which records are there after a kill at any place
(`StartInv`), that a complete reset leaves the record on the main chain, or above the best block on its branch when a start moved that back (`ResetInv`), and that nothing is pending at a start but a
hardened checkpoint that is not known (`PendingInv`). `SyncInMainChain` is not inductive without the second: the
chain may be taken to another branch, but only by a reset for another key.

For the wallet, the properties are about the main chain between two blocks, and the invariant `WalletInv` about the chain that the open batch has come to
and the transactions of it that the wallet has been told of (`HasHeard`): each is known with its own block (`HeardKnown`), its inputs are
marked (`HeardMarked`), and each mark has a transaction that may still be confirmed or has been heard (`MarkedForCause`). `BatchInv` says that the
batch holds no refused block and ends at the best one. `AddToWallet` clears the mark of the transaction that is confirmed, and this is sound only because nothing
heard so far spends it: what is spent comes earlier (`ConnectedAssumption`). When a block is disconnected only its coinstakes' inputs are freed, and no other
transaction of the chain spends those. A repair during `SetBestChain` (`raced`) breaks `HeardMarked`, but not `HeardKnown`.

For the stake thread, `StakeInv` says of each step what the template has to do with the reads of `pindexBest` that were made: the height comes from
the first (`HeightInv`), what was collected is confirmed above it, if at all (`TxInv`), the fees are those of the transactions
(`FeeInv`), and the time of the last read is that of the header's block, or the block is stale for good (`TimeInv`). The lemmas on
`PastTimeLimit` show that the median of the last blocks' times exists and is one of them.

For the addresses, `Check` and the bounds of the buckets are inductive with what an entry knows of its source (`EntriesOnly`). Each
operation is a chain of changes (`Delete`, `ShrinkNew`, `MakeTried` and the rest), and one lemma for each says which counts it
changes and by how much.

The inductive invariants were checked by TLC on the runs' instances before they were proved.

**Only model-checked**, and why:

* the liveness properties `SettlesOnBestValid`, `SetBestChainReturns`, `ComesUpAgain`, `OrphansConnected` and
  `ItemArrives`: fairness is out of the prover's reach.

Every invariant and action property of the passing runs is also a theorem.

## 5. What is not modelled, and the plan

Not modelled for good: script evaluation, keys and other cryptography, serialization, the graphical
interface, name lookup, option parsing, and vendored code (LevelDB, json_spirit, libzerocoin, hash functions).

`checkqueue.h` is compiled into nothing: no file includes it. The Bloom filters answer a peer's filtered requests and keep no state of
the chain.

Left out of the modelled components: the times and counts of attempts in `CAddrMan`; the wallet's keys, amounts, maturity,
coin selection, reload from disk and rebroadcast; the priority queue and the size limits of `CreateNewBlock`, and its proof-of-work path; the version
handshake, banning and the sockets.

To be modelled, in this order:

1. The stake modifier's selection, the retarget and the reward schedule as algorithms with references.
2. The wallet's unlock timer, alerts, peers and banning.
