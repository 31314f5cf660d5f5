SPECIFICATION PoolSpec
CONSTANTS
    Block <- MCBlock
    Genesis = "g"
    Parent <- MCParent
    BlockTrust <- MCBlockTrust
    Tx <- MCTx
    None = None
    VTx <- MCVTx
    Vin <- MCVin
    Vout <- MCVout
    CoinBase <- MCCoinBase
    CoinStake <- MCCoinStake
    Kernel <- MCKernel
    CoinBaseHeight <- MCCoinBaseHeight
    BadSig = {"u"}
    Claim <- MCClaim
    Reward <- MCReward
    nCoinbaseMaturity = 1
    TotalBlocksEstimate = 0
    SyncCheckpoint = {"a3"}
    Unwritable = {}
    MAX_ORPHAN_TRANSACTIONS = 2
    NonStandard = {"y"}
    LargeTx = {"k"}
INVARIANTS
    PoolTypeOK
    PoolMapsAgree
    PoolNotInChain
    OrphansIndexed
PROPERTIES
    OrphansResolved
    LeavesPoolForCause
