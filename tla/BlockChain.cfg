SPECIFICATION FairSpec
CONSTANTS
    Block <- MCBlock
    Genesis = "g"
    Parent <- MCParent
    BlockTrust <- MCBlockTrust
    Tx <- MCTx
    None = None
    VTx <- MCVTx
    Vin <- MCVin
    Vout <- MCVout
    CoinBase <- MCCoinBase
    CoinStake <- MCCoinStake
    Kernel <- MCKernel
    CoinBaseHeight <- MCCoinBaseHeight
    BadSig <- MCBadSig
    Claim <- MCClaim
    Reward <- MCReward
    nCoinbaseMaturity = 1
    TotalBlocksEstimate = 0
    SyncCheckpoint <- MCSyncCheckpoint
    Unwritable <- MCUnwritable
INVARIANTS
    ChainInv
    CommittedIndexIsLedger
    MemoryMatchesDisk
    MainChainIsBestChain
PROPERTIES
    CommitsGainTrust
    StoreImplementsLedger
    SetBestChainReturns
CHECK_DEADLOCK FALSE
