SPECIFICATION StakeSpec
CONSTANTS
    Tx = {"t1", "t2"}
    TxTime <- MCTxTime
    MaxHeight = 2
    MaxTime = 5
INVARIANT
    CoinStakeTimeKept
CHECK_DEADLOCK FALSE
