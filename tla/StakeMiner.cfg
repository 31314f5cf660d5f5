SPECIFICATION StakeSpec
CONSTANTS
    Tx = {"t1", "t2"}
    TxTime <- MCTxTime
    MaxHeight = 2
    MaxTime = 5
INVARIANTS
    StakeTypeOK
    SubmittedFits
CHECK_DEADLOCK FALSE
