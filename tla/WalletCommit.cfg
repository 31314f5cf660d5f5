SPECIFICATION WalletSpec
CONSTANTS
    Block = {"g", "k", "a1", "a2", "s1", "s2", "s3", "x1", "x2", "x3"}
    Genesis = "g"
    Parent <- MCParent
    BlockTrust <- MCBlockTrust
    None = None
    Tx = {"c1", "q0", "t1", "t2", "t3", "s", "r", "q", "p"}
    Inputs <- MCInputs
    VTx <- MCVTx
    Mine = {"c1", "t1", "t2", "s", "r", "p"}
    CoinStake = {"s", "r"}
    BlockOnly = {"c1", "q0", "s", "r"}
    Own = {"t1", "t2", "t3"}
    Late = {"p"}
    Repair = FALSE
    Invalid = {"x3"}
INVARIANT
    CommitAccepted
CHECK_DEADLOCK FALSE
