SPECIFICATION OrphanSpec
CONSTANTS
    Block = {"g", "a1", "a2", "b1", "b2", "b3", "c1", "c2", "d1"}
    Genesis = "g"
    Parent <- MCParent
    BlockTrust <- MCBlockTrust
    None = None
    Stake <- MCStake
    Refusable = {"b2", "c2"}
    Unconnectable = {"c1"}
    TooLittle = {"b1"}
    Pending = None
INVARIANT
    DuplicateOnlyWithChild
CHECK_DEADLOCK FALSE
