SPECIFICATION SyncSpec
CONSTANTS
    Block = {"g", "a1", "a2", "a3", "b1", "b2"}
    Genesis = "g"
    Parent <- MCParent
    BlockTrust <- MCBlockTrust
    None = None
    Invalid = {"a3"}
    Release = {1, 2}
    MasterKey <- MCMasterKey
    Hardened <- MCHardened
    MaxKills = 3
INVARIANTS
    SyncTypeOK
    SyncInMainChain
    PendingServed
PROPERTIES
    SyncAdvances
    ComesUpAgain
CHECK_DEADLOCK FALSE
