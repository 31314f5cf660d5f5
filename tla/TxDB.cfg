SPECIFICATION TxDBSpec
CONSTANTS
    Key = {k1, k2}
    Value = {v1}
    Handle = {"h1", "h2", "r"}
    ReadOnly = {"r"}
    Absent = Absent
    Untouched = Untouched
    NoTxn = NoTxn
    MaxBatch = 2
INVARIANTS
    TxDBTypeOK
    NoOldRecords
PROPERTY
    Implements
