-------------------------------- MODULE TxDB --------------------------------
(***************************************************************************)
(* CTxDB, the wrapper around the one LevelDB of the node.  A CTxDB object   *)
(* keeps an optional write batch: while it has one, its writes and erases   *)
(* are appended there and its reads scan it first.  The objects come and go *)
(* all the time and share the database, so a second one reads and writes    *)
(* while a first has a batch open.                                          *)
(*                                                                          *)
(* Opening the database checks its version and starts over with an empty    *)
(* one when it is too old; the process can be killed at any step of it.     *)
(***************************************************************************)
EXTENDS Naturals, Sequences

CONSTANTS
    Key, Value,
    Handle,
    ReadOnly,       \* the CTxDB objects opened with "r"
    Absent, Untouched, NoTxn,
    MaxBatch        \* bound on the length of a batch

ASSUME TxDBAssumption ==
    /\ ReadOnly \subseteq Handle
    /\ Absent \notin Value /\ Untouched \notin Value /\ Untouched # Absent
    /\ NoTxn \notin Seq([key : Key, value : Value \cup {Absent}])
    /\ NoTxn \notin [Key -> Value \cup {Absent, Untouched}]
    /\ MaxBatch \in Nat

VARIABLES
    pdb,            \* the LevelDB: a value, or Absent, for every key
    version,        \* its "version" record: "none", "old" or "current"
    phase,          \* "closed", "opened" (no version yet) or "ready"
    activeBatch,    \* per object, the batch or NoTxn for NULL
    answer          \* the last Read's object, key and result

dvars == <<pdb, version, phase, activeBatch, answer>>

(***************************************************************************)
(* An entry of a batch; a value of Absent is a Delete.                      *)
(***************************************************************************)
Entry == [key : Key, value : Value \cup {Absent}]

TxDBTypeOK ==
    /\ pdb \in [Key -> Value \cup {Absent}]
    /\ version \in {"none", "old", "current"}
    /\ phase \in {"closed", "opened", "ready"}
    /\ DOMAIN activeBatch = Handle
    /\ \A h \in Handle : activeBatch[h] # NoTxn => activeBatch[h] \in Seq(Entry)
    /\ answer \in {<<>>} \cup Handle \X Key \X (Value \cup {Absent})

TxDBInit ==
    /\ pdb = [k \in Key |-> Absent]
    /\ version = "none"
    /\ phase = "closed"
    /\ activeBatch = [h \in Handle |-> NoTxn]
    /\ answer = <<>>

-----------------------------------------------------------------------------
(***************************************************************************)
(* CBatchScanner goes over the whole batch and keeps what the last entry of *)
(* the key says.                                                            *)
(***************************************************************************)
Entries(batch, k) == {i \in DOMAIN batch : batch[i].key = k}

LastEntry(batch, k) == CHOOSE i \in Entries(batch, k) : \A j \in Entries(batch, k) : j <= i

\* A plausible bug: the scan stops at the first entry of the key.
ScanFirst(batch, k) ==
    IF Entries(batch, k) = {}
      THEN Untouched
      ELSE batch[CHOOSE i \in Entries(batch, k) : \A j \in Entries(batch, k) : i <= j].value

ScanBatch(batch, k) ==
    IF Entries(batch, k) = {} THEN Untouched ELSE batch[LastEntry(batch, k)].value

(***************************************************************************)
(* Read through the batch, then from LevelDB.                               *)
(***************************************************************************)
ReadKey(h, k) ==
    IF activeBatch[h] = NoTxn \/ ScanBatch(activeBatch[h], k) = Untouched
      THEN pdb[k]
      ELSE ScanBatch(activeBatch[h], k)

(***************************************************************************)
(* Exists looks into the batch too, but an entry that deletes the key sends *)
(* it on to LevelDB.                                                        *)
(***************************************************************************)
Exists(h, k) ==
    \/ /\ activeBatch[h] # NoTxn
       /\ ScanBatch(activeBatch[h], k) \notin {Untouched, Absent}
    \/ pdb[k] # Absent

(***************************************************************************)
(* LevelDB's Write of a batch (external): its entries in their order, in    *)
(* one atomic step.                                                         *)
(***************************************************************************)
\* A plausible bug: the keys of which the batch has no entry are lost.
WriteAllKeys(batch) == [k \in Key |-> ScanBatch(batch, k)]

WriteBatch(batch) ==
    [k \in Key |-> IF ScanBatch(batch, k) = Untouched THEN pdb[k]
                                                     ELSE ScanBatch(batch, k)]

-----------------------------------------------------------------------------
(***************************************************************************)
(* The constructor with the mode "cr+" on a closed database: the directory  *)
(* is created when it is missing, a database of an old version is removed   *)
(* first, and a new one gets its version in a write of its own.             *)
(***************************************************************************)
OpenCurrent ==
    /\ phase = "closed" /\ version = "current"
    /\ phase' = "ready"
    /\ UNCHANGED <<pdb, version, activeBatch, answer>>

OpenNew ==
    /\ phase = "closed" /\ version = "none"
    /\ phase' = "opened"
    /\ UNCHANGED <<pdb, version, activeBatch, answer>>

\* A plausible bug: the records are left in place.
RemoveOldVersionOnly ==
    /\ phase = "closed" /\ version = "old"
    /\ version' = "none"
    /\ phase' = "opened"
    /\ UNCHANGED <<pdb, activeBatch, answer>>

RemoveOld ==
    /\ phase = "closed" /\ version = "old"
    /\ pdb' = [k \in Key |-> Absent]
    /\ version' = "none"
    /\ phase' = "opened"
    /\ UNCHANGED <<activeBatch, answer>>

WriteVersion ==
    /\ phase = "opened"
    /\ version' = "current"
    /\ phase' = "ready"
    /\ UNCHANGED <<pdb, activeBatch, answer>>

(***************************************************************************)
(* The operations of an object.  A write on a read-only one, a second       *)
(* TxnBegin and a TxnCommit without a batch are assertions that fail.       *)
(***************************************************************************)
TxnBegin(h) ==
    /\ phase = "ready" /\ h \notin ReadOnly
    /\ activeBatch[h] = NoTxn
    /\ activeBatch' = [activeBatch EXCEPT ![h] = <<>>]
    /\ UNCHANGED <<pdb, version, phase, answer>>

\* Write, and Erase for a v of Absent.
Write(h, k, v) ==
    /\ phase = "ready" /\ h \notin ReadOnly
    /\ IF activeBatch[h] = NoTxn
          THEN pdb' = [pdb EXCEPT ![k] = v] /\ UNCHANGED activeBatch
          ELSE /\ Len(activeBatch[h]) < MaxBatch
               /\ activeBatch' = [activeBatch EXCEPT ![h] = Append(@, [key |-> k, value |-> v])]
               /\ UNCHANGED pdb
    /\ UNCHANGED <<version, phase, answer>>

Read(h, k) ==
    /\ phase = "ready"
    /\ answer' = <<h, k, ReadKey(h, k)>>
    /\ UNCHANGED <<pdb, version, phase, activeBatch>>

TxnCommit(h) ==
    /\ phase = "ready"
    /\ activeBatch[h] # NoTxn
    /\ pdb' = WriteBatch(activeBatch[h])
    /\ activeBatch' = [activeBatch EXCEPT ![h] = NoTxn]
    /\ UNCHANGED <<version, phase, answer>>

(***************************************************************************)
(* TxnAbort, the destructor and a commit that LevelDB refuses drop the      *)
(* batch.                                                                   *)
(***************************************************************************)
TxnAbort(h) ==
    /\ phase = "ready"
    /\ activeBatch' = [activeBatch EXCEPT ![h] = NoTxn]
    /\ UNCHANGED <<pdb, version, phase, answer>>

(***************************************************************************)
(* The process stops, or is killed, and the batches with it.  A release     *)
(* with a higher DATABASE_VERSION may be installed in the meantime.         *)
(***************************************************************************)
Stop ==
    /\ phase # "closed"
    /\ phase' = "closed"
    /\ version' \in IF version = "current" THEN {"current", "old"} ELSE {version}
    /\ activeBatch' = [h \in Handle |-> NoTxn]
    /\ answer' = <<>>
    /\ UNCHANGED pdb

TxDBNext ==
    \/ OpenCurrent \/ OpenNew \/ RemoveOld \/ WriteVersion \/ Stop
    \/ \E h \in Handle : TxnBegin(h) \/ TxnCommit(h) \/ TxnAbort(h)
    \/ \E h \in Handle, k \in Key, v \in Value \cup {Absent} : Write(h, k, v)
    \/ \E h \in Handle, k \in Key : Read(h, k)

TxDBSpec == TxDBInit /\ [][TxDBNext]_dvars

-----------------------------------------------------------------------------
(***************************************************************************)
(* A CTxDB implements the transactional store of KVStore: a batch stands    *)
(* for the set of the last changes of its keys.                             *)
(***************************************************************************)
LastChange(batch, k) ==
    IF \E i \in DOMAIN batch : batch[i].key = k
      THEN batch[CHOOSE i \in DOMAIN batch :
                   /\ batch[i].key = k
                   /\ \A j \in DOMAIN batch : batch[j].key = k => j <= i].value
      ELSE Untouched

Txn == [h \in Handle |->
          IF activeBatch[h] = NoTxn
            THEN NoTxn
            ELSE [k \in Key |-> LastChange(activeBatch[h], k)]]

KV == INSTANCE KVStore WITH store <- pdb, txn <- Txn

(***************************************************************************)
(* Reads, commits, aborts and kills of the batches (txdb-leveldb.h Read,    *)
(* Write, Erase; TxnBegin, TxnCommit, TxnAbort) are those of a              *)
(* transactional store, whatever the order and number of a batch's entries  *)
(* and whatever other objects do meanwhile.                                 *)
(***************************************************************************)
Implements == KV!Spec

(***************************************************************************)
(* The records of an old database are never taken for current ones: while   *)
(* the version record is missing there are no others, so that a kill        *)
(* between the removal and WriteVersion is harmless, and no object ever     *)
(* works on a database of another version.                                  *)
(***************************************************************************)
NoOldRecords ==
    /\ version = "none" => pdb = [k \in Key |-> Absent]
    /\ phase = "ready" => version = "current"

(***************************************************************************)
(* "the rest of the code assumes that once a database transaction begins    *)
(* reads are consistent with it" (txdb-leveldb.cpp, above ScanBatch): Exists*)
(* and Read agree.                                                          *)
(***************************************************************************)
ExistsAgreesWithRead ==
    \A h \in Handle, k \in Key : Exists(h, k) <=> ReadKey(h, k) # Absent

=============================================================================
