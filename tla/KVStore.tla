------------------------------- MODULE KVStore -------------------------------
(***************************************************************************)
(* What CTxDB promises: a store of keys and values with transactions.  A    *)
(* transaction is a set of pending changes, at most one per key; its owner  *)
(* reads through them, nobody else sees them, and they reach the store all  *)
(* at once or not at all.                                                   *)
(***************************************************************************)
CONSTANTS
    Key, Value,
    Handle,         \* the CTxDB objects
    Absent,         \* what a key without a value reads as
    Untouched,      \* a key the transaction has not changed
    NoTxn

VARIABLES store, txn, answer

kvars == <<store, txn, answer>>

NoChange == [k \in Key |-> Untouched]

View(h) ==
    [k \in Key |-> IF txn[h] = NoTxn \/ txn[h][k] = Untouched THEN store[k]
                                                             ELSE txn[h][k]]

Init ==
    /\ store = [k \in Key |-> Absent]
    /\ txn = [h \in Handle |-> NoTxn]
    /\ answer = <<>>

Begin(h) ==
    /\ txn[h] = NoTxn
    /\ txn' = [txn EXCEPT ![h] = NoChange]
    /\ UNCHANGED <<store, answer>>

Change(h, k, v) ==
    /\ IF txn[h] = NoTxn
          THEN store' = [store EXCEPT ![k] = v] /\ UNCHANGED txn
          ELSE txn' = [txn EXCEPT ![h][k] = v] /\ UNCHANGED store
    /\ UNCHANGED answer

Get(h, k) ==
    /\ answer' = <<h, k, View(h)[k]>>
    /\ UNCHANGED <<store, txn>>

Commit(h) ==
    /\ txn[h] # NoTxn
    /\ store' = View(h)
    /\ txn' = [txn EXCEPT ![h] = NoTxn]
    /\ UNCHANGED answer

Abort(h) ==
    /\ txn' = [txn EXCEPT ![h] = NoTxn]
    /\ UNCHANGED <<store, answer>>

Crash ==
    /\ txn' = [h \in Handle |-> NoTxn]
    /\ answer' = <<>>
    /\ UNCHANGED store

Erase ==
    /\ store' = [k \in Key |-> Absent]
    /\ UNCHANGED <<txn, answer>>

Next ==
    \/ \E h \in Handle : Begin(h) \/ Commit(h) \/ Abort(h)
    \/ \E h \in Handle, k \in Key, v \in Value \cup {Absent} : Change(h, k, v)
    \/ \E h \in Handle, k \in Key : Get(h, k)
    \/ Crash
    \/ Erase

Spec == Init /\ [][Next]_kvars

=============================================================================
