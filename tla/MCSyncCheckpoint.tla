-------------------------- MODULE MCSyncCheckpoint ---------------------------
(***************************************************************************)
(* Two branches.  The second release has another master key and a hardened  *)
(* checkpoint on the branch of b1.                                          *)
(*                                                                          *)
(*   g - a1 - a2 - a3 (invalid)                                             *)
(*   `-- b1 - b2                                                            *)
(***************************************************************************)
EXTENDS SyncCheckpoint

MCParent ==
    [b \in Block \ {"g"} |->
        CASE b \in {"a1", "b1"} -> "g" [] b = "a2" -> "a1" [] b = "a3" -> "a2" [] b = "b2" -> "b1"]

MCBlockTrust == [b \in Block |-> IF b = "a1" THEN 2 ELSE 1]

MCMasterKey == [r \in Release |-> IF r = 1 THEN "k1" ELSE "k2"]

MCHardened == [r \in Release |-> IF r = 1 THEN {"g"} ELSE {"g", "b1"}]

=============================================================================
