--------------------------- MODULE MCOrphanBlocks ----------------------------
(***************************************************************************)
(* a2, b2 and c2 have the same stake, and so have b1 and d1.  AcceptBlock   *)
(* may refuse b2 and c2; SetBestChain fails for c1 if it is tried; b1 has   *)
(* too little work while the sync-checkpoint stands where it is.            *)
(*                                                                          *)
(*   g - a1 - a2                                                            *)
(*   |-- b1 - b2 - b3                                                       *)
(*   |-- c1 - c2                                                            *)
(*   `-- d1                                                                 *)
(***************************************************************************)
EXTENDS OrphanBlocks

MCParent ==
    [b \in Block \ {"g"} |->
        CASE b = "a2" -> "a1" [] b = "b2" -> "b1" [] b = "b3" -> "b2" [] b = "c2" -> "c1"
          [] OTHER -> "g"]

MCBlockTrust == [b \in Block |-> 1]

MCStake ==
    [b \in Block |->
        CASE b \in {"a2", "b2", "c2"} -> "s" [] b \in {"b1", "d1"} -> "t" [] OTHER -> None]

=============================================================================
