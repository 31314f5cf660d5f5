------------------------------ MODULE MCMempool ------------------------------
(***************************************************************************)
(* Two branches for the memory pool.  x and y spend the same output, w and  *)
(* z spend theirs, j is in both branches, and k spends a coinstake;         *)
(* u spends what w does, with a signature that does not verify.             *)
(*                                                                          *)
(*   g - r1 - r2 - a3               a3: x and j                             *)
(*             `-- b3 - b4 - b5     b3: coinstake s   b4: j        b5: y    *)
(***************************************************************************)
EXTENDS Mempool

MCBlock == {"g", "r1", "r2", "a3", "b3", "b4", "b5"}

MCParent ==
    [b \in MCBlock \ {"g"} |->
        CASE b = "r1" -> "g"
          [] b = "r2" -> "r1"
          [] b \in {"a3", "b3"} -> "r2"
          [] b = "b4" -> "b3"
          [] b = "b5" -> "b4"]

\* b4 outweighs the other branch, so that b5 can be postponed.
MCBlockTrust == [b \in MCBlock |-> IF b = "b4" THEN 3 ELSE 1]

MCCoinBase == {"cg", "cr1", "cr2", "ca3", "cb3", "cb4", "cb5"}

MCTx == MCCoinBase \cup {"s", "x", "y", "w", "z", "j", "k", "u"}

MCVTx ==
    [b \in MCBlock |->
        CASE b = "g"  -> <<"cg">>
          [] b = "r1" -> <<"cr1">>
          [] b = "r2" -> <<"cr2">>
          [] b = "a3" -> <<"ca3", "x", "j">>
          [] b = "b3" -> <<"cb3", "s">>
          [] b = "b4" -> <<"cb4", "j">>
          [] b = "b5" -> <<"cb5", "y">>]

MCVin ==
    [t \in MCTx |->
        CASE t \in {"x", "y"} -> {<<"cr1", 0>>}
          [] t = "j" -> {<<"cr1", 1>>}
          [] t = "s" -> {<<"cr1", 2>>}
          [] t \in {"w", "u"} -> {<<"x", 0>>}
          [] t = "z" -> {<<"w", 0>>, <<"j", 0>>}
          [] t = "k" -> {<<"s", 0>>}
          [] OTHER -> {}]

MCVout == [t \in MCTx |-> IF t = "cr1" THEN 3 ELSE 1]

MCCoinStake == {"s"}

MCKernel == [t \in MCCoinStake |-> <<"cr1", 2>>]

MCCoinBaseHeight ==
    [t \in MCCoinBase |->
        CASE t = "cg" -> 0
          [] t = "cr1" -> 1
          [] t = "cr2" -> 2
          [] t \in {"ca3", "cb3"} -> 3
          [] t = "cb4" -> 4
          [] t = "cb5" -> 5]

MCClaim == [b \in MCBlock |-> 1]

MCReward == [h \in 0 .. 5 |-> 1]

=============================================================================
