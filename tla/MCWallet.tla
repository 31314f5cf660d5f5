------------------------------ MODULE MCWallet -------------------------------
(***************************************************************************)
(* The wallet gets c1, spends it with t1 and the change of that with t2 or  *)
(* t3; s is a coinstake of the wallet that spends c1, r one that spends t1; *)
(* q is somebody's, and p, which spends q, pays to the wallet.              *)
(*                                                                          *)
(*   g [] - k [c1, q0] - a1 [t1] - a2 [t2]                                  *)
(*                    |- s1 [s]  - s2 [q]  - s3 []                          *)
(*                    `- x1 [t1] - x2 [r]  - x3 [] (invalid)                *)
(***************************************************************************)
EXTENDS Wallet

MCParent ==
    [b \in Block \ {"g"} |->
        CASE b = "k" -> "g" [] b \in {"a1", "s1", "x1"} -> "k" [] b = "a2" -> "a1"
          [] b = "s2" -> "s1" [] b = "s3" -> "s2" [] b = "x2" -> "x1" [] b = "x3" -> "x2"]

MCBlockTrust == [b \in Block |-> 1]

MCVTx ==
    [b \in Block |->
        CASE b = "k" -> <<"c1", "q0">> [] b \in {"a1", "x1"} -> <<"t1">> [] b = "a2" -> <<"t2">>
          [] b = "s1" -> <<"s">> [] b = "s2" -> <<"q">> [] b = "x2" -> <<"r">>
          [] OTHER -> <<>>]

MCInputs ==
    [t \in Tx |->
        CASE t \in {"t1", "s"} -> {"c1"} [] t \in {"t2", "t3", "r"} -> {"t1"} [] t = "q" -> {"q0"}
          [] t = "p" -> {"q"} [] OTHER -> {}]

=============================================================================
