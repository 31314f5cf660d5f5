---------------------------- MODULE MCBlockChain ----------------------------
(***************************************************************************)
(* A tree of thirteen blocks for BlockChain and ChainSelection.  After r1,  *)
(* whose coinbase has two outputs, two branches spend the same output cr1:0 *)
(* in different ways:                                                       *)
(*                                                                          *)
(*   g - r1 - a2 - a3 - a4       a2: x spends cr1:0                         *)
(*        |    |-- d3 - d4       a3: y spends cr1:0 again, so a3 is invalid *)
(*        |    `-- f3            a4: nothing but its coinbase               *)
(*        |                      d3: repeats the coinbase of r1             *)
(*        |                      f3: u, whose signature does not verify     *)
(*        `-- b2 - b3 - b4       b2: y spends cr1:0, z spends y:0           *)
(*             `-- e3 - e4       b3: a coinstake on cr1:1                   *)
(*                               b4: x again, whose input is spent here     *)
(*                               e3: a coinstake w on z:0, of this branch   *)
(*                               e4: v spends the coinbase of e4, immature  *)
(***************************************************************************)
EXTENDS ChainSelection

MCBlock == {"g", "r1", "a2", "a3", "a4", "b2", "b3", "b4", "d3", "d4",
            "e3", "e4", "f3"}

MCParent ==
    [b \in MCBlock \ {"g"} |->
        CASE b = "r1" -> "g"
          [] b \in {"a2", "b2"} -> "r1"
          [] b \in {"a3", "d3", "f3"} -> "a2"
          [] b = "a4" -> "a3"
          [] b = "d4" -> "d3"
          [] b \in {"b3", "e3"} -> "b2"
          [] b = "e4" -> "e3"
          [] b = "b4" -> "b3"]

MCBlockTrust == [b \in MCBlock |-> 1]

\* a2 outweighs b3, so that the node that has it refuses e3, of more trust
\* but with its kernel on the branch of b2; b4 makes it try that branch.
MCBlockTrustUneven ==
    [b \in MCBlock |-> CASE b \in {"a2", "e3"} -> 3 [] b = "b4" -> 2 [] OTHER -> 1]

MCCoinBase == {"cg", "cr1", "ca2", "ca3", "ca4", "cb2", "cb3", "cb4", "cd4",
               "ce3", "ce4", "cf3"}

MCTx == MCCoinBase \cup {"x", "y", "z", "s", "u", "v", "w"}

MCVTx ==
    [b \in MCBlock |->
        CASE b = "g"  -> <<"cg">>
          [] b = "r1" -> <<"cr1">>
          [] b = "a2" -> <<"ca2", "x">>
          [] b = "a3" -> <<"ca3", "y">>
          [] b = "a4" -> <<"ca4">>
          [] b = "d3" -> <<"cr1">>
          [] b = "d4" -> <<"cd4">>
          [] b = "b2" -> <<"cb2", "y", "z">>
          [] b = "b3" -> <<"cb3", "s">>
          [] b = "b4" -> <<"cb4", "x">>
          [] b = "e3" -> <<"ce3", "w">>
          [] b = "e4" -> <<"ce4", "v">>
          [] b = "f3" -> <<"cf3", "u">>]

MCVin ==
    [t \in MCTx |->
        CASE t \in {"x", "y"} -> {<<"cr1", 0>>}
          [] t = "z" -> {<<"y", 0>>}
          [] t = "s" -> {<<"cr1", 1>>}
          [] t = "u" -> {<<"x", 0>>}
          [] t = "v" -> {<<"ce4", 0>>}
          [] t = "w" -> {<<"z", 0>>}
          [] OTHER -> {}]

MCVout == [t \in MCTx |-> IF t = "cr1" THEN 2 ELSE 1]

MCCoinStake == {"s", "w"}

\* One kernel below the fork of the branches, and one on the stake's own.
MCKernel == [t \in MCCoinStake |-> IF t = "s" THEN <<"cr1", 1>> ELSE <<"z", 0>>]

MCCoinBaseHeight ==
    [t \in MCCoinBase |->
        CASE t = "cg" -> 0
          [] t = "cr1" -> 1
          [] t \in {"ca2", "cb2"} -> 2
          [] t \in {"ca3", "cb3", "ce3", "cf3"} -> 3
          [] OTHER -> 4]

MCBadSig == {"u"}

\* A block with less trust than its competitors, and an invalid one.
MCSyncCheckpoint == {"a2", "b4"}

\* A block whose children may have a record where it has none.
MCUnwritable == {"a2"}

MCClaim == [b \in MCBlock |-> 1]

MCReward == [h \in 0 .. 4 |-> 1]

\* The reward halves above height 2, and the blocks of b2's branch claim
\* what is due to them at their own heights.
MCRewardHalves == [h \in 0 .. 4 |-> IF h < 2 THEN 2 ELSE 1]

MCClaimOwnHeight == [b \in MCBlock |-> IF b = "b2" THEN 2 ELSE 1]

=============================================================================
