---------------------------- MODULE MCStakeMiner -----------------------------
\* Two transactions, one from the third second and one from the fourth.
EXTENDS StakeMiner

MCTxTime == [t \in Tx |-> IF t = "t1" THEN 3 ELSE 4]

=============================================================================
