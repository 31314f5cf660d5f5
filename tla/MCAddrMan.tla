----------------------------- MODULE MCAddrMan ------------------------------
(***************************************************************************)
(* Four addresses from two sources.  With "s1" they share the new bucket 1, *)
(* with "s2" two of them are in the bucket 2; all but one share a tried     *)
(* bucket.                                                                  *)
(***************************************************************************)
EXTENDS AddrMan

MCGetNewBucket ==
    [p \in Addr \X Source |-> IF p[2] = "s2" /\ p[1] \in {"a1", "a2", "a3"} THEN 2 ELSE 1]

MCGetTriedBucket == [a \in Addr |-> IF a = "a4" THEN 2 ELSE 1]

=============================================================================
