------------------------------- MODULE Ledger -------------------------------
(***************************************************************************)
(* What the chain database promises its readers: there is a best block, and *)
(* the spendable outputs are those created and not consumed on its chain,   *)
(* on which nothing is consumed twice or before it is created.  The best    *)
(* block is exchanged, in one step, for another one.                        *)
(***************************************************************************)
CONSTANTS Block, Genesis, Chain, Txs(_), Vin, Outputs(_)

VARIABLES best, utxo

vars == <<best, utxo>>

\* The transactions of b's chain; the genesis block's are never connected.
ChainTxs(b) == UNION {Txs(c) : c \in Chain[b] \ {Genesis}}

Created(b) == UNION {Outputs(t) : t \in ChainTxs(b)}

Consumed(b) == UNION {Vin[t] : t \in ChainTxs(b)}

\* No two transactions of the chain consume one output, and each consumes
\* what the chain creates.
Sound(b) ==
    /\ \A t, u \in ChainTxs(b) : t # u => Vin[t] \cap Vin[u] = {}
    /\ Consumed(b) \subseteq Created(b)

Init == best = Genesis /\ utxo = {}

Switch(b) ==
    /\ Sound(b)
    /\ best' = b
    /\ utxo' = Created(b) \ Consumed(b)

Next == \E b \in Block : Switch(b)

Spec == Init /\ [][Next]_vars

=============================================================================
