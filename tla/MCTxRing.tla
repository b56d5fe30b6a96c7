------------------------------ MODULE MCTxRing ------------------------------
(* Small instances of TxRing.  Two packets fill the ring past the stop      *)
(* threshold; with slots per packet that divide Count, or share a divisor   *)
(* with it, the cursors return to few positions.                            *)
EXTENDS TxRing, TLC

MixedShapes == {[n |-> 2, ctx |-> FALSE, cont |-> {}], [n |-> 3, ctx |-> TRUE, cont |-> {1}]}
LongShape == {[n |-> 4, ctx |-> TRUE, cont |-> {2}]}

Symmetry == Permutations(Packets)
=============================================================================
