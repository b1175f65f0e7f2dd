--------------------------- MODULE MCReplicaFence ----------------------------
(* Two or three transactions; created_at may lie anywhere on the clock.     *)
EXTENDS ReplicaFence, TLC

CONSTANTS t1, t2, t3

TwoTxs == {t1, t2}
ThreeTxs == {t1, t2, t3}
Symmetry == Permutations(Txs)
=============================================================================
