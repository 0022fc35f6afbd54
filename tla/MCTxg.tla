------------------------------- MODULE MCTxg -------------------------------
(* The pipeline of Txg on small instances.                                 *)
EXTENDS Txg

CONSTANTS t1, w1

MCTargets == {0, FirstTxg, FirstTxg + 2}
=============================================================================
