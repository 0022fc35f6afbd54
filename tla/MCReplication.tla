--------------------------- MODULE MCReplication ----------------------------
(* Blocks of size 1 and 2, one without a record, in queues that hold one   *)
(* large or two small ones.                                                *)
EXTENDS Replication, TLC

MCItems == Blocks \cup {eos}
MCSize(x) == IF x = NBlocks THEN 2 ELSE 1
MCRecvSize(x) == IF x = 2 THEN 2 ELSE 1
=============================================================================
