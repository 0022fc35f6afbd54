---------------------------- MODULE GroupCommit ----------------------------
(***************************************************************************)
(* What the transaction group pipeline promises its users: changes are     *)
(* filed under numbered groups, and a group reaches the disk as a whole,   *)
(* after all earlier ones.  Changes go only to groups that are not durable *)
(* yet, and at most TXG_CONCURRENT_STATES groups are collecting changes.   *)
(***************************************************************************)
EXTENDS Integers

CONSTANTS Txs, FirstTxg

TXG_CONCURRENT_STATES == 3

VARIABLES
  pending,   \* changes <<x, txg>> that a crash would lose
  durable    \* the last group on disk, 0 before the first

gcVars == <<pending, durable>>

NextGroup == IF durable = 0 THEN FirstTxg ELSE durable + 1

Change(x, txg) ==
  /\ txg \in NextGroup .. NextGroup + TXG_CONCURRENT_STATES - 1
  /\ pending' = pending \cup {<<x, txg>>}
  /\ UNCHANGED durable

Commit ==
  /\ durable' = NextGroup
  /\ pending' = {e \in pending : e[2] # NextGroup}

GCInit == pending = {} /\ durable = 0

GCNext ==
  \/ \E x \in Txs : \E txg \in NextGroup .. NextGroup + TXG_CONCURRENT_STATES - 1 :
       Change(x, txg)
  \/ Commit

GCSpec == GCInit /\ [][GCNext]_gcVars
=============================================================================
