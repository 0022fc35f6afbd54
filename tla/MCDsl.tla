------------------------------- MODULE MCDsl --------------------------------
(***************************************************************************)
(* Sync tasks and, side by side with them, what the tasks on snapshots and *)
(* clones do to the pool, and the transactions that change datasets in     *)
(* between: every behaviour picks one (part).                              *)
(***************************************************************************)
EXTENDS DslSyncTask, TLC

CONSTANTS c1, c2, c3, r1, x, y, b1, x1, x2, x3, d1, d2

VARIABLES part, pool, snap_txg, phase,
          tx_open, drained, synced, tx, dn_assigned_txg, dn_tx_holds, dp_dirty_total,
          dp_dirty_pertxg, sleepers, suspended, restarts, suspends

snapVars == <<pool, snap_txg, phase>>
txVars == <<tx_open, drained, synced, tx, dn_assigned_txg, dn_tx_holds, dp_dirty_total,
            dp_dirty_pertxg, sleepers, suspended, restarts, suspends>>
allVars == <<part, vars, snapVars, txVars>>

\* Two callers snapshot under the same name, and one destroys without waiting.
MCKind == [c \in Callers |-> IF c = c3 THEN "destroy" ELSE "snapshot"]
MCName == [c \in Callers |-> x]

\* One caller snapshots, one destroys a snapshot that is in use, one creates
\* without waiting.
Busy == INSTANCE DslSyncTask WITH
  Kind <- c1 :> "snapshot" @@ c2 :> "destroy" @@ c3 :> "create",
  Name <- c1 :> x @@ c2 :> x @@ c3 :> y, InUse <- {x}, MaxTxg <- 4, MaxCrash <- 0

Snap == INSTANCE Snapshots WITH
  Blocks <- {b1}, Objs <- 3 .. 6, Dirs <- 1 .. 2, MaxTxg <- 6, txg <- snap_txg,
  Tasks <- {"clone", "destroy", "promote", "rollback", "receive", "defer"}

\* Two transactions that take the same two dnodes in opposite orders, one of
\* them twice; one may be refused.
Cross == INSTANCE DmuTx WITH
  Txs <- {x1, x2}, Dnodes <- {d1, d2}, Holds <- x1 :> <<d1, d2>> @@ x2 :> <<d2, d1, d2>>,
  Space <- [t \in {x1, x2} |-> 1], How <- x1 :> "wait" @@ x2 :> "nowait",
  Continue <- TRUE, DirtyMax <- 1, DelayMin <- 0, MayFail <- {x2},
  MaxTxg <- 5, MaxRestart <- 1, MaxSuspend <- 1, open <- tx_open

\* One fills the pool with dirty data, so that two may sleep at the same time.
Chain == INSTANCE DmuTx WITH
  Txs <- {x1, x2, x3}, Dnodes <- {d1, d2}, Holds <- [t \in {x1, x2, x3} |-> <<d1>>],
  Space <- x1 :> 2 @@ x2 :> 1 @@ x3 :> 1, How <- x1 :> "wait" @@ x2 :> "nowait" @@ x3 :> "wait",
  Continue <- FALSE, DirtyMax <- 2, DelayMin <- 1, MayFail <- {},
  MaxTxg <- 5, MaxRestart <- 0, MaxSuspend <- 0, open <- tx_open

ASSUME Cross!DmuTxAssumption /\ Chain!DmuTxAssumption

DslInit ==
  /\ Init /\ Snap!Init
  /\ \/ part \in {"tasks", "busy", "snapshots", "chain"} /\ Chain!Init
     \/ part = "cross" /\ Cross!Init

Only(p) == part = p /\ UNCHANGED part
Rest(p) ==
  /\ p \notin {"tasks", "busy"} => UNCHANGED vars
  /\ p # "snapshots" => UNCHANGED snapVars
  /\ p \notin {"cross", "chain"} => UNCHANGED txVars

DslNext ==
  \/ Only("tasks") /\ Next /\ Rest("tasks")
  \/ Only("busy") /\ Busy!Next /\ Rest("busy")
  \/ Only("snapshots") /\ Snap!Next /\ Rest("snapshots")
  \/ Only("cross") /\ Cross!Next /\ Rest("cross")
  \/ Only("chain") /\ Chain!Next /\ Rest("chain")

Step(p, A) == Only(p) /\ A /\ Rest(p)

\* The fairness of the part that is exercised.  Nobody has called dsl_sync_task at
\* first, so that of the sync tasks asks for nothing in the other parts.
DslSpec ==
  /\ DslInit /\ [][DslNext]_allVars
  /\ Fairness
  /\ \A t \in {x1, x2} : WF_allVars(Step("cross", Cross!Thread(t)))
  /\ WF_allVars(Step("cross", Cross!QuiesceThread))
  /\ WF_allVars(Step("cross", Cross!SyncThread))
  /\ WF_allVars(Step("cross", Cross!Resume))
  /\ \A t \in {x1, x2, x3} : WF_allVars(Step("chain", Chain!Thread(t)))
  /\ WF_allVars(Step("chain", Chain!QuiesceThread))
  /\ WF_allVars(Step("chain", Chain!SyncThread))

\* Every call of dsl_sync_task returns, EAGAIN or not: the wait after EAGAIN pushes
\* the pipeline, and no task is left on a list.
EveryCallReturns == \A c \in Callers \ NoWait : part = "tasks" => CallReturns(c)

\* A block is freed exactly when no head or snapshot refers to it, whatever was
\* destroyed, promoted or swapped before.  Deadlists, their keys, the chains of
\* snapshots and the space charged are what the trees of blocks make them.
BlocksExact ==
  /\ Snap!FreedIsUnreferenced /\ Snap!NoneLeaks /\ Snap!DeferredHasClones
  /\ Snap!DeadlistsExact /\ Snap!KeysExact /\ Snap!ChainsExact
  /\ Snap!UsedExact /\ Snap!UniqueExact

\* A dnode is changed in one txg at a time, and a transaction that waits, was
\* refused or is over holds none: dmu_tx_unassign undoes what dmu_tx_try_assign did.
DnodeInOneTxg == part = "cross" => Cross!DnodeInOneTxg

\* dp_dirty_total is what the txgs that are not synced have dirtied and not yet
\* written, and a synced txg leaves nothing in its slot.
DirtyAccounted == Chain!DirtyAccounted

\* Every transaction of dmu_tx_assign is assigned or refused, and over in the end:
\* among three writers, two of which may sleep in the throttle, each that is let
\* go wakes the next; and two that need each other's dnodes in turn do not wait for
\* one another.
AssignReturns ==
  <>(part \in {"cross", "chain"} => \A t \in DOMAIN tx : tx[t].pc \in {"done", "failed"})
=============================================================================
