---------------------------- MODULE DslSyncTask ----------------------------
(***************************************************************************)
(* Sync tasks (dsl_synctask.c): an administrative operation is checked in  *)
(* open context, queued under the open txg, checked again and executed in  *)
(* syncing context, and reported when its txg is on disk.  The tasks are   *)
(* those of dsl_dataset.c, dmu_objset.c and dsl_destroy.c that take a      *)
(* snapshot, create and destroy by name; of the transaction groups the     *)
(* model uses what GroupCommit promises, of the configuration lock what    *)
(* RWLock promises, and the power may fail.                                *)
(***************************************************************************)
EXTENDS Integers, Sequences, FiniteSetsExt

CONSTANTS Callers,
          NoWait,      \* those that use dsl_sync_task_nowait
          Readers,     \* threads that look datasets up under the config lock
          Kind,        \* per caller: "snapshot", "create" or "destroy"
          Name,        \* per caller: the name it is about
          InUse,       \* snapshots that are mounted, being sent or held by users
          SpaceCheck,  \* callers whose task is subject to the space check
          MaxTxg,      \* bound: the last txg that opens without a waiter
          MaxCrash     \* bound: power failures

ASSUME SyncTaskAssumption ==
  /\ NoWait \subseteq Callers /\ SpaceCheck \subseteq Callers
  /\ \A c \in Callers : Kind[c] \in {"snapshot", "create", "destroy"}
  /\ {MaxTxg, MaxCrash} \subseteq Nat
  /\ Callers \cap Readers = {}

VARIABLES
  call,        \* per caller: where it is in dsl_sync_task
  dst_txg,
  dst_error,   \* of its dsl_sync_task_t: "ok" for 0
  tasks,       \* dp_sync_tasks, per slot
  heap,        \* the dsl_sync_task_t that dsl_sync_task_nowait allocated
  open, txg,   \* the open txg, and the one that is syncing or is next
  pc, current, \* where dsl_pool_sync is, and the task it executes
  readers,     \* who has dp_config_rwlock as reader
  writer,      \* whether the sync thread has it as writer
  seen,        \* per reader: the names it has looked up
  mos, disk,   \* the datasets, in memory and on disk
  applied,     \* how often each caller's syncfunc was executed, likewise
  durable,
  crashes

callVars == <<call, dst_txg, dst_error>>
taskVars == <<tasks, heap>>
syncVars == <<open, txg, pc, current>>
lockVars == <<readers, writer, seen>>
dataVars == <<mos, disk, applied, durable>>
vars == <<callVars, taskVars, syncVars, lockVars, dataVars, crashes>>

TXG_SIZE == 4
TXG_DEFER_SIZE == 2
FirstTxg == 4
Slot(t) == t % TXG_SIZE

Init ==
  /\ call = [c \in Callers |-> "idle"]
  /\ dst_txg = [c \in Callers |-> 0] /\ dst_error = [c \in Callers |-> "ok"]
  /\ tasks = [s \in 0 .. TXG_SIZE - 1 |-> <<>>] /\ heap = {}
  /\ open = FirstTxg /\ txg = FirstTxg /\ pc = "idle" /\ current = <<>>
  /\ readers = {} /\ writer = FALSE /\ seen = [r \in Readers |-> {}]
  /\ mos = [names |-> {}, datasets |-> {}] /\ disk = mos
  /\ applied = [c \in Callers |-> 0] /\ durable = applied
  /\ crashes = 0

-----------------------------------------------------------------------------
(* The check functions and the two halves of the sync functions.           *)

\* ds_prev_snap_txg of the head.
PrevSnapTxg == Max({0} \cup {d.txg : d \in {x \in mos.datasets : x.kind = "snapshot"}})

dsl_dataset_snapshot_check(c, syncing) ==
  CASE ~syncing -> "ok"
    [] syncing /\ PrevSnapTxg >= dst_txg[c] -> "EAGAIN"
    [] syncing /\ PrevSnapTxg < dst_txg[c] /\ Name[c] \in mos.names -> "EEXIST"
    [] OTHER -> "ok"

dmu_objset_create_check(c) == IF Name[c] \in mos.names THEN "EEXIST" ELSE "ok"

\* A snapshot that does not exist counts as destroyed, one in use is not destroyed.
dsl_destroy_snapshot_check(c, syncing) ==
  IF syncing /\ Name[c] \in mos.names \cap InUse THEN "EBUSY" ELSE "ok"

\* dst_checkfunc; nothing is checked for tasks that nobody waits for.
CheckFunc(c, syncing) ==
  CASE c \in NoWait -> "ok"
    [] c \notin NoWait /\ Kind[c] = "destroy" -> dsl_destroy_snapshot_check(c, syncing)
    [] c \notin NoWait /\ Kind[c] = "snapshot" -> dsl_dataset_snapshot_check(c, syncing)
    [] c \notin NoWait /\ Kind[c] = "create" -> dmu_objset_create_check(c)

NewDataset(c) == [name |-> Name[c], kind |-> Kind[c], txg |-> txg, by |-> c]

\* The sync functions in two halves.  A snapshot gets its dataset object first and
\* its name last, a file system its name first; what is destroyed loses its name
\* first.
dsl_dataset_snapshot_sync_impl(c, half) ==
  IF half = 1 THEN [mos EXCEPT !.datasets = @ \cup {NewDataset(c)}]
  ELSE [mos EXCEPT !.names = @ \cup {Name[c]}]

dsl_dataset_create_sync(c, half) ==
  IF half = 1 THEN [mos EXCEPT !.names = @ \cup {Name[c]}]
  ELSE [mos EXCEPT !.datasets = @ \cup {NewDataset(c)}]

dsl_destroy_snapshot_sync_impl(c, half) ==
  IF half = 1 THEN [mos EXCEPT !.names = @ \ {Name[c]}]
  ELSE [mos EXCEPT !.datasets = {d \in @ : d.name # Name[c]}]

\* dst_syncfunc
SyncFunc(c, half) ==
  CASE Kind[c] = "snapshot" -> dsl_dataset_snapshot_sync_impl(c, half)
    [] Kind[c] = "create" -> dsl_dataset_create_sync(c, half)
    [] Kind[c] = "destroy" -> dsl_destroy_snapshot_sync_impl(c, half)

-----------------------------------------------------------------------------
(* dsl_sync_task.                                                          *)

\* dmu_tx_assign: the open txg stays open or quiescing while it is held.
Assign(c) ==
  /\ call[c] \in {"idle", "top"}
  /\ call' = [call EXCEPT ![c] = IF c \in NoWait THEN "checked" ELSE "assigned"]
  /\ dst_txg' = [dst_txg EXCEPT ![c] = open]
  /\ dst_error' = [dst_error EXCEPT ![c] = "ok"]
  /\ UNCHANGED <<taskVars, syncVars, lockVars, dataVars, crashes>>

\* dsl_pool_config_enter.
ConfigEnter(c) ==
  /\ call[c] = "assigned" /\ ~writer
  /\ readers' = readers \cup {c}
  /\ call' = [call EXCEPT ![c] = "checking"]
  /\ UNCHANGED <<dst_txg, dst_error, taskVars, syncVars, writer, seen, dataVars, crashes>>

\* The preliminary check; an error is returned at once.
PreliminaryCheck(c) ==
  /\ call[c] = "checking"
  /\ readers' = readers \ {c}
  /\ dst_error' = [dst_error EXCEPT ![c] = CheckFunc(c, FALSE)]
  /\ call' = [call EXCEPT ![c] = IF CheckFunc(c, FALSE) = "ok" THEN "checked" ELSE "done"]
  /\ UNCHANGED <<dst_txg, taskVars, syncVars, writer, seen, dataVars, crashes>>

\* txg_list_add_tail, in both variants.
Enqueue(c) ==
  /\ call[c] = "checked"
  /\ tasks' = [tasks EXCEPT ![Slot(dst_txg[c])] = Append(@, c)]
  /\ heap' = heap \cup ({c} \cap NoWait)
  /\ call' = [call EXCEPT ![c] = "queued"]
  /\ UNCHANGED <<dst_txg, dst_error, syncVars, lockVars, dataVars, crashes>>

\* Callers whose transaction holds their txg.
Holding(c) == call[c] \in {"assigned", "checking", "checked", "queued"}

\* dmu_tx_commit; without a waiter that is all.
Commit(c) ==
  /\ call[c] = "queued"
  /\ call' = [call EXCEPT ![c] = IF c \in NoWait THEN "done" ELSE "waiting"]
  /\ UNCHANGED <<dst_txg, dst_error, taskVars, syncVars, lockVars, dataVars, crashes>>

\* Mutant: the txg before is enough.
SyncedEarly(t) == txg >= t

\* txg_wait_synced returns.
Synced(t) == txg > t

\* The task has been executed and is on disk, or failed; EAGAIN waits for the
\* deferred frees to come back.
Wait(c) ==
  /\ call[c] = "waiting" /\ Synced(dst_txg[c])
  /\ call' = [call EXCEPT ![c] = IF dst_error[c] = "EAGAIN" THEN "again" ELSE "done"]
  /\ UNCHANGED <<dst_txg, dst_error, taskVars, syncVars, lockVars, dataVars, crashes>>

WaitAgain(c) ==
  /\ call[c] = "again" /\ Synced(dst_txg[c] + TXG_DEFER_SIZE)
  /\ call' = [call EXCEPT ![c] = "top"]
  /\ UNCHANGED <<dst_txg, dst_error, taskVars, syncVars, lockVars, dataVars, crashes>>

-----------------------------------------------------------------------------
(* Threads that look datasets up.                                          *)

ReadNames(r) ==
  /\ r \notin readers /\ ~writer
  /\ readers' = readers \cup {r}
  /\ seen' = [seen EXCEPT ![r] = mos.names]
  /\ UNCHANGED <<callVars, taskVars, syncVars, writer, dataVars, crashes>>

ReadEnd(r) ==
  /\ r \in readers
  /\ readers' = readers \ {r}
  /\ seen' = [seen EXCEPT ![r] = {}]
  /\ UNCHANGED <<callVars, taskVars, syncVars, writer, dataVars, crashes>>

-----------------------------------------------------------------------------
(* The transaction groups and the execution of the tasks.                  *)

\* Mutant: the wait after EAGAIN does not push the pipeline.
DemandOnce == \E c \in Callers : call[c] = "waiting" /\ dst_txg[c] >= open

\* Someone waits for a txg that is not closed yet (txg_wait_synced).
Demand ==
  \E c \in Callers : \/ call[c] = "waiting" /\ dst_txg[c] >= open
                     \/ call[c] = "again" /\ dst_txg[c] + TXG_DEFER_SIZE >= open

OpenNext ==
  /\ open < txg + 2
  /\ open < MaxTxg \/ Demand
  /\ open' = open + 1
  /\ UNCHANGED <<callVars, taskVars, txg, pc, current, lockVars, dataVars, crashes>>

\* The txg is quiesced: dsl_pool_sync gets to its tasks.
SyncBegin ==
  /\ pc = "idle" /\ txg < open
  /\ ~\E c \in Callers : Holding(c) /\ dst_txg[c] = txg
  /\ pc' = "tasks"
  /\ UNCHANGED <<callVars, taskVars, open, txg, current, lockVars, dataVars, crashes>>

Queue == tasks[Slot(txg)]

\* A task that nobody waits for is freed, whether it was executed or refused.
Spent(c) == {c}

\* dsl_sync_task_sync refuses a task for lack of space.
TaskNoSpace ==
  /\ pc = "tasks" /\ Queue # <<>> /\ Head(Queue) \in SpaceCheck
  /\ tasks' = [tasks EXCEPT ![Slot(txg)] = Tail(@)]
  /\ dst_error' = [dst_error EXCEPT ![Head(Queue)] = "ENOSPC"]
  /\ heap' = heap \ Spent(Head(Queue))
  /\ UNCHANGED <<call, dst_txg, syncVars, lockVars, dataVars, crashes>>

\* Mutant: the lock is not taken for the check and the syncfunc.
ConfigFreeAlways == TRUE

\* rrw_enter as writer.
ConfigFree == readers = {}

Recheck(c) == CheckFunc(c, TRUE)

\* The lock is taken as writer and the check repeated.  If it fails the task is
\* over; else the syncfunc begins.
TaskBegin ==
  /\ pc = "tasks" /\ Queue # <<>> /\ ConfigFree
  /\ LET c == Head(Queue)
     IN  /\ tasks' = [tasks EXCEPT ![Slot(txg)] = Tail(@)]
         /\ dst_error' = [dst_error EXCEPT ![c] = Recheck(c)]
         /\ \/ /\ Recheck(c) # "ok"
               /\ heap' = heap \ {c}
               /\ UNCHANGED <<pc, current, writer, mos, applied>>
            \/ /\ Recheck(c) = "ok"
               /\ pc' = "syncfunc" /\ current' = <<c>>
               /\ writer' = TRUE
               /\ mos' = SyncFunc(c, 1)
               /\ applied' = [applied EXCEPT ![c] = @ + 1]
               /\ UNCHANGED heap
  /\ UNCHANGED <<call, dst_txg, open, txg, readers, seen, disk, durable, crashes>>

\* The syncfunc ends and the lock is released.
TaskEnd ==
  /\ pc = "syncfunc"
  /\ mos' = SyncFunc(current[1], 2)
  /\ writer' = FALSE
  /\ heap' = heap \ {current[1]}
  /\ pc' = "tasks" /\ current' = <<>>
  /\ UNCHANGED <<callVars, tasks, open, txg, readers, seen, disk, applied, durable,
                 crashes>>

\* The uberblock is written; txg_sync_thread announces the txg.
SyncEnd ==
  /\ pc = "tasks" /\ Queue = <<>>
  /\ disk' = mos /\ durable' = applied
  /\ txg' = txg + 1
  /\ pc' = "idle"
  /\ UNCHANGED <<callVars, taskVars, open, current, lockVars, mos, applied, crashes>>

\* A power failure: the callers that had not returned are gone.
Crash ==
  /\ crashes < MaxCrash
  /\ crashes' = crashes + 1
  /\ call' = [c \in Callers |-> IF call[c] \in {"idle", "done"} THEN call[c] ELSE "gone"]
  /\ tasks' = [s \in DOMAIN tasks |-> <<>>] /\ heap' = {}
  /\ mos' = disk /\ applied' = durable
  /\ readers' = {} /\ writer' = FALSE /\ seen' = [r \in Readers |-> {}]
  /\ open' = txg /\ pc' = "idle" /\ current' = <<>>
  /\ UNCHANGED <<dst_txg, dst_error, txg, disk, durable>>

CallerStep(c) ==
  \/ Assign(c) \/ ConfigEnter(c) \/ PreliminaryCheck(c) \/ Enqueue(c) \/ Commit(c)
  \/ Wait(c) \/ WaitAgain(c)

SyncStep == SyncBegin \/ TaskNoSpace \/ TaskBegin \/ TaskEnd \/ SyncEnd

Next ==
  \/ \E c \in Callers : CallerStep(c)
  \/ \E r \in Readers : ReadNames(r) \/ ReadEnd(r)
  \/ OpenNext \/ SyncStep \/ Crash

Spec == Init /\ [][Next]_vars

\* Threads that are in a call go on; a writer gets the lock in spite of readers, as
\* Rrwlock lets none pass a waiting writer.
Fairness ==
  /\ \A c \in Callers : WF_vars(call[c] # "idle" /\ CallerStep(c))
  /\ \A r \in Readers : WF_vars(ReadEnd(r))
  /\ WF_vars(OpenNext /\ Demand) /\ SF_vars(TaskBegin) /\ WF_vars(SyncStep)

-----------------------------------------------------------------------------
TypeOK ==
  /\ call \in [Callers -> {"idle", "assigned", "checking", "checked", "queued",
                           "waiting", "again", "top", "done", "gone"}]
  /\ dst_txg \in [Callers -> Nat]
  /\ dst_error \in [Callers -> {"ok", "EAGAIN", "EEXIST", "EBUSY", "ENOSPC"}]
  /\ open \in txg .. txg + 2 /\ heap \subseteq NoWait
  /\ readers \subseteq Callers \cup Readers /\ writer \in BOOLEAN
  /\ applied \in [Callers -> 0 .. 1]

\* The lists: a task is on the list of the txg it was assigned, once, ...
Slots == 0 .. TXG_SIZE - 1
Listed(c) == \E s \in Slots : \E i \in 1 .. Len(tasks[s]) : tasks[s][i] = c

QueueInv ==
  /\ tasks \in [Slots -> Seq(Callers)]
  /\ \A s \in Slots : \A i, j \in 1 .. Len(tasks[s]) : tasks[s][i] = tasks[s][j] => i = j
  /\ \A s \in Slots : \A i \in 1 .. Len(tasks[s]) : s = Slot(dst_txg[tasks[s][i]])

\* ... and while it is there it has not been executed, and exists.
Entry(c) ==
  /\ dst_txg[c] \in txg .. open /\ dst_error[c] = "ok" /\ applied[c] = 0 /\ current # <<c>>
  /\ call[c] \in {"queued", "waiting"} \/ (call[c] = "done" /\ c \in NoWait)
  /\ c \in NoWait => c \in heap

ListInv ==
  /\ \A c \in Callers : Listed(c) => Entry(c)
  /\ \A c \in heap : Listed(c) \/ current = <<c>>

\* A caller that holds its txg keeps it from being synced, and one that waits is
\* on the list or has its result.
CallOK(c) ==
  /\ Holding(c) => dst_txg[c] \in txg .. open /\ (dst_txg[c] = txg => pc = "idle")
  /\ call[c] \in {"idle", "assigned", "checking", "checked", "again", "top"} =>
       ~ Listed(c) /\ applied[c] = 0
  /\ call[c] \in {"idle", "assigned", "checking", "checked"} => dst_error[c] = "ok"
  /\ call[c] \in {"assigned", "checking", "waiting", "again", "top"} => c \notin NoWait
  /\ call[c] = "queued" => Listed(c)
  /\ call[c] = "waiting" =>
       /\ \/ Listed(c)
          \/ /\ dst_txg[c] \in 0 .. txg /\ (dst_txg[c] = txg => pc # "idle")
             /\ applied[c] = (IF dst_error[c] = "ok" THEN 1 ELSE 0)
       /\ dst_txg[c] < txg => durable[c] = applied[c]
  /\ call[c] = "done" /\ c \notin NoWait =>
       /\ ~ Listed(c) /\ applied[c] = durable[c] /\ dst_error[c] # "EAGAIN"
       /\ durable[c] = (IF dst_error[c] = "ok" THEN 1 ELSE 0)

CallInv == \A c \in Callers : CallOK(c)

\* The sync thread and the configuration lock.
Executing(c) ==
  /\ current = <<c>> /\ dst_txg[c] = txg
  /\ call[c] = "waiting" \/ (call[c] = "done" /\ c \in NoWait)

SyncInv ==
  /\ txg \in Nat /\ pc \in {"idle", "tasks", "syncfunc"}
  /\ (pc # "idle" => txg < open) /\ writer = (pc = "syncfunc")
  /\ pc # "syncfunc" => current = <<>>
  /\ pc = "syncfunc" => readers = {} /\ \E c \in Callers : Executing(c)

\* The datasets: the checks made them distinct, and when no syncfunc is half done,
\* or when it is done, each has its name.
NamesOf(datasets) == {d.name : d \in datasets}
Distinct(datasets) ==
  \A d, e \in {a \in datasets : a.by \notin NoWait} :
    d.name = e.name \/ (d.kind = "snapshot" /\ e.kind = "snapshot" /\ d.txg = e.txg) => d = e
Dated(datasets) == \A d \in datasets : d.txg \in 0 .. txg
Sound(m) ==
  DOMAIN m = {"names", "datasets"} /\ Distinct(m.datasets) /\ Dated(m.datasets)

After == IF pc = "syncfunc" THEN SyncFunc(current[1], 2) ELSE mos

DataInv ==
  /\ Sound(mos) /\ Sound(disk) /\ NamesOf(disk.datasets) = disk.names
  /\ Sound(After) /\ NamesOf(After.datasets) = After.names
  /\ DOMAIN seen = Readers /\ \A r \in readers \cap Readers : seen[r] = mos.names
  /\ durable \in [Callers -> 0 .. 1] /\ \A c \in Callers : durable[c] <= applied[c]

\* Inductive.
SyncTaskInv == TypeOK /\ QueueInv /\ ListInv /\ CallInv /\ SyncInv /\ DataInv

\* What a caller is told is so: dsl_sync_task returns 0 when its task was executed
\* once and is on disk, to survive any power failure, and an error when it was not
\* executed.  EAGAIN is never returned.  Until it returns, and no longer, its task,
\* which is on its stack, may be on the list; a task that nobody waits for is
\* freed when it is off the list.
ReturnsTruth ==
  /\ \A c \in Callers \ NoWait :
       call[c] = "done" => /\ durable[c] = (IF dst_error[c] = "ok" THEN 1 ELSE 0)
                           /\ applied[c] = durable[c] /\ dst_error[c] # "EAGAIN"
  /\ \A s \in DOMAIN tasks : \A c \in Range(tasks[s]) :
       IF c \in NoWait THEN c \in heap ELSE call[c] \in {"queued", "waiting"}
  /\ heap \subseteq (UNION {Range(tasks[s]) : s \in DOMAIN tasks}) \cup Range(current)

\* Whoever has the configuration lock finds every name with its dataset, as it
\* found it when it took the lock.  No name is taken twice, and "we don't allow
\* multiple snapshots of the same txg": the check still holds in the syncfunc.
LookupsWhole ==
  /\ \A d, e \in {x \in mos.datasets : x.by \notin NoWait} :
       d.name = e.name \/ (d.kind = "snapshot" /\ e.kind = "snapshot" /\ d.txg = e.txg) => d = e
  /\ \A r \in readers \cap Readers : seen[r] = {d.name : d \in mos.datasets}
  /\ disk.names = {d.name : d \in disk.datasets}

\* A call of dsl_sync_task returns, EAGAIN or not.
CallReturns(c) == call[c] = "assigned" ~> call[c] \in {"done", "gone"}
=============================================================================
