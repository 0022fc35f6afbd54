------------------------------- MODULE Taskq -------------------------------
(***************************************************************************)
(* A task queue (libspl/taskq.c): clients, and the tasks themselves,       *)
(* dispatch tasks; worker threads run them; clients wait for the queue to  *)
(* fall idle, and one of them finally destroys it.                         *)
(*                                                                         *)
(* A section under tq_lock is one action, from the wake-up or the lock to  *)
(* the next cv_wait or unlock: task_alloc and task_free give the lock up   *)
(* around malloc and free, so they end one section and start another.      *)
(* KM_SLEEP is 0, so the test of tqflags & KM_SLEEP in task_alloc fails    *)
(* for every flag, and the timed wait behind it is unreachable.            *)
(***************************************************************************)
EXTENDS Integers, FiniteSets, Sequences

CONSTANTS
  Workers,    \* the nthreads threads of the queue
  Clients,    \* other threads that use it
  Tasks,      \* what is dispatched, each at most once
  Prealloc,   \* the tasks dispatched with taskq_dispatch_ent
  Front,      \* the tasks dispatched with TQ_FRONT
  Child,      \* the tasks each task dispatches while it runs
  Roots,      \* the tasks the clients dispatch
  MinAlloc, MaxAlloc

NoTask == "none"

ASSUME TaskqAssumption ==
  /\ Roots \subseteq Tasks /\ Prealloc \subseteq Tasks /\ Front \subseteq Tasks
  /\ Child \in [Tasks -> SUBSET (Tasks \ Roots)]
  /\ MinAlloc \in Nat /\ MaxAlloc \in Nat /\ MinAlloc <= MaxAlloc
  /\ IsFiniteSet(Workers) /\ Workers # {}
  /\ Workers \cap Clients = {} /\ NoTask \notin Tasks

Threads == Workers \cup Clients

VARIABLES
  tq_task,       \* the queued tasks, first to run first
  tq_flags,      \* "active" until taskq_destroy clears TASKQ_ACTIVE
  tq_active, tq_nthreads, tq_nalloc, tq_minalloc,
  tq_freelist,   \* the number of entries on the free list
  status,        \* what became of each task
  worker,        \* where each worker is, and its task
  alloc,         \* the task whose entry a thread is allocating
  call,          \* the call each client is in
  asleep         \* the condition variable each thread is blocked on

queueVars == <<tq_task, tq_flags, tq_active, tq_nthreads>>
allocVars == <<tq_nalloc, tq_minalloc, tq_freelist>>
vars == <<queueVars, allocVars, status, worker, alloc, call, asleep>>

Statuses == {"new", "allocating", "queued", "running", "done", "refused", "nomem"}

\* The fields of taskq_t stay in their domains: neither tq_active nor
\* tq_nthreads nor tq_nalloc goes below zero.
TypeOK ==
  /\ tq_task \in Seq(Tasks) /\ tq_flags \in {"active", "stopping"}
  /\ tq_active \in 0 .. Cardinality(Workers)
  /\ tq_nthreads \in 0 .. Cardinality(Workers)
  /\ tq_nalloc \in Nat /\ tq_minalloc \in 0 .. MinAlloc /\ tq_freelist \in Nat
  /\ status \in [Tasks -> Statuses]
  /\ worker \in [Workers -> [st : {"loop", "wait", "run", "exited"},
                             task : Tasks \cup {NoTask}]]
  /\ alloc \in [Threads -> Tasks \cup {NoTask}]
  /\ call \in [Clients -> {"none", "wait", "drain", "stop", "join", "free", "destroyed"}]
  /\ asleep \in [Threads -> {"no", "dispatch", "wait"}]

-----------------------------------------------------------------------------
(* Condition variables: a signal wakes one sleeper, a broadcast all.       *)

Awake(t) == asleep[t] = "no"

Signalled(cv) ==
  LET waiting == {t \in Threads : asleep[t] = cv}
  IN IF waiting = {} THEN {asleep}
     ELSE {[asleep EXCEPT ![t] = "no"] : t \in waiting}

Broadcast(cv) == [t \in Threads |-> IF asleep[t] = cv THEN "no" ELSE asleep[t]]

-----------------------------------------------------------------------------
(* Dispatch.                                                               *)

\* Link the entry in and signal a worker.
Enqueue(t) ==
  /\ tq_task' = IF t \in Front THEN <<t>> \o tq_task ELSE Append(tq_task, t)
  /\ status' = [status EXCEPT ![t] = "queued"]
  /\ asleep' \in Signalled("dispatch")

\* Who may dispatch t: a client, or the worker that runs its parent.  Tasks are
\* not dispatched to a queue that is being destroyed, except by its own tasks.
MayDispatch(d, t) ==
  /\ status[t] = "new" /\ alloc[d] = NoTask
  /\ IF d \in Clients
     THEN /\ t \in Roots /\ call[d] = "none"
          /\ \A c \in Clients : call[c] \in {"none", "wait"}
     ELSE worker[d].st = "run" /\ t \in Child[worker[d].task]

AtLimit == tq_nalloc >= MaxAlloc

HaveFree == tq_freelist > 0 /\ tq_nalloc >= tq_minalloc

\* taskq_dispatch up to the place where task_alloc has an entry, gives up at
\* tq_maxalloc, or releases the lock to allocate one.
taskq_dispatch(d, t) ==
  /\ t \notin Prealloc /\ MayDispatch(d, t)
  /\ \/ /\ HaveFree
        /\ tq_freelist' = tq_freelist - 1
        /\ Enqueue(t)
        /\ UNCHANGED alloc
     \/ /\ ~ HaveFree /\ AtLimit
        /\ status' = [status EXCEPT ![t] = "refused"]
        /\ UNCHANGED <<tq_task, tq_freelist, asleep, alloc>>
     \/ /\ ~ HaveFree /\ ~ AtLimit
        /\ alloc' = [alloc EXCEPT ![d] = t]
        /\ status' = [status EXCEPT ![t] = "allocating"]
        /\ UNCHANGED <<tq_task, tq_freelist, asleep>>
  /\ UNCHANGED <<tq_flags, tq_active, tq_nthreads, tq_nalloc, tq_minalloc, worker, call>>

\* malloc returned: the rest of task_alloc and of taskq_dispatch.
Allocated(d) ==
  /\ alloc[d] # NoTask
  /\ alloc' = [alloc EXCEPT ![d] = NoTask]
  /\ \/ /\ tq_nalloc' = tq_nalloc + 1
        /\ Enqueue(alloc[d])
     \/ /\ status' = [status EXCEPT ![alloc[d]] = "nomem"]
        /\ UNCHANGED <<tq_task, tq_nalloc, asleep>>
  /\ UNCHANGED <<tq_flags, tq_active, tq_nthreads, tq_minalloc, tq_freelist, worker, call>>

taskq_dispatch_ent(d, t) ==
  /\ t \in Prealloc /\ MayDispatch(d, t)
  /\ Enqueue(t)
  /\ UNCHANGED <<tq_flags, tq_active, tq_nthreads, allocVars, worker, alloc, call>>

-----------------------------------------------------------------------------
(* Workers: taskq_thread.                                                  *)

Busy(st, t) == [st |-> st, task |-> t]

\* Mutant: a client in taskq_wait is not told.
FellIdleSilent(active) == asleep

\* The last active worker tells those in taskq_wait.
FellIdle(active) == IF active = 1 THEN Broadcast("wait") ELSE asleep

\* From the top of the loop, tq_lock held, to the next wait or unlock.  active
\* and stat are tq_active and status as the section has them by then.
WorkerTop(w, active, stat) ==
  \/ /\ tq_flags = "active" /\ tq_task = <<>>
     /\ tq_active' = active - 1
     /\ worker' = [worker EXCEPT ![w] = Busy("wait", NoTask)]
     /\ asleep' = [FellIdle(active) EXCEPT ![w] = "dispatch"]
     /\ status' = stat
     /\ UNCHANGED <<tq_task, tq_nthreads>>
  \/ /\ tq_flags = "active" /\ tq_task # <<>>
     /\ tq_task' = Tail(tq_task)
     /\ tq_active' = active
     /\ worker' = [worker EXCEPT ![w] = Busy("run", Head(tq_task))]
     /\ status' = [stat EXCEPT ![Head(tq_task)] = "running"]
     /\ UNCHANGED <<tq_nthreads, asleep>>
  \/ /\ tq_flags = "stopping"
     /\ tq_nthreads' = tq_nthreads - 1
     /\ tq_active' = active
     /\ worker' = [worker EXCEPT ![w] = Busy("exited", NoTask)]
     /\ asleep' = Broadcast("wait")
     /\ status' = stat
     /\ UNCHANGED tq_task

\* A worker starts, or comes back from free.
WorkerLoop(w) ==
  /\ worker[w].st = "loop"
  /\ WorkerTop(w, tq_active, status)
  /\ UNCHANGED <<tq_flags, allocVars, alloc, call>>

\* A worker that was woken counts itself active first.
WorkerWake(w) ==
  /\ worker[w].st = "wait" /\ Awake(w)
  /\ WorkerTop(w, tq_active + 1, status)
  /\ UNCHANGED <<tq_flags, allocVars, alloc, call>>

Freed == tq_nalloc - 1

\* The task returns; its entry goes to the free list, or, above tq_minalloc,
\* to free, for which task_free gives up the lock.
WorkerDone(w) ==
  LET t == worker[w].task
      done == [status EXCEPT ![t] = "done"]
  IN /\ worker[w].st = "run" /\ alloc[w] = NoTask
     /\ \/ /\ t \in Prealloc
           /\ WorkerTop(w, tq_active, done)
           /\ UNCHANGED <<tq_nalloc, tq_freelist>>
        \/ /\ t \notin Prealloc /\ tq_nalloc <= tq_minalloc
           /\ tq_freelist' = tq_freelist + 1
           /\ WorkerTop(w, tq_active, done)
           /\ UNCHANGED tq_nalloc
        \/ /\ t \notin Prealloc /\ tq_nalloc > tq_minalloc
           /\ tq_nalloc' = Freed
           /\ worker' = [worker EXCEPT ![w] = Busy("loop", NoTask)]
           /\ status' = done
           /\ UNCHANGED <<tq_task, tq_active, tq_nthreads, tq_freelist, asleep>>
     /\ UNCHANGED <<tq_flags, tq_minalloc, alloc, call>>

-----------------------------------------------------------------------------
(* Clients: taskq_wait and taskq_destroy.                                  *)

\* Mutant: the tasks that are running are forgotten.
QuietQueue == tq_task = <<>>

Quiet == tq_task = <<>> /\ tq_active = 0

\* The loop of taskq_wait; the caller goes on at "after".
WaitLoop(c, waiting, after) ==
  /\ IF Quiet
     THEN /\ call' = [call EXCEPT ![c] = after]
          /\ UNCHANGED asleep
     ELSE /\ call' = [call EXCEPT ![c] = waiting]
          /\ asleep' = [asleep EXCEPT ![c] = "wait"]
  /\ UNCHANGED <<queueVars, allocVars, status, worker, alloc>>

taskq_wait(c) ==
  /\ call[c] = "none" /\ alloc[c] = NoTask
  /\ \A d \in Clients : call[d] \in {"none", "wait"}
  /\ WaitLoop(c, "wait", "none")

WaitWake(c) ==
  /\ call[c] = "wait" /\ Awake(c)
  /\ WaitLoop(c, "wait", "none")

\* The caller of taskq_destroy is the last user of the queue.
taskq_destroy(c) ==
  /\ call[c] = "none"
  /\ \A d \in Clients : call[d] = "none" /\ alloc[d] = NoTask
  /\ WaitLoop(c, "drain", "stop")

DestroyWake(c) ==
  /\ call[c] = "drain" /\ Awake(c)
  /\ WaitLoop(c, "drain", "stop")

Told == Broadcast("dispatch")

DestroyStop(c) ==
  /\ call[c] = "stop"
  /\ tq_flags' = "stopping"
  /\ asleep' = [Told EXCEPT ![c] = "wait"]
  /\ call' = [call EXCEPT ![c] = "join"]
  /\ UNCHANGED <<tq_task, tq_active, tq_nthreads, allocVars, status, worker, alloc>>

\* Mutant: the first worker that exits is taken for the last.
GoneAny == TRUE

Gone == tq_nthreads = 0

DestroyJoin(c) ==
  /\ call[c] = "join" /\ Awake(c)
  /\ IF Gone
     THEN /\ tq_minalloc' = 0
          /\ call' = [call EXCEPT ![c] = "free"]
          /\ UNCHANGED asleep
     ELSE /\ asleep' = [asleep EXCEPT ![c] = "wait"]
          /\ UNCHANGED <<call, tq_minalloc>>
  /\ UNCHANGED <<queueVars, tq_nalloc, tq_freelist, status, worker, alloc>>

\* One turn of the loop that empties the free list, or its end.
DestroyFree(c) ==
  /\ call[c] = "free"
  /\ IF tq_nalloc # 0
     THEN /\ tq_freelist' = tq_freelist - 1
          /\ tq_nalloc' = tq_nalloc - 1
          /\ UNCHANGED call
     ELSE /\ call' = [call EXCEPT ![c] = "destroyed"]
          /\ UNCHANGED <<tq_freelist, tq_nalloc>>
  /\ UNCHANGED <<queueVars, tq_minalloc, status, worker, alloc, asleep>>

-----------------------------------------------------------------------------
\* The state after taskq_create, with TASKQ_PREPOPULATE or without.
Init ==
  /\ tq_task = <<>> /\ tq_flags = "active"
  /\ tq_active = Cardinality(Workers) /\ tq_nthreads = Cardinality(Workers)
  /\ tq_nalloc \in {0, MinAlloc} /\ tq_freelist = tq_nalloc
  /\ tq_minalloc = MinAlloc
  /\ status = [t \in Tasks |-> "new"]
  /\ worker = [w \in Workers |-> Busy("loop", NoTask)]
  /\ alloc = [t \in Threads |-> NoTask]
  /\ call = [c \in Clients |-> "none"]
  /\ asleep = [t \in Threads |-> "no"]

\* pthread_cond_wait may return unasked.
SpuriousWake(t) ==
  /\ asleep[t] # "no"
  /\ asleep' = [asleep EXCEPT ![t] = "no"]
  /\ UNCHANGED <<queueVars, allocVars, status, worker, alloc, call>>

Destroyed == (\E c \in Clients : call[c] = "destroyed") /\ UNCHANGED vars

WorkerStep(w) == WorkerLoop(w) \/ WorkerWake(w) \/ WorkerDone(w)

DestroyStep(c) ==
  DestroyWake(c) \/ DestroyStop(c) \/ DestroyJoin(c) \/ DestroyFree(c)

Next ==
  \/ \E d \in Threads, t \in Tasks : taskq_dispatch(d, t) \/ taskq_dispatch_ent(d, t)
  \/ \E d \in Threads : Allocated(d) \/ SpuriousWake(d)
  \/ \E w \in Workers : WorkerStep(w)
  \/ \E c \in Clients : taskq_wait(c) \/ WaitWake(c) \/ taskq_destroy(c) \/ DestroyStep(c)
  \/ Destroyed

Spec == Init /\ [][Next]_vars

-----------------------------------------------------------------------------
(* Safety.                                                                 *)

Pending(t) == status[t] \in {"queued", "running"}

\* taskq_wait waits for the whole recursion: when it returns, to its caller or
\* to taskq_destroy, no task is queued or running and none is about to be
\* dispatched by another (dmu_objset_find_dp relies on it).
WaitCoversRecursion ==
  [][\A c \in Clients :
       call'[c] # call[c] /\ (call[c] = "wait" \/ call'[c] = "stop") =>
         /\ \A t \in Tasks : ~ Pending(t)
         /\ \A w \in Workers : alloc[w] = NoTask]_vars

\* The queue holds the queued tasks, each once; a running task has its worker;
\* an entry that is being allocated has its thread.
QueueInv ==
  /\ \A i \in 1 .. Len(tq_task) : status[tq_task[i]] = "queued"
  /\ \A i, j \in 1 .. Len(tq_task) : tq_task[i] = tq_task[j] => i = j
  /\ \A t \in Tasks : status[t] = "queued" => \E i \in 1 .. Len(tq_task) : tq_task[i] = t

RunInv ==
  /\ \A w \in Workers :
       IF worker[w].st = "run"
       THEN worker[w].task \in Tasks /\ status[worker[w].task] = "running"
       ELSE worker[w].task = NoTask /\ alloc[w] = NoTask
  /\ \A v, w \in Workers : worker[v].st = "run" /\ worker[v].task = worker[w].task => v = w
  /\ \A t \in Tasks : status[t] = "running" => \E w \in Workers : worker[w] = Busy("run", t)

AllocInv ==
  /\ \A d \in Threads : alloc[d] # NoTask => status[alloc[d]] = "allocating" /\ alloc[d] \notin Prealloc
  /\ \A d, e \in Threads : alloc[d] # NoTask /\ alloc[d] = alloc[e] => d = e
  /\ \A t \in Tasks : status[t] = "allocating" => \E d \in Threads : alloc[d] = t

\* What the counters count.  A worker that exits stays counted by tq_active.
ActiveSet == {w \in Workers : worker[w].st # "wait"}
LiveSet == {w \in Workers : worker[w].st # "exited"}
InUse == {t \in Tasks \ Prealloc : Pending(t)}

CountInv ==
  /\ tq_active = Cardinality(ActiveSet) /\ tq_nthreads = Cardinality(LiveSet)
  /\ IsFiniteSet(InUse) /\ tq_nalloc = tq_freelist + Cardinality(InUse)

\* The caller of taskq_destroy is alone from the moment it calls, and alone with
\* idle workers once its wait is over.
DestroyInv ==
  \A c \in Clients :
    /\ call[c] \notin {"none", "wait"} =>
         \A d \in Clients : alloc[d] = NoTask /\ (d # c => call[d] = "none")
    /\ call[c] \in {"stop", "join", "free", "destroyed"} =>
         tq_task = <<>> /\ \A w \in Workers : worker[w].st \in {"wait", "exited"}
    /\ call[c] \in {"free", "destroyed"} => \A w \in Workers : worker[w].st = "exited"
    /\ call[c] = "destroyed" => tq_freelist = 0

\* Inductive.
TaskqInv == TypeOK /\ QueueInv /\ RunInv /\ AllocInv /\ CountInv /\ DestroyInv

\* taskq_destroy leaves nothing behind: no task is lost in the queue, every
\* worker is gone before the queue is freed, and so is every entry.  Until then
\* tq_nalloc counts the entries in use and on the free list, although malloc and
\* free run without the lock, so that what it frees is all there is.
DestroyedIsClean ==
  /\ tq_nalloc = tq_freelist + Cardinality({t \in Tasks \ Prealloc : Pending(t)})
  /\ (\E c \in Clients : call[c] \in {"free", "destroyed"}) =>
       /\ \A t \in Tasks : ~ Pending(t) /\ status[t] # "allocating"
       /\ \A w \in Workers : worker[w].st = "exited"
       /\ (\E c \in Clients : call[c] = "destroyed") => tq_freelist = 0

\* "We don't want to exceed tq_maxalloc, but ... we just delay for one second
\* to throttle the allocation rate": a TQ_SLEEP dispatch is never refused.
SleepDispatchSucceeds == \A t \in Tasks : status[t] # "refused"

-----------------------------------------------------------------------------
(* Liveness.  The workers run, a task returns, malloc returns, and the     *)
(* threads waiting for tq_lock get it.                                     *)

Fairness ==
  /\ \A w \in Workers : WF_vars(WorkerStep(w))
  /\ \A d \in Threads : WF_vars(Allocated(d))
  /\ \A c \in Clients : WF_vars(WaitWake(c)) /\ WF_vars(DestroyStep(c))

FairSpec == Spec /\ Fairness

\* No wake-up is lost: a queued task is run to its end, whichever worker the
\* signal woke, and taskq_wait and taskq_destroy return.
CallsReturn ==
  /\ \A t \in Tasks : status[t] = "queued" ~> status[t] = "done"
  /\ \A c \in Clients :
       /\ call[c] = "wait" ~> call[c] = "none"
       /\ call[c] \in {"drain", "stop"} ~> call[c] = "destroyed"
=============================================================================
