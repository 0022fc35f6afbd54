---------------------------- MODULE TaskqProofs -----------------------------
(***************************************************************************)
(* Theorems about Taskq, for any number of workers, clients and tasks, any *)
(* recursion between tasks and any limits on allocation: TaskqInv is an    *)
(* invariant, taskq_wait covers the recursion, and taskq_destroy leaves    *)
(* nothing behind.                                                         *)
(***************************************************************************)
EXTENDS Taskq, FiniteSetTheorems, SequenceTheorems, TLAPS

\* Time for the provers, in seconds; the second pair is for a slow machine.
USE ZenonT(3), SMTT(30), ZenonT(40), SMTT(120)

-----------------------------------------------------------------------------
(* Sequences and counts.                                                   *)

\* What is where after an entry is linked in at the end, or at the front.
LEMMA AtEnd ==
  ASSUME NEW S, NEW s \in Seq(S), NEW x \in S
  PROVE  /\ Append(s, x) \in Seq(S) /\ Len(Append(s, x)) = Len(s) + 1 /\ Len(s) \in Nat
         /\ \A i \in 1 .. Len(s) : Append(s, x)[i] = s[i]
         /\ Append(s, x)[Len(s) + 1] = x
  OBVIOUS

LEMMA AtFront ==
  ASSUME NEW S, NEW s \in Seq(S), NEW x \in S
  PROVE  /\ <<x>> \o s \in Seq(S) /\ Len(<<x>> \o s) = Len(s) + 1 /\ Len(s) \in Nat
         /\ \A i \in 1 .. Len(s) : (<<x>> \o s)[i + 1] = s[i]
         /\ (<<x>> \o s)[1] = x
  OBVIOUS

\* What is where after the first entry is taken off.
LEMMA AfterHead ==
  ASSUME NEW S, NEW s \in Seq(S), s # <<>>
  PROVE  /\ Head(s) \in S /\ Head(s) = s[1] /\ Tail(s) \in Seq(S)
         /\ Len(s) \in Nat \ {0} /\ Len(Tail(s)) = Len(s) - 1
         /\ \A i \in 1 .. Len(s) - 1 : Tail(s)[i] = s[i + 1]
  OBVIOUS

\* The workers and the entries in use are finitely many.
LEMMA Finite ==
  ASSUME NEW W \in SUBSET Workers
  PROVE  IsFiniteSet(W) /\ Cardinality(W) \in 0 .. Cardinality(Workers)
  <1>1. IsFiniteSet(W) /\ Cardinality(W) <= Cardinality(Workers)
    BY TaskqAssumption, FS_Subset
  <1> QED BY <1>1, TaskqAssumption, FS_CardinalityType

\* One joins, or one leaves.
LEMMA OneMore ==
  ASSUME NEW S, IsFiniteSet(S), NEW x, x \notin S
  PROVE  IsFiniteSet(S \cup {x}) /\ Cardinality(S \cup {x}) = Cardinality(S) + 1
  BY FS_AddElement

LEMMA OneLess ==
  ASSUME NEW S, IsFiniteSet(S), NEW x \in S
  PROVE  /\ IsFiniteSet(S \ {x}) /\ Cardinality(S \ {x}) = Cardinality(S) - 1
         /\ Cardinality(S) \in Nat \ {0}
  <1>1. S # {} /\ Cardinality(S) \in Nat
    BY FS_CardinalityType
  <1>2. Cardinality(S) # 0
    BY <1>1, FS_EmptySet
  <1>3. IsFiniteSet(S \ {x}) /\ Cardinality(S \ {x}) = Cardinality(S) - 1
    BY FS_RemoveElement
  <1> QED BY <1>1, <1>2, <1>3

-----------------------------------------------------------------------------
(* Condition variables.                                                    *)

LEMMA BroadcastType ==
  ASSUME TypeOK, NEW cv PROVE Broadcast(cv) \in [Threads -> {"no", "dispatch", "wait"}]
  BY DEF TypeOK, Broadcast

LEMMA SignalType ==
  ASSUME TypeOK, NEW cv, NEW a \in Signalled(cv)
  PROVE  a \in [Threads -> {"no", "dispatch", "wait"}]
  BY DEF TypeOK, Signalled

-----------------------------------------------------------------------------
(* Dispatch.                                                               *)

\* A task that becomes queued is in the queue once.
LEMMA EnqueueQueue ==
  ASSUME TypeOK, QueueInv, NEW t \in Tasks, status[t] # "queued", Enqueue(t)
  PROVE  /\ tq_task' \in Seq(Tasks) /\ status' \in [Tasks -> Statuses]
         /\ asleep' \in [Threads -> {"no", "dispatch", "wait"}]
         /\ QueueInv'
<1>1. /\ tq_task \in Seq(Tasks) /\ status \in [Tasks -> Statuses]
      /\ status' = [status EXCEPT ![t] = "queued"]
  BY DEF TypeOK, Enqueue
<1>2. status' \in [Tasks -> Statuses] /\ status'[t] = "queued" /\ \A u \in Tasks : u # t => status'[u] = status[u]
  BY <1>1 DEF Statuses
<1>3. asleep' \in [Threads -> {"no", "dispatch", "wait"}]
  BY SignalType DEF Enqueue
<1>4. \A i \in 1 .. Len(tq_task) : tq_task[i] \in Tasks /\ tq_task[i] # t /\ status'[tq_task[i]] = "queued"
  BY <1>1, <1>2 DEF QueueInv
<1>5. CASE t \notin Front
  <2>1. tq_task' = Append(tq_task, t)
    BY <1>5 DEF Enqueue
  <2>2. /\ tq_task' \in Seq(Tasks) /\ Len(tq_task') = Len(tq_task) + 1 /\ Len(tq_task) \in Nat
        /\ \A i \in 1 .. Len(tq_task) : tq_task'[i] = tq_task[i]
        /\ tq_task'[Len(tq_task) + 1] = t
    BY <1>1, <2>1, AtEnd
  <2>3. \A i \in 1 .. Len(tq_task') : i \in 1 .. Len(tq_task) \/ i = Len(tq_task) + 1
    BY <2>2
  <2>4. \A i \in 1 .. Len(tq_task') : status'[tq_task'[i]] = "queued"
    BY <1>2, <1>4, <2>2, <2>3
  <2>5. \A i, j \in 1 .. Len(tq_task') : tq_task'[i] = tq_task'[j] => i = j
    BY <1>4, <2>2, <2>3 DEF QueueInv
  <2>6. ASSUME NEW u \in Tasks, status'[u] = "queued" PROVE \E i \in 1 .. Len(tq_task') : tq_task'[i] = u
    <3>1. CASE u = t
      BY <2>2, <3>1
    <3>2. CASE u # t
      <4>1. PICK i \in 1 .. Len(tq_task) : tq_task[i] = u
        BY <1>2, <2>6, <3>2 DEF QueueInv
      <4>2. i \in 1 .. Len(tq_task') /\ tq_task'[i] = u
        BY <2>2, <4>1
      <4> QED BY <4>2
    <3> QED BY <3>1, <3>2
  <2> QED BY <1>2, <1>3, <2>2, <2>4, <2>5, <2>6 DEF QueueInv
<1>6. CASE t \in Front
  <2>1. tq_task' = <<t>> \o tq_task
    BY <1>6 DEF Enqueue
  <2>2. /\ tq_task' \in Seq(Tasks) /\ Len(tq_task') = Len(tq_task) + 1 /\ Len(tq_task) \in Nat
        /\ \A i \in 1 .. Len(tq_task) : tq_task'[i + 1] = tq_task[i]
        /\ tq_task'[1] = t
    BY <1>1, <2>1, AtFront
  <2>3. \A i \in 1 .. Len(tq_task') :
           \/ i = 1 /\ tq_task'[i] = t
           \/ \E k \in 1 .. Len(tq_task) : i = k + 1 /\ tq_task'[i] = tq_task[k] /\ tq_task'[i] # t
    <3> TAKE i \in 1 .. Len(tq_task')
    <3>1. i # 1 => i - 1 \in 1 .. Len(tq_task) /\ (i - 1) + 1 = i
      BY <2>2
    <3>2. ASSUME NEW k \in 1 .. Len(tq_task), i = k + 1 PROVE tq_task'[i] = tq_task[k] /\ tq_task'[i] # t
      BY <1>4, <2>2, <3>2
    <3> QED BY <2>2, <3>1, <3>2
  <2>4. \A i \in 1 .. Len(tq_task') : status'[tq_task'[i]] = "queued"
    BY <1>2, <1>4, <2>2, <2>3
  <2>5. ASSUME NEW i \in 1 .. Len(tq_task'), NEW j \in 1 .. Len(tq_task'), tq_task'[i] = tq_task'[j] PROVE i = j
    <3>1. CASE tq_task'[i] = t
      BY <2>3, <2>5, <3>1
    <3>2. CASE tq_task'[i] # t
      <4>1. PICK k \in 1 .. Len(tq_task) : i = k + 1 /\ tq_task'[i] = tq_task[k]
        BY <2>3, <3>2
      <4>2. PICK l \in 1 .. Len(tq_task) : j = l + 1 /\ tq_task'[j] = tq_task[l]
        BY <2>3, <2>5, <3>2
      <4>3. k = l
        BY <2>5, <4>1, <4>2 DEF QueueInv
      <4> QED BY <4>1, <4>2, <4>3
    <3> QED BY <3>1, <3>2
  <2>6. ASSUME NEW u \in Tasks, status'[u] = "queued" PROVE \E i \in 1 .. Len(tq_task') : tq_task'[i] = u
    <3>1. CASE u = t
      <4>1. 1 \in 1 .. Len(tq_task')
        BY <2>2
      <4> QED BY <2>2, <3>1, <4>1
    <3>2. CASE u # t
      <4>1. PICK i \in 1 .. Len(tq_task) : tq_task[i] = u
        BY <1>2, <2>6, <3>2 DEF QueueInv
      <4>2. i + 1 \in 1 .. Len(tq_task') /\ tq_task'[i + 1] = u
        BY <2>2, <4>1
      <4> QED BY <4>2
    <3> QED BY <3>1, <3>2
  <2> QED BY <1>2, <1>3, <2>2, <2>4, <2>5, <2>6 DEF QueueInv
<1> QED BY <1>5, <1>6

\* The entries in use, when one task changes its status.
LEMMA InUseKept ==
  ASSUME TypeOK, NEW t \in Tasks, NEW x, status' = [status EXCEPT ![t] = x],
         ~ Pending(t), x # "queued", x # "running"
  PROVE  InUse' = InUse
  BY DEF TypeOK, InUse, Pending

LEMMA InUseMore ==
  ASSUME TypeOK, NEW t \in Tasks, status' = [status EXCEPT ![t] = "queued"],
         ~ Pending(t), IsFiniteSet(InUse)
  PROVE  /\ t \in Prealloc => InUse' = InUse
         /\ t \notin Prealloc => /\ IsFiniteSet(InUse')
                                 /\ Cardinality(InUse') = Cardinality(InUse) + 1
<1>1. t \in Prealloc => InUse' = InUse
  BY DEF TypeOK, InUse, Pending
<1>2. t \notin Prealloc => InUse' = InUse \cup {t} /\ t \notin InUse
  BY DEF TypeOK, InUse, Pending
<1> QED BY <1>1, <1>2, OneMore

\* A step of a dispatch leaves the running tasks alone.
LEMMA DispatchRun ==
  ASSUME TypeOK, RunInv, NEW t \in Tasks, NEW x, status' = [status EXCEPT ![t] = x],
         status[t] # "running", x # "running", worker' = worker,
         \A w \in Workers : worker[w].st # "run" => alloc'[w] = alloc[w]
  PROVE  RunInv'
<1>1. /\ status \in [Tasks -> Statuses] /\ status'[t] = x
      /\ \A u \in Tasks : u # t => status'[u] = status[u]
  BY DEF TypeOK
<1>2. \A u \in Tasks : status'[u] = "running" <=> status[u] = "running"
  BY <1>1
<1> QED BY <1>2 DEF RunInv

\* Whoever may dispatch is not the caller of taskq_destroy, nor is the queue idle.
LEMMA DispatchDestroy ==
  ASSUME DestroyInv, NEW d \in Threads, call' = call, worker' = worker,
         \/ d \in Clients /\ \A c \in Clients : call[c] \in {"none", "wait"}
         \/ d \in Workers /\ worker[d].st = "run",
         \A e \in Threads : e # d => alloc'[e] = alloc[e]
  PROVE  DestroyInv'
<1>1. CASE d \in Clients /\ \A c \in Clients : call[c] \in {"none", "wait"}
  BY <1>1 DEF DestroyInv
<1>2. CASE d \in Workers /\ worker[d].st = "run"
  <2>1. \A c \in Clients : call[c] \notin {"stop", "join", "free", "destroyed"}
    BY <1>2 DEF DestroyInv
  <2>2. \A c \in Clients : alloc'[c] = alloc[c]
    BY <1>2, TaskqAssumption DEF Threads
  <2> QED BY <2>1, <2>2 DEF DestroyInv
<1> QED BY <1>1, <1>2

LEMMA MayDispatchDestroy ==
  ASSUME NEW d \in Threads, NEW t \in Tasks, MayDispatch(d, t)
  PROVE  \/ d \in Clients /\ \A c \in Clients : call[c] \in {"none", "wait"}
         \/ d \in Workers /\ worker[d].st = "run"
  BY DEF MayDispatch, Threads

LEMMA AllocatingDestroy ==
  ASSUME RunInv, DestroyInv, NEW d \in Threads, alloc[d] # NoTask
  PROVE  \/ d \in Clients /\ \A c \in Clients : call[c] \in {"none", "wait"}
         \/ d \in Workers /\ worker[d].st = "run"
  BY DEF RunInv, DestroyInv, Threads

\* A task is queued without a stop at malloc.
LEMMA QueuedAlloc ==
  ASSUME TypeOK, AllocInv, NEW t \in Tasks, NEW x, status' = [status EXCEPT ![t] = x],
         status[t] = "new", x # "allocating", alloc' = alloc
  PROVE  AllocInv'
<1>1. /\ status \in [Tasks -> Statuses] /\ status'[t] = x
      /\ \A u \in Tasks : u # t => status'[u] = status[u]
  BY DEF TypeOK
<1>2. \A u \in Tasks : status'[u] = "allocating" <=> status[u] = "allocating"
  BY <1>1
<1>3. \A d \in Threads : alloc[d] \in Tasks \cup {NoTask}
  BY DEF TypeOK
<1> QED BY <1>2, <1>3 DEF AllocInv

LEMMA DispatchInv ==
  ASSUME TaskqInv, NEW d \in Threads, NEW t \in Tasks, taskq_dispatch(d, t)
  PROVE  TaskqInv'
<1> USE DEF TaskqInv
<1>1. /\ status[t] = "new" /\ alloc[d] = NoTask /\ t \notin Prealloc /\ ~ Pending(t)
      /\ UNCHANGED <<tq_flags, tq_active, tq_nthreads, tq_nalloc, tq_minalloc, worker, call>>
  BY DEF taskq_dispatch, MayDispatch, Pending
<1>2. \/ d \in Clients /\ \A c \in Clients : call[c] \in {"none", "wait"}
      \/ d \in Workers /\ worker[d].st = "run"
  BY MayDispatchDestroy DEF taskq_dispatch
<1>3. ActiveSet' = ActiveSet /\ LiveSet' = LiveSet
  BY <1>1 DEF ActiveSet, LiveSet
<1>4. CASE HaveFree /\ tq_freelist' = tq_freelist - 1 /\ Enqueue(t) /\ UNCHANGED alloc
  <2>1. status' = [status EXCEPT ![t] = "queued"]
    BY <1>4 DEF Enqueue
  <2>2. /\ tq_task' \in Seq(Tasks) /\ status' \in [Tasks -> Statuses]
        /\ asleep' \in [Threads -> {"no", "dispatch", "wait"}]
        /\ QueueInv'
    BY <1>1, <1>4, EnqueueQueue
  <2>3. tq_freelist' \in Nat
    BY <1>4 DEF HaveFree, TypeOK
  <2>4. TypeOK'
    BY <1>1, <1>4, <2>2, <2>3 DEF TypeOK
  <2>5. RunInv'
    BY <1>1, <1>4, <2>1, DispatchRun
  <2>6. AllocInv'
    BY <1>1, <1>4, <2>1, QueuedAlloc
  <2>7. IsFiniteSet(InUse') /\ Cardinality(InUse') = Cardinality(InUse) + 1
    BY <1>1, <2>1, InUseMore DEF CountInv
  <2>8. Cardinality(InUse) \in Nat
    BY FS_CardinalityType DEF CountInv
  <2>9. tq_nalloc' = tq_freelist' + Cardinality(InUse')
    <3>1. tq_nalloc = tq_freelist + Cardinality(InUse) /\ tq_freelist \in Nat /\ tq_nalloc' = tq_nalloc
      BY <1>1 DEF CountInv, TypeOK
    <3> QED BY <1>4, <2>7, <2>8, <3>1
  <2>10. CountInv'
    BY <1>1, <1>3, <2>7, <2>9 DEF CountInv
  <2>11. DestroyInv'
    BY <1>1, <1>2, <1>4, DispatchDestroy
  <2> QED BY <2>2, <2>4, <2>5, <2>6, <2>10, <2>11
<1>5. CASE /\ status' = [status EXCEPT ![t] = "refused"]
           /\ UNCHANGED <<tq_task, tq_freelist, asleep, alloc>>
  <2>1. TypeOK'
    BY <1>1, <1>5 DEF TypeOK, Statuses
  <2>2. \A u \in Tasks : status'[u] = "queued" <=> status[u] = "queued"
    BY <1>1, <1>5 DEF TypeOK
  <2>3. \A i \in 1 .. Len(tq_task) : tq_task[i] \in Tasks
    BY DEF TypeOK
  <2>4. QueueInv'
    BY <1>5, <2>2, <2>3 DEF QueueInv
  <2>5. RunInv'
    BY <1>1, <1>5, DispatchRun
  <2>6. AllocInv'
    BY <1>1, <1>5, QueuedAlloc
  <2>7. InUse' = InUse
    BY <1>1, <1>5, InUseKept
  <2>8. CountInv'
    BY <1>1, <1>3, <1>5, <2>7 DEF CountInv
  <2>9. DestroyInv'
    BY <1>1, <1>2, <1>5, DispatchDestroy
  <2> QED BY <2>1, <2>4, <2>5, <2>6, <2>8, <2>9
<1>6. CASE /\ alloc' = [alloc EXCEPT ![d] = t]
           /\ status' = [status EXCEPT ![t] = "allocating"]
           /\ UNCHANGED <<tq_task, tq_freelist, asleep>>
  <2>0. /\ alloc'[d] = t /\ status'[t] = "allocating"
        /\ \A e \in Threads : e # d => alloc'[e] = alloc[e]
        /\ \A u \in Tasks : u # t => status'[u] = status[u]
        /\ \A e \in Threads : alloc[e] \in Tasks \cup {NoTask}
    BY <1>6 DEF TypeOK
  <2>1. TypeOK'
    BY <1>1, <1>6 DEF TypeOK, Statuses
  <2>2. \A u \in Tasks : status'[u] = "queued" <=> status[u] = "queued"
    BY <1>1, <2>0
  <2>3. \A i \in 1 .. Len(tq_task) : tq_task[i] \in Tasks
    BY DEF TypeOK
  <2>4. QueueInv'
    BY <1>6, <2>2, <2>3 DEF QueueInv
  <2>5. RunInv'
    <3>1. \A w \in Workers : w \in Threads /\ (worker[w].st # "run" => w # d)
      BY <1>2, TaskqAssumption DEF Threads
    <3> QED BY <1>1, <1>6, <2>0, <3>1, DispatchRun
  <2>6. AllocInv'
    <3>1. \A e \in Threads : alloc[e] # t
      BY <1>1, TaskqAssumption DEF AllocInv
    <3>2. \A e \in Threads : alloc'[e] # NoTask => status'[alloc'[e]] = "allocating" /\ alloc'[e] \notin Prealloc
      BY <1>1, <2>0, <3>1 DEF AllocInv
    <3>3. \A e, f \in Threads : alloc'[e] # NoTask /\ alloc'[e] = alloc'[f] => e = f
      BY <2>0, <3>1 DEF AllocInv
    <3>4. \A u \in Tasks : status'[u] = "allocating" => \E e \in Threads : alloc'[e] = u
      BY <1>1, <2>0, TaskqAssumption DEF AllocInv
    <3> QED BY <3>2, <3>3, <3>4 DEF AllocInv
  <2>7. InUse' = InUse
    BY <1>1, <1>6, InUseKept
  <2>8. CountInv'
    BY <1>1, <1>3, <1>6, <2>7 DEF CountInv
  <2>9. DestroyInv'
    BY <1>1, <1>2, <2>0, DispatchDestroy
  <2> QED BY <2>1, <2>4, <2>5, <2>6, <2>8, <2>9
<1> QED BY <1>4, <1>5, <1>6 DEF taskq_dispatch

LEMMA DispatchEntInv ==
  ASSUME TaskqInv, NEW d \in Threads, NEW t \in Tasks, taskq_dispatch_ent(d, t)
  PROVE  TaskqInv'
<1> USE DEF TaskqInv
<1>1. /\ status[t] = "new" /\ t \in Prealloc /\ ~ Pending(t) /\ Enqueue(t)
      /\ UNCHANGED <<tq_flags, tq_active, tq_nthreads, allocVars, worker, alloc, call>>
      /\ status' = [status EXCEPT ![t] = "queued"]
  BY DEF taskq_dispatch_ent, MayDispatch, Pending, Enqueue
<1>2. \/ d \in Clients /\ \A c \in Clients : call[c] \in {"none", "wait"}
      \/ d \in Workers /\ worker[d].st = "run"
  BY MayDispatchDestroy DEF taskq_dispatch_ent
<1>3. ActiveSet' = ActiveSet /\ LiveSet' = LiveSet
  BY <1>1 DEF ActiveSet, LiveSet
<1>4. /\ tq_task' \in Seq(Tasks) /\ status' \in [Tasks -> Statuses]
      /\ asleep' \in [Threads -> {"no", "dispatch", "wait"}]
      /\ QueueInv'
  BY <1>1, EnqueueQueue
<1>5. TypeOK'
  BY <1>1, <1>4 DEF TypeOK, allocVars
<1>6. RunInv'
  BY <1>1, DispatchRun
<1>7. AllocInv'
  BY <1>1, QueuedAlloc
<1>8. InUse' = InUse
  BY <1>1, InUseMore DEF CountInv
<1>9. CountInv'
  BY <1>1, <1>3, <1>8 DEF CountInv, allocVars
<1>10. DestroyInv'
  BY <1>1, <1>2, DispatchDestroy
<1> QED BY <1>4, <1>5, <1>6, <1>7, <1>9, <1>10

LEMMA AllocatedInv ==
  ASSUME TaskqInv, NEW d \in Threads, Allocated(d)
  PROVE  TaskqInv'
<1> USE DEF TaskqInv
<1> DEFINE t == alloc[d]
<1>1. /\ t \in Tasks /\ t # NoTask /\ t \notin Prealloc /\ status[t] = "allocating"
  BY DEF Allocated, AllocInv, TypeOK
<1>2. /\ alloc' = [alloc EXCEPT ![d] = NoTask] /\ ~ Pending(t)
      /\ UNCHANGED <<tq_flags, tq_active, tq_nthreads, tq_minalloc, tq_freelist, worker, call>>
  BY <1>1 DEF Allocated, Pending
<1>3. /\ alloc'[d] = NoTask /\ \A e \in Threads : e # d => alloc'[e] = alloc[e]
      /\ \A e \in Threads : alloc[e] \in Tasks \cup {NoTask}
  BY <1>2 DEF TypeOK
<1>4. \/ d \in Clients /\ \A c \in Clients : call[c] \in {"none", "wait"}
      \/ d \in Workers /\ worker[d].st = "run"
  BY <1>1, AllocatingDestroy
<1>5. ActiveSet' = ActiveSet /\ LiveSet' = LiveSet
  BY <1>2 DEF ActiveSet, LiveSet
<1>6. DestroyInv'
  BY <1>2, <1>3, <1>4, DispatchDestroy
<1>7. \A w \in Workers : worker[w].st # "run" => alloc'[w] = alloc[w]
  BY <1>3, <1>4, TaskqAssumption DEF Threads
<1>8. ASSUME NEW x, status' = [status EXCEPT ![t] = x], x # "allocating" PROVE AllocInv'
  <2>1. status'[t] = x /\ \A u \in Tasks : u # t => status'[u] = status[u]
    BY <1>1, <1>8 DEF TypeOK
  <2>2. \A e \in Threads : e # d /\ alloc[e] # NoTask => alloc[e] # t
    BY <1>1 DEF AllocInv
  <2>3. \A e \in Threads : alloc'[e] # NoTask => status'[alloc'[e]] = "allocating" /\ alloc'[e] \notin Prealloc
    BY <1>3, <2>1, <2>2 DEF AllocInv
  <2>4. \A e, f \in Threads : alloc'[e] # NoTask /\ alloc'[e] = alloc'[f] => e = f
    BY <1>3 DEF AllocInv
  <2>5. \A u \in Tasks : status'[u] = "allocating" => \E e \in Threads : alloc'[e] = u
    BY <1>3, <1>8, <2>1 DEF AllocInv
  <2> QED BY <2>3, <2>4, <2>5 DEF AllocInv
<1>9. CASE tq_nalloc' = tq_nalloc + 1 /\ Enqueue(t)
  <2>1. status' = [status EXCEPT ![t] = "queued"]
    BY <1>9 DEF Enqueue
  <2>2. /\ tq_task' \in Seq(Tasks) /\ status' \in [Tasks -> Statuses]
        /\ asleep' \in [Threads -> {"no", "dispatch", "wait"}]
        /\ QueueInv'
    BY <1>1, <1>9, EnqueueQueue
  <2>3. tq_nalloc' \in Nat /\ alloc' \in [Threads -> Tasks \cup {NoTask}]
    BY <1>2, <1>9 DEF TypeOK
  <2>4. TypeOK'
    BY <1>2, <2>2, <2>3 DEF TypeOK
  <2>5. RunInv'
    BY <1>1, <1>2, <1>7, <2>1, DispatchRun
  <2>6. AllocInv'
    BY <1>8, <2>1
  <2>7. IsFiniteSet(InUse') /\ Cardinality(InUse') = Cardinality(InUse) + 1
    BY <1>1, <1>2, <2>1, InUseMore DEF CountInv
  <2>8. Cardinality(InUse) \in Nat
    BY FS_CardinalityType DEF CountInv
  <2>9. tq_nalloc' = tq_freelist' + Cardinality(InUse')
    <3>1. tq_nalloc = tq_freelist + Cardinality(InUse) /\ tq_freelist \in Nat /\ tq_freelist' = tq_freelist
      BY <1>2 DEF CountInv, TypeOK
    <3> QED BY <1>9, <2>7, <2>8, <3>1
  <2>10. CountInv'
    BY <1>2, <1>5, <2>7, <2>9 DEF CountInv
  <2> QED BY <1>6, <2>2, <2>4, <2>5, <2>6, <2>10
<1>10. CASE status' = [status EXCEPT ![t] = "nomem"] /\ UNCHANGED <<tq_task, tq_nalloc, asleep>>
  <2>1. alloc' \in [Threads -> Tasks \cup {NoTask}] /\ status' \in [Tasks -> Statuses]
    BY <1>2, <1>10 DEF TypeOK, Statuses
  <2>2. TypeOK'
    BY <1>2, <1>10, <2>1 DEF TypeOK
  <2>3. \A u \in Tasks : status'[u] = "queued" <=> status[u] = "queued"
    BY <1>1, <1>10 DEF TypeOK
  <2>4. \A i \in 1 .. Len(tq_task) : tq_task[i] \in Tasks
    BY DEF TypeOK
  <2>5. QueueInv'
    BY <1>10, <2>3, <2>4 DEF QueueInv
  <2>6. RunInv'
    BY <1>1, <1>2, <1>7, <1>10, DispatchRun
  <2>7. AllocInv'
    BY <1>8, <1>10
  <2>8. InUse' = InUse
    BY <1>1, <1>2, <1>10, InUseKept
  <2>9. CountInv'
    BY <1>2, <1>5, <1>10, <2>8 DEF CountInv
  <2> QED BY <1>6, <2>2, <2>5, <2>6, <2>7, <2>9
<1> QED BY <1>9, <1>10 DEF Allocated

-----------------------------------------------------------------------------
(* Workers.                                                                *)

\* What a section of worker w brings to the top of the loop: active counts w,
\* and stat is status with the task that w has just run, if any, done.
AtTop(w, active, stat) ==
  /\ w \in Workers /\ worker[w].st # "exited" /\ alloc[w] = NoTask
  /\ active = Cardinality(ActiveSet \cup {w})
  /\ \/ stat = status /\ worker[w].st # "run"
     \/ stat = [status EXCEPT ![worker[w].task] = "done"] /\ worker[w].st = "run"

\* There, the queue holds the tasks queued in stat, and the other workers run
\* the tasks running in stat.
LEMMA TopStat ==
  ASSUME TaskqInv, NEW w, NEW active, NEW stat, AtTop(w, active, stat)
  PROVE  /\ stat \in [Tasks -> Statuses]
         /\ \A u \in Tasks : /\ stat[u] = "queued" <=> status[u] = "queued"
                             /\ stat[u] = "allocating" <=> status[u] = "allocating"
         /\ \A v \in Workers : v # w /\ worker[v].st = "run" =>
              worker[v].task \in Tasks /\ stat[worker[v].task] = "running"
         /\ \A u \in Tasks : stat[u] = "running" =>
              \E v \in Workers : v # w /\ worker[v] = Busy("run", u)
<1> USE DEF TaskqInv
<1>0. w \in Workers /\ status \in [Tasks -> Statuses]
  BY DEF AtTop, TypeOK
<1>1. CASE stat = status /\ worker[w].st # "run"
  <2>1. \A u : worker[w] # Busy("run", u)
    BY <1>1 DEF Busy
  <2> QED BY <1>0, <1>1, <2>1 DEF RunInv
<1>2. CASE stat = [status EXCEPT ![worker[w].task] = "done"] /\ worker[w].st = "run"
  <2> DEFINE t == worker[w].task
  <2>1. t \in Tasks /\ status[t] = "running"
    BY <1>0, <1>2 DEF RunInv
  <2>2. stat[t] = "done" /\ \A u \in Tasks : u # t => stat[u] = status[u]
    BY <1>0, <1>2, <2>1
  <2>3. stat \in [Tasks -> Statuses]
    BY <1>0, <1>2 DEF Statuses
  <2>4. \A v \in Workers : v # w /\ worker[v].st = "run" =>
          worker[v].task \in Tasks /\ stat[worker[v].task] = "running"
    BY <1>0, <1>2, <2>2 DEF RunInv
  <2>5. ASSUME NEW u \in Tasks, stat[u] = "running"
        PROVE  \E v \in Workers : v # w /\ worker[v] = Busy("run", u)
    <3>1. u # t /\ status[u] = "running"
      BY <2>2, <2>5
    <3>2. PICK v \in Workers : worker[v] = Busy("run", u)
      BY <3>1 DEF RunInv
    <3>3. v # w
      BY <3>1, <3>2 DEF Busy
    <3> QED BY <3>2, <3>3
  <2> QED BY <2>1, <2>2, <2>3, <2>4, <2>5
<1> QED BY <1>1, <1>2 DEF AtTop

\* A worker that exits or waits has no task.
LEMMA LeaveRun ==
  ASSUME TaskqInv, NEW w, NEW active, NEW stat, AtTop(w, active, stat),
         NEW st \in {"wait", "exited", "loop"}, worker' = [worker EXCEPT ![w] = Busy(st, NoTask)],
         status' = stat, alloc' = alloc
  PROVE  RunInv'
<1> USE DEF TaskqInv
<1>1. /\ w \in Workers /\ worker'[w].st = st /\ worker'[w].task = NoTask /\ alloc'[w] = NoTask
      /\ \A v \in Workers : v # w => worker'[v] = worker[v]
  BY DEF AtTop, TypeOK, Busy
<1>2. \A v \in Workers : IF worker'[v].st = "run"
                         THEN worker'[v].task \in Tasks /\ status'[worker'[v].task] = "running"
                         ELSE worker'[v].task = NoTask /\ alloc'[v] = NoTask
  BY <1>1, TopStat DEF RunInv
<1>3. \A v, u \in Workers : worker'[v].st = "run" /\ worker'[v].task = worker'[u].task => v = u
  BY <1>1, TaskqAssumption DEF RunInv
<1>4. \A u \in Tasks : status'[u] = "running" => \E v \in Workers : worker'[v] = Busy("run", u)
  BY <1>1, TopStat
<1> QED BY <1>2, <1>3, <1>4 DEF RunInv

\* The head of the queue becomes the task of w.
LEMMA TakeRun ==
  ASSUME TaskqInv, NEW w, NEW active, NEW stat, AtTop(w, active, stat),
         tq_task # <<>>, worker' = [worker EXCEPT ![w] = Busy("run", Head(tq_task))],
         status' = [stat EXCEPT ![Head(tq_task)] = "running"], alloc' = alloc
  PROVE  RunInv'
<1> USE DEF TaskqInv
<1> DEFINE h == Head(tq_task)
<1>1. h \in Tasks /\ h = tq_task[1] /\ 1 \in 1 .. Len(tq_task)
  BY AfterHead DEF TypeOK
<1>2. stat[h] = "queued"
  BY <1>1, TopStat DEF QueueInv
<1>3. status'[h] = "running" /\ \A u \in Tasks : u # h => status'[u] = stat[u]
  BY <1>1, TopStat
<1>4. /\ w \in Workers /\ worker'[w] = Busy("run", h)
      /\ worker'[w].st = "run" /\ worker'[w].task = h
      /\ \A v \in Workers : v # w => worker'[v] = worker[v]
  BY DEF AtTop, TypeOK, Busy
<1>5. \A v \in Workers : IF worker'[v].st = "run"
                         THEN worker'[v].task \in Tasks /\ status'[worker'[v].task] = "running"
                         ELSE worker'[v].task = NoTask /\ alloc'[v] = NoTask
  BY <1>1, <1>3, <1>4, TopStat DEF RunInv
<1>6. \A v \in Workers : v # w => worker'[v].task # h
  BY <1>1, <1>2, <1>4, TopStat, TaskqAssumption DEF RunInv
<1>7. \A v, u \in Workers : worker'[v].st = "run" /\ worker'[v].task = worker'[u].task => v = u
  BY <1>4, <1>6 DEF RunInv
<1>8. \A u \in Tasks : status'[u] = "running" => \E v \in Workers : worker'[v] = Busy("run", u)
  BY <1>3, <1>4, TopStat
<1> QED BY <1>5, <1>7, <1>8 DEF RunInv

\* The queue without its head.
LEMMA TakeQueue ==
  ASSUME TaskqInv, NEW w, NEW active, NEW stat, AtTop(w, active, stat),
         tq_task # <<>>, tq_task' = Tail(tq_task),
         status' = [stat EXCEPT ![Head(tq_task)] = "running"]
  PROVE  QueueInv' /\ tq_task' \in Seq(Tasks) /\ status' \in [Tasks -> Statuses]
<1> USE DEF TaskqInv
<1> DEFINE h == Head(tq_task)
<1>1. /\ h \in Tasks /\ h = tq_task[1] /\ Tail(tq_task) \in Seq(Tasks)
      /\ Len(tq_task) \in Nat \ {0} /\ Len(tq_task') = Len(tq_task) - 1
      /\ \A i \in 1 .. Len(tq_task) - 1 : tq_task'[i] = tq_task[i + 1]
  BY AfterHead DEF TypeOK
<1>2. status'[h] = "running" /\ \A u \in Tasks : u # h => status'[u] = stat[u]
  BY <1>1, TopStat
<1>3. status' \in [Tasks -> Statuses]
  BY TopStat DEF Statuses
<1>4. \A i \in 1 .. Len(tq_task') : i + 1 \in 1 .. Len(tq_task) /\ i + 1 # 1 /\ tq_task'[i] = tq_task[i + 1]
  BY <1>1
<1>5. \A i \in 1 .. Len(tq_task) : tq_task[i] \in Tasks /\ (i # 1 => tq_task[i] # h) /\ 1 \in 1 .. Len(tq_task)
  BY <1>1 DEF QueueInv, TypeOK
<1>6. \A i \in 1 .. Len(tq_task') : status'[tq_task'[i]] = "queued"
  BY <1>2, <1>4, <1>5, TopStat DEF QueueInv
<1>7. ASSUME NEW i \in 1 .. Len(tq_task'), NEW j \in 1 .. Len(tq_task'), tq_task'[i] = tq_task'[j] PROVE i = j
  <2>1. i + 1 = j + 1
    BY <1>4, <1>7 DEF QueueInv
  <2> QED BY <2>1
<1>8. ASSUME NEW u \in Tasks, status'[u] = "queued" PROVE \E i \in 1 .. Len(tq_task') : tq_task'[i] = u
  <2>1. u # h /\ status[u] = "queued"
    BY <1>2, <1>8, TopStat
  <2>2. PICK i \in 1 .. Len(tq_task) : tq_task[i] = u
    BY <2>1 DEF QueueInv
  <2>3. i - 1 \in 1 .. Len(tq_task') /\ (i - 1) + 1 = i
    BY <1>1, <2>1, <2>2
  <2>4. tq_task'[i - 1] = u
    BY <1>4, <2>2, <2>3
  <2> QED BY <2>3, <2>4
<1> QED BY <1>1, <1>3, <1>6, <1>7, <1>8 DEF QueueInv

LEMMA KeepQueue ==
  ASSUME TaskqInv, NEW w, NEW active, NEW stat, AtTop(w, active, stat),
         tq_task' = tq_task, status' = stat
  PROVE  QueueInv' /\ tq_task' \in Seq(Tasks) /\ status' \in [Tasks -> Statuses]
<1>1. \A i \in 1 .. Len(tq_task) : tq_task[i] \in Tasks
  BY DEF TaskqInv, TypeOK
<1>2. QueueInv'
  BY <1>1, TopStat DEF TaskqInv, QueueInv
<1> QED BY <1>2, TopStat DEF TaskqInv, TypeOK

\* The allocations go on.
LEMMA TopAlloc ==
  ASSUME TaskqInv, alloc' = alloc,
         \A u \in Tasks : status'[u] = "allocating" <=> status[u] = "allocating"
  PROVE  AllocInv'
<1>1. \A d \in Threads : alloc[d] \in Tasks \cup {NoTask}
  BY DEF TaskqInv, TypeOK
<1> QED BY <1>1 DEF TaskqInv, AllocInv

\* tq_active and tq_nthreads count, whichever way w leaves the top of the loop.
LEMMA TopCount ==
  ASSUME TaskqInv, NEW w, NEW active, NEW stat, AtTop(w, active, stat), NEW st, NEW t,
         worker' = [worker EXCEPT ![w] = Busy(st, t)],
         tq_active' = (IF st = "wait" THEN active - 1 ELSE active),
         tq_nthreads' = (IF st = "exited" THEN tq_nthreads - 1 ELSE tq_nthreads)
  PROVE  /\ tq_active' = Cardinality(ActiveSet') /\ tq_active' \in 0 .. Cardinality(Workers)
         /\ tq_nthreads' = Cardinality(LiveSet') /\ tq_nthreads' \in 0 .. Cardinality(Workers)
<1>1. /\ w \in Workers /\ worker'[w].st = st
      /\ \A v \in Workers : v # w => worker'[v] = worker[v]
      /\ worker[w].st # "exited" /\ active = Cardinality(ActiveSet \cup {w})
      /\ tq_nthreads = Cardinality(LiveSet)
  BY DEF AtTop, TaskqInv, TypeOK, Busy, CountInv
<1>2. ActiveSet' \in SUBSET Workers /\ LiveSet' \in SUBSET Workers
  BY DEF ActiveSet, LiveSet
<1>3. Cardinality(ActiveSet') \in 0 .. Cardinality(Workers) /\ Cardinality(LiveSet') \in 0 .. Cardinality(Workers)
  BY <1>2, Finite
<1>4. IsFiniteSet(ActiveSet \cup {w}) /\ IsFiniteSet(LiveSet)
  <2>1. ActiveSet \cup {w} \in SUBSET Workers /\ LiveSet \in SUBSET Workers
    BY <1>1 DEF ActiveSet, LiveSet
  <2> QED BY <2>1, Finite
<1>5. tq_active' = Cardinality(ActiveSet')
  <2>1. CASE st = "wait"
    <3>1. ActiveSet' = (ActiveSet \cup {w}) \ {w}
      BY <1>1, <2>1 DEF ActiveSet
    <3>2. Cardinality(ActiveSet') = Cardinality(ActiveSet \cup {w}) - 1
      BY <1>4, <3>1, OneLess
    <3> QED BY <1>1, <2>1, <3>2
  <2>2. CASE st # "wait"
    <3>1. ActiveSet' = ActiveSet \cup {w}
      BY <1>1, <2>2 DEF ActiveSet
    <3> QED BY <1>1, <2>2, <3>1
  <2> QED BY <2>1, <2>2
<1>6. tq_nthreads' = Cardinality(LiveSet')
  <2>1. CASE st = "exited"
    <3>1. LiveSet' = LiveSet \ {w} /\ w \in LiveSet
      BY <1>1, <2>1 DEF LiveSet
    <3>2. Cardinality(LiveSet') = Cardinality(LiveSet) - 1
      BY <1>4, <3>1, OneLess
    <3> QED BY <1>1, <2>1, <3>2
  <2>2. CASE st # "exited"
    <3>1. LiveSet' = LiveSet
      BY <1>1, <2>2 DEF LiveSet
    <3> QED BY <1>1, <2>2, <3>1
  <2> QED BY <2>1, <2>2
<1> QED BY <1>3, <1>5, <1>6

\* A worker that still has a step to take leaves the caller of taskq_destroy
\* where it was: it takes a task only while the queue is not being destroyed.
LEMMA TopDestroy ==
  ASSUME TaskqInv, NEW w \in Workers, worker[w].st # "exited", NEW st, NEW t,
         worker' = [worker EXCEPT ![w] = Busy(st, t)], alloc' = alloc, call' = call,
         \/ tq_task' = tq_task /\ st \in {"wait", "exited"}
         \/ tq_task # <<>> \/ worker[w].st \in {"loop", "run"}
  PROVE  DestroyInv'
<1>1. worker'[w].st = st /\ \A v \in Workers : v # w => worker'[v] = worker[v]
  BY DEF TaskqInv, TypeOK, Busy
<1>2. \A c \in Clients : call[c] \notin {"free", "destroyed"}
  BY DEF TaskqInv, DestroyInv
<1>3. CASE tq_task' = tq_task /\ st \in {"wait", "exited"}
  BY <1>1, <1>2, <1>3 DEF TaskqInv, DestroyInv
<1>4. CASE tq_task # <<>> \/ worker[w].st \in {"loop", "run"}
  <2>1. \A c \in Clients : call[c] \notin {"stop", "join", "free", "destroyed"}
    BY <1>4 DEF TaskqInv, DestroyInv
  <2> QED BY <2>1 DEF TaskqInv, DestroyInv
<1> QED BY <1>3, <1>4

\* The rest of a section from the top of the loop keeps the invariant, if the
\* entries are counted by then.
LEMMA TopInv ==
  ASSUME TaskqInv, NEW w, NEW active, NEW stat, AtTop(w, active, stat),
         WorkerTop(w, active, stat), UNCHANGED <<tq_flags, tq_minalloc, alloc, call>>,
         tq_nalloc' \in Nat, tq_freelist' \in Nat,
         NEW S, S = {u \in Tasks \ Prealloc : stat[u] \in {"queued", "running"}},
         IsFiniteSet(S), tq_nalloc' = tq_freelist' + Cardinality(S)
  PROVE  TaskqInv'
<1>0. /\ w \in Workers /\ worker[w].st # "exited" /\ asleep \in [Threads -> {"no", "dispatch", "wait"}]
      /\ worker \in [Workers -> [st : {"loop", "wait", "run", "exited"}, task : Tasks \cup {NoTask}]]
  BY DEF AtTop, TaskqInv, TypeOK
<1>1. CASE /\ tq_flags = "active" /\ tq_task = <<>>
           /\ tq_active' = active - 1
           /\ worker' = [worker EXCEPT ![w] = Busy("wait", NoTask)]
           /\ asleep' = [FellIdle(active) EXCEPT ![w] = "dispatch"]
           /\ status' = stat
           /\ UNCHANGED <<tq_task, tq_nthreads>>
  <2>1. QueueInv' /\ tq_task' \in Seq(Tasks) /\ status' \in [Tasks -> Statuses]
    BY <1>1, KeepQueue
  <2>2. RunInv'
    BY <1>1, LeaveRun
  <2>3. AllocInv'
    BY <1>1, TopStat, TopAlloc
  <2>4. /\ tq_active' = Cardinality(ActiveSet') /\ tq_active' \in 0 .. Cardinality(Workers)
        /\ tq_nthreads' = Cardinality(LiveSet') /\ tq_nthreads' \in 0 .. Cardinality(Workers)
    BY <1>1, TopCount
  <2>5. InUse' = S
    BY <1>1 DEF InUse, Pending
  <2>6. CountInv'
    BY <2>4, <2>5 DEF CountInv
  <2>7. DestroyInv'
    BY <1>0, <1>1, TopDestroy
  <2>8. FellIdle(active) \in [Threads -> {"no", "dispatch", "wait"}]
    BY <1>0, BroadcastType DEF FellIdle, TaskqInv
  <2>9. asleep' \in [Threads -> {"no", "dispatch", "wait"}]
    BY <1>1, <2>8
  <2>10. worker' \in [Workers -> [st : {"loop", "wait", "run", "exited"}, task : Tasks \cup {NoTask}]]
    BY <1>0, <1>1 DEF Busy
  <2>11. TypeOK'
    BY <2>1, <2>4, <2>9, <2>10 DEF TaskqInv, TypeOK
  <2> QED BY <2>1, <2>2, <2>3, <2>6, <2>7, <2>11 DEF TaskqInv
<1>2. CASE /\ tq_flags = "active" /\ tq_task # <<>>
           /\ tq_task' = Tail(tq_task)
           /\ tq_active' = active
           /\ worker' = [worker EXCEPT ![w] = Busy("run", Head(tq_task))]
           /\ status' = [stat EXCEPT ![Head(tq_task)] = "running"]
           /\ UNCHANGED <<tq_nthreads, asleep>>
  <2> DEFINE h == Head(tq_task)
  <2>1. QueueInv' /\ tq_task' \in Seq(Tasks) /\ status' \in [Tasks -> Statuses]
    BY <1>2, TakeQueue
  <2>2. RunInv'
    BY <1>2, TakeRun
  <2>3. h \in Tasks /\ h = tq_task[1] /\ 1 \in 1 .. Len(tq_task)
    BY <1>2, AfterHead DEF TaskqInv, TypeOK
  <2>4. stat[h] = "queued" /\ status'[h] = "running" /\ \A u \in Tasks : u # h => status'[u] = stat[u]
    BY <1>2, <2>3, TopStat DEF TaskqInv, QueueInv
  <2>5. AllocInv'
    <3>1. \A u \in Tasks : status'[u] = "allocating" <=> status[u] = "allocating"
      BY <2>4, TopStat
    <3> QED BY <3>1, TopAlloc
  <2>6. /\ tq_active' = Cardinality(ActiveSet') /\ tq_active' \in 0 .. Cardinality(Workers)
        /\ tq_nthreads' = Cardinality(LiveSet') /\ tq_nthreads' \in 0 .. Cardinality(Workers)
    BY <1>2, TopCount
  <2>7. InUse' = S
    BY <2>3, <2>4 DEF InUse, Pending
  <2>8. CountInv'
    BY <2>6, <2>7 DEF CountInv
  <2>9. DestroyInv'
    BY <1>0, <1>2, TopDestroy
  <2>10. worker' \in [Workers -> [st : {"loop", "wait", "run", "exited"}, task : Tasks \cup {NoTask}]]
    BY <1>0, <1>2, <2>3 DEF Busy
  <2>11. TypeOK'
    BY <1>2, <2>1, <2>6, <2>10 DEF TaskqInv, TypeOK
  <2> QED BY <2>1, <2>2, <2>5, <2>8, <2>9, <2>11 DEF TaskqInv
<1>3. CASE /\ tq_flags = "stopping"
           /\ tq_nthreads' = tq_nthreads - 1
           /\ tq_active' = active
           /\ worker' = [worker EXCEPT ![w] = Busy("exited", NoTask)]
           /\ asleep' = Broadcast("wait")
           /\ status' = stat
           /\ UNCHANGED tq_task
  <2>1. QueueInv' /\ tq_task' \in Seq(Tasks) /\ status' \in [Tasks -> Statuses]
    BY <1>3, KeepQueue
  <2>2. RunInv'
    BY <1>3, LeaveRun
  <2>3. AllocInv'
    BY <1>3, TopStat, TopAlloc
  <2>4. /\ tq_active' = Cardinality(ActiveSet') /\ tq_active' \in 0 .. Cardinality(Workers)
        /\ tq_nthreads' = Cardinality(LiveSet') /\ tq_nthreads' \in 0 .. Cardinality(Workers)
    BY <1>3, TopCount
  <2>5. InUse' = S
    BY <1>3 DEF InUse, Pending
  <2>6. CountInv'
    BY <2>4, <2>5 DEF CountInv
  <2>7. DestroyInv'
    BY <1>0, <1>3, TopDestroy
  <2>8. asleep' \in [Threads -> {"no", "dispatch", "wait"}]
    BY <1>3, BroadcastType DEF TaskqInv
  <2>9. worker' \in [Workers -> [st : {"loop", "wait", "run", "exited"}, task : Tasks \cup {NoTask}]]
    BY <1>0, <1>3 DEF Busy
  <2>10. TypeOK'
    BY <2>1, <2>4, <2>8, <2>9 DEF TaskqInv, TypeOK
  <2> QED BY <2>1, <2>2, <2>3, <2>6, <2>7, <2>10 DEF TaskqInv
<1> QED BY <1>1, <1>2, <1>3 DEF WorkerTop

LEMMA WorkerLoopInv ==
  ASSUME TaskqInv, NEW w \in Workers, WorkerLoop(w)
  PROVE  TaskqInv'
<1>1. worker[w].st = "loop" /\ alloc[w] = NoTask /\ WorkerTop(w, tq_active, status)
  BY DEF WorkerLoop, TaskqInv, RunInv
<1>2. ActiveSet = ActiveSet \cup {w}
  BY <1>1 DEF ActiveSet
<1>3. AtTop(w, tq_active, status)
  BY <1>1, <1>2 DEF AtTop, TaskqInv, CountInv
<1>4. InUse = {u \in Tasks \ Prealloc : status[u] \in {"queued", "running"}}
  BY DEF InUse, Pending
<1>5. /\ UNCHANGED <<tq_flags, tq_minalloc, alloc, call>> /\ tq_nalloc' \in Nat /\ tq_freelist' \in Nat
      /\ IsFiniteSet(InUse) /\ tq_nalloc' = tq_freelist' + Cardinality(InUse)
  BY DEF WorkerLoop, allocVars, TaskqInv, TypeOK, CountInv
<1> QED BY <1>1, <1>3, <1>4, <1>5, TopInv

LEMMA WorkerWakeInv ==
  ASSUME TaskqInv, NEW w \in Workers, WorkerWake(w)
  PROVE  TaskqInv'
<1>1. worker[w].st = "wait" /\ alloc[w] = NoTask /\ WorkerTop(w, tq_active + 1, status)
  BY DEF WorkerWake, TaskqInv, RunInv
<1>2. w \notin ActiveSet /\ ActiveSet \in SUBSET Workers
  BY <1>1 DEF ActiveSet
<1>3. tq_active + 1 = Cardinality(ActiveSet \cup {w})
  BY <1>2, Finite, OneMore DEF TaskqInv, CountInv
<1>4. AtTop(w, tq_active + 1, status)
  BY <1>1, <1>3 DEF AtTop
<1>5. InUse = {u \in Tasks \ Prealloc : status[u] \in {"queued", "running"}}
  BY DEF InUse, Pending
<1>6. /\ UNCHANGED <<tq_flags, tq_minalloc, alloc, call>> /\ tq_nalloc' \in Nat /\ tq_freelist' \in Nat
      /\ IsFiniteSet(InUse) /\ tq_nalloc' = tq_freelist' + Cardinality(InUse)
  BY DEF WorkerWake, allocVars, TaskqInv, TypeOK, CountInv
<1> QED BY <1>1, <1>4, <1>5, <1>6, TopInv

\* The entry of the task goes to the free list or to free, so it is still counted,
\* or counted no more.
LEMMA WorkerDoneInv ==
  ASSUME TaskqInv, NEW w \in Workers, WorkerDone(w)
  PROVE  TaskqInv'
<1> DEFINE t == worker[w].task
           done == [status EXCEPT ![t] = "done"]
           S == {u \in Tasks \ Prealloc : done[u] \in {"queued", "running"}}
<1>1. /\ worker[w].st = "run" /\ alloc[w] = NoTask /\ t \in Tasks /\ status[t] = "running"
      /\ UNCHANGED <<tq_flags, tq_minalloc, alloc, call>>
      /\ status \in [Tasks -> Statuses]
  BY DEF WorkerDone, TaskqInv, RunInv, TypeOK
<1>2. ActiveSet = ActiveSet \cup {w}
  BY <1>1 DEF ActiveSet
<1>3. AtTop(w, tq_active, done)
  BY <1>1, <1>2 DEF AtTop, TaskqInv, CountInv
<1>4. done[t] = "done" /\ \A u \in Tasks : u # t => done[u] = status[u]
  BY <1>1
<1>5. t \in Prealloc => S = InUse
  BY <1>1, <1>4 DEF InUse, Pending
<1>6. t \notin Prealloc => S = InUse \ {t} /\ t \in InUse
  BY <1>1, <1>4 DEF InUse, Pending
<1>7. IsFiniteSet(InUse) /\ tq_nalloc = tq_freelist + Cardinality(InUse) /\ tq_nalloc \in Nat /\ tq_freelist \in Nat
  BY DEF TaskqInv, CountInv, TypeOK
<1>8. t \notin Prealloc => /\ IsFiniteSet(S) /\ Cardinality(S) = Cardinality(InUse) - 1
                           /\ Cardinality(InUse) \in Nat \ {0}
  <2>1. \A u \in InUse : /\ IsFiniteSet(InUse \ {u}) /\ Cardinality(InUse \ {u}) = Cardinality(InUse) - 1
                         /\ Cardinality(InUse) \in Nat \ {0}
    BY <1>7, OneLess
  <2> HIDE DEF S
  <2> QED BY <1>6, <2>1
<1>9. ASSUME WorkerTop(w, tq_active, done), tq_nalloc' \in Nat, tq_freelist' \in Nat,
              IsFiniteSet(S), tq_nalloc' = tq_freelist' + Cardinality(S)
       PROVE  TaskqInv'
  <2>1. S = {u \in Tasks \ Prealloc : done[u] \in {"queued", "running"}}
    OBVIOUS
  <2> HIDE DEF S, done
  <2> QED BY <1>1, <1>3, <1>9, <2>1, TopInv
<1>10. CASE t \in Prealloc /\ WorkerTop(w, tq_active, done) /\ UNCHANGED <<tq_nalloc, tq_freelist>>
  <2>1. IsFiniteSet(S) /\ tq_nalloc' = tq_freelist' + Cardinality(S) /\ tq_nalloc' \in Nat /\ tq_freelist' \in Nat
    BY <1>5, <1>7, <1>10
  <2> QED BY <1>10, <1>9, <2>1
<1>11. CASE t \notin Prealloc /\ tq_freelist' = tq_freelist + 1 /\ WorkerTop(w, tq_active, done) /\ UNCHANGED tq_nalloc
  <2>1. IsFiniteSet(S) /\ tq_nalloc' = tq_freelist' + Cardinality(S) /\ tq_nalloc' \in Nat /\ tq_freelist' \in Nat
    <3> HIDE DEF S
    <3> QED BY <1>7, <1>8, <1>11
  <2> QED BY <1>11, <1>9, <2>1
<1>12. CASE /\ t \notin Prealloc /\ tq_nalloc' = Freed
            /\ worker' = [worker EXCEPT ![w] = Busy("loop", NoTask)]
            /\ status' = done
            /\ UNCHANGED <<tq_task, tq_active, tq_nthreads, tq_freelist, asleep>>
  <2>1. InUse' = S
    BY <1>12 DEF InUse, Pending
  <2>2. IsFiniteSet(S) /\ tq_nalloc' = tq_freelist' + Cardinality(S) /\ tq_nalloc' \in Nat
    <3> HIDE DEF S
    <3> QED BY <1>7, <1>8, <1>12 DEF Freed
  <2>3. QueueInv' /\ tq_task' \in Seq(Tasks) /\ status' \in [Tasks -> Statuses]
    BY <1>3, <1>12, KeepQueue
  <2>4. RunInv'
    BY <1>1, <1>3, <1>12, LeaveRun
  <2>5. AllocInv'
    BY <1>1, <1>3, <1>12, TopStat, TopAlloc
  <2>6. /\ tq_active' = Cardinality(ActiveSet') /\ tq_nthreads' = Cardinality(LiveSet')
    BY <1>3, <1>12, TopCount
  <2>7. CountInv'
    BY <2>1, <2>2, <2>6 DEF CountInv
  <2>8. DestroyInv'
    BY <1>1, <1>12, TopDestroy
  <2>9. worker' \in [Workers -> [st : {"loop", "wait", "run", "exited"}, task : Tasks \cup {NoTask}]]
    BY <1>12 DEF Busy, TaskqInv, TypeOK
  <2>10. TypeOK'
    BY <1>1, <1>12, <2>2, <2>3, <2>9 DEF TaskqInv, TypeOK
  <2> QED BY <2>3, <2>4, <2>5, <2>7, <2>8, <2>10 DEF TaskqInv
<1> QED BY <1>10, <1>11, <1>12 DEF WorkerDone

-----------------------------------------------------------------------------
(* Clients.                                                                *)

\* A quiet queue has only waiting workers, and nothing is queued, running or on
\* its way from a task into the queue.
LEMMA QuietIdle ==
  ASSUME TaskqInv, Quiet
  PROVE  /\ \A w \in Workers : worker[w].st = "wait" /\ alloc[w] = NoTask
         /\ \A t \in Tasks : ~ Pending(t)
<1>1. ActiveSet \in SUBSET Workers /\ Cardinality(ActiveSet) = 0
  BY DEF ActiveSet, Quiet, TaskqInv, CountInv
<1>2. ActiveSet = {}
  BY <1>1, Finite, FS_EmptySet
<1>3. \A w \in Workers : worker[w].st = "wait"
  BY <1>2 DEF ActiveSet
<1>4. \A w \in Workers : alloc[w] = NoTask /\ worker[w].st # "run"
  BY <1>3 DEF TaskqInv, RunInv
<1>5. \A w \in Workers, t \in Tasks : worker[w] # Busy("run", t)
  BY <1>4 DEF Busy
<1>6. \A t \in Tasks : status[t] # "running"
  BY <1>5 DEF TaskqInv, RunInv
<1>7. 1 .. Len(tq_task) = {}
  BY DEF Quiet
<1>8. \A t \in Tasks : status[t] # "queued"
  BY <1>7 DEF TaskqInv, QueueInv
<1> QED BY <1>3, <1>4, <1>6, <1>8 DEF Pending

\* What a step of a client that leaves the queue alone has to show.
LEMMA ClientInv ==
  ASSUME TaskqInv, UNCHANGED <<tq_task, tq_active, tq_nthreads, tq_nalloc, tq_freelist, status, worker, alloc>>,
         tq_flags' \in {"active", "stopping"}, tq_minalloc' \in 0 .. MinAlloc,
         call' \in [Clients -> {"none", "wait", "drain", "stop", "join", "free", "destroyed"}],
         asleep' \in [Threads -> {"no", "dispatch", "wait"}], DestroyInv'
  PROVE  TaskqInv'
<1>1. TypeOK'
  BY DEF TaskqInv, TypeOK
<1>2. QueueInv' /\ RunInv' /\ AllocInv'
  BY DEF TaskqInv, QueueInv, RunInv, AllocInv
<1>3. ActiveSet' = ActiveSet /\ LiveSet' = LiveSet /\ InUse' = InUse
  BY DEF ActiveSet, LiveSet, InUse, Pending
<1>4. CountInv'
  BY <1>3 DEF TaskqInv, CountInv
<1> QED BY <1>1, <1>2, <1>4 DEF TaskqInv

\* The loop of taskq_wait, called as such or by taskq_destroy.
LEMMA WaitLoopInv ==
  ASSUME TaskqInv, NEW c \in Clients, NEW waiting, NEW after, WaitLoop(c, waiting, after),
         \/ waiting = "wait" /\ after = "none" /\ \A d \in Clients : call[d] \in {"none", "wait"}
         \/ /\ waiting = "drain" /\ after = "stop"
            /\ \A d \in Clients : alloc[d] = NoTask /\ (d # c => call[d] = "none")
  PROVE  TaskqInv'
<1>1. /\ UNCHANGED <<tq_task, tq_active, tq_nthreads, tq_nalloc, tq_freelist, status, worker, alloc>>
      /\ UNCHANGED <<tq_flags, tq_minalloc>>
  BY DEF WaitLoop, queueVars, allocVars
<1>2. /\ tq_flags' \in {"active", "stopping"} /\ tq_minalloc' \in 0 .. MinAlloc
      /\ call \in [Clients -> {"none", "wait", "drain", "stop", "join", "free", "destroyed"}]
      /\ asleep \in [Threads -> {"no", "dispatch", "wait"}]
  BY <1>1 DEF TaskqInv, TypeOK
<1>3. asleep' \in [Threads -> {"no", "dispatch", "wait"}]
  BY <1>2 DEF WaitLoop
<1>4. PICK x : call' = [call EXCEPT ![c] = x] /\ x = IF Quiet THEN after ELSE waiting
  BY DEF WaitLoop
<1>5. call' \in [Clients -> {"none", "wait", "drain", "stop", "join", "free", "destroyed"}]
  BY <1>2, <1>4
<1>6. call'[c] = x /\ \A d \in Clients : d # c => call'[d] = call[d]
  BY <1>2, <1>4
<1>7. CASE waiting = "wait" /\ after = "none" /\ \A d \in Clients : call[d] \in {"none", "wait"}
  <2>1. \A d \in Clients : call'[d] \in {"none", "wait"}
    BY <1>4, <1>6, <1>7
  <2>2. DestroyInv'
    BY <2>1 DEF DestroyInv
  <2> QED BY <1>1, <1>2, <1>3, <1>5, <2>2, ClientInv
<1>8. CASE /\ waiting = "drain" /\ after = "stop"
           /\ \A d \in Clients : alloc[d] = NoTask /\ (d # c => call[d] = "none")
  <2>1. x \in {"drain", "stop"} /\ (x = "stop" => Quiet)
    BY <1>4, <1>8
  <2>2. x = "stop" => tq_task = <<>> /\ \A w \in Workers : worker[w].st = "wait"
    BY <2>1, QuietIdle DEF Quiet
  <2>3. DestroyInv'
    BY <1>1, <1>6, <1>8, <2>1, <2>2 DEF DestroyInv
  <2> QED BY <1>1, <1>2, <1>3, <1>5, <2>3, ClientInv
<1> QED BY <1>7, <1>8

LEMMA WaitInv ==
  ASSUME TaskqInv, NEW c \in Clients, taskq_wait(c) \/ WaitWake(c)
  PROVE  TaskqInv'
<1>1. CASE taskq_wait(c)
  BY <1>1, WaitLoopInv DEF taskq_wait
<1>2. CASE WaitWake(c)
  <2>1. call[c] = "wait" /\ WaitLoop(c, "wait", "none")
    BY <1>2 DEF WaitWake
  <2>2. \A d \in Clients : call[d] \in {"none", "wait"}
    BY <2>1 DEF TaskqInv, DestroyInv
  <2> QED BY <2>1, <2>2, WaitLoopInv
<1> QED BY <1>1, <1>2

LEMMA DrainInv ==
  ASSUME TaskqInv, NEW c \in Clients, taskq_destroy(c) \/ DestroyWake(c)
  PROVE  TaskqInv'
<1>1. WaitLoop(c, "drain", "stop")
  BY DEF taskq_destroy, DestroyWake
<1>2. \A d \in Clients : alloc[d] = NoTask /\ (d # c => call[d] = "none")
  BY DEF taskq_destroy, DestroyWake, TaskqInv, DestroyInv
<1> QED BY <1>1, <1>2, WaitLoopInv

LEMMA StopInv ==
  ASSUME TaskqInv, NEW c \in Clients, DestroyStop(c)
  PROVE  TaskqInv'
<1>1. /\ UNCHANGED <<tq_task, tq_active, tq_nthreads, tq_nalloc, tq_freelist, status, worker, alloc>>
      /\ tq_flags' \in {"active", "stopping"} /\ tq_minalloc' \in 0 .. MinAlloc
      /\ call \in [Clients -> {"none", "wait", "drain", "stop", "join", "free", "destroyed"}]
      /\ call[c] = "stop" /\ call' = [call EXCEPT ![c] = "join"]
  BY DEF DestroyStop, allocVars, TaskqInv, TypeOK
<1>2. Told \in [Threads -> {"no", "dispatch", "wait"}]
  BY BroadcastType DEF Told, TaskqInv
<1>3. asleep' \in [Threads -> {"no", "dispatch", "wait"}]
  BY <1>2 DEF DestroyStop
<1>4. call' \in [Clients -> {"none", "wait", "drain", "stop", "join", "free", "destroyed"}]
  BY <1>1
<1>5. call'[c] = "join" /\ \A d \in Clients : d # c => call'[d] = call[d]
  BY <1>1
<1>6. /\ \A d \in Clients : alloc[d] = NoTask /\ (d # c => call[d] = "none")
      /\ tq_task = <<>> /\ \A w \in Workers : worker[w].st \in {"wait", "exited"}
  BY <1>1 DEF TaskqInv, DestroyInv
<1>7. DestroyInv'
  BY <1>1, <1>5, <1>6 DEF DestroyInv
<1> QED BY <1>1, <1>3, <1>4, <1>7, ClientInv

\* tq_nthreads is zero only when every worker has exited.
LEMMA JoinInv ==
  ASSUME TaskqInv, NEW c \in Clients, DestroyJoin(c)
  PROVE  TaskqInv'
<1>1. /\ UNCHANGED <<tq_task, tq_active, tq_nthreads, tq_nalloc, tq_freelist, status, worker, alloc>>
      /\ tq_flags' \in {"active", "stopping"}
      /\ call \in [Clients -> {"none", "wait", "drain", "stop", "join", "free", "destroyed"}]
      /\ asleep \in [Threads -> {"no", "dispatch", "wait"}]
      /\ call[c] = "join" /\ MinAlloc \in Nat /\ tq_minalloc \in 0 .. MinAlloc
  BY TaskqAssumption DEF DestroyJoin, queueVars, TaskqInv, TypeOK
<1>2. /\ \A d \in Clients : alloc[d] = NoTask /\ (d # c => call[d] = "none")
      /\ tq_task = <<>> /\ \A w \in Workers : worker[w].st \in {"wait", "exited"}
  BY <1>1 DEF TaskqInv, DestroyInv
<1>3. CASE Gone
  <2>1. tq_minalloc' = 0 /\ call' = [call EXCEPT ![c] = "free"] /\ asleep' = asleep
    BY <1>3 DEF DestroyJoin
  <2>2. LiveSet \in SUBSET Workers /\ Cardinality(LiveSet) = 0
    BY <1>3 DEF LiveSet, Gone, TaskqInv, CountInv
  <2>3. LiveSet = {}
    BY <2>2, Finite, FS_EmptySet
  <2>4. \A w \in Workers : worker[w].st = "exited"
    BY <2>3 DEF LiveSet
  <2>5. call'[c] = "free" /\ \A d \in Clients : d # c => call'[d] = call[d]
    BY <1>1, <2>1
  <2>6. call' \in [Clients -> {"none", "wait", "drain", "stop", "join", "free", "destroyed"}]
    BY <1>1, <2>1
  <2>7. DestroyInv'
    BY <1>1, <1>2, <2>4, <2>5 DEF DestroyInv
  <2>8. tq_minalloc' \in 0 .. MinAlloc
    BY <1>1, <2>1
  <2> QED BY <1>1, <2>1, <2>6, <2>7, <2>8, ClientInv
<1>4. CASE ~ Gone
  <2>1. asleep' = [asleep EXCEPT ![c] = "wait"] /\ call' = call /\ tq_minalloc' = tq_minalloc
    BY <1>4 DEF DestroyJoin
  <2>2. asleep' \in [Threads -> {"no", "dispatch", "wait"}]
    BY <1>1, <2>1
  <2>3. DestroyInv'
    BY <1>1, <2>1 DEF TaskqInv, DestroyInv
  <2> QED BY <1>1, <2>1, <2>2, <2>3, ClientInv
<1> QED BY <1>3, <1>4

\* Once the workers are gone nothing is pending, and every entry is on the free list.
LEMMA FreeClean ==
  ASSUME TaskqInv, NEW c \in Clients, call[c] \in {"free", "destroyed"}
  PROVE  /\ \A t \in Tasks : ~ Pending(t) /\ status[t] # "allocating"
         /\ \A w \in Workers : worker[w].st = "exited"
         /\ InUse = {} /\ tq_nalloc = tq_freelist
<1>1. /\ \A w \in Workers : worker[w].st = "exited"
      /\ tq_task = <<>> /\ \A d \in Clients : alloc[d] = NoTask
  BY DEF TaskqInv, DestroyInv
<1>2. \A w \in Workers : alloc[w] = NoTask /\ worker[w].st # "run"
  BY <1>1 DEF TaskqInv, RunInv
<1>3. \A w \in Workers, t \in Tasks : worker[w] # Busy("run", t)
  BY <1>2 DEF Busy
<1>4. \A t \in Tasks : status[t] # "running"
  BY <1>3 DEF TaskqInv, RunInv
<1>5. 1 .. Len(tq_task) = {}
  BY <1>1
<1>6. \A t \in Tasks : status[t] # "queued"
  BY <1>5 DEF TaskqInv, QueueInv
<1>7. \A d \in Threads : alloc[d] = NoTask
  BY <1>1, <1>2 DEF Threads
<1>8. \A t \in Tasks : status[t] # "allocating"
  BY <1>7, TaskqAssumption DEF TaskqInv, AllocInv
<1>9. InUse = {}
  BY <1>4, <1>6 DEF InUse, Pending
<1>10. Cardinality(InUse) = 0
  BY <1>9, FS_EmptySet
<1>11. tq_nalloc = tq_freelist
  BY <1>10 DEF TaskqInv, CountInv, TypeOK
<1> QED BY <1>1, <1>4, <1>6, <1>8, <1>9, <1>11 DEF Pending

LEMMA FreeInv ==
  ASSUME TaskqInv, NEW c \in Clients, DestroyFree(c)
  PROVE  TaskqInv'
<1>1. /\ UNCHANGED <<tq_task, tq_flags, tq_active, tq_nthreads, tq_minalloc, status, worker, alloc, asleep>>
      /\ call \in [Clients -> {"none", "wait", "drain", "stop", "join", "free", "destroyed"}]
      /\ call[c] = "free" /\ tq_nalloc \in Nat
  BY DEF DestroyFree, queueVars, TaskqInv, TypeOK
<1>2. InUse = {} /\ tq_nalloc = tq_freelist
  BY <1>1, FreeClean
<1>3. CASE tq_nalloc # 0
  <2>1. tq_freelist' = tq_freelist - 1 /\ tq_nalloc' = tq_nalloc - 1 /\ call' = call
    BY <1>3 DEF DestroyFree
  <2>2. tq_nalloc' \in Nat /\ tq_freelist' = tq_nalloc'
    <3>1. \A n \in Nat : n # 0 => n - 1 \in Nat
      OBVIOUS
    <3> QED BY <1>1, <1>2, <1>3, <2>1, <3>1
  <2>3. TypeOK'
    BY <1>1, <2>1, <2>2 DEF TaskqInv, TypeOK
  <2>4. QueueInv' /\ RunInv' /\ AllocInv'
    BY <1>1 DEF TaskqInv, QueueInv, RunInv, AllocInv
  <2>5. ActiveSet' = ActiveSet /\ LiveSet' = LiveSet /\ InUse' = InUse
    BY <1>1 DEF ActiveSet, LiveSet, InUse, Pending
  <2>6. Cardinality(InUse) = 0
    BY <1>2, FS_EmptySet
  <2>7. tq_nalloc' = tq_freelist' + Cardinality(InUse')
    <3>1. Cardinality(InUse') = 0
      BY <2>5, <2>6
    <3>2. \A n \in Nat : n = n + 0
      OBVIOUS
    <3> QED BY <2>2, <3>1, <3>2
  <2>8. CountInv'
    BY <1>1, <2>5, <2>7 DEF TaskqInv, CountInv
  <2>9. \A d \in Clients : call[d] # "destroyed"
    BY <1>1 DEF TaskqInv, DestroyInv
  <2>10. DestroyInv'
    BY <1>1, <2>1, <2>9 DEF TaskqInv, DestroyInv
  <2> QED BY <2>3, <2>4, <2>8, <2>10 DEF TaskqInv
<1>4. CASE tq_nalloc = 0
  <2>1. call' = [call EXCEPT ![c] = "destroyed"] /\ UNCHANGED <<tq_freelist, tq_nalloc>>
    BY <1>4 DEF DestroyFree
  <2>2. call'[c] = "destroyed" /\ \A d \in Clients : d # c => call'[d] = call[d]
    BY <1>1, <2>1
  <2>3. call' \in [Clients -> {"none", "wait", "drain", "stop", "join", "free", "destroyed"}]
    BY <1>1, <2>1
  <2>4. /\ \A d \in Clients : alloc[d] = NoTask /\ (d # c => call[d] = "none")
        /\ tq_task = <<>> /\ \A w \in Workers : worker[w].st = "exited"
    BY <1>1 DEF TaskqInv, DestroyInv
  <2>5. DestroyInv'
    BY <1>1, <1>2, <1>4, <2>1, <2>2, <2>4 DEF DestroyInv
  <2>6. tq_flags' \in {"active", "stopping"} /\ tq_minalloc' \in 0 .. MinAlloc
        /\ asleep' \in [Threads -> {"no", "dispatch", "wait"}]
    BY <1>1 DEF TaskqInv, TypeOK
  <2> QED BY <1>1, <2>1, <2>3, <2>5, <2>6, ClientInv
<1> QED BY <1>3, <1>4

LEMMA SpuriousInv ==
  ASSUME TaskqInv, NEW d \in Threads, SpuriousWake(d)
  PROVE  TaskqInv'
<1>1. /\ UNCHANGED <<tq_task, tq_active, tq_nthreads, tq_nalloc, tq_freelist, status, worker, alloc>>
      /\ UNCHANGED <<tq_flags, tq_minalloc, call>>
  BY DEF SpuriousWake, queueVars, allocVars
<1>2. /\ tq_flags' \in {"active", "stopping"} /\ tq_minalloc' \in 0 .. MinAlloc
      /\ call' \in [Clients -> {"none", "wait", "drain", "stop", "join", "free", "destroyed"}]
  BY <1>1 DEF TaskqInv, TypeOK
<1>3. asleep' \in [Threads -> {"no", "dispatch", "wait"}]
  BY DEF SpuriousWake, TaskqInv, TypeOK
<1>4. DestroyInv'
  BY <1>1 DEF TaskqInv, DestroyInv
<1> QED BY <1>1, <1>2, <1>3, <1>4, ClientInv

-----------------------------------------------------------------------------
(* The theorems.                                                           *)

LEMMA InitInv ==
  ASSUME Init PROVE TaskqInv
<1>1. \A w \in Workers : worker[w] = Busy("loop", NoTask) /\ worker[w].st = "loop" /\ worker[w].task = NoTask
  BY DEF Init, Busy
<1>2. ActiveSet = Workers /\ LiveSet = Workers
  BY <1>1 DEF ActiveSet, LiveSet
<1>3. InUse = {}
  BY DEF InUse, Pending, Init
<1>4. IsFiniteSet(InUse) /\ Cardinality(InUse) = 0
  BY <1>3, FS_EmptySet
<1>5. Cardinality(Workers) \in Nat
  BY TaskqAssumption, FS_CardinalityType
<1>6. tq_nalloc \in Nat /\ tq_freelist = tq_nalloc
  BY TaskqAssumption DEF Init
<1>7. CountInv
  BY <1>2, <1>4, <1>6 DEF CountInv, Init
<1>8. TypeOK
  <2>1. worker \in [Workers -> [st : {"loop", "wait", "run", "exited"}, task : Tasks \cup {NoTask}]]
    BY DEF Init, Busy
  <2>2. tq_active \in 0 .. Cardinality(Workers) /\ tq_nthreads \in 0 .. Cardinality(Workers) /\ tq_minalloc \in 0 .. MinAlloc
    BY <1>5, TaskqAssumption DEF Init
  <2>3. tq_task \in Seq(Tasks)
    BY DEF Init
  <2>4. status \in [Tasks -> Statuses] /\ alloc \in [Threads -> Tasks \cup {NoTask}]
    BY DEF Init, Statuses
  <2> QED BY <1>6, <2>1, <2>2, <2>3, <2>4 DEF TypeOK, Init
<1>9. QueueInv
  <2>1. 1 .. Len(tq_task) = {}
    BY DEF Init
  <2> QED BY <2>1 DEF QueueInv, Init
<1>10. RunInv
  <2>1. \A w \in Workers : alloc[w] = NoTask
    BY DEF Init, Threads
  <2> QED BY <1>1, <2>1 DEF RunInv, Init
<1>11. AllocInv
  BY DEF AllocInv, Init
<1>12. DestroyInv
  BY DEF DestroyInv, Init
<1> QED BY <1>7, <1>8, <1>9, <1>10, <1>11, <1>12 DEF TaskqInv

LEMMA StutterInv ==
  ASSUME TaskqInv, UNCHANGED vars PROVE TaskqInv'
  BY DEF vars, queueVars, allocVars, TaskqInv, TypeOK, QueueInv, RunInv, AllocInv, CountInv,
         ActiveSet, LiveSet, InUse, Pending, DestroyInv

LEMMA StepInv ==
  ASSUME TaskqInv, [Next]_vars PROVE TaskqInv'
<1>1. ASSUME NEW d \in Threads, NEW t \in Tasks, taskq_dispatch(d, t) \/ taskq_dispatch_ent(d, t)
      PROVE  TaskqInv'
  BY <1>1, DispatchInv, DispatchEntInv
<1>2. ASSUME NEW d \in Threads, Allocated(d) \/ SpuriousWake(d) PROVE TaskqInv'
  BY <1>2, AllocatedInv, SpuriousInv
<1>3. ASSUME NEW w \in Workers, WorkerStep(w) PROVE TaskqInv'
  BY <1>3, WorkerLoopInv, WorkerWakeInv, WorkerDoneInv DEF WorkerStep
<1>4. ASSUME NEW c \in Clients, taskq_wait(c) \/ WaitWake(c) \/ taskq_destroy(c) \/ DestroyStep(c)
      PROVE  TaskqInv'
  BY <1>4, WaitInv, DrainInv, StopInv, JoinInv, FreeInv DEF DestroyStep
<1>5. CASE Destroyed \/ UNCHANGED vars
  BY <1>5, StutterInv DEF Destroyed
<1> QED BY <1>1, <1>2, <1>3, <1>4, <1>5 DEF Next

\* The invariant of the task queue: the queue, the workers and the allocations
\* agree with the status of every task, and the counters of taskq_t count them.
THEOREM Invariance == Spec => []TaskqInv
<1>1. Init => TaskqInv
  BY InitInv
<1>2. TaskqInv /\ [Next]_vars => TaskqInv'
  BY StepInv
<1> QED BY <1>1, <1>2, PTL DEF Spec

\* taskq_destroy leaves no task, no worker and no entry behind.
THEOREM DestroyIsClean == Spec => []DestroyedIsClean
<1>1. TaskqInv => DestroyedIsClean
  <2> SUFFICES ASSUME TaskqInv PROVE DestroyedIsClean
    OBVIOUS
  <2>1. tq_nalloc = tq_freelist + Cardinality({t \in Tasks \ Prealloc : Pending(t)})
    BY DEF TaskqInv, CountInv, InUse
  <2>2. ASSUME NEW c \in Clients, call[c] \in {"free", "destroyed"}
        PROVE  /\ \A t \in Tasks : ~ Pending(t) /\ status[t] # "allocating"
               /\ \A w \in Workers : worker[w].st = "exited"
    BY <2>2, FreeClean
  <2>3. ASSUME NEW c \in Clients, call[c] = "destroyed" PROVE tq_freelist = 0
    BY <2>3 DEF TaskqInv, DestroyInv
  <2> QED BY <2>1, <2>2, <2>3 DEF DestroyedIsClean
<1> QED BY <1>1, Invariance, PTL

\* A step that ends a wait, or lets taskq_destroy go on, finds the queue idle.
LEMMA WaitStep ==
  ASSUME TaskqInv, Next, NEW c \in Clients, call'[c] # call[c],
         call[c] = "wait" \/ call'[c] = "stop"
  PROVE  Quiet
<1>1. call \in [Clients -> {"none", "wait", "drain", "stop", "join", "free", "destroyed"}]
  BY DEF TaskqInv, TypeOK
<1>2. ASSUME NEW d \in Threads, NEW t \in Tasks, taskq_dispatch(d, t) \/ taskq_dispatch_ent(d, t)
      PROVE  FALSE
  BY <1>2 DEF taskq_dispatch, taskq_dispatch_ent
<1>3. ASSUME NEW d \in Threads, Allocated(d) \/ SpuriousWake(d) PROVE FALSE
  BY <1>3 DEF Allocated, SpuriousWake
<1>4. ASSUME NEW w \in Workers, WorkerStep(w) PROVE FALSE
  BY <1>4 DEF WorkerStep, WorkerLoop, WorkerWake, WorkerDone
<1>5. ASSUME NEW d \in Clients, NEW waiting, NEW after, WaitLoop(d, waiting, after),
             waiting = "wait" \/ (waiting = "drain" /\ call[d] # "wait") PROVE Quiet
  <2> SUFFICES ASSUME ~ Quiet PROVE FALSE
    OBVIOUS
  <2>1. call' = [call EXCEPT ![d] = waiting]
    BY <1>5 DEF WaitLoop
  <2>2. d = c /\ call'[c] = waiting
    BY <1>1, <2>1
  <2> QED BY <1>5, <2>2
<1>6. ASSUME NEW d \in Clients, taskq_wait(d) \/ WaitWake(d) \/ taskq_destroy(d) \/ DestroyWake(d)
      PROVE  Quiet
  BY <1>5, <1>6 DEF taskq_wait, WaitWake, taskq_destroy, DestroyWake
<1>7. ASSUME NEW d \in Clients, DestroyStop(d) \/ DestroyJoin(d) \/ DestroyFree(d) PROVE FALSE
  <2>1. d = c
    BY <1>1, <1>7 DEF DestroyStop, DestroyJoin, DestroyFree
  <2> QED BY <1>1, <1>7, <2>1 DEF DestroyStop, DestroyJoin, DestroyFree
<1>8. CASE Destroyed
  BY <1>8 DEF Destroyed, vars
<1> QED BY <1>2, <1>3, <1>4, <1>6, <1>7, <1>8 DEF Next, DestroyStep

\* taskq_wait returns only when the whole recursion is over: no task is queued
\* or running, and no worker is in the middle of dispatching one.
THEOREM WaitIsDeep == Spec => WaitCoversRecursion
<1>1. TaskqInv /\ [Next]_vars =>
        [\A c \in Clients :
           call'[c] # call[c] /\ (call[c] = "wait" \/ call'[c] = "stop") =>
             /\ \A t \in Tasks : ~ Pending(t)
             /\ \A w \in Workers : alloc[w] = NoTask]_vars
  <2> SUFFICES ASSUME TaskqInv, Next, NEW c \in Clients, call'[c] # call[c],
                      call[c] = "wait" \/ call'[c] = "stop"
               PROVE  /\ \A t \in Tasks : ~ Pending(t)
                      /\ \A w \in Workers : alloc[w] = NoTask
    OBVIOUS
  <2> QED BY WaitStep, QuietIdle
<1> QED BY <1>1, Invariance, PTL DEF Spec, WaitCoversRecursion
=============================================================================
