-------------------------- MODULE TransactionProofs --------------------------
(***************************************************************************)
(* Theorems about what is assigned to a txg.  DslSyncTask, for any callers,*)
(* tasks, readers and names, and any number of power failures: SyncTaskInv *)
(* is an invariant, and from it what a caller is told is so (ReturnsTruth) *)
(* and what is looked up under the configuration lock is whole             *)
(* (LookupsWhole).  DmuTx, for any transactions and dnodes, any limits of  *)
(* dirty data and any number of txgs, restarts and suspensions: a dnode is *)
(* in one txg (DnodeInOneTxg), and dirty data is accounted for.            *)
(***************************************************************************)
EXTENDS DslSyncTask, WellFoundedInduction, TLAPS

\* Time for the provers, in seconds; the second pair is for a slow machine.
USE ZenonT(3), SMTT(30), ZenonT(40), SMTT(120)

-----------------------------------------------------------------------------
(* Numbers, slots and records.                                             *)

\* A set of natural numbers has a least element.
LEMMA Least ==
  ASSUME NEW T \in SUBSET Nat, T # {}
  PROVE  \E x \in T : \A y \in T : x <= y
<1> DEFINE R == {ss \in Nat \X Nat : ss[1] < ss[2]}
<1>1. IsWellFoundedOn(R, Nat)
  BY NatLessThanWellFounded DEF OpToRel
<1>2. \A x, y \in Nat : <<y, x>> \in R <=> y < x
  OBVIOUS
<1> HIDE DEF R
<1>3. PICK x \in T : \A y \in T : ~ (<<y, x>> \in R)
  BY <1>1, WFMin
<1>4. \A y \in T : x \in Nat /\ y \in Nat /\ ~ (y < x)
  BY <1>2, <1>3
<1>5. \A y \in T : x <= y
  BY <1>4
<1> QED BY <1>5

\* A set of natural numbers with a bound has a greatest element: its least bound.
LEMMA Greatest ==
  ASSUME NEW S \in SUBSET Nat, S # {}, NEW n \in Nat, \A s \in S : s <= n
  PROVE  Max(S) \in S /\ \A s \in S : s <= Max(S)
<1> DEFINE U == {b \in Nat : \A s \in S : s <= b}
<1>1. PICK b \in U : \A c \in U : b <= c
  <2>1. n \in U
    OBVIOUS
  <2> QED BY <2>1, Least
<1>2. b \in S
  <2> SUFFICES ASSUME b \notin S PROVE FALSE
    OBVIOUS
  <2>1. \A s \in S : s \in Nat /\ s < b
    OBVIOUS
  <2>2. b - 1 \in Nat
    <3>1. PICK s \in S : TRUE
      OBVIOUS
    <3>2. b \in Nat /\ s \in Nat /\ s < b
      BY <2>1
    <3> QED BY <3>2
  <2>3. b - 1 \in U
    BY <2>1, <2>2
  <2>4. b <= b - 1
    BY <1>1, <2>3
  <2> QED BY <2>2, <2>4
<1>3. \E m \in S : \A s \in S : m >= s
  BY <1>2
<1>4. Max(S) \in S /\ \A s \in S : Max(S) >= s
  BY <1>3 DEF Max
<1> QED BY <1>4

\* The txgs that can be on the lists at one time have different slots.
LEMMA SlotType ==
  ASSUME NEW t \in Nat PROVE Slot(t) \in Slots
  BY DEF Slot, Slots, TXG_SIZE

LEMMA SlotInjective ==
  ASSUME NEW t \in Nat, NEW a \in t .. t + 2, NEW b \in t .. t + 2, Slot(a) = Slot(b)
  PROVE  a = b
  BY DEF Slot, TXG_SIZE

LEMMA Halves ==
  ASSUME NEW m, DOMAIN m = {"names", "datasets"}, NEW X
  PROVE  /\ DOMAIN [m EXCEPT !.datasets = X] = {"names", "datasets"}
         /\ [m EXCEPT !.datasets = X].datasets = X /\ [m EXCEPT !.datasets = X].names = m.names
         /\ DOMAIN [m EXCEPT !.names = X] = {"names", "datasets"}
         /\ [m EXCEPT !.names = X].names = X /\ [m EXCEPT !.names = X].datasets = m.datasets
  OBVIOUS

\* What a syncfunc makes of the datasets and of the names, as a whole.
DatasetHalf(c) ==
  IF Kind[c] = "destroy" THEN {d \in mos.datasets : d.name # Name[c]}
  ELSE mos.datasets \cup {NewDataset(c)}
NameHalf(c) ==
  IF Kind[c] = "destroy" THEN mos.names \ {Name[c]} ELSE mos.names \cup {Name[c]}

\* Its second half does the rest of what its first half has begun.
LEMMA BothHalves ==
  ASSUME DOMAIN mos = {"names", "datasets"}, NEW c \in Callers, mos' = SyncFunc(c, 1),
         UNCHANGED txg, pc' = "syncfunc", current' = <<c>>
  PROVE  /\ DOMAIN mos' = {"names", "datasets"} /\ mos'.datasets \in {mos.datasets, DatasetHalf(c)}
         /\ DOMAIN After' = {"names", "datasets"}
         /\ After'.datasets = DatasetHalf(c) /\ After'.names = NameHalf(c)
<1>1. Kind[c] \in {"snapshot", "create", "destroy"}
  BY SyncTaskAssumption
<1>2. After' = SyncFunc(c, 2)' /\ NewDataset(c)' = NewDataset(c)
  BY DEF After, NewDataset
<1>3. CASE Kind[c] = "snapshot"
  <2>1. mos' = [mos EXCEPT !.datasets = mos.datasets \cup {NewDataset(c)}]
    BY <1>3 DEF SyncFunc, dsl_dataset_snapshot_sync_impl
  <2>2. After' = [mos' EXCEPT !.names = mos'.names \cup {Name[c]}]
    BY <1>2, <1>3 DEF SyncFunc, dsl_dataset_snapshot_sync_impl
  <2>3. /\ DOMAIN mos' = {"names", "datasets"} /\ mos'.names = mos.names
        /\ mos'.datasets = mos.datasets \cup {NewDataset(c)}
    BY <2>1, Halves
  <2> QED BY <1>3, <2>2, <2>3, Halves DEF DatasetHalf, NameHalf
<1>4. CASE Kind[c] = "create"
  <2>1. mos' = [mos EXCEPT !.names = mos.names \cup {Name[c]}]
    BY <1>4 DEF SyncFunc, dsl_dataset_create_sync
  <2>2. After' = [mos' EXCEPT !.datasets = mos'.datasets \cup {NewDataset(c)}]
    BY <1>2, <1>4 DEF SyncFunc, dsl_dataset_create_sync
  <2>3. /\ DOMAIN mos' = {"names", "datasets"} /\ mos'.datasets = mos.datasets
        /\ mos'.names = mos.names \cup {Name[c]}
    BY <2>1, Halves
  <2> QED BY <1>4, <2>2, <2>3, Halves DEF DatasetHalf, NameHalf
<1>5. CASE Kind[c] = "destroy"
  <2>1. mos' = [mos EXCEPT !.names = mos.names \ {Name[c]}]
    BY <1>5 DEF SyncFunc, dsl_destroy_snapshot_sync_impl
  <2>2. After' = [mos' EXCEPT !.datasets = {d \in mos'.datasets : d.name # Name[c]}]
    BY <1>2, <1>5 DEF SyncFunc, dsl_destroy_snapshot_sync_impl
  <2>3. /\ DOMAIN mos' = {"names", "datasets"} /\ mos'.datasets = mos.datasets
        /\ mos'.names = mos.names \ {Name[c]}
    BY <2>1, Halves
  <2> QED BY <1>5, <2>2, <2>3, Halves DEF DatasetHalf, NameHalf
<1> QED BY <1>1, <1>3, <1>4, <1>5

\* What a half done syncfunc leads to changes only with it.
LEMMA AfterSame ==
  ASSUME UNCHANGED <<mos, txg, current>>, pc' = "syncfunc" <=> pc = "syncfunc"
  PROVE  After' = After
<1>1. \A c : NewDataset(c)' = NewDataset(c)
  BY DEF NewDataset
<1>2. ASSUME NEW c PROVE SyncFunc(c, 2)' = SyncFunc(c, 2)
  <2>1. dsl_dataset_snapshot_sync_impl(c, 2)' = dsl_dataset_snapshot_sync_impl(c, 2)
    BY DEF dsl_dataset_snapshot_sync_impl
  <2>2. dsl_dataset_create_sync(c, 2)' = dsl_dataset_create_sync(c, 2)
    BY <1>1 DEF dsl_dataset_create_sync
  <2>3. dsl_destroy_snapshot_sync_impl(c, 2)' = dsl_destroy_snapshot_sync_impl(c, 2)
    BY DEF dsl_destroy_snapshot_sync_impl
  <2> QED BY <2>1, <2>2, <2>3 DEF SyncFunc
<1>3. SyncFunc(current[1], 2)' = SyncFunc(current[1], 2)
  <2>1. \A c : SyncFunc(c, 2)' = SyncFunc(c, 2)
    BY <1>2
  <2> QED BY <2>1 DEF SyncFunc, dsl_dataset_snapshot_sync_impl, dsl_dataset_create_sync, dsl_destroy_snapshot_sync_impl, NewDataset
<1> QED BY <1>3 DEF After

-----------------------------------------------------------------------------
(* The lists.                                                              *)

\* txg_list_add_tail: one more task is listed.
LEMMA Added ==
  ASSUME TypeOK, QueueInv, NEW c \in Callers, ~ Listed(c), UNCHANGED dst_txg,
         tasks' = [tasks EXCEPT ![Slot(dst_txg[c])] = Append(@, c)]
  PROVE  QueueInv' /\ \A d \in Callers : Listed(d)' <=> Listed(d) \/ d = c
<1> DEFINE k == Slot(dst_txg[c])
           q == tasks[k]
<1>1. k \in Slots /\ q \in Seq(Callers)
  BY SlotType DEF TypeOK, QueueInv
<1>2. /\ tasks' \in [Slots -> Seq(Callers)] /\ tasks'[k] = Append(q, c)
      /\ \A s \in Slots : s # k => tasks'[s] = tasks[s]
  BY <1>1 DEF QueueInv
<1> HIDE DEF k
<1>3. /\ Len(tasks'[k]) = Len(q) + 1 /\ Len(q) \in Nat /\ tasks'[k][Len(q) + 1] = c
      /\ \A i \in 1 .. Len(q) : tasks'[k][i] = q[i] /\ i \in 1 .. Len(tasks'[k])
      /\ \A i \in 1 .. Len(tasks'[k]) : i \in 1 .. Len(q) \/ i = Len(q) + 1
      /\ Len(q) + 1 \in 1 .. Len(tasks'[k])
  BY <1>1, <1>2
<1>4. \A i \in 1 .. Len(q) : q[i] # c /\ k = Slot(dst_txg[q[i]])
  BY <1>1 DEF Listed, QueueInv
<1>5. \A i, j \in 1 .. Len(tasks'[k]) : tasks'[k][i] = tasks'[k][j] => i = j
  BY <1>1, <1>3, <1>4 DEF QueueInv
<1>6. \A i \in 1 .. Len(tasks'[k]) : k = Slot(dst_txg[tasks'[k][i]])
  BY <1>3, <1>4 DEF k
<1>7. QueueInv'
  <2>1. ASSUME NEW s \in Slots
        PROVE  /\ \A i, j \in 1 .. Len(tasks'[s]) : tasks'[s][i] = tasks'[s][j] => i = j
               /\ \A i \in 1 .. Len(tasks'[s]) : s = Slot(dst_txg[tasks'[s][i]])
    <3>1. CASE s = k
      BY <1>5, <1>6, <3>1
    <3>2. CASE s # k
      BY <1>2, <3>2 DEF QueueInv
    <3> QED BY <3>1, <3>2
  <2> QED BY <1>2, <2>1 DEF QueueInv
<1>8. ASSUME NEW d \in Callers PROVE Listed(d)' <=> Listed(d) \/ d = c
  <2>1. ASSUME NEW s \in Slots, NEW i \in 1 .. Len(tasks'[s]), tasks'[s][i] = d PROVE Listed(d) \/ d = c
    <3>1. CASE s = k
      BY <1>1, <1>3, <2>1, <3>1 DEF Listed
    <3>2. CASE s # k
      BY <1>2, <2>1, <3>2 DEF Listed
    <3> QED BY <3>1, <3>2
  <2>2. ASSUME NEW s \in Slots, NEW i \in 1 .. Len(tasks[s]), tasks[s][i] = d PROVE Listed(d)'
    <3>1. CASE s = k
      BY <1>1, <1>3, <2>2, <3>1 DEF Listed
    <3>2. CASE s # k
      BY <1>2, <2>2, <3>2 DEF Listed
    <3> QED BY <3>1, <3>2
  <2>3. d = c => Listed(d)'
    BY <1>1, <1>3 DEF Listed
  <2> QED BY <2>1, <2>2, <2>3 DEF Listed
<1> QED BY <1>7, <1>8

\* txg_list_remove: the first task of the syncing txg is listed no more.
LEMMA Removed ==
  ASSUME TypeOK, QueueInv, txg \in Nat, Queue # <<>>, UNCHANGED dst_txg,
         tasks' = [tasks EXCEPT ![Slot(txg)] = Tail(@)]
  PROVE  /\ Head(Queue) \in Callers /\ Listed(Head(Queue)) /\ Slot(dst_txg[Head(Queue)]) = Slot(txg)
         /\ QueueInv' /\ \A d \in Callers : Listed(d)' <=> Listed(d) /\ d # Head(Queue)
<1> DEFINE k == Slot(txg)
           q == tasks[k]
           c == Head(q)
<1>1. k \in Slots /\ q \in Seq(Callers) /\ q # <<>> /\ Queue = q
  BY SlotType DEF Queue, QueueInv
<1>2. /\ tasks' \in [Slots -> Seq(Callers)] /\ tasks'[k] = Tail(q)
      /\ \A s \in Slots : s # k => tasks'[s] = tasks[s]
  BY <1>1 DEF QueueInv
<1> HIDE DEF k
<1>3. /\ c \in Callers /\ c = q[1] /\ 1 \in 1 .. Len(q) /\ Len(q) \in Nat
      /\ Len(tasks'[k]) = Len(q) - 1
      /\ \A i \in 1 .. Len(tasks'[k]) : tasks'[k][i] = q[i + 1] /\ i + 1 \in 1 .. Len(q) /\ i + 1 # 1
  BY <1>1, <1>2
<1>4. Listed(c) /\ Slot(dst_txg[c]) = k
  BY <1>1, <1>3 DEF Listed, QueueInv
<1>5. \A i \in 1 .. Len(tasks'[k]) : k = Slot(dst_txg[tasks'[k][i]]) /\ tasks'[k][i] # c
  BY <1>1, <1>3 DEF QueueInv
<1>6. ASSUME NEW i \in 1 .. Len(tasks'[k]), NEW j \in 1 .. Len(tasks'[k]), tasks'[k][i] = tasks'[k][j]
      PROVE  i = j
  <2>1. i + 1 = j + 1
    BY <1>1, <1>3, <1>6 DEF QueueInv
  <2> QED BY <2>1
<1>7. QueueInv'
  <2>1. ASSUME NEW s \in Slots
        PROVE  /\ \A i, j \in 1 .. Len(tasks'[s]) : tasks'[s][i] = tasks'[s][j] => i = j
               /\ \A i \in 1 .. Len(tasks'[s]) : s = Slot(dst_txg[tasks'[s][i]])
    <3>1. CASE s = k
      BY <1>5, <1>6, <3>1
    <3>2. CASE s # k
      BY <1>2, <3>2 DEF QueueInv
    <3> QED BY <3>1, <3>2
  <2> QED BY <1>2, <2>1 DEF QueueInv
<1>8. ASSUME NEW d \in Callers PROVE Listed(d)' <=> Listed(d) /\ d # c
  <2>1. ASSUME NEW s \in Slots, NEW i \in 1 .. Len(tasks'[s]), tasks'[s][i] = d PROVE Listed(d) /\ d # c
    <3>1. CASE s = k
      <4>1. i + 1 \in 1 .. Len(tasks[k]) /\ tasks[k][i + 1] = d /\ d # c
        BY <1>3, <1>5, <2>1, <3>1
      <4> QED BY <1>1, <4>1 DEF Listed
    <3>2. CASE s # k
      <4>1. i \in 1 .. Len(tasks[s]) /\ tasks[s][i] = d
        BY <1>2, <2>1, <3>2
      <4>2. d # c
        BY <1>4, <3>2, <4>1 DEF QueueInv
      <4> QED BY <4>1, <4>2 DEF Listed
    <3> QED BY <3>1, <3>2
  <2>2. ASSUME NEW s \in Slots, NEW i \in 1 .. Len(tasks[s]), tasks[s][i] = d, d # c PROVE Listed(d)'
    <3>1. CASE s = k
      <4>1. i # 1
        BY <1>3, <2>2, <3>1
      <4>2. i - 1 \in 1 .. Len(tasks'[k]) /\ (i - 1) + 1 = i
        BY <1>3, <3>1, <4>1
      <4>3. tasks'[k][i - 1] = d
        BY <1>3, <2>2, <3>1, <4>2
      <4> QED BY <1>1, <4>2, <4>3 DEF Listed
    <3>2. CASE s # k
      BY <1>2, <2>2, <3>2 DEF Listed
    <3> QED BY <3>1, <3>2
  <2> QED BY <2>1, <2>2 DEF Listed
<1> QED BY <1>1, <1>3, <1>4, <1>7, <1>8 DEF k

-----------------------------------------------------------------------------
(* The steps of a caller.                                                  *)

\* A step of c that leaves the lists and the sync thread alone has to show that
\* c keeps its invariant, and a task that is listed or executed its fields.
LEMMA CallerFrame ==
  ASSUME SyncTaskInv, NEW c \in Callers, TypeOK',
         UNCHANGED <<tasks, heap, syncVars, writer, seen, dataVars>>,
         \A d \in Callers : d # c =>
           call'[d] = call[d] /\ dst_txg'[d] = dst_txg[d] /\ dst_error'[d] = dst_error[d],
         Listed(c) \/ current = <<c>> => dst_txg'[c] = dst_txg[c] /\ dst_error'[c] = dst_error[c],
         Listed(c) => call'[c] \in {"queued", "waiting"} \/ (call'[c] = "done" /\ c \in NoWait),
         current = <<c>> => call'[c] = "waiting" \/ (call'[c] = "done" /\ c \in NoWait),
         CallOK(c)', readers' \cap Readers = readers \cap Readers,
         pc = "syncfunc" => readers' = readers
  PROVE  SyncTaskInv'
<1>1. UNCHANGED <<open, txg, pc, current, mos, disk, applied, durable>>
  BY DEF syncVars, dataVars
<1>2. \A d : Listed(d)' <=> Listed(d)
  BY DEF Listed
<1>3. QueueInv'
  <2>1. \A s \in Slots : \A i \in 1 .. Len(tasks[s]) : tasks[s][i] \in Callers /\ Listed(tasks[s][i])
    BY DEF SyncTaskInv, QueueInv, Listed
  <2>2. \A s \in Slots : \A i \in 1 .. Len(tasks[s]) : dst_txg'[tasks[s][i]] = dst_txg[tasks[s][i]]
    BY <2>1
  <2> QED BY <2>2 DEF SyncTaskInv, QueueInv
<1>4. ListInv'
  <2>1. ASSUME NEW d \in Callers, Listed(d) PROVE Entry(d)'
    <3>1. Entry(d)
      BY <2>1 DEF SyncTaskInv, ListInv
    <3>2. CASE d = c
      BY <1>1, <2>1, <3>1, <3>2 DEF Entry
    <3>3. CASE d # c
      BY <1>1, <3>1, <3>3 DEF Entry
    <3> QED BY <3>2, <3>3
  <2> QED BY <1>1, <1>2, <2>1 DEF SyncTaskInv, ListInv
<1>5. CallInv'
  <2>1. ASSUME NEW d \in Callers, d # c PROVE CallOK(d)'
    <3>1. CallOK(d)
      BY DEF SyncTaskInv, CallInv
    <3> QED BY <1>1, <1>2, <2>1, <3>1 DEF CallOK, Holding
  <2> QED BY <2>1 DEF CallInv
<1>6. SyncInv'
  <2>1. ASSUME pc = "syncfunc" PROVE readers' = {} /\ \E d \in Callers : Executing(d)'
    <3>1. PICK d \in Callers : Executing(d)
      BY <2>1 DEF SyncTaskInv, SyncInv
    <3>2. Executing(d)'
      BY <1>1, <3>1 DEF Executing
    <3> QED BY <2>1, <3>2 DEF SyncTaskInv, SyncInv
  <2> QED BY <1>1, <2>1 DEF SyncTaskInv, SyncInv
<1>7. DataInv'
  BY <1>1, AfterSame DEF SyncTaskInv, DataInv, Sound, Dated
<1> QED BY <1>3, <1>4, <1>5, <1>6, <1>7 DEF SyncTaskInv

\* A listed task, or the one that is executed, is not one its caller is still
\* preparing.
LEMMA NotYet ==
  ASSUME SyncTaskInv, NEW c \in Callers,
         call[c] \in {"idle", "assigned", "checking", "checked", "again", "top"}
  PROVE  /\ ~ Listed(c) /\ current # <<c>> /\ applied[c] = 0 /\ durable[c] = 0
<1>1. ~ Listed(c) /\ applied[c] = 0
  BY DEF SyncTaskInv, CallInv, CallOK
<1>2. current # <<c>>
  <2>1. CASE pc # "syncfunc"
    <3>1. current = <<>>
      BY <2>1 DEF SyncTaskInv, SyncInv
    <3> QED BY <3>1
  <2>2. CASE pc = "syncfunc"
    <3>1. PICK d \in Callers : Executing(d)
      BY <2>2 DEF SyncTaskInv, SyncInv
    <3>2. d # c /\ current = <<d>>
      BY <3>1 DEF Executing
    <3>3. <<d>>[1] = d /\ <<c>>[1] = c
      OBVIOUS
    <3> QED BY <3>2, <3>3
  <2> QED BY <2>1, <2>2
<1>3. durable[c] \in 0 .. 1 /\ durable[c] <= applied[c]
  BY DEF SyncTaskInv, DataInv
<1> QED BY <1>1, <1>2, <1>3

\* The check in open context says nothing but 0 and EEXIST.
LEMMA OpenCheck ==
  ASSUME NEW c \in Callers PROVE CheckFunc(c, FALSE) \in {"ok", "EEXIST"}
<1>1. Kind[c] \in {"snapshot", "create", "destroy"}
  BY SyncTaskAssumption
<1>2. dsl_dataset_snapshot_check(c, FALSE) = "ok"
  BY DEF dsl_dataset_snapshot_check
<1>3. dmu_objset_create_check(c) \in {"ok", "EEXIST"}
  BY DEF dmu_objset_create_check
<1>4. dsl_destroy_snapshot_check(c, FALSE) = "ok"
  BY DEF dsl_destroy_snapshot_check
<1> QED BY <1>1, <1>2, <1>3, <1>4 DEF CheckFunc

LEMMA AssignInv ==
  ASSUME SyncTaskInv, NEW c \in Callers, Assign(c) PROVE SyncTaskInv'
<1>1. /\ call[c] \in {"idle", "top"}
      /\ call' = [call EXCEPT ![c] = IF c \in NoWait THEN "checked" ELSE "assigned"]
      /\ dst_txg' = [dst_txg EXCEPT ![c] = open]
      /\ dst_error' = [dst_error EXCEPT ![c] = "ok"]
      /\ UNCHANGED <<tasks, heap, syncVars, readers, writer, seen, dataVars, open, txg, pc, applied, durable>>
  BY DEF Assign, taskVars, lockVars, dataVars, syncVars
<1>2. ~ Listed(c) /\ current # <<c>> /\ applied[c] = 0
  BY <1>1, NotYet
<1>3. /\ txg \in Nat /\ open \in txg .. txg + 2 /\ (pc # "idle" => txg < open)
      /\ call \in [Callers -> {"idle", "assigned", "checking", "checked", "queued",
                               "waiting", "again", "top", "done", "gone"}]
      /\ dst_txg \in [Callers -> Nat]
      /\ dst_error \in [Callers -> {"ok", "EAGAIN", "EEXIST", "EBUSY", "ENOSPC"}]
  BY DEF SyncTaskInv, SyncInv, TypeOK
<1>4. /\ call'[c] = (IF c \in NoWait THEN "checked" ELSE "assigned") /\ dst_txg'[c] = open /\ dst_error'[c] = "ok"
      /\ \A d \in Callers : d # c =>
           call'[d] = call[d] /\ dst_txg'[d] = dst_txg[d] /\ dst_error'[d] = dst_error[d]
  BY <1>1, <1>3
<1>5. open \in Nat /\ open \in txg .. open /\ (open = txg => pc = "idle")
  BY <1>3
<1>6. TypeOK'
  <2>1. dst_txg' \in [Callers -> Nat]
    BY <1>1, <1>3, <1>5
  <2>2. call' \in [Callers -> {"idle", "assigned", "checking", "checked", "queued",
                               "waiting", "again", "top", "done", "gone"}]
    BY <1>1, <1>3
  <2>3. dst_error' \in [Callers -> {"ok", "EAGAIN", "EEXIST", "EBUSY", "ENOSPC"}]
    BY <1>1, <1>3
  <2> QED BY <1>1, <2>1, <2>2, <2>3 DEF SyncTaskInv, TypeOK
<1>7. ~ Listed(c)'
  BY <1>1, <1>2 DEF Listed
<1>8. CallOK(c)'
  BY <1>1, <1>2, <1>4, <1>5, <1>7 DEF CallOK, Holding
<1> QED BY <1>1, <1>2, <1>4, <1>6, <1>8, CallerFrame

\* A step that changes nothing of c's task but where its caller is.
LEMMA CallStep ==
  ASSUME SyncTaskInv, NEW c \in Callers, NEW x, call' = [call EXCEPT ![c] = x],
         x \in {"checking", "waiting", "again", "top", "done"},
         UNCHANGED <<dst_txg, dst_error, tasks, heap, syncVars, writer, seen, dataVars>>,
         readers' \in SUBSET (Callers \cup Readers), readers' \cap Readers = readers \cap Readers,
         pc = "syncfunc" => readers' = readers,
         Listed(c) => x = "waiting" \/ (x = "done" /\ c \in NoWait), current # <<c>>, CallOK(c)'
  PROVE  SyncTaskInv'
<1>1. /\ call \in [Callers -> {"idle", "assigned", "checking", "checked", "queued",
                               "waiting", "again", "top", "done", "gone"}]
      /\ UNCHANGED <<open, txg, applied>>
  BY DEF SyncTaskInv, TypeOK, syncVars, dataVars
<1>2. call' \in [Callers -> {"idle", "assigned", "checking", "checked", "queued",
                             "waiting", "again", "top", "done", "gone"}]
  BY <1>1
<1>3. call'[c] = x /\ \A d \in Callers : d # c => call'[d] = call[d]
  BY <1>1
<1>4. TypeOK'
  BY <1>1, <1>2 DEF SyncTaskInv, TypeOK
<1> QED BY <1>3, <1>4, CallerFrame

LEMMA EnterInv ==
  ASSUME SyncTaskInv, NEW c \in Callers, ConfigEnter(c) PROVE SyncTaskInv'
<1>1. /\ call[c] = "assigned" /\ ~ writer /\ readers' = readers \cup {c}
      /\ call' = [call EXCEPT ![c] = "checking"]
      /\ UNCHANGED <<dst_txg, dst_error, tasks, heap, syncVars, writer, seen, dataVars>>
      /\ UNCHANGED <<open, txg, pc, applied, durable>>
  BY DEF ConfigEnter, taskVars, dataVars, syncVars
<1>2. ~ Listed(c) /\ current # <<c>> /\ applied[c] = 0
  BY <1>1, NotYet
<1>3. c \notin Readers /\ pc # "syncfunc"
  BY <1>1, SyncTaskAssumption DEF SyncTaskInv, SyncInv
<1>4. readers' \in SUBSET (Callers \cup Readers) /\ readers' \cap Readers = readers \cap Readers
  BY <1>1, <1>3 DEF SyncTaskInv, TypeOK
<1>5. call'[c] = "checking"
  BY <1>1 DEF SyncTaskInv, TypeOK
<1>6. ~ Listed(c)'
  BY <1>1, <1>2 DEF Listed
<1>7. CallOK(c)
  BY DEF SyncTaskInv, CallInv
<1>8. CallOK(c)'
  BY <1>1, <1>2, <1>5, <1>6, <1>7 DEF CallOK, Holding
<1> QED BY <1>1, <1>2, <1>3, <1>4, <1>8, CallStep

LEMMA CheckInv ==
  ASSUME SyncTaskInv, NEW c \in Callers, PreliminaryCheck(c) PROVE SyncTaskInv'
<1> DEFINE e == CheckFunc(c, FALSE)
<1>1. /\ call[c] = "checking" /\ readers' = readers \ {c}
      /\ dst_error' = [dst_error EXCEPT ![c] = e]
      /\ call' = [call EXCEPT ![c] = IF e = "ok" THEN "checked" ELSE "done"]
      /\ UNCHANGED <<dst_txg, tasks, heap, syncVars, writer, seen, dataVars>>
      /\ UNCHANGED <<open, txg, pc, applied, durable>>
  BY DEF PreliminaryCheck, taskVars, dataVars, syncVars
<1>2. ~ Listed(c) /\ current # <<c>> /\ applied[c] = 0 /\ durable[c] = 0
  BY <1>1, NotYet
<1>3. e \in {"ok", "EEXIST"}
  BY OpenCheck
<1> HIDE DEF e
<1>4. c \notin Readers /\ c \notin NoWait
  BY <1>1, SyncTaskAssumption DEF SyncTaskInv, CallInv, CallOK
<1>5. /\ readers' \in SUBSET (Callers \cup Readers) /\ readers' \cap Readers = readers \cap Readers
      /\ (pc = "syncfunc" => readers' = readers)
  BY <1>1, <1>4 DEF SyncTaskInv, TypeOK, SyncInv
<1>6. /\ call \in [Callers -> {"idle", "assigned", "checking", "checked", "queued",
                               "waiting", "again", "top", "done", "gone"}]
      /\ dst_error \in [Callers -> {"ok", "EAGAIN", "EEXIST", "EBUSY", "ENOSPC"}]
  BY DEF SyncTaskInv, TypeOK
<1>7. /\ call' \in [Callers -> {"idle", "assigned", "checking", "checked", "queued",
                                "waiting", "again", "top", "done", "gone"}]
      /\ dst_error' \in [Callers -> {"ok", "EAGAIN", "EEXIST", "EBUSY", "ENOSPC"}]
  BY <1>1, <1>3, <1>6
<1>8. TypeOK'
  BY <1>1, <1>5, <1>7 DEF SyncTaskInv, TypeOK
<1>9. /\ call'[c] = (IF e = "ok" THEN "checked" ELSE "done") /\ dst_error'[c] = e
      /\ \A d \in Callers : d # c => call'[d] = call[d] /\ dst_error'[d] = dst_error[d]
  BY <1>1, <1>6
<1>10. ~ Listed(c)'
  BY <1>1, <1>2 DEF Listed
<1>11. CallOK(c)
  BY DEF SyncTaskInv, CallInv
<1>12. CallOK(c)'
  <2>1. CASE e = "ok"
    BY <1>1, <1>2, <1>4, <1>9, <1>10, <1>11, <2>1 DEF CallOK, Holding
  <2>2. CASE e = "EEXIST"
    BY <1>1, <1>2, <1>4, <1>9, <1>10, <2>2 DEF CallOK, Holding
  <2> QED BY <1>3, <2>1, <2>2
<1> QED BY <1>1, <1>2, <1>5, <1>8, <1>9, <1>12, CallerFrame

LEMMA EnqueueInv ==
  ASSUME SyncTaskInv, NEW c \in Callers, Enqueue(c) PROVE SyncTaskInv'
<1>1. /\ call[c] = "checked"
      /\ tasks' = [tasks EXCEPT ![Slot(dst_txg[c])] = Append(@, c)]
      /\ heap' = heap \cup ({c} \cap NoWait)
      /\ call' = [call EXCEPT ![c] = "queued"]
      /\ UNCHANGED <<dst_txg, dst_error, open, txg, pc, current, readers, writer, seen, mos, disk, applied, durable>>
  BY DEF Enqueue, dataVars, syncVars, lockVars
<1>2. ~ Listed(c) /\ current # <<c>> /\ applied[c] = 0 /\ durable[c] = 0
  BY <1>1, NotYet
<1>3. QueueInv' /\ \A d \in Callers : Listed(d)' <=> Listed(d) \/ d = c
  BY <1>1, <1>2, Added DEF SyncTaskInv
<1>4. call \in [Callers -> {"idle", "assigned", "checking", "checked", "queued",
                            "waiting", "again", "top", "done", "gone"}]
  BY DEF SyncTaskInv, TypeOK
<1>5. call'[c] = "queued" /\ \A d \in Callers : d # c => call'[d] = call[d]
  BY <1>1, <1>4
<1>6. call' \in [Callers -> {"idle", "assigned", "checking", "checked", "queued",
                             "waiting", "again", "top", "done", "gone"}]
  BY <1>1, <1>4
<1>7. TypeOK'
  BY <1>1, <1>6 DEF SyncTaskInv, TypeOK
<1>8. CallOK(c)
  BY DEF SyncTaskInv, CallInv
<1>9. ListInv'
  <2>1. Entry(c)'
    BY <1>1, <1>2, <1>5, <1>8 DEF Entry, CallOK, Holding
  <2>2. ASSUME NEW d \in Callers, d # c, Listed(d) PROVE Entry(d)'
    <3>1. Entry(d)
      BY <2>2 DEF SyncTaskInv, ListInv
    <3> QED BY <1>1, <1>5, <2>2, <3>1 DEF Entry
  <2>3. \A d \in heap' : d \in Callers /\ (Listed(d)' \/ current' = <<d>>)
    <3>1. \A d \in heap : d \in Callers /\ (Listed(d) \/ current = <<d>>)
      BY SyncTaskAssumption DEF SyncTaskInv, ListInv, TypeOK
    <3> QED BY <1>1, <1>3, <3>1
  <2> QED BY <1>3, <2>1, <2>2, <2>3 DEF ListInv
<1>10. CallInv'
  <2>1. CallOK(c)'
    BY <1>1, <1>2, <1>3, <1>5, <1>8 DEF CallOK, Holding
  <2>2. ASSUME NEW d \in Callers, d # c PROVE CallOK(d)'
    <3>1. CallOK(d) /\ (Listed(d)' <=> Listed(d))
      BY <1>3, <2>2 DEF SyncTaskInv, CallInv
    <3> QED BY <1>1, <1>5, <2>2, <3>1 DEF CallOK, Holding
  <2> QED BY <2>1, <2>2 DEF CallInv
<1>11. SyncInv'
  <2>1. ASSUME pc = "syncfunc" PROVE readers' = {} /\ \E d \in Callers : Executing(d)'
    <3>1. PICK d \in Callers : Executing(d)
      BY <2>1 DEF SyncTaskInv, SyncInv
    <3>2. d # c
      BY <1>2, <3>1 DEF Executing
    <3>3. Executing(d)'
      BY <1>1, <1>5, <3>1, <3>2 DEF Executing
    <3> QED BY <1>1, <2>1, <3>3 DEF SyncTaskInv, SyncInv
  <2> QED BY <1>1, <2>1 DEF SyncTaskInv, SyncInv
<1>12. DataInv'
  BY <1>1, AfterSame DEF SyncTaskInv, DataInv, Sound, Dated
<1> QED BY <1>3, <1>7, <1>9, <1>10, <1>11, <1>12 DEF SyncTaskInv

\* The task that is executed is not one whose caller can step.
LEMMA ExecutingCall ==
  ASSUME SyncTaskInv, NEW c \in Callers, current = <<c>>
  PROVE  Executing(c) /\ pc = "syncfunc"
<1>1. pc = "syncfunc"
  <2>1. current # <<>>
    OBVIOUS
  <2> QED BY <2>1 DEF SyncTaskInv, SyncInv
<1>2. PICK d \in Callers : Executing(d)
  BY <1>1 DEF SyncTaskInv, SyncInv
<1>3. <<d>>[1] = d /\ <<c>>[1] = c
  OBVIOUS
<1>4. d = c
  BY <1>2, <1>3 DEF Executing
<1> QED BY <1>1, <1>2, <1>4

LEMMA CommitInv ==
  ASSUME SyncTaskInv, NEW c \in Callers, Commit(c) PROVE SyncTaskInv'
<1> DEFINE x == IF c \in NoWait THEN "done" ELSE "waiting"
<1>1. /\ call[c] = "queued" /\ call' = [call EXCEPT ![c] = x]
      /\ UNCHANGED <<dst_txg, dst_error, tasks, heap, syncVars, readers, writer, seen, dataVars>>
      /\ UNCHANGED <<open, txg, pc, applied, durable>>
  BY DEF Commit, taskVars, lockVars, dataVars, syncVars
<1>2. current # <<c>>
  BY <1>1, ExecutingCall DEF Executing
<1>3. CallOK(c) /\ Listed(c)
  BY <1>1 DEF SyncTaskInv, CallInv, CallOK
<1>4. Listed(c)' /\ call'[c] = x
  BY <1>1, <1>3 DEF Listed, SyncTaskInv, TypeOK
<1>5. txg \in Nat /\ open \in txg .. txg + 2
  BY DEF SyncTaskInv, SyncInv, TypeOK
<1>6. ~ (dst_txg[c] < txg)
  <2>1. dst_txg[c] \in txg .. open
    BY <1>1, <1>3 DEF CallOK, Holding
  <2> QED BY <1>5, <2>1
<1>7. CallOK(c)'
  BY <1>1, <1>4, <1>6 DEF CallOK, Holding
<1>8. readers' \in SUBSET (Callers \cup Readers)
  BY <1>1 DEF SyncTaskInv, TypeOK
<1> QED BY <1>1, <1>2, <1>7, <1>8, CallStep

\* txg_wait_synced returned: the task is off the list, and its outcome on disk.
LEMMA WaitedOut ==
  ASSUME SyncTaskInv, NEW c \in Callers, call[c] = "waiting", Synced(dst_txg[c])
  PROVE  /\ ~ Listed(c) /\ current # <<c>> /\ durable[c] = applied[c] /\ c \notin NoWait
         /\ applied[c] = (IF dst_error[c] = "ok" THEN 1 ELSE 0)
<1>1. txg \in Nat /\ open \in txg .. txg + 2 /\ dst_txg[c] \in Nat /\ dst_txg[c] < txg
  BY DEF SyncTaskInv, SyncInv, TypeOK, Synced
<1>2. dst_txg[c] \notin txg .. open /\ dst_txg[c] # txg
  BY <1>1
<1>3. ~ Listed(c)
  BY <1>2 DEF SyncTaskInv, ListInv, Entry
<1>4. current # <<c>>
  BY <1>2, ExecutingCall DEF Executing
<1>5. CallOK(c)
  BY DEF SyncTaskInv, CallInv
<1> QED BY <1>1, <1>3, <1>4, <1>5 DEF CallOK

LEMMA WaitInv ==
  ASSUME SyncTaskInv, NEW c \in Callers, Wait(c) PROVE SyncTaskInv'
<1> DEFINE x == IF dst_error[c] = "EAGAIN" THEN "again" ELSE "done"
<1>1. /\ call[c] = "waiting" /\ Synced(dst_txg[c]) /\ call' = [call EXCEPT ![c] = x]
      /\ UNCHANGED <<dst_txg, dst_error, tasks, heap, syncVars, readers, writer, seen, dataVars>>
      /\ UNCHANGED <<open, txg, pc, applied, durable>>
  BY DEF Wait, taskVars, lockVars, dataVars, syncVars
<1>2. /\ ~ Listed(c) /\ current # <<c>> /\ durable[c] = applied[c] /\ c \notin NoWait
      /\ applied[c] = (IF dst_error[c] = "ok" THEN 1 ELSE 0)
  BY <1>1, WaitedOut
<1>3. ~ Listed(c)' /\ call'[c] = x
  BY <1>1, <1>2 DEF Listed, SyncTaskInv, TypeOK
<1>4. CallOK(c)'
  BY <1>1, <1>2, <1>3 DEF CallOK, Holding
<1>5. readers' \in SUBSET (Callers \cup Readers)
  BY <1>1 DEF SyncTaskInv, TypeOK
<1> QED BY <1>1, <1>2, <1>4, <1>5, CallStep

LEMMA AgainInv ==
  ASSUME SyncTaskInv, NEW c \in Callers, WaitAgain(c) PROVE SyncTaskInv'
<1>1. /\ call[c] = "again" /\ call' = [call EXCEPT ![c] = "top"]
      /\ UNCHANGED <<dst_txg, dst_error, tasks, heap, syncVars, readers, writer, seen, dataVars>>
      /\ UNCHANGED <<open, txg, pc, applied, durable>>
  BY DEF WaitAgain, taskVars, lockVars, dataVars, syncVars
<1>2. ~ Listed(c) /\ current # <<c>> /\ applied[c] = 0
  BY <1>1, NotYet
<1>3. ~ Listed(c)' /\ call'[c] = "top"
  BY <1>1, <1>2 DEF Listed, SyncTaskInv, TypeOK
<1>4. c \notin NoWait
  BY <1>1 DEF SyncTaskInv, CallInv, CallOK
<1>5. CallOK(c)'
  BY <1>1, <1>2, <1>3, <1>4 DEF CallOK, Holding
<1>6. readers' \in SUBSET (Callers \cup Readers)
  BY <1>1 DEF SyncTaskInv, TypeOK
<1> QED BY <1>1, <1>2, <1>5, <1>6, CallStep

-----------------------------------------------------------------------------
(* The steps of a reader.                                                  *)

\* Nothing but the lock and what the readers have seen.
LEMMA ReaderFrame ==
  ASSUME SyncTaskInv, UNCHANGED <<callVars, taskVars, syncVars, writer, dataVars>>,
         readers' \in SUBSET (Callers \cup Readers), pc = "syncfunc" => readers' = {},
         DOMAIN seen' = Readers, \A r \in readers' \cap Readers : seen'[r] = mos.names
  PROVE  SyncTaskInv'
<1>1. UNCHANGED <<call, dst_txg, dst_error, tasks, heap, open, txg, pc, current, mos, disk, applied, durable>>
  BY DEF callVars, taskVars, syncVars, dataVars
<1>2. \A d : Listed(d)' <=> Listed(d)
  BY <1>1 DEF Listed
<1>3. TypeOK' /\ QueueInv'
  BY <1>1 DEF SyncTaskInv, TypeOK, QueueInv
<1>4. ListInv'
  BY <1>1, <1>2 DEF SyncTaskInv, ListInv, Entry
<1>5. CallInv'
  <2>1. ASSUME NEW d \in Callers PROVE CallOK(d)'
    <3>1. CallOK(d)
      BY DEF SyncTaskInv, CallInv
    <3> QED BY <1>1, <1>2, <3>1 DEF CallOK, Holding
  <2> QED BY <2>1 DEF CallInv
<1>6. SyncInv'
  BY <1>1 DEF SyncTaskInv, SyncInv, Executing
<1>7. DataInv'
  BY <1>1, AfterSame DEF SyncTaskInv, DataInv, Sound, Dated
<1> QED BY <1>3, <1>4, <1>5, <1>6, <1>7 DEF SyncTaskInv

LEMMA ReadInv ==
  ASSUME SyncTaskInv, NEW r \in Readers, ReadNames(r) \/ ReadEnd(r)
  PROVE  SyncTaskInv'
<1>1. /\ DOMAIN seen = Readers /\ \A q \in readers \cap Readers : seen[q] = mos.names
      /\ readers \in SUBSET (Callers \cup Readers)
      /\ writer = (pc = "syncfunc") /\ (pc = "syncfunc" => readers = {})
  BY DEF SyncTaskInv, DataInv, TypeOK, SyncInv
<1>2. CASE ReadNames(r)
  <2>1. /\ UNCHANGED <<callVars, taskVars, syncVars, writer, dataVars>>
        /\ readers' = readers \cup {r} /\ seen' = [seen EXCEPT ![r] = mos.names] /\ ~ writer
    BY <1>2 DEF ReadNames
  <2>2. DOMAIN seen' = Readers /\ seen'[r] = mos.names /\ \A q \in Readers : q # r => seen'[q] = seen[q]
    BY <1>1, <2>1
  <2>3. \A q \in readers' \cap Readers : seen'[q] = mos.names
    BY <1>1, <2>1, <2>2
  <2>4. readers' \in SUBSET (Callers \cup Readers)
    BY <1>1, <2>1
  <2> QED BY <1>1, <2>1, <2>2, <2>3, <2>4, ReaderFrame
<1>3. CASE ReadEnd(r)
  <2>1. /\ UNCHANGED <<callVars, taskVars, syncVars, writer, dataVars>>
        /\ readers' = readers \ {r} /\ seen' = [seen EXCEPT ![r] = {}]
    BY <1>3 DEF ReadEnd
  <2>2. DOMAIN seen' = Readers /\ \A q \in Readers : q # r => seen'[q] = seen[q]
    BY <1>1, <2>1
  <2>3. \A q \in readers' \cap Readers : seen'[q] = mos.names
    BY <1>1, <2>1, <2>2
  <2>4. readers' \in SUBSET (Callers \cup Readers) /\ (pc = "syncfunc" => readers' = {})
    BY <1>1, <2>1
  <2> QED BY <2>1, <2>2, <2>3, <2>4, ReaderFrame
<1> QED BY <1>2, <1>3

-----------------------------------------------------------------------------
(* The transaction groups.                                                 *)

\* The open txg, or the place of the sync thread, changes; no task does.
LEMMA GroupFrame ==
  ASSUME SyncTaskInv, UNCHANGED <<callVars, taskVars, txg, current, lockVars, dataVars>>,
         pc' = pc \/ (pc = "idle" /\ pc' = "tasks"), open' \in txg .. txg + 2, open <= open',
         pc' # "idle" => txg < open',
         pc' # pc => ~ \E c \in Callers : Holding(c) /\ dst_txg[c] = txg
  PROVE  SyncTaskInv'
<1>1. /\ UNCHANGED <<call, dst_txg, dst_error, tasks, heap, txg, current, readers, writer, seen>>
      /\ UNCHANGED <<mos, disk, applied, durable>>
  BY DEF callVars, taskVars, lockVars, dataVars
<1>2. \A d : Listed(d)' <=> Listed(d)
  BY <1>1 DEF Listed
<1>3. txg \in Nat /\ open \in txg .. txg + 2 /\ dst_txg \in [Callers -> Nat]
  BY DEF SyncTaskInv, SyncInv, TypeOK
<1>4. \A t \in Nat : t \in txg .. open => t \in txg .. open'
  BY <1>3
<1>5. TypeOK' /\ QueueInv'
  BY <1>1 DEF SyncTaskInv, TypeOK, QueueInv
<1>6. ListInv'
  <2>1. ASSUME NEW d \in Callers, Listed(d) PROVE Entry(d)'
    <3>1. Entry(d) /\ dst_txg[d] \in Nat
      BY <1>3, <2>1 DEF SyncTaskInv, ListInv
    <3> QED BY <1>1, <1>4, <3>1 DEF Entry
  <2> QED BY <1>1, <1>2, <2>1 DEF SyncTaskInv, ListInv
<1>7. CallInv'
  <2>1. ASSUME NEW d \in Callers PROVE CallOK(d)'
    <3>1. CallOK(d) /\ dst_txg[d] \in Nat
      BY <1>3 DEF SyncTaskInv, CallInv
    <3>2. Holding(d)' => dst_txg'[d] \in txg' .. open' /\ (dst_txg'[d] = txg' => pc' = "idle")
      BY <1>1, <1>4, <3>1 DEF CallOK, Holding
    <3> QED BY <1>1, <1>2, <3>1, <3>2 DEF CallOK
  <2> QED BY <2>1 DEF CallInv
<1>8. SyncInv'
  BY <1>1 DEF SyncTaskInv, SyncInv, Executing
<1>9. DataInv'
  BY <1>1, AfterSame DEF SyncTaskInv, DataInv, Sound, Dated
<1> QED BY <1>5, <1>6, <1>7, <1>8, <1>9 DEF SyncTaskInv

LEMMA OpenInv ==
  ASSUME SyncTaskInv, OpenNext PROVE SyncTaskInv'
<1>1. /\ txg \in Nat /\ open \in txg .. txg + 2 /\ open < txg + 2 /\ open' = open + 1
      /\ UNCHANGED <<callVars, taskVars, txg, pc, current, lockVars, dataVars>>
  BY DEF SyncTaskInv, SyncInv, TypeOK, OpenNext
<1>2. open' \in txg .. txg + 2 /\ open <= open' /\ txg < open'
  BY <1>1
<1> QED BY <1>1, <1>2, GroupFrame

LEMMA BeginInv ==
  ASSUME SyncTaskInv, SyncBegin PROVE SyncTaskInv'
<1>1. /\ txg \in Nat /\ open \in txg .. txg + 2 /\ txg < open
      /\ ~ \E c \in Callers : Holding(c) /\ dst_txg[c] = txg
      /\ pc = "idle" /\ pc' = "tasks" /\ open' = open
      /\ UNCHANGED <<callVars, taskVars, txg, current, lockVars, dataVars>>
  BY DEF SyncTaskInv, SyncInv, TypeOK, SyncBegin
<1>2. open' \in txg .. txg + 2 /\ open <= open'
  BY <1>1
<1> QED BY <1>1, <1>2, GroupFrame

\* The txg ends: it has no task left, nor a holder.
LEMMA EndInv ==
  ASSUME SyncTaskInv, SyncEnd PROVE SyncTaskInv'
<1>1. /\ pc = "tasks" /\ Queue = <<>> /\ disk' = mos /\ durable' = applied /\ txg' = txg + 1 /\ pc' = "idle"
      /\ UNCHANGED <<call, dst_txg, dst_error, tasks, heap, open, current, readers, writer, seen, mos, applied>>
  BY DEF SyncEnd, callVars, taskVars, lockVars
<1>2. \A d : Listed(d)' <=> Listed(d)
  BY <1>1 DEF Listed
<1>3. /\ txg \in Nat /\ open \in txg .. txg + 2 /\ txg < open /\ dst_txg \in [Callers -> Nat]
      /\ applied \in [Callers -> 0 .. 1]
  BY <1>1 DEF SyncTaskInv, SyncInv, TypeOK
<1>4. /\ \A t \in Nat : t \in txg .. open /\ t # txg => t \in txg' .. open'
      /\ \A t \in Nat : t \in 0 .. txg => t \in 0 .. txg' /\ t # txg'
      /\ \A t \in Nat : t < txg' => t \in 0 .. txg /\ t \notin txg' .. open'
      /\ open' \in txg' .. txg' + 2 /\ txg' \in Nat
  BY <1>1, <1>3
<1>5. \A d \in Callers : Listed(d) => dst_txg[d] # txg
  <2> SUFFICES ASSUME NEW d \in Callers, NEW s \in Slots, NEW i \in 1 .. Len(tasks[s]), tasks[s][i] = d
               PROVE  dst_txg[d] # txg
    BY DEF Listed
  <2>1. s = Slot(dst_txg[d])
    BY DEF SyncTaskInv, QueueInv
  <2>2. 1 .. Len(Queue) = {}
    BY <1>1
  <2> QED BY <2>1, <2>2 DEF Queue
<1>6. TypeOK' /\ QueueInv'
  <2>1. open' \in txg' .. txg' + 2
    BY <1>4
  <2> QED BY <1>1, <2>1 DEF SyncTaskInv, TypeOK, QueueInv
<1>7. ListInv'
  <2>1. ASSUME NEW d \in Callers, Listed(d) PROVE Entry(d)'
    <3>1. Entry(d) /\ dst_txg[d] \in Nat /\ dst_txg[d] # txg
      BY <1>3, <1>5, <2>1 DEF SyncTaskInv, ListInv
    <3>2. dst_txg'[d] \in txg' .. open'
      BY <1>1, <1>4, <3>1 DEF Entry
    <3> QED BY <1>1, <3>1, <3>2 DEF Entry
  <2> QED BY <1>1, <1>2, <2>1 DEF SyncTaskInv, ListInv
<1>8. CallInv'
  <2>1. ASSUME NEW d \in Callers PROVE CallOK(d)'
    <3>1. CallOK(d) /\ dst_txg[d] \in Nat
      BY <1>3 DEF SyncTaskInv, CallInv
    <3>2. Holding(d)' => dst_txg'[d] \in txg' .. open' /\ (dst_txg'[d] = txg' => pc' = "idle")
      BY <1>1, <1>4, <3>1 DEF CallOK, Holding
    <3>3. durable'[d] = applied'[d]
      BY <1>1
    <3>4. dst_txg[d] \in 0 .. txg => dst_txg'[d] \in 0 .. txg' /\ dst_txg'[d] # txg'
      BY <1>1, <1>4, <3>1
    <3> QED BY <1>1, <1>2, <3>1, <3>2, <3>3, <3>4 DEF CallOK
  <2> QED BY <2>1 DEF CallInv
<1>9. SyncInv'
  BY <1>1, <1>4 DEF SyncTaskInv, SyncInv
<1>10. DataInv'
  <2>1. Sound(mos) /\ NamesOf(mos.datasets) = mos.names /\ After' = mos'
    BY <1>1 DEF SyncTaskInv, DataInv, After
  <2>2. Sound(mos)'
    <3>1. \A t : t \in 0 .. txg => t \in Nat
      BY <1>3
    <3>2. Dated(mos.datasets)'
      BY <1>1, <1>4, <2>1, <3>1 DEF Sound, Dated
    <3> QED BY <1>1, <2>1, <3>2 DEF Sound, Distinct
  <2>3. Sound(disk)'
    BY <1>1, <2>2 DEF Sound, Distinct, Dated
  <2>4. durable' \in [Callers -> 0 .. 1] /\ \A c \in Callers : durable'[c] <= applied'[c]
    BY <1>1, <1>3
  <2>5. NamesOf(disk.datasets)' = disk'.names /\ NamesOf(mos.datasets)' = mos'.names
    BY <1>1, <2>1 DEF NamesOf
  <2> QED BY <1>1, <2>1, <2>2, <2>3, <2>4, <2>5 DEF SyncTaskInv, DataInv
<1> QED BY <1>6, <1>7, <1>8, <1>9, <1>10 DEF SyncTaskInv

\* The power fails: what was not on disk, and the callers that were told nothing,
\* are gone.
LEMMA CrashInv ==
  ASSUME SyncTaskInv, Crash PROVE SyncTaskInv'
<1>1. /\ call' = [c \in Callers |-> IF call[c] \in {"idle", "done"} THEN call[c] ELSE "gone"]
      /\ tasks' = [s \in DOMAIN tasks |-> <<>>] /\ heap' = {}
      /\ mos' = disk /\ applied' = durable
      /\ readers' = {} /\ writer' = FALSE /\ seen' = [r \in Readers |-> {}]
      /\ open' = txg /\ pc' = "idle" /\ current' = <<>>
      /\ UNCHANGED <<dst_txg, dst_error, txg, disk, durable>>
  BY DEF Crash
<1>2. /\ call \in [Callers -> {"idle", "assigned", "checking", "checked", "queued",
                               "waiting", "again", "top", "done", "gone"}]
      /\ tasks \in [Slots -> Seq(Callers)] /\ txg \in Nat
      /\ durable \in [Callers -> 0 .. 1] /\ applied \in [Callers -> 0 .. 1]
  BY DEF SyncTaskInv, TypeOK, QueueInv, SyncInv, DataInv
<1>3. /\ tasks' \in [Slots -> Seq(Callers)] /\ \A s \in Slots : tasks'[s] = <<>>
  BY <1>1, <1>2
<1>4. \A s \in Slots : 1 .. Len(tasks'[s]) = {}
  BY <1>3
<1>5. \A d : ~ Listed(d)'
  BY <1>4 DEF Listed
<1>6. TypeOK'
  <2>1. call' \in [Callers -> {"idle", "assigned", "checking", "checked", "queued",
                               "waiting", "again", "top", "done", "gone"}]
    BY <1>1, <1>2
  <2>2. open' \in txg' .. txg' + 2
    BY <1>1, <1>2
  <2> QED BY <1>1, <1>2, <2>1, <2>2 DEF SyncTaskInv, TypeOK
<1>7. QueueInv'
  BY <1>3, <1>4 DEF QueueInv
<1>8. ListInv'
  BY <1>1, <1>5 DEF ListInv
<1>9. CallInv'
  <2>1. ASSUME NEW d \in Callers PROVE CallOK(d)'
    <3>1. CallOK(d) /\ durable[d] \in 0 .. 1 /\ applied[d] \in 0 .. 1 /\ durable[d] <= applied[d]
      BY <1>2 DEF SyncTaskInv, CallInv, DataInv
    <3>2. call'[d] = (IF call[d] \in {"idle", "done"} THEN call[d] ELSE "gone")
      BY <1>1
    <3>3. applied[d] = 0 => durable[d] = 0
      BY <3>1
    <3>4. CASE call[d] = "idle"
      BY <1>1, <1>5, <3>1, <3>2, <3>3, <3>4 DEF CallOK, Holding
    <3>5. CASE call[d] = "done"
      BY <1>1, <1>5, <3>1, <3>2, <3>5 DEF CallOK, Holding
    <3>6. CASE call[d] \notin {"idle", "done"}
      BY <3>2, <3>6 DEF CallOK, Holding
    <3> QED BY <3>4, <3>5, <3>6
  <2> QED BY <2>1 DEF CallInv
<1>10. SyncInv'
  BY <1>1, <1>2 DEF SyncInv
<1>11. DataInv'
  <2>1. Sound(disk) /\ NamesOf(disk.datasets) = disk.names
    BY DEF SyncTaskInv, DataInv
  <2>2. Sound(disk)' /\ Sound(mos)' /\ After' = mos'
    BY <1>1, <2>1 DEF Sound, Distinct, Dated, After
  <2>3. NamesOf(disk.datasets)' = disk'.names /\ NamesOf(mos.datasets)' = mos'.names
    BY <1>1, <2>1 DEF NamesOf
  <2>4. durable' \in [Callers -> 0 .. 1] /\ \A c \in Callers : durable'[c] <= applied'[c]
    BY <1>1, <1>2
  <2>5. DOMAIN seen' = Readers /\ readers' \cap Readers = {}
    BY <1>1
  <2> QED BY <1>1, <2>2, <2>3, <2>4, <2>5 DEF DataInv
<1> QED BY <1>6, <1>7, <1>8, <1>9, <1>10, <1>11 DEF SyncTaskInv

-----------------------------------------------------------------------------
(* The execution of a task.                                                *)

\* The task taken off the list belongs to the syncing txg, and its caller, if it
\* has one that waits, waits.
LEMMA Taken ==
  ASSUME SyncTaskInv, pc = "tasks", Queue # <<>>, UNCHANGED dst_txg,
         tasks' = [tasks EXCEPT ![Slot(txg)] = Tail(@)],
         NEW c, c = Head(Queue)
  PROVE  /\ c \in Callers /\ dst_txg[c] = txg /\ applied[c] = 0 /\ dst_error[c] = "ok"
         /\ \/ call[c] = "waiting" /\ c \notin NoWait
            \/ call[c] = "done" /\ c \in NoWait
         /\ QueueInv' /\ \A d \in Callers : Listed(d)' <=> Listed(d) /\ d # c
<1>1. /\ c \in Callers /\ Listed(c) /\ Slot(dst_txg[c]) = Slot(txg)
      /\ QueueInv' /\ \A d \in Callers : Listed(d)' <=> Listed(d) /\ d # c
  BY Removed DEF SyncTaskInv, SyncInv
<1>2. Entry(c) /\ CallOK(c)
  BY <1>1 DEF SyncTaskInv, ListInv, CallInv
<1>3. dst_txg[c] = txg
  <2>1. txg \in Nat /\ open \in txg .. txg + 2 /\ dst_txg[c] \in txg .. open
    BY <1>2 DEF SyncTaskInv, SyncInv, TypeOK, Entry
  <2>2. txg \in txg .. txg + 2 /\ dst_txg[c] \in txg .. txg + 2
    BY <2>1
  <2> QED BY <1>1, <2>1, <2>2, SlotInjective
<1>4. call[c] # "queued"
  BY <1>2, <1>3 DEF CallOK, Holding
<1>5. \/ call[c] = "waiting" /\ c \notin NoWait
      \/ call[c] = "done" /\ c \in NoWait
  BY <1>2, <1>4 DEF Entry, CallOK
<1> QED BY <1>1, <1>2, <1>3, <1>5 DEF Entry

\* The lists and the callers when task c ends with error e or is executed.
LEMMA TakenInv ==
  ASSUME SyncTaskInv, pc = "tasks", Queue # <<>>,
         tasks' = [tasks EXCEPT ![Slot(txg)] = Tail(@)],
         UNCHANGED <<call, dst_txg, open, txg, readers, seen, disk, durable>>,
         NEW c, c = Head(Queue), NEW e \in {"ok", "EAGAIN", "EEXIST", "EBUSY", "ENOSPC"},
         dst_error' = [dst_error EXCEPT ![c] = e],
         \/ e # "ok" /\ heap' = heap \ {c} /\ UNCHANGED <<pc, current, writer, applied>>
         \/ /\ e = "ok" /\ heap' = heap /\ readers = {}
            /\ pc' = "syncfunc" /\ current' = <<c>> /\ writer' = TRUE
            /\ applied' = [applied EXCEPT ![c] = @ + 1]
  PROVE  TypeOK' /\ QueueInv' /\ ListInv' /\ CallInv' /\ SyncInv'
<1>1. /\ c \in Callers /\ dst_txg[c] = txg /\ applied[c] = 0 /\ dst_error[c] = "ok"
      /\ \/ call[c] = "waiting" /\ c \notin NoWait
         \/ call[c] = "done" /\ c \in NoWait
      /\ QueueInv' /\ \A d \in Callers : Listed(d)' <=> Listed(d) /\ d # c
  BY Taken
<1>2. /\ dst_error \in [Callers -> {"ok", "EAGAIN", "EEXIST", "EBUSY", "ENOSPC"}]
      /\ applied \in [Callers -> 0 .. 1] /\ txg \in Nat /\ current = <<>> /\ writer = FALSE
      /\ heap \in SUBSET NoWait /\ txg < open
  BY DEF SyncTaskInv, TypeOK, SyncInv
<1>3. /\ dst_error' \in [Callers -> {"ok", "EAGAIN", "EEXIST", "EBUSY", "ENOSPC"}] /\ dst_error'[c] = e
      /\ \A d \in Callers : d # c => dst_error'[d] = dst_error[d]
  BY <1>1, <1>2
<1>4. /\ applied' \in [Callers -> 0 .. 1] /\ applied'[c] = (IF e = "ok" THEN 1 ELSE 0)
      /\ \A d \in Callers : d # c => applied'[d] = applied[d]
  BY <1>1, <1>2
<1>5. /\ pc' # "idle" /\ pc' \in {"tasks", "syncfunc"} /\ writer' = (pc' = "syncfunc")
      /\ (pc' = "tasks" => current' = <<>>) /\ (pc' = "syncfunc" => current' = <<c>> /\ readers' = {})
      /\ heap' \in SUBSET NoWait
  <2>1. CASE e # "ok" /\ heap' = heap \ {c} /\ UNCHANGED <<pc, current, writer, applied>>
    <3>1. pc' = "tasks" /\ current' = <<>> /\ writer' = FALSE /\ heap' \in SUBSET NoWait
      BY <1>2, <2>1
    <3> QED BY <3>1
  <2>2. CASE e = "ok" /\ heap' = heap /\ readers = {} /\ pc' = "syncfunc" /\ current' = <<c>> /\ writer' = TRUE
    BY <1>2, <2>2
  <2> QED BY <2>1, <2>2
<1>6. TypeOK'
  BY <1>3, <1>4, <1>5 DEF SyncTaskInv, TypeOK
<1>7. ListInv'
  <2>1. ASSUME NEW d \in Callers, Listed(d), d # c PROVE Entry(d)'
    <3>1. Entry(d)
      BY <2>1 DEF SyncTaskInv, ListInv
    <3>2. current' # <<d>>
      <4>1. <<c>>[1] = c /\ <<d>>[1] = d /\ <<>> # <<d>>
        OBVIOUS
      <4> QED BY <1>5, <2>1, <4>1
    <3>3. d \in NoWait => d \in heap'
      BY <2>1, <3>1 DEF Entry
    <3> QED BY <1>3, <1>4, <2>1, <3>1, <3>2, <3>3 DEF Entry
  <2>2. ASSUME NEW d \in heap' PROVE Listed(d)' \/ current' = <<d>>
    <3>1. d \in heap /\ d \in Callers /\ (d = c => current' = <<d>>)
      BY <1>2, SyncTaskAssumption
    <3>2. current # <<d>>
      <4>1. <<>> # <<d>>
        OBVIOUS
      <4> QED BY <1>2, <4>1
    <3>3. Listed(d)
      BY <3>1, <3>2 DEF SyncTaskInv, ListInv
    <3> QED BY <1>1, <3>1, <3>3
  <2> QED BY <1>1, <2>1, <2>2 DEF ListInv
<1>8. CallInv'
  <2>1. ASSUME NEW d \in Callers, d # c PROVE CallOK(d)'
    <3>1. CallOK(d) /\ (Listed(d)' <=> Listed(d))
      BY <1>1, <2>1 DEF SyncTaskInv, CallInv
    <3>2. Holding(d)' => dst_txg'[d] \in txg' .. open' /\ (dst_txg'[d] = txg' => pc' = "idle")
      BY <3>1 DEF CallOK, Holding
    <3> QED BY <1>3, <1>4, <1>5, <2>1, <3>1, <3>2 DEF CallOK
  <2>2. CallOK(c)'
    <3>1. dst_txg'[c] \in 0 .. txg' /\ ~ (dst_txg'[c] < txg')
      BY <1>1, <1>2
    <3>2. ~ Holding(c)'
      BY <1>1 DEF Holding
    <3>3. CASE call[c] = "waiting" /\ c \notin NoWait
      BY <1>3, <1>4, <1>5, <3>1, <3>2, <3>3 DEF CallOK
    <3>4. CASE call[c] = "done" /\ c \in NoWait
      BY <3>2, <3>4 DEF CallOK
    <3> QED BY <1>1, <3>3, <3>4
  <2> QED BY <2>1, <2>2 DEF CallInv
<1>9. SyncInv'
  <2>1. pc' = "syncfunc" => Executing(c)'
    BY <1>1, <1>5 DEF Executing
  <2> QED BY <1>1, <1>2, <1>5, <2>1 DEF SyncInv
<1> QED BY <1>1, <1>6, <1>7, <1>8, <1>9

LEMMA NoSpaceInv ==
  ASSUME SyncTaskInv, TaskNoSpace PROVE SyncTaskInv'
<1> DEFINE c == Head(Queue)
<1>1. /\ pc = "tasks" /\ Queue # <<>>
      /\ tasks' = [tasks EXCEPT ![Slot(txg)] = Tail(@)]
      /\ dst_error' = [dst_error EXCEPT ![c] = "ENOSPC"] /\ heap' = heap \ {c}
      /\ UNCHANGED <<call, dst_txg, open, txg, pc, current, readers, writer, seen, mos, disk, applied, durable>>
  BY DEF TaskNoSpace, Spent, syncVars, lockVars, dataVars
<1>2. TypeOK' /\ QueueInv' /\ ListInv' /\ CallInv' /\ SyncInv'
  BY <1>1, TakenInv
<1>3. DataInv'
  BY <1>1, AfterSame DEF SyncTaskInv, DataInv, Sound, Dated
<1> QED BY <1>2, <1>3 DEF SyncTaskInv

\* ds_prev_snap_txg is that of the latest snapshot.
LEMMA PrevSnap ==
  ASSUME SyncTaskInv
  PROVE  PrevSnapTxg \in Nat /\ \A d \in mos.datasets : d.kind = "snapshot" => d.txg <= PrevSnapTxg
<1> DEFINE S == {0} \cup {d.txg : d \in {x \in mos.datasets : x.kind = "snapshot"}}
<1>1. txg \in Nat /\ \A d \in mos.datasets : d.txg \in 0 .. txg
  BY DEF SyncTaskInv, SyncInv, DataInv, Sound, Dated
<1>2. S \in SUBSET Nat /\ S # {} /\ \A s \in S : s <= txg
  BY <1>1
<1>3. \A d \in mos.datasets : d.kind = "snapshot" => d.txg \in S
  OBVIOUS
<1>4. PrevSnapTxg = Max(S)
  BY DEF PrevSnapTxg
<1> HIDE DEF S
<1>5. Max(S) \in S /\ \A s \in S : s <= Max(S)
  BY <1>1, <1>2, Greatest
<1> QED BY <1>2, <1>3, <1>4, <1>5

\* The check in syncing context.
LEMMA SyncCheck ==
  ASSUME SyncTaskInv, NEW c \in Callers
  PROVE  /\ Recheck(c) \in {"ok", "EAGAIN", "EEXIST", "EBUSY", "ENOSPC"}
         /\ Recheck(c) = "ok" /\ c \notin NoWait /\ Kind[c] # "destroy" => Name[c] \notin mos.names
         /\ Recheck(c) = "ok" /\ c \notin NoWait /\ Kind[c] = "snapshot" => ~ (PrevSnapTxg >= dst_txg[c])
<1>1. Kind[c] \in {"snapshot", "create", "destroy"}
  BY SyncTaskAssumption
<1>2. /\ dmu_objset_create_check(c) \in {"ok", "EEXIST"}
      /\ dmu_objset_create_check(c) = "ok" => Name[c] \notin mos.names
  BY DEF dmu_objset_create_check
<1>3. /\ dsl_dataset_snapshot_check(c, TRUE) \in {"ok", "EAGAIN", "EEXIST"}
      /\ dsl_dataset_snapshot_check(c, TRUE) = "ok" => Name[c] \notin mos.names /\ ~ (PrevSnapTxg >= dst_txg[c])
  <2>1. (PrevSnapTxg < dst_txg[c]) = ~ (PrevSnapTxg >= dst_txg[c])
    <3>1. PrevSnapTxg \in Nat /\ dst_txg[c] \in Nat
      BY PrevSnap DEF SyncTaskInv, TypeOK
    <3> QED BY <3>1
  <2>2. CASE PrevSnapTxg >= dst_txg[c]
    <3>1. dsl_dataset_snapshot_check(c, TRUE) = "EAGAIN"
      BY <2>1, <2>2 DEF dsl_dataset_snapshot_check
    <3> QED BY <3>1
  <2>3. CASE ~ (PrevSnapTxg >= dst_txg[c]) /\ Name[c] \in mos.names
    <3>1. dsl_dataset_snapshot_check(c, TRUE) = "EEXIST"
      BY <2>1, <2>3 DEF dsl_dataset_snapshot_check
    <3> QED BY <3>1
  <2>4. CASE ~ (PrevSnapTxg >= dst_txg[c]) /\ Name[c] \notin mos.names
    <3>1. dsl_dataset_snapshot_check(c, TRUE) = "ok"
      BY <2>1, <2>4 DEF dsl_dataset_snapshot_check
    <3> QED BY <2>4, <3>1
  <2> QED BY <2>2, <2>3, <2>4
<1>4. CASE c \in NoWait
  BY <1>4 DEF Recheck, CheckFunc
<1>5. CASE c \notin NoWait /\ Kind[c] = "snapshot"
  BY <1>3, <1>5 DEF Recheck, CheckFunc
<1>6. CASE c \notin NoWait /\ Kind[c] = "create"
  BY <1>2, <1>6 DEF Recheck, CheckFunc
<1>7. CASE c \notin NoWait /\ Kind[c] = "destroy"
  <2>1. dsl_destroy_snapshot_check(c, TRUE) \in {"ok", "EBUSY"}
    BY DEF dsl_destroy_snapshot_check
  <2> QED BY <1>7, <2>1 DEF Recheck, CheckFunc
<1> QED BY <1>1, <1>4, <1>5, <1>6, <1>7

\* What a syncfunc adds is distinct from what was there: the check holds.
LEMMA StillDistinct ==
  ASSUME SyncTaskInv, pc = "tasks", NEW c \in Callers, dst_txg[c] = txg, Recheck(c) = "ok"
  PROVE  Distinct(DatasetHalf(c)) /\ Dated(DatasetHalf(c)) /\ NamesOf(DatasetHalf(c)) = NameHalf(c)
<1> DEFINE D == mos.datasets
           n == NewDataset(c)
<1>1. Distinct(D) /\ Dated(D) /\ NamesOf(D) = mos.names /\ txg \in Nat
  BY DEF SyncTaskInv, DataInv, Sound, SyncInv, After
<1>2. CASE Kind[c] = "destroy"
  <2>1. DatasetHalf(c) = {d \in D : d.name # Name[c]} /\ NameHalf(c) = mos.names \ {Name[c]}
    BY <1>2 DEF DatasetHalf, NameHalf
  <2>2. Distinct(DatasetHalf(c)) /\ Dated(DatasetHalf(c))
    BY <1>1, <2>1 DEF Distinct, Dated
  <2>3. NamesOf(DatasetHalf(c)) = NameHalf(c)
    BY <1>1, <2>1 DEF NamesOf
  <2> QED BY <2>2, <2>3
<1>3. CASE Kind[c] # "destroy"
  <2>1. DatasetHalf(c) = D \cup {n} /\ NameHalf(c) = mos.names \cup {Name[c]}
    BY <1>3 DEF DatasetHalf, NameHalf
  <2>2. n.name = Name[c] /\ n.kind = Kind[c] /\ n.txg = txg /\ n.by = c
    BY DEF NewDataset
  <2> HIDE DEF n
  <2>3. Dated(DatasetHalf(c))
    <3>1. txg \in 0 .. txg
      BY <1>1
    <3> QED BY <1>1, <2>1, <2>2, <3>1 DEF Dated
  <2>4. NamesOf(DatasetHalf(c)) = NameHalf(c)
    BY <1>1, <2>1, <2>2 DEF NamesOf
  <2>5. Distinct(DatasetHalf(c))
    <3>1. CASE c \in NoWait
      <4>1. {a \in DatasetHalf(c) : a.by \notin NoWait} = {a \in D : a.by \notin NoWait}
        BY <2>1, <2>2, <3>1
      <4> QED BY <1>1, <4>1 DEF Distinct
    <3>2. CASE c \notin NoWait
      <4>1. \A d \in D : d.name # n.name
        <5>1. Name[c] \notin NamesOf(D)
          BY <1>1, <1>3, <3>2, SyncCheck
        <5> QED BY <2>2, <5>1 DEF NamesOf
      <4>2. \A d \in D : ~ (d.kind = "snapshot" /\ n.kind = "snapshot" /\ d.txg = n.txg)
        <5> SUFFICES ASSUME NEW d \in D, d.kind = "snapshot", n.kind = "snapshot", d.txg = n.txg
                     PROVE  FALSE
          OBVIOUS
        <5>1. ~ (PrevSnapTxg >= txg)
          BY <2>2, <3>2, SyncCheck
        <5>2. PrevSnapTxg \in Nat /\ txg <= PrevSnapTxg
          BY <2>2, PrevSnap
        <5> QED BY <1>1, <5>1, <5>2
      <4> SUFFICES ASSUME NEW d \in DatasetHalf(c), d.by \notin NoWait,
                          NEW e \in DatasetHalf(c), e.by \notin NoWait,
                          d.name = e.name \/ (d.kind = "snapshot" /\ e.kind = "snapshot" /\ d.txg = e.txg)
                   PROVE  d = e
        BY DEF Distinct
      <4>3. CASE d \in D /\ e \in D
        BY <1>1, <4>3 DEF Distinct
      <4>4. CASE d = n \/ e = n
        BY <2>1, <4>1, <4>2, <4>4
      <4> QED BY <2>1, <4>3, <4>4
    <3> QED BY <3>1, <3>2
  <2> QED BY <2>3, <2>4, <2>5
<1> QED BY <1>2, <1>3

LEMMA TaskBeginInv ==
  ASSUME SyncTaskInv, TaskBegin PROVE SyncTaskInv'
<1> PICK c : c = Head(Queue)
  OBVIOUS
<1>1. /\ pc = "tasks" /\ Queue # <<>> /\ readers = {}
      /\ tasks' = [tasks EXCEPT ![Slot(txg)] = Tail(@)]
      /\ dst_error' = [dst_error EXCEPT ![c] = Recheck(c)]
      /\ UNCHANGED <<call, dst_txg, open, txg, readers, seen, disk, durable>>
  BY DEF TaskBegin, ConfigFree
<1>2. c \in Callers /\ dst_txg[c] = txg /\ applied[c] = 0
  BY <1>1, Taken
<1>3. Recheck(c) \in {"ok", "EAGAIN", "EEXIST", "EBUSY", "ENOSPC"}
  BY <1>2, SyncCheck
<1>4. CASE /\ Recheck(c) # "ok" /\ heap' = heap \ {c}
           /\ UNCHANGED <<pc, current, writer, mos, applied>>
  <2>1. TypeOK' /\ QueueInv' /\ ListInv' /\ CallInv' /\ SyncInv'
    BY <1>1, <1>3, <1>4, TakenInv
  <2>2. DataInv'
    BY <1>1, <1>4, AfterSame DEF SyncTaskInv, DataInv, Sound, Dated
  <2> QED BY <2>1, <2>2 DEF SyncTaskInv
<1>5. CASE /\ Recheck(c) = "ok" /\ pc' = "syncfunc" /\ current' = <<c>> /\ writer' = TRUE
           /\ mos' = SyncFunc(c, 1)
           /\ applied' = [applied EXCEPT ![c] = @ + 1] /\ UNCHANGED heap
  <2>1. TypeOK' /\ QueueInv' /\ ListInv' /\ CallInv' /\ SyncInv'
    BY <1>1, <1>3, <1>5, TakenInv
  <2>2. Distinct(DatasetHalf(c)) /\ Dated(DatasetHalf(c)) /\ NamesOf(DatasetHalf(c)) = NameHalf(c)
    BY <1>1, <1>2, <1>5, StillDistinct
  <2>3. Sound(mos)
    BY DEF SyncTaskInv, DataInv
  <2>4. /\ DOMAIN mos' = {"names", "datasets"} /\ mos'.datasets \in {mos.datasets, DatasetHalf(c)}
        /\ DOMAIN After' = {"names", "datasets"}
        /\ After'.datasets = DatasetHalf(c) /\ After'.names = NameHalf(c)
    BY <1>1, <1>2, <1>5, <2>3, BothHalves DEF Sound
  <2>5. Sound(mos)' /\ Sound(After)' /\ NamesOf(After.datasets)' = After'.names
    BY <1>1, <2>2, <2>3, <2>4 DEF Sound, Distinct, Dated, NamesOf
  <2>6. durable' \in [Callers -> 0 .. 1] /\ \A d \in Callers : durable'[d] <= applied'[d]
    <3>1. /\ durable \in [Callers -> 0 .. 1] /\ applied \in [Callers -> 0 .. 1]
          /\ \A d \in Callers : durable[d] <= applied[d]
      BY DEF SyncTaskInv, TypeOK, DataInv
    <3> QED BY <1>1, <1>2, <1>5, <3>1
  <2>7. DOMAIN seen' = Readers /\ readers' \cap Readers = {}
    BY <1>1 DEF SyncTaskInv, DataInv
  <2>8. Sound(disk)' /\ NamesOf(disk.datasets)' = disk'.names
    BY <1>1 DEF SyncTaskInv, DataInv, Sound, Distinct, Dated, NamesOf
  <2>9. DataInv'
    BY <2>5, <2>6, <2>7, <2>8 DEF DataInv
  <2> QED BY <2>1, <2>9 DEF SyncTaskInv
<1> QED BY <1>4, <1>5 DEF TaskBegin

LEMMA TaskEndInv ==
  ASSUME SyncTaskInv, TaskEnd PROVE SyncTaskInv'
<1>1. /\ pc = "syncfunc" /\ mos' = SyncFunc(current[1], 2)
      /\ writer' = FALSE /\ heap' = heap \ {current[1]} /\ pc' = "tasks" /\ current' = <<>>
      /\ UNCHANGED <<call, dst_txg, dst_error, tasks, open, txg, readers, seen, disk, applied, durable>>
  BY DEF TaskEnd, callVars
<1>2. PICK c \in Callers : Executing(c)
  BY <1>1 DEF SyncTaskInv, SyncInv
<1>3. current = <<c>> /\ current[1] = c /\ readers = {}
  BY <1>1, <1>2 DEF Executing, SyncTaskInv, SyncInv
<1>4. \A d : Listed(d)' <=> Listed(d)
  BY <1>1 DEF Listed
<1>5. TypeOK' /\ QueueInv'
  BY <1>1 DEF SyncTaskInv, TypeOK, QueueInv
<1>6. ListInv'
  <2>1. ASSUME NEW d \in Callers, Listed(d) PROVE Entry(d)'
    <3>1. Entry(d)
      BY <2>1 DEF SyncTaskInv, ListInv
    <3>2. d # c
      BY <1>3, <3>1 DEF Entry
    <3>3. <<>> # <<d>>
      OBVIOUS
    <3> QED BY <1>1, <1>3, <3>1, <3>2, <3>3 DEF Entry
  <2>2. ASSUME NEW d \in heap' PROVE Listed(d)'
    <3>1. d \in heap /\ d # c
      BY <1>1, <1>3
    <3>2. <<c>> # <<d>>
      <4>1. <<c>>[1] = c /\ <<d>>[1] = d
        OBVIOUS
      <4> QED BY <3>1, <4>1
    <3> QED BY <1>3, <1>4, <3>1, <3>2 DEF SyncTaskInv, ListInv
  <2> QED BY <1>4, <2>1, <2>2 DEF ListInv
<1>7. CallInv'
  <2>1. ASSUME NEW d \in Callers PROVE CallOK(d)'
    <3>1. CallOK(d)
      BY DEF SyncTaskInv, CallInv
    <3> QED BY <1>1, <1>4, <3>1 DEF CallOK, Holding
  <2> QED BY <2>1 DEF CallInv
<1>8. SyncInv'
  BY <1>1 DEF SyncTaskInv, SyncInv
<1>9. DataInv'
  <2>1. Sound(After) /\ NamesOf(After.datasets) = After.names
    BY DEF SyncTaskInv, DataInv
  <2>2. mos' = After /\ After' = After
    BY <1>1 DEF After
  <2>3. Sound(mos)' /\ Sound(After)' /\ NamesOf(After.datasets)' = After'.names
    BY <1>1, <2>1, <2>2 DEF Sound, Distinct, Dated, NamesOf
  <2>4. Sound(disk)' /\ NamesOf(disk.datasets)' = disk'.names
    BY <1>1 DEF SyncTaskInv, DataInv, Sound, Distinct, Dated, NamesOf
  <2>5. DOMAIN seen' = Readers /\ readers' \cap Readers = {}
    BY <1>1, <1>3 DEF SyncTaskInv, DataInv
  <2>6. durable' \in [Callers -> 0 .. 1] /\ \A d \in Callers : durable'[d] <= applied'[d]
    BY <1>1 DEF SyncTaskInv, DataInv
  <2> QED BY <1>1, <2>3, <2>4, <2>5, <2>6 DEF DataInv
<1> QED BY <1>5, <1>6, <1>7, <1>8, <1>9 DEF SyncTaskInv

-----------------------------------------------------------------------------
(* The theorems.                                                           *)

LEMMA InitInv ==
  ASSUME Init PROVE SyncTaskInv
<1>1. \A s \in Slots : tasks[s] = <<>>
  BY DEF Init, Slots
<1>2. \A s \in Slots : 1 .. Len(tasks[s]) = {}
  BY <1>1
<1>3. \A c : ~ Listed(c)
  BY <1>2 DEF Listed
<1>4. QueueInv
  <2>1. tasks \in [Slots -> Seq(Callers)]
    BY DEF Init, Slots
  <2> QED BY <1>2, <2>1 DEF QueueInv
<1>5. TypeOK
  <2>1. dst_txg \in [Callers -> Nat] /\ applied \in [Callers -> 0 .. 1] /\ open \in txg .. txg + 2
    BY DEF Init, FirstTxg
  <2>2. /\ call \in [Callers -> {"idle", "assigned", "checking", "checked", "queued",
                                 "waiting", "again", "top", "done", "gone"}]
        /\ dst_error \in [Callers -> {"ok", "EAGAIN", "EEXIST", "EBUSY", "ENOSPC"}]
    BY DEF Init
  <2>3. heap \subseteq NoWait /\ readers \subseteq Callers \cup Readers /\ writer \in BOOLEAN
    BY DEF Init
  <2> QED BY <2>1, <2>2, <2>3 DEF TypeOK
<1>6. ListInv
  BY <1>3 DEF ListInv, Init
<1>7. CallInv
  BY <1>3 DEF CallInv, CallOK, Holding, Init
<1>8. SyncInv
  BY DEF SyncInv, Init, FirstTxg
<1>9. DataInv
  <2>1. DOMAIN mos = {"names", "datasets"} /\ mos.names = {} /\ mos.datasets = {} /\ disk = mos
    BY DEF Init
  <2>2. Sound(mos) /\ Sound(disk) /\ After = mos
    BY <2>1 DEF Sound, Distinct, Dated, After, Init
  <2>3. NamesOf(mos.datasets) = mos.names /\ NamesOf(disk.datasets) = disk.names
    BY <2>1 DEF NamesOf
  <2>4. durable \in [Callers -> 0 .. 1] /\ \A c \in Callers : durable[c] <= applied[c]
    BY DEF Init
  <2>5. DOMAIN seen = Readers /\ readers = {} /\ pc = "idle"
    BY DEF Init
  <2> QED BY <2>2, <2>3, <2>4, <2>5 DEF DataInv
<1> QED BY <1>4, <1>5, <1>6, <1>7, <1>8, <1>9 DEF SyncTaskInv

LEMMA StutterInv ==
  ASSUME SyncTaskInv, UNCHANGED vars PROVE SyncTaskInv'
<1>1. UNCHANGED <<callVars, taskVars, txg, current, lockVars, dataVars, pc, open>>
  BY DEF vars, syncVars
<1>2. /\ txg \in Nat /\ open \in txg .. txg + 2 /\ (pc # "idle" => txg < open)
  BY DEF SyncTaskInv, SyncInv, TypeOK
<1>3. open' \in txg .. txg + 2 /\ open <= open' /\ (pc' # "idle" => txg < open')
  BY <1>1, <1>2
<1> QED BY <1>1, <1>3, GroupFrame

LEMMA StepInv ==
  ASSUME SyncTaskInv, [Next]_vars PROVE SyncTaskInv'
<1>1. ASSUME NEW c \in Callers, CallerStep(c) PROVE SyncTaskInv'
  BY <1>1, AssignInv, EnterInv, CheckInv, EnqueueInv, CommitInv, WaitInv, AgainInv DEF CallerStep
<1>2. ASSUME NEW r \in Readers, ReadNames(r) \/ ReadEnd(r) PROVE SyncTaskInv'
  BY <1>2, ReadInv
<1>3. CASE OpenNext \/ SyncStep \/ Crash
  BY <1>3, OpenInv, BeginInv, NoSpaceInv, TaskBeginInv, TaskEndInv, EndInv, CrashInv DEF SyncStep
<1> QED BY <1>1, <1>2, <1>3, StutterInv DEF Next

\* The invariant of the sync tasks.
THEOREM Invariance == Spec => []SyncTaskInv
<1>1. Init => SyncTaskInv
  BY InitInv
<1>2. SyncTaskInv /\ [Next]_vars => SyncTaskInv'
  BY StepInv
<1> QED BY <1>1, <1>2, PTL DEF Spec

\* dsl_sync_task returns 0 only for what was executed once and is on disk, an
\* error only for what was not executed, and never EAGAIN; the tasks on the
\* lists exist, and nothing that dsl_sync_task_nowait allocated is left.
THEOREM ReturnIsTrue == Spec => []ReturnsTruth
<1>1. SyncTaskInv => ReturnsTruth
  <2> SUFFICES ASSUME SyncTaskInv PROVE ReturnsTruth
    OBVIOUS
  <2>1. ASSUME NEW c \in Callers \ NoWait, call[c] = "done"
        PROVE  /\ durable[c] = (IF dst_error[c] = "ok" THEN 1 ELSE 0)
               /\ applied[c] = durable[c] /\ dst_error[c] # "EAGAIN"
    BY <2>1 DEF SyncTaskInv, CallInv, CallOK
  <2>2. tasks \in [Slots -> Seq(Callers)] /\ DOMAIN tasks = Slots
    BY DEF SyncTaskInv, QueueInv
  <2>3. \A s \in Slots : \A c : c \in Range(tasks[s]) <=> \E i \in 1 .. Len(tasks[s]) : tasks[s][i] = c
    BY <2>2 DEF Range
  <2>4. ASSUME NEW s \in DOMAIN tasks, NEW c \in Range(tasks[s])
        PROVE  IF c \in NoWait THEN c \in heap ELSE call[c] \in {"queued", "waiting"}
    <3>1. PICK i \in 1 .. Len(tasks[s]) : tasks[s][i] = c
      BY <2>2, <2>3, <2>4
    <3>2. c \in Callers
      BY <2>2, <2>4, <3>1
    <3>3. Listed(c)
      BY <2>2, <2>4, <3>1 DEF Listed
    <3>4. Entry(c)
      BY <3>2, <3>3 DEF SyncTaskInv, ListInv
    <3> QED BY <3>4 DEF Entry
  <2>5. ASSUME NEW c \in heap PROVE c \in (UNION {Range(tasks[s]) : s \in DOMAIN tasks}) \cup Range(current)
    <3>1. CASE Listed(c)
      <4>1. PICK s \in Slots : \E i \in 1 .. Len(tasks[s]) : tasks[s][i] = c
        BY <3>1 DEF Listed
      <4>2. c \in Range(tasks[s])
        BY <2>3, <4>1
      <4> QED BY <2>2, <4>1, <4>2
    <3>2. CASE current = <<c>>
      <4>1. c \in Range(current)
        BY <3>2 DEF Range
      <4> QED BY <4>1
    <3> QED BY <3>1, <3>2 DEF SyncTaskInv, ListInv
  <2> QED BY <2>1, <2>4, <2>5 DEF ReturnsTruth
<1> QED BY <1>1, Invariance, PTL

\* Under the configuration lock names and datasets agree, no name and no txg of a
\* snapshot is taken twice, and a power failure leaves no half of a syncfunc.
THEOREM LookupIsWhole == Spec => []LookupsWhole
<1>1. SyncTaskInv => LookupsWhole
  <2> SUFFICES ASSUME SyncTaskInv PROVE LookupsWhole
    OBVIOUS
  <2>1. Distinct(mos.datasets) /\ NamesOf(disk.datasets) = disk.names
    BY DEF SyncTaskInv, DataInv, Sound
  <2>2. ASSUME NEW r \in readers \cap Readers PROVE seen[r] = NamesOf(mos.datasets)
    <3>1. pc # "syncfunc"
      BY <2>2 DEF SyncTaskInv, SyncInv
    <3> QED BY <2>2, <3>1 DEF SyncTaskInv, DataInv, After
  <2> QED BY <2>1, <2>2 DEF LookupsWhole, Distinct, NamesOf
<1> QED BY <1>1, Invariance, PTL

-----------------------------------------------------------------------------
(* The transactions of DmuTx.                                              *)

CONSTANTS Txs, Dnodes, Holds, Space, How, Continue, DirtyMax, DelayMin, MayFail, MaxRestart, MaxSuspend

VARIABLES tx_open, drained, synced, tx, dn_assigned_txg, dn_tx_holds, dp_dirty_total,
          dp_dirty_pertxg, sleepers, suspended, restarts, suspends

Dt == INSTANCE DmuTx WITH open <- tx_open

Places ==
  {"new", "holding", "assigned", "unassign", "restart", "throttled", "waitSynced",
   "waitDnode", "waitOpen", "failed", "done"}

TxType ==
  [pc : Places, txg : Nat, lasttried : Nat, waited : BOOLEAN, wait_dirty : BOOLEAN,
   at : Nat \ {0}, need : Nat, left : Nat, err : {"none", "ERESTART", "ENOSPC", "EIO"}]

Types ==
  /\ tx_open \in Nat /\ drained \in Nat /\ synced \in Nat
  /\ tx \in [Txs -> TxType]
  /\ dn_assigned_txg \in [Dnodes -> Nat]
  /\ dn_tx_holds \in [Dnodes -> SUBSET (Txs \X (Nat \ {0}))]
  /\ dp_dirty_total \in Int /\ dp_dirty_pertxg \in [0 .. Dt!TXG_MASK -> Nat]

\* One txg is open, one may have holders left, and one may be syncing.
Pipeline ==
  /\ synced > 0
  /\ drained = synced \/ drained = synced + 1
  /\ tx_open = drained + 1 \/ tx_open = drained + 2

InTxg(r) == r.pc \in {"holding", "assigned", "unassign"}

\* The dnodes that a transaction in state r has taken and not released, as positions
\* in tx_holds.
Held(r, x, i) ==
  /\ i <= Len(Holds[x])
  /\ \/ r.pc = "holding" /\ i < r.at
     \/ r.pc = "unassign" /\ r.at <= i /\ (r.need = 0 \/ i < r.need)
     \/ r.pc = "assigned" /\ r.at <= i

\* A transaction in a txg keeps it from quiescing, and from closing while it takes
\* dnodes.
Position(r, x) ==
  /\ InTxg(r) => r.txg \in drained + 1 .. tx_open
  /\ ~InTxg(r) => r.txg = 0
  /\ r.pc = "holding" => r.txg = tx_open /\ r.need = 0 /\ r.at <= Len(Holds[x]) + 1
  /\ r.pc = "unassign" => r.need <= Len(Holds[x])

Positions == \A x \in Txs : Position(tx[x], x)

\* A dnode has the holds that the transactions have on it, all in its txg.
TakenDnodes ==
  \A d \in Dnodes :
    /\ \A x \in Txs, i \in Nat \ {0} : <<x, i>> \in dn_tx_holds[d] <=> Held(tx[x], x, i) /\ Holds[x][i] = d
    /\ \A x \in Txs, i \in Nat \ {0} : <<x, i>> \in dn_tx_holds[d] => tx[x].txg = dn_assigned_txg[d]
    /\ dn_tx_holds[d] = {} <=> dn_assigned_txg[d] = 0

TxInv == Types /\ Pipeline /\ Positions /\ TakenDnodes /\ Dt!DirtyAccounted

-----------------------------------------------------------------------------
(* What moves one transaction.                                             *)

\* tx_holds is a sequence of dnodes.
LEMMA HoldsType ==
  ASSUME Dt!DmuTxAssumption, NEW x \in Txs
  PROVE  Len(Holds[x]) \in Nat /\ \A i \in 1 .. Len(Holds[x]) : Holds[x][i] \in Dnodes
BY DEF Dt!DmuTxAssumption

\* The others stay where they are.
LEMMA Moved ==
  ASSUME Types, NEW x \in Txs, NEW r \in TxType, Dt!Goes(x, r)
  PROVE  tx' \in [Txs -> TxType] /\ tx'[x] = r /\ \A y \in Txs : y # x => tx'[y] = tx[y]
BY DEF Types, Dt!Goes

\* The places.
LEMMA PlaceFacts ==
  /\ "new" \in Places /\ "holding" \in Places /\ "assigned" \in Places /\ "unassign" \in Places
  /\ "restart" \in Places /\ "throttled" \in Places /\ "waitSynced" \in Places
  /\ "waitDnode" \in Places /\ "waitOpen" \in Places /\ "failed" \in Places /\ "done" \in Places
BY DEF Places

\* Some numbers.
LEMMA NumberFacts == 0 \in Nat /\ 1 \in Nat \ {0}
OBVIOUS

\* The next position in tx_holds.
LEMMA NextAt ==
  ASSUME NEW s \in TxType
  PROVE  LET r == [s EXCEPT !.at = @ + 1]
         IN  r \in TxType /\ r.at = s.at + 1 /\ r.pc = s.pc /\ r.txg = s.txg /\ r.need = s.need
BY DEF TxType

\* The other transactions' positions stay right.
LEMMA PositionsSame ==
  ASSUME Types, Positions, NEW x \in Txs, NEW r \in TxType, Dt!Goes(x, r), Position(r, x), UNCHANGED Dt!pipeVars
  PROVE  Positions'
<1>1. tx'[x] = r /\ \A y \in Txs : y # x => tx'[y] = tx[y]
  BY Moved
<1>2. \A y \in Txs : Position(tx'[y], y)
  BY <1>1 DEF Positions
<1> QED
  BY <1>2 DEF Positions, Position, Dt!pipeVars

\* Nothing changes for the dnodes when a transaction keeps its holds and its txg.
LEMMA TakenSame ==
  ASSUME Types, TakenDnodes, NEW x \in Txs, NEW r \in TxType, Dt!Goes(x, r), UNCHANGED Dt!dnVars,
         \A i \in Nat \ {0} : Held(r, x, i) <=> Held(tx[x], x, i),
         \A i \in Nat \ {0} : Held(tx[x], x, i) => r.txg = tx[x].txg
  PROVE  TakenDnodes'
<1>1. tx'[x] = r /\ \A y \in Txs : y # x => tx'[y] = tx[y]
  BY Moved
<1>2. \A y \in Txs, i \in Nat \ {0} : Held(tx'[y], y, i) <=> Held(tx[y], y, i)
  BY <1>1
<1>3. \A y \in Txs, i \in Nat \ {0} : Held(tx[y], y, i) => tx'[y].txg = tx[y].txg
  BY <1>1
<1> QED
  BY <1>2, <1>3 DEF TakenDnodes, Dt!dnVars

\* The dirty data is untouched.
LEMMA DirtySame ==
  ASSUME Dt!DirtyAccounted, UNCHANGED <<tx_open, synced, dp_dirty_total, dp_dirty_pertxg>> PROVE Dt!DirtyAccounted'
BY DEF Dt!DirtyAccounted

\* A transaction goes on with the same holds.
LEMMA Stays ==
  ASSUME Dt!DmuTxAssumption, TxInv, NEW x \in Txs, NEW r \in TxType, Dt!Goes(x, r), Position(r, x),
         \A i \in Nat \ {0} : Held(r, x, i) <=> Held(tx[x], x, i),
         \A i \in Nat \ {0} : Held(tx[x], x, i) => r.txg = tx[x].txg,
         UNCHANGED <<Dt!pipeVars, Dt!dnVars, dp_dirty_total, dp_dirty_pertxg>>
  PROVE  TxInv'
<1>1. tx' \in [Txs -> TxType] /\ tx'[x] = r /\ \A y \in Txs : y # x => tx'[y] = tx[y]
  BY Moved DEF TxInv
<1>2. Types' /\ Pipeline'
  BY <1>1 DEF TxInv, Types, Pipeline, Dt!pipeVars, Dt!dnVars
<1>3. Positions'
  BY PositionsSame DEF TxInv
<1>4. TakenDnodes'
  BY TakenSame DEF TxInv
<1> QED
  BY <1>2, <1>3, <1>4, DirtySame DEF TxInv, Dt!pipeVars

\* A transaction outside of any txg has no holds.
LEMMA Outside ==
  ASSUME Dt!DmuTxAssumption, TxInv, NEW x \in Txs, NEW r \in TxType, Dt!Goes(x, r), ~InTxg(tx[x]), ~InTxg(r), r.txg = 0,
         UNCHANGED <<Dt!pipeVars, Dt!dnVars, dp_dirty_total, dp_dirty_pertxg>>
  PROVE  TxInv'
<1>1. Position(r, x)
  BY DEF Position, InTxg
<1>2. \A i \in Nat \ {0} : ~Held(tx[x], x, i) /\ ~Held(r, x, i)
  BY DEF Held, InTxg
<1> QED
  BY <1>1, <1>2, Stays

\* A dnode is released: the hold goes, and the last one frees the dnode.
LEMMA Released ==
  ASSUME Dt!DmuTxAssumption, TxInv, NEW x \in Txs, Dt!Release(x), Held(tx[x], x, tx[x].at), tx[x].pc \in {"unassign", "assigned"},
         UNCHANGED <<Dt!pipeVars, dp_dirty_total, dp_dirty_pertxg>>
  PROVE  TxInv'
<1> DEFINE p == tx[x].at
<1> DEFINE d == Holds[x][p]
<1> DEFINE r == [tx[x] EXCEPT !.at = @ + 1]
<1>0. /\ r \in TxType /\ r.at = p + 1 /\ p \in Nat \ {0} /\ d \in Dnodes
      /\ r.pc = tx[x].pc /\ r.txg = tx[x].txg /\ r.need = tx[x].need
  <2>1. tx[x] \in TxType
    BY DEF TxInv, Types
  <2>2. p \in Nat \ {0} /\ d \in Dnodes
    BY <2>1, HoldsType DEF TxType, Held
  <2> QED
    BY <2>1, <2>2, NextAt
<1>1. tx' \in [Txs -> TxType] /\ tx'[x] = r /\ \A y \in Txs : y # x => tx'[y] = tx[y]
  BY <1>0, Moved DEF TxInv, Dt!Release
<1>2. /\ dn_tx_holds' = [dn_tx_holds EXCEPT ![d] = @ \ {<<x, p>>}]
      /\ dn_assigned_txg' = [dn_assigned_txg EXCEPT ![d] = IF dn_tx_holds[d] = {<<x, p>>} THEN 0 ELSE @]
  BY DEF Dt!Release, Dt!Dnode, Dt!Hold
<1>3. Types'
  BY <1>0, <1>1, <1>2 DEF TxInv, Types, Dt!pipeVars
<1>4. Pipeline' /\ Positions'
  <2>1. Position(r, x)
    BY <1>0 DEF TxInv, Positions, Position, InTxg
  <2>2. Positions'
    BY <1>0, <2>1, PositionsSame DEF TxInv, Dt!Release
  <2> QED
    BY <2>2 DEF TxInv, Pipeline, Dt!pipeVars
<1>5. \A i \in Nat \ {0} : Held(r, x, i) <=> Held(tx[x], x, i) /\ i # p
  BY <1>0, HoldsType DEF Held
<1>6. \A y \in Txs : tx'[y].txg = tx[y].txg
  BY <1>0, <1>1, ZenonT(40)
<1>7. <<x, p>> \in dn_tx_holds[d]
  BY <1>0 DEF TxInv, TakenDnodes
<1>8. TakenDnodes'
  <2> SUFFICES ASSUME NEW e \in Dnodes
               PROVE  /\ \A y \in Txs, i \in Nat \ {0} :
                           <<y, i>> \in dn_tx_holds'[e] <=> Held(tx'[y], y, i) /\ Holds[y][i] = e
                      /\ \A y \in Txs, i \in Nat \ {0} :
                           <<y, i>> \in dn_tx_holds'[e] => tx'[y].txg = dn_assigned_txg'[e]
                      /\ dn_tx_holds'[e] = {} <=> dn_assigned_txg'[e] = 0
    BY DEF TakenDnodes
  <2>1. dn_tx_holds'[e] = IF e = d THEN dn_tx_holds[d] \ {<<x, p>>} ELSE dn_tx_holds[e]
    BY <1>0, <1>2 DEF TxInv, Types
  <2>2. dn_assigned_txg'[e] = IF e = d /\ dn_tx_holds[d] = {<<x, p>>} THEN 0 ELSE dn_assigned_txg[e]
    BY <1>0, <1>2 DEF TxInv, Types
  <2>3. dn_tx_holds[d] # {} /\ dn_assigned_txg[d] # 0
    BY <1>0, <1>7 DEF TxInv, TakenDnodes
  <2>4. ASSUME NEW y \in Txs, NEW i \in Nat \ {0}
        PROVE  <<y, i>> \in dn_tx_holds'[e] <=> <<y, i>> \in dn_tx_holds[e] /\ ~(e = d /\ y = x /\ i = p)
    BY <2>1
  <2>5. ASSUME NEW y \in Txs, NEW i \in Nat \ {0}
        PROVE  <<y, i>> \in dn_tx_holds'[e] <=> Held(tx'[y], y, i) /\ Holds[y][i] = e
    <3>1. <<y, i>> \in dn_tx_holds[e] <=> Held(tx[y], y, i) /\ Holds[y][i] = e
      BY DEF TxInv, TakenDnodes
    <3>2. CASE y = x
      BY <1>1, <1>5, <2>4, <3>1, <3>2
    <3>3. CASE y # x
      BY <1>1, <2>4, <3>1, <3>3
    <3> QED
      BY <3>2, <3>3
  <2>6. ASSUME NEW y \in Txs, NEW i \in Nat \ {0}, <<y, i>> \in dn_tx_holds'[e]
        PROVE  tx'[y].txg = dn_assigned_txg'[e]
    <3>1. <<y, i>> \in dn_tx_holds[e] /\ ~(e = d /\ y = x /\ i = p)
      BY <2>4, <2>6
    <3>2. tx[y].txg = dn_assigned_txg[e]
      BY <3>1 DEF TxInv, TakenDnodes
    <3>3. ~(e = d /\ dn_tx_holds[d] = {<<x, p>>})
      BY <3>1
    <3> QED
      BY <1>6, <2>2, <3>2, <3>3
  <2>7. dn_tx_holds'[e] = {} <=> dn_assigned_txg'[e] = 0
    <3>1. dn_tx_holds[e] = {} <=> dn_assigned_txg[e] = 0
      BY DEF TxInv, TakenDnodes
    <3>2. dn_tx_holds[d] \ {<<x, p>>} = {} <=> dn_tx_holds[d] = {<<x, p>>}
      BY <1>7, ZenonT(40)
    <3> QED
      BY <2>1, <2>2, <2>3, <3>1, <3>2, ZenonT(40)
  <2> QED
    BY <2>5, <2>6, <2>7
<1> QED
  BY <1>3, <1>4, <1>8, DirtySame DEF TxInv, Dt!pipeVars

\* A dnode is taken.  It is free or in the open txg, for its holders are in txgs that
\* are not quiesced, and it is not in the one before.
LEMMA Took ==
  ASSUME Dt!DmuTxAssumption, TxInv, NEW x \in Txs, Dt!Take(x), tx[x].pc = "holding", tx[x].at <= Len(Holds[x]),
         dn_assigned_txg[Dt!Dnode(x)] # tx[x].txg - 1,
         UNCHANGED <<Dt!pipeVars, dp_dirty_total, dp_dirty_pertxg>>
  PROVE  TxInv'
<1> DEFINE p == tx[x].at
<1> DEFINE d == Holds[x][p]
<1> DEFINE r == [tx[x] EXCEPT !.at = @ + 1]
<1>0. /\ r \in TxType /\ r.at = p + 1 /\ p \in Nat \ {0} /\ d \in Dnodes
      /\ r.pc = tx[x].pc /\ r.txg = tx[x].txg /\ r.need = tx[x].need
  <2>1. tx[x] \in TxType
    BY DEF TxInv, Types
  <2>2. p \in Nat \ {0} /\ d \in Dnodes
    BY <2>1, HoldsType DEF TxType
  <2> QED
    BY <2>1, <2>2, NextAt
<1>1. tx' \in [Txs -> TxType] /\ tx'[x] = r /\ \A y \in Txs : y # x => tx'[y] = tx[y]
  BY <1>0, Moved DEF TxInv, Dt!Take
<1>2. /\ dn_tx_holds' = [dn_tx_holds EXCEPT ![d] = @ \cup {<<x, p>>}]
      /\ dn_assigned_txg' = [dn_assigned_txg EXCEPT ![d] = IF @ = 0 THEN tx[x].txg ELSE @]
  BY DEF Dt!Take, Dt!Dnode, Dt!Hold
<1>3. tx[x].txg = tx_open /\ tx_open \in Nat /\ tx_open # 0
  BY DEF TxInv, Positions, Position, Types, Pipeline
<1>4. dn_assigned_txg[d] \in {0, tx_open}
  <2> SUFFICES ASSUME dn_assigned_txg[d] # 0 PROVE dn_assigned_txg[d] = tx_open
    OBVIOUS
  <2>0. TakenDnodes /\ d \in Dnodes
    BY <1>0 DEF TxInv
  <2>a. dn_tx_holds[d] = {} <=> dn_assigned_txg[d] = 0
    BY <2>0, ZenonT(40) DEF TakenDnodes
  <2>1. PICK h \in dn_tx_holds[d] : TRUE
    BY <2>a
  <2>2. PICK y \in Txs, i \in Nat \ {0} : h = <<y, i>>
    BY <1>0, <2>1 DEF TxInv, Types
  <2>3. Held(tx[y], y, i) /\ tx[y].txg = dn_assigned_txg[d]
    BY <1>0, <2>1, <2>2 DEF TxInv, TakenDnodes
  <2>4. tx[y].txg \in drained + 1 .. tx_open
    BY <2>3 DEF TxInv, Positions, Position, Held, InTxg
  <2>5. tx_open <= drained + 2 /\ drained \in Nat
    BY DEF TxInv, Pipeline, Types
  <2> QED
    BY <1>3, <2>3, <2>4, <2>5 DEF Dt!Dnode
<1>5. Types'
  BY <1>0, <1>1, <1>2, <1>3 DEF TxInv, Types, Dt!pipeVars
<1>6. Pipeline' /\ Positions'
  <2>1. Position(tx[x], x) /\ Len(Holds[x]) \in Nat
    BY HoldsType DEF TxInv, Positions
  <2>2. Position(r, x)
    BY <1>0, <2>1 DEF Position, InTxg
  <2>3. Positions'
    BY <1>0, <2>2, PositionsSame DEF TxInv, Dt!Take
  <2> QED
    BY <2>3 DEF TxInv, Pipeline, Dt!pipeVars
<1>7. \A i \in Nat \ {0} : Held(r, x, i) <=> Held(tx[x], x, i) \/ i = p
  BY <1>0, HoldsType DEF Held
<1>8. \A y \in Txs : tx'[y].txg = tx[y].txg
  BY <1>0, <1>1, ZenonT(40)
<1>9. TakenDnodes'
  <2> SUFFICES ASSUME NEW e \in Dnodes
               PROVE  /\ \A y \in Txs, i \in Nat \ {0} :
                           <<y, i>> \in dn_tx_holds'[e] <=> Held(tx'[y], y, i) /\ Holds[y][i] = e
                      /\ \A y \in Txs, i \in Nat \ {0} :
                           <<y, i>> \in dn_tx_holds'[e] => tx'[y].txg = dn_assigned_txg'[e]
                      /\ dn_tx_holds'[e] = {} <=> dn_assigned_txg'[e] = 0
    BY DEF TakenDnodes
  <2>1. dn_tx_holds'[e] = IF e = d THEN dn_tx_holds[d] \cup {<<x, p>>} ELSE dn_tx_holds[e]
    BY <1>0, <1>2 DEF TxInv, Types
  <2>2. dn_assigned_txg'[e] = IF e = d THEN tx_open ELSE dn_assigned_txg[e]
    BY <1>0, <1>2, <1>3, <1>4 DEF TxInv, Types
  <2>3. /\ dn_tx_holds[e] = {} <=> dn_assigned_txg[e] = 0
        /\ \A y \in Txs, i \in Nat \ {0} : <<y, i>> \in dn_tx_holds[e] => tx[y].txg = dn_assigned_txg[e]
    BY DEF TxInv, TakenDnodes
  <2>4. ASSUME NEW y \in Txs, NEW i \in Nat \ {0}
        PROVE  <<y, i>> \in dn_tx_holds'[e] <=> <<y, i>> \in dn_tx_holds[e] \/ (e = d /\ y = x /\ i = p)
    BY <2>1
  <2>5. ASSUME NEW y \in Txs, NEW i \in Nat \ {0}
        PROVE  <<y, i>> \in dn_tx_holds'[e] <=> Held(tx'[y], y, i) /\ Holds[y][i] = e
    <3>1. <<y, i>> \in dn_tx_holds[e] <=> Held(tx[y], y, i) /\ Holds[y][i] = e
      BY DEF TxInv, TakenDnodes
    <3>2. CASE y = x
      BY <1>1, <1>7, <2>4, <3>1, <3>2
    <3>3. CASE y # x
      BY <1>1, <2>4, <3>1, <3>3
    <3> QED
      BY <3>2, <3>3
  <2>6. ASSUME NEW y \in Txs, NEW i \in Nat \ {0}, <<y, i>> \in dn_tx_holds'[e]
        PROVE  tx'[y].txg = dn_assigned_txg'[e]
    <3>1. CASE <<y, i>> \in dn_tx_holds[e]
      <4>1. tx[y].txg = dn_assigned_txg[e] /\ dn_assigned_txg[e] # 0
        BY <2>3, <3>1
      <4> QED
        BY <1>4, <1>8, <2>2, <4>1
    <3>2. CASE e = d /\ y = x /\ i = p
      BY <1>3, <1>8, <2>2, <3>2
    <3> QED
      BY <2>4, <2>6, <3>1, <3>2
  <2>7. dn_tx_holds'[e] = {} <=> dn_assigned_txg'[e] = 0
    BY <1>3, <2>1, <2>2, <2>3, ZenonT(40)
  <2> QED
    BY <2>5, <2>6, <2>7
<1> QED
  BY <1>5, <1>6, <1>9, DirtySame DEF TxInv, Dt!pipeVars

-----------------------------------------------------------------------------
(* One lemma per action, or per group of actions that do the same to the   *)
(* invariant.                                                              *)

\* A transaction that was not assigned yet is in no txg, its holds failed or not.
LEMMA HeldType ==
  ASSUME NEW x \in Txs, NEW n \in Dt!HeldTxs(x)
  PROVE  n \in TxType /\ n.txg = 0 /\ n.pc = "new"
<1>1. n \in {Dt!NewTx, [Dt!NewTx EXCEPT !.err = "EIO"]}
  BY DEF Dt!HeldTxs
<1>2. Dt!NewTx \in TxType /\ Dt!NewTx.txg = 0 /\ Dt!NewTx.pc = "new"
  BY DEF Dt!NewTx, TxType, Places
<1>3. [Dt!NewTx EXCEPT !.err = "EIO"] \in TxType
  BY <1>2 DEF TxType
<1>4. [Dt!NewTx EXCEPT !.err = "EIO"].txg = 0 /\ [Dt!NewTx EXCEPT !.err = "EIO"].pc = "new"
  BY <1>2 DEF TxType
<1> QED
  BY <1>1, <1>2, <1>3, <1>4

\* The initial states satisfy the invariant.
LEMMA TxInit == Dt!Init => TxInv
<1> SUFFICES ASSUME Dt!Init PROVE TxInv
  OBVIOUS
<1>1. /\ \A x \in Txs : tx[x] \in TxType /\ tx[x].txg = 0 /\ tx[x].pc = "new" /\ ~InTxg(tx[x])
      /\ tx \in [Txs -> TxType]
  <2>1. tx = [x \in Txs |-> tx[x]] /\ \A x \in Txs : tx[x] \in Dt!HeldTxs(x)
    BY DEF Dt!Init
  <2> QED
    BY <2>1, HeldType DEF InTxg
<1>2. Types
  BY <1>1 DEF Dt!Init, Types, Dt!TXG_MASK
<1>3. \A x \in Txs, i \in Nat \ {0} : ~Held(tx[x], x, i)
  BY <1>1 DEF Held
<1>4. Pipeline
  BY DEF Dt!Init, Pipeline
<1>5. Positions
  BY <1>1 DEF Positions, Position
<1>6. TakenDnodes
  BY <1>3 DEF Dt!Init, TakenDnodes
<1>7. Dt!DirtyAccounted
  BY DEF Dt!Init, Dt!DirtyAccounted, Dt!TXG_MASK
<1> QED
  BY <1>2, <1>4, <1>5, <1>6, <1>7 DEF TxInv

\* A refused attempt and the ways to wait for another one keep the invariant.
LEMMA TxWaitInv == ASSUME Dt!DmuTxAssumption, TxInv, NEW x \in Txs, Dt!TryRefused(x) \/ Dt!Wait(x) PROVE TxInv'
<1>1. tx[x] \in TxType /\ ~InTxg(tx[x]) /\ tx[x].txg = 0 /\ synced \in Nat
  <2>1. tx[x] \in TxType /\ synced \in Nat
    BY DEF TxInv, Types
  <2>2. ~InTxg(tx[x])
    BY DEF Dt!TryRefused, Dt!Wait, Dt!WaitDirty, Dt!WaitSynced, Dt!SyncedEnough, Dt!WaitChosen, Dt!DnodeFree, Dt!TxgOpened, Dt!At, InTxg
  <2> QED
    BY <2>1, <2>2 DEF TxInv, Positions, Position
<1>2. UNCHANGED <<Dt!pipeVars, Dt!dnVars, dp_dirty_total, dp_dirty_pertxg>>
  BY DEF Dt!TryRefused, Dt!Wait, Dt!WaitDirty, Dt!WaitSynced, Dt!SyncedEnough, Dt!WaitChosen, Dt!DnodeFree, Dt!TxgOpened, Dt!dirtyVars
<1>3. \E r \in TxType : Dt!Goes(x, r) /\ ~InTxg(r) /\ r.txg = 0
  <2>1. ASSUME NEW s \in TxType, s.txg = 0, Dt!Again(x, s)
        PROVE  \E r \in TxType : Dt!Goes(x, r) /\ ~InTxg(r) /\ r.txg = 0
    <3>1. [s EXCEPT !.pc = "new"] \in TxType
      BY PlaceFacts, NumberFacts, ZenonT(40) DEF TxType
    <3>2. [s EXCEPT !.pc = "new"].pc = "new" /\ [s EXCEPT !.pc = "new"].txg = 0
      BY <2>1 DEF TxType
    <3>3. ASSUME NEW n \in Dt!HeldTxs(x)
          PROVE  LET r == [n EXCEPT !.waited = TRUE] IN r \in TxType /\ r.pc = "new" /\ r.txg = 0
      BY HeldType DEF TxType
    <3> QED
      BY ZenonT(40), <2>1, <3>1, <3>2, <3>3 DEF Dt!Again, InTxg
  <2>2. CASE Dt!TryRefused(x)
    <3>1. \/ \E l \in {"failed", "restart"} : Dt!Goes(x, [tx[x] EXCEPT !.pc = l])
          \/ Dt!Goes(x, [tx[x] EXCEPT !.pc = "restart", !.wait_dirty = TRUE])
      BY <2>2 DEF Dt!TryRefused
    <3>2. ASSUME NEW l \in {"failed", "restart"}, Dt!Goes(x, [tx[x] EXCEPT !.pc = l])
          PROVE  \E r \in TxType : Dt!Goes(x, r) /\ ~InTxg(r) /\ r.txg = 0
      <4> DEFINE r == [tx[x] EXCEPT !.pc = l]
      <4>1. r \in TxType /\ r.pc = l /\ r.txg = 0
        BY <1>1 DEF TxType, Places
      <4> QED
        BY <3>2, <4>1, ZenonT(40) DEF InTxg
    <3>3. CASE Dt!Goes(x, [tx[x] EXCEPT !.pc = "restart", !.wait_dirty = TRUE])
      <4> DEFINE r == [tx[x] EXCEPT !.pc = "restart", !.wait_dirty = TRUE]
      <4>1. r \in TxType
        BY <1>1, PlaceFacts, ZenonT(40) DEF TxType
      <4>2. r.pc = "restart" /\ r.txg = 0
        BY <1>1 DEF TxType
      <4> QED
        BY <3>3, <4>1, <4>2, ZenonT(40) DEF InTxg
    <3> QED
      BY <3>1, <3>2, <3>3
  <2>3. CASE Dt!WaitDirty(x)
    <3>1. CASE dp_dirty_total >= DirtyMax
      <4> DEFINE r == [tx[x] EXCEPT !.pc = "throttled"]
      <4>1. r \in TxType /\ r.pc = "throttled" /\ r.txg = 0
        BY <1>1, PlaceFacts DEF TxType
      <4>2. Dt!Goes(x, r)
        BY <2>3, <3>1 DEF Dt!WaitDirty
      <4> QED
        BY <4>1, <4>2, ZenonT(40) DEF InTxg
    <3>2. CASE ~(dp_dirty_total >= DirtyMax)
      <4>1. [tx[x] EXCEPT !.wait_dirty = FALSE, !.waited = TRUE] \in TxType
        BY ZenonT(40), <1>1 DEF TxType
      <4>2. [tx[x] EXCEPT !.wait_dirty = FALSE, !.waited = TRUE].txg = 0
        BY <1>1 DEF TxType
      <4> QED
        BY ZenonT(40), <2>1, <2>3, <3>2, <4>1, <4>2 DEF Dt!WaitDirty
    <3> QED
      BY <3>1, <3>2
  <2>4. CASE Dt!WaitSynced(x) \/ Dt!WaitChosen(x)
    <3>1. \/ Dt!Goes(x, [tx[x] EXCEPT !.pc = "waitSynced", !.left = synced + 1])
          \/ \E l \in {"waitDnode", "waitOpen"} : Dt!Goes(x, [tx[x] EXCEPT !.pc = l])
      BY <2>4 DEF Dt!WaitSynced, Dt!WaitChosen
    <3>2. CASE Dt!Goes(x, [tx[x] EXCEPT !.pc = "waitSynced", !.left = synced + 1])
      <4> DEFINE r == [tx[x] EXCEPT !.pc = "waitSynced", !.left = synced + 1]
      <4>1. tx[x] \in TxType /\ tx[x].txg = 0 /\ synced + 1 \in Nat
        BY <1>1
      <4>2. r \in TxType
        BY <4>1, PlaceFacts, ZenonT(40) DEF TxType
      <4>3. r.pc = "waitSynced" /\ r.txg = 0
        BY <4>1 DEF TxType
      <4> QED
        BY <3>2, <4>2, <4>3, ZenonT(40) DEF InTxg
    <3>3. ASSUME NEW l \in {"waitDnode", "waitOpen"}, Dt!Goes(x, [tx[x] EXCEPT !.pc = l])
          PROVE  \E r \in TxType : Dt!Goes(x, r) /\ ~InTxg(r) /\ r.txg = 0
      <4> DEFINE r == [tx[x] EXCEPT !.pc = l]
      <4>1. r \in TxType /\ r.pc = l /\ r.txg = 0
        BY <1>1 DEF TxType, Places
      <4> QED
        BY <3>3, <4>1, ZenonT(40) DEF InTxg
    <3> QED
      BY <3>1, <3>2, <3>3
  <2>5. CASE Dt!SyncedEnough(x) \/ Dt!DnodeFree(x) \/ Dt!TxgOpened(x)
    <3>1. /\ [tx[x] EXCEPT !.left = 0] \in TxType /\ [tx[x] EXCEPT !.left = 0].txg = 0
          /\ [tx[x] EXCEPT !.need = 0] \in TxType /\ [tx[x] EXCEPT !.need = 0].txg = 0
      BY <1>1 DEF TxType
    <3> QED
      BY ZenonT(40), <1>1, <2>1, <2>5, <3>1 DEF Dt!SyncedEnough, Dt!DnodeFree, Dt!TxgOpened
  <2> QED
    BY <2>2, <2>3, <2>4, <2>5 DEF Dt!Wait
<1> QED
  BY <1>1, <1>2, <1>3, Outside

\* txg_hold_open keeps it.
LEMMA TryHoldInv == ASSUME Dt!DmuTxAssumption, TxInv, NEW x \in Txs, Dt!TryHold(x) PROVE TxInv'
<1> DEFINE r == [tx[x] EXCEPT !.pc = "holding", !.txg = tx_open, !.at = 1, !.need = 0]
<1>1. tx[x] \in TxType /\ tx_open \in Nat /\ drained \in Nat /\ Len(Holds[x]) \in Nat
  BY HoldsType DEF TxInv, Types
<1>2. r \in TxType /\ r.pc = "holding" /\ r.txg = tx_open /\ r.at = 1 /\ r.need = 0
  BY <1>1, PlaceFacts, NumberFacts, ZenonT(40) DEF TxType
<1>3. Position(r, x)
  BY <1>1, <1>2 DEF Position, InTxg, TxInv, Pipeline
<1>4. \A i \in Nat \ {0} : ~Held(r, x, i) /\ ~Held(tx[x], x, i)
  BY <1>2 DEF Dt!TryHold, Dt!At, Held
<1>5. Dt!Goes(x, r) /\ UNCHANGED <<Dt!pipeVars, Dt!dnVars, dp_dirty_total, dp_dirty_pertxg>>
  BY DEF Dt!TryHold, Dt!dirtyVars
<1> QED
  BY <1>2, <1>3, <1>4, <1>5, Stays

\* Taking the next dnode, or being refused it, keeps it.
LEMMA AssignDnodeInv == ASSUME Dt!DmuTxAssumption, TxInv, NEW x \in Txs, Dt!AssignDnode(x) PROVE TxInv'
<1>1. CASE dn_assigned_txg[Dt!Dnode(x)] = tx[x].txg - 1
  <2> DEFINE r == [tx[x] EXCEPT !.need = tx[x].at, !.pc = "unassign", !.at = 1, !.err = "ERESTART"]
  <2>1. tx[x] \in TxType /\ Len(Holds[x]) \in Nat /\ Position(tx[x], x) /\ tx[x].pc = "holding" /\ tx[x].at <= Len(Holds[x])
    BY HoldsType DEF TxInv, Types, Positions, Dt!AssignDnode, Dt!At
  <2>2. r \in TxType /\ r.pc = "unassign" /\ r.txg = tx[x].txg /\ r.at = 1 /\ r.need = tx[x].at
    <3>1. tx[x].at \in Nat
      BY <2>1 DEF TxType
    <3> QED
      BY <2>1, <3>1, PlaceFacts, NumberFacts, ZenonT(40) DEF TxType
  <2>3. Position(r, x)
    BY <2>1, <2>2 DEF Position, InTxg
  <2>4. \A i \in Nat \ {0} : Held(r, x, i) <=> Held(tx[x], x, i)
    BY <2>1, <2>2 DEF Held, TxType
  <2>5. Dt!Goes(x, r) /\ UNCHANGED <<Dt!pipeVars, Dt!dnVars, dp_dirty_total, dp_dirty_pertxg>>
    BY <1>1 DEF Dt!AssignDnode, Dt!dirtyVars
  <2> QED
    BY ZenonT(40), <2>2, <2>3, <2>4, <2>5, Stays
<1>2. CASE dn_assigned_txg[Dt!Dnode(x)] # tx[x].txg - 1
  BY <1>2, Took DEF Dt!AssignDnode, Dt!At, Dt!dirtyVars
<1> QED
  BY <1>1, <1>2

\* The reservation of space keeps it, whatever it says: all dnodes stay held.
LEMMA ReserveInv == ASSUME Dt!DmuTxAssumption, TxInv, NEW x \in Txs, Dt!Reserve(x) PROVE TxInv'
<1>1. tx[x] \in TxType /\ Len(Holds[x]) \in Nat /\ Position(tx[x], x) /\ tx[x].pc = "holding" /\ tx[x].at = Len(Holds[x]) + 1
  <2>1. tx[x] \in TxType /\ Len(Holds[x]) \in Nat /\ Position(tx[x], x) /\ tx[x].pc = "holding" /\ tx[x].at > Len(Holds[x])
    BY HoldsType DEF TxInv, Types, Positions, Dt!Reserve, Dt!At
  <2>2. tx[x].at \in Nat
    BY <2>1 DEF TxType
  <2> QED
    BY <2>1, <2>2 DEF Position
<1>2. PICK r \in TxType :
        /\ Dt!Goes(x, r) /\ r.pc \in {"assigned", "unassign"} /\ r.at = 1 /\ r.need = tx[x].need /\ r.txg = tx[x].txg
  <2>1. Space[x] \in Nat /\ tx[x].left \in Nat /\ tx[x].err \in {"none", "ERESTART", "ENOSPC", "EIO"}
    BY <1>1 DEF Dt!DmuTxAssumption, TxType
  <2>2. PICK l \in {"assigned", "unassign"}, n \in Nat, e \in {"none", "ERESTART", "ENOSPC", "EIO"} :
          \/ l = "assigned" /\ n = Space[x] /\ Dt!Goes(x, [tx[x] EXCEPT !.pc = l, !.at = 1, !.left = n])
          \/ l = "unassign" /\ Dt!Goes(x, [tx[x] EXCEPT !.pc = l, !.at = 1, !.err = e])
    BY <2>1, ZenonT(40) DEF Dt!Reserve
  <2>3. l \in Places
    BY PlaceFacts
  <2>4. LET r == [tx[x] EXCEPT !.pc = l, !.at = 1, !.left = n]
        IN  r \in TxType /\ r.pc = l /\ r.at = 1 /\ r.need = tx[x].need /\ r.txg = tx[x].txg
    BY <1>1, <2>3, NumberFacts, ZenonT(40) DEF TxType
  <2>5. LET r == [tx[x] EXCEPT !.pc = l, !.at = 1, !.err = e]
        IN  r \in TxType /\ r.pc = l /\ r.at = 1 /\ r.need = tx[x].need /\ r.txg = tx[x].txg
    BY <1>1, <2>3, NumberFacts, ZenonT(40) DEF TxType
  <2> QED
    BY <2>2, <2>4, <2>5, ZenonT(40)
<1>3. Position(r, x) /\ tx[x].need = 0
  BY <1>1, <1>2 DEF Position, InTxg
<1>4. \A i \in Nat \ {0} : Held(r, x, i) <=> Held(tx[x], x, i)
  BY <1>1, <1>2, <1>3 DEF Held
<1>5. UNCHANGED <<Dt!pipeVars, Dt!dnVars, dp_dirty_total, dp_dirty_pertxg>>
  BY DEF Dt!Reserve, Dt!dirtyVars
<1> QED
  BY <1>2, <1>3, <1>4, <1>5, Stays

\* dmu_tx_unassign keeps it, hold by hold; when it is through, no hold is left.
LEMMA UnassignInv == ASSUME Dt!DmuTxAssumption, TxInv, NEW x \in Txs, Dt!Unassign(x) PROVE TxInv'
<1>1. tx[x] \in TxType /\ Len(Holds[x]) \in Nat /\ Position(tx[x], x) /\ tx[x].pc = "unassign"
  BY HoldsType DEF TxInv, Types, Positions, Dt!Unassign, Dt!At
<1>2. CASE tx[x].at < Dt!UnassignEnd(x)
  <2>1. Held(tx[x], x, tx[x].at)
    BY <1>1, <1>2 DEF Held, Dt!UnassignEnd, Position, TxType
  <2> QED
    BY <1>1, <1>2, <2>1, Released DEF Dt!Unassign, Dt!dirtyVars
<1>3. CASE ~(tx[x].at < Dt!UnassignEnd(x))
  <2>1. PICK r \in TxType : Dt!Goes(x, r) /\ r.pc \in {"failed", "restart"} /\ r.txg = 0
    <3>1. PICK l \in {"failed", "restart"} :
            Dt!Goes(x, [tx[x] EXCEPT !.pc = l, !.lasttried = tx[x].txg, !.txg = 0, !.err = "none"])
      BY <1>3, ZenonT(40) DEF Dt!Unassign
    <3>2. l \in Places
      BY PlaceFacts
    <3>3. LET r == [tx[x] EXCEPT !.pc = l, !.lasttried = tx[x].txg, !.txg = 0, !.err = "none"]
          IN  r \in TxType /\ r.pc = l /\ r.txg = 0
      BY <1>1, <3>2, ZenonT(40) DEF TxType
    <3> QED
      BY <3>1, <3>3, ZenonT(40)
  <2>2. Position(r, x)
    BY <2>1 DEF Position, InTxg
  <2>3. \A i \in Nat \ {0} : ~Held(r, x, i) /\ ~Held(tx[x], x, i)
    <3>1. r.pc \notin {"unassign", "assigned"} /\ tx[x].pc = "unassign"
      BY <1>1, <2>1
    <3> QED BY <1>1, <1>3, <2>1, <3>1 DEF Held, Dt!UnassignEnd, TxType
  <2>4. UNCHANGED <<Dt!pipeVars, Dt!dnVars, dp_dirty_total, dp_dirty_pertxg>>
    BY <1>3 DEF Dt!Unassign, Dt!dirtyVars
  <2> QED
    BY <2>1, <2>2, <2>3, <2>4, Stays
<1> QED
  BY <1>2, <1>3

\* dmu_tx_commit keeps it in the same way.
LEMMA TxCommitInv == ASSUME Dt!DmuTxAssumption, TxInv, NEW x \in Txs, Dt!Commit(x) PROVE TxInv'
<1>1. tx[x] \in TxType /\ Len(Holds[x]) \in Nat /\ tx[x].pc = "assigned"
  BY HoldsType DEF TxInv, Types, Dt!Commit, Dt!At
<1>2. CASE tx[x].at <= Len(Holds[x])
  <2>1. Held(tx[x], x, tx[x].at)
    BY <1>1, <1>2 DEF Held, TxType
  <2> QED
    BY <1>1, <1>2, <2>1, Released DEF Dt!Commit, Dt!dirtyVars
<1>3. CASE ~(tx[x].at <= Len(Holds[x]))
  <2>1. PICK r \in TxType : Dt!Goes(x, r) /\ r.pc = "done" /\ r.txg = 0
    <3>1. Dt!Goes(x, [tx[x] EXCEPT !.pc = "done", !.txg = 0])
      BY <1>3 DEF Dt!Commit
    <3>2. LET r == [tx[x] EXCEPT !.pc = "done", !.txg = 0]
          IN  r \in TxType /\ r.pc = "done" /\ r.txg = 0
      BY <1>1, PlaceFacts, NumberFacts, ZenonT(40) DEF TxType
    <3> QED
      BY <3>1, <3>2, ZenonT(40)
  <2>2. Position(r, x)
    BY <2>1 DEF Position, InTxg
  <2>3. \A i \in Nat \ {0} : ~Held(r, x, i) /\ ~Held(tx[x], x, i)
    BY <1>1, <1>3, <2>1 DEF Held, TxType
  <2>4. UNCHANGED <<Dt!pipeVars, Dt!dnVars, dp_dirty_total, dp_dirty_pertxg>>
    BY <1>3 DEF Dt!Commit, Dt!dirtyVars
  <2> QED
    BY <2>1, <2>2, <2>3, <2>4, Stays
<1> QED
  BY <1>2, <1>3

-----------------------------------------------------------------------------
(* Dirty data and the pipeline.                                            *)

\* There are four slots.
LEMMA TxSlotType == \A t \in Nat : Dt!Slot(t) \in {0, 1, 2, 3}
BY DEF Dt!Slot, Dt!TXG_MASK

\* The total follows the slot of a txg that is not synced.
LEMMA DirtyChange ==
  ASSUME Types, Dt!DirtyAccounted, NEW t \in synced + 1 .. tx_open, NEW n \in Int,
         dp_dirty_pertxg' = [dp_dirty_pertxg EXCEPT ![Dt!Slot(t)] = @ + n],
         dp_dirty_total' = dp_dirty_total + n, UNCHANGED <<tx_open, synced>>
  PROVE  Dt!DirtyAccounted'
<1>1. /\ dp_dirty_pertxg \in [0 .. 3 -> Nat] /\ Dt!Slot(t) \in {0, 1, 2, 3} /\ dp_dirty_total \in Int
      /\ dp_dirty_total = dp_dirty_pertxg[0] + dp_dirty_pertxg[1] + dp_dirty_pertxg[2] + dp_dirty_pertxg[3]
  BY TxSlotType DEF Types, Dt!TXG_MASK, Dt!DirtyAccounted
<1>2. dp_dirty_total' = dp_dirty_pertxg'[0] + dp_dirty_pertxg'[1] + dp_dirty_pertxg'[2] + dp_dirty_pertxg'[3]
  BY <1>1
<1>3. ASSUME NEW s \in 0 .. Dt!TXG_MASK, s \notin {Dt!Slot(u) : u \in synced + 1 .. tx_open} PROVE dp_dirty_pertxg'[s] = 0
  <2>1. dp_dirty_pertxg[s] = 0 /\ s # Dt!Slot(t)
    BY <1>3 DEF Dt!DirtyAccounted
  <2> QED
    BY <1>1, <2>1 DEF Dt!TXG_MASK
<1> QED
  BY <1>2, <1>3 DEF Dt!DirtyAccounted

\* dsl_pool_dirty_space keeps the invariant: the transaction's txg is not synced.
LEMMA DirtySpaceInv == ASSUME Dt!DmuTxAssumption, TxInv, NEW x \in Txs, Dt!DirtySpace(x) PROVE TxInv'
<1> DEFINE r == [tx[x] EXCEPT !.left = @ - 1]
<1>1. tx[x] \in TxType /\ Position(tx[x], x) /\ tx[x].pc = "assigned" /\ tx[x].left \in Nat /\ tx[x].left > 0
  BY DEF TxInv, Types, Positions, Dt!DirtySpace, Dt!At, TxType
<1>2. r \in TxType /\ r.pc = tx[x].pc /\ r.txg = tx[x].txg /\ r.at = tx[x].at /\ r.need = tx[x].need
  <2>1. tx[x].left - 1 \in Nat
    BY <1>1
  <2> QED
    BY <1>1, <2>1, ZenonT(40) DEF TxType
<1>3. Dt!Goes(x, r) /\ UNCHANGED <<Dt!pipeVars, Dt!dnVars>>
  BY DEF Dt!DirtySpace
<1>4. tx' \in [Txs -> TxType]
  BY <1>2, <1>3, Moved DEF TxInv
<1>5. Position(r, x)
  BY <1>1, <1>2 DEF Position, InTxg
<1>6. Positions'
  BY <1>2, <1>3, <1>5, PositionsSame DEF TxInv
<1>7. TakenDnodes'
  <2>1. \A i \in Nat \ {0} : Held(r, x, i) <=> Held(tx[x], x, i)
    BY <1>2 DEF Held
  <2> QED
    BY <1>2, <1>3, <2>1, TakenSame, ZenonT(40) DEF TxInv
<1>8. tx[x].txg \in synced + 1 .. tx_open /\ tx[x].txg \in Nat
  BY <1>1 DEF TxInv, Types, Pipeline, Position, InTxg
<1>9. /\ dp_dirty_pertxg' = [dp_dirty_pertxg EXCEPT ![Dt!Slot(tx[x].txg)] = @ + 1]
      /\ dp_dirty_total' = dp_dirty_total + 1
  BY DEF Dt!DirtySpace, Dt!DirtyDelta
<1>10. Dt!DirtyAccounted'
  <2>1. 1 \in Int
    OBVIOUS
  <2> QED
    BY <1>3, <1>8, <1>9, <2>1, DirtyChange, ZenonT(40) DEF TxInv, Dt!pipeVars
<1>11. Types'
  <2>1. Dt!Slot(tx[x].txg) \in 0 .. 3
    BY <1>8, TxSlotType
  <2> QED
    BY <1>3, <1>4, <1>9, <2>1 DEF TxInv, Types, Dt!TXG_MASK, Dt!pipeVars, Dt!dnVars
<1> QED
  BY <1>3, <1>6, <1>7, <1>10, <1>11 DEF TxInv, Pipeline, Dt!pipeVars

\* The next txg opens: nobody takes dnodes, and everybody stays in a txg that is not
\* quiesced.
LEMMA OpenNextInv == TxInv /\ Dt!OpenNext => TxInv'
<1> SUFFICES ASSUME TxInv, Dt!OpenNext PROVE TxInv'
  OBVIOUS
<1>1. tx_open \in Nat /\ drained \in Nat /\ synced \in Nat /\ drained = tx_open - 1 /\ tx_open' = tx_open + 1
  BY DEF TxInv, Types, Dt!OpenNext
<1>2. Types' /\ Pipeline'
  BY <1>1 DEF TxInv, Types, Pipeline, Dt!OpenNext, Dt!dnVars, Dt!dirtyVars
<1>3. Positions'
  <2> SUFFICES ASSUME NEW x \in Txs PROVE Position(tx[x], x)'
    BY DEF Positions
  <2>1. Position(tx[x], x) /\ tx[x].pc # "holding"
    BY DEF TxInv, Positions, Dt!OpenNext, Dt!OpenLocks, Dt!At
  <2> QED
    BY <1>1, <2>1 DEF Position, InTxg, Dt!OpenNext
<1>4. TakenDnodes'
  BY DEF TxInv, TakenDnodes, Dt!OpenNext, Dt!dnVars
<1>5. Dt!DirtyAccounted'
  <2>1. synced + 1 .. tx_open \subseteq synced + 1 .. tx_open + 1
    BY <1>1
  <2> QED
    BY <1>1, <2>1 DEF TxInv, Dt!DirtyAccounted, Dt!OpenNext, Dt!dirtyVars
<1> QED
  BY <1>2, <1>3, <1>4, <1>5 DEF TxInv

\* A txg quiesces: nobody is in it.
LEMMA DrainInv == TxInv /\ Dt!Drain => TxInv'
<1> SUFFICES ASSUME TxInv, Dt!Drain PROVE TxInv'
  OBVIOUS
<1>1. tx_open \in Nat /\ drained \in Nat /\ synced \in Nat /\ drained' = drained + 1 /\ drained < tx_open - 1
  BY DEF TxInv, Types, Dt!Drain
<1>2. Types' /\ Pipeline'
  BY <1>1 DEF TxInv, Types, Pipeline, Dt!Drain, Dt!dnVars, Dt!dirtyVars
<1>3. Positions'
  <2> SUFFICES ASSUME NEW x \in Txs PROVE Position(tx[x], x)'
    BY DEF Positions
  <2>1. Position(tx[x], x) /\ tx[x].txg # drained + 1
    BY DEF TxInv, Positions, Dt!Drain
  <2> QED
    BY <1>1, <2>1 DEF Position, InTxg, Dt!Drain
<1>4. TakenDnodes' /\ Dt!DirtyAccounted'
  BY DEF TxInv, TakenDnodes, Dt!DirtyAccounted, Dt!Drain, Dt!dnVars, Dt!dirtyVars
<1> QED
  BY <1>2, <1>3, <1>4 DEF TxInv

\* dsl_pool_undirty_space keeps the invariant, clipped to what the txg has dirtied.
LEMMA UndirtyInv == TxInv /\ (Dt!Undirty \/ Dt!UndirtyExtra) => TxInv'
<1> SUFFICES ASSUME TxInv, Dt!Undirty \/ Dt!UndirtyExtra PROVE TxInv'
  OBVIOUS
<1>0. synced \in Nat /\ tx_open \in Nat /\ synced + 1 \in synced + 1 .. tx_open /\ Dt!Slot(synced + 1) \in 0 .. 3
  BY TxSlotType DEF TxInv, Types, Pipeline
<1>1. Dt!Share \in Nat
  BY <1>0 DEF TxInv, Types, Dt!Share, Dt!TXG_MASK
<1>2. PICK n \in Nat : Dt!UndirtySpace(n)
  <2>1. CASE Dt!Undirty
    BY <1>1, <2>1 DEF Dt!Undirty
  <2>2. CASE Dt!UndirtyExtra
    BY <1>1, <2>2 DEF Dt!UndirtyExtra
  <2> QED
    BY <2>1, <2>2
<1>3. UNCHANGED <<Dt!pipeVars, tx, Dt!dnVars>>
  BY DEF Dt!Undirty, Dt!UndirtyExtra
<1> DEFINE c == Dt!Clipped(n)
<1>4. c \in Nat /\ c <= Dt!Share
  BY <1>1, <1>2 DEF Dt!Clipped
<1>5. /\ dp_dirty_pertxg' = [dp_dirty_pertxg EXCEPT ![Dt!Slot(synced + 1)] = @ + (-c)]
      /\ dp_dirty_total' = dp_dirty_total + (-c)
  <2>1. dp_dirty_pertxg' = [dp_dirty_pertxg EXCEPT ![Dt!Slot(synced + 1)] = @ - c]
    BY <1>2 DEF Dt!UndirtySpace
  <2>2. dp_dirty_pertxg[Dt!Slot(synced + 1)] - c = dp_dirty_pertxg[Dt!Slot(synced + 1)] + (-c)
    BY <1>1, <1>4 DEF Dt!Share
  <2> QED
    BY <1>2, <2>1, <2>2, ZenonT(40) DEF Dt!UndirtySpace, Dt!DirtyDelta
<1>6. Dt!DirtyAccounted'
  <2>1. -c \in Int
    BY <1>4
  <2> HIDE DEF c
  <2> QED
    BY <1>0, <1>3, <1>5, <2>1, DirtyChange, ZenonT(40) DEF TxInv, Dt!pipeVars
<1>7. Types'
  <2>1. dp_dirty_pertxg[Dt!Slot(synced + 1)] + (-c) \in Nat
    BY <1>1, <1>4 DEF Dt!Share
  <2>2. dp_dirty_total + (-c) \in Int
    BY <1>4 DEF TxInv, Types
  <2> HIDE DEF c
  <2> QED
    BY <1>0, <1>3, <1>5, <2>1, <2>2 DEF TxInv, Types, Dt!TXG_MASK, Dt!pipeVars, Dt!dnVars
<1>8. Pipeline' /\ Positions' /\ TakenDnodes'
  BY <1>3 DEF TxInv, Pipeline, Positions, Position, InTxg, TakenDnodes, Dt!pipeVars, Dt!dnVars
<1> QED
  BY <1>6, <1>7, <1>8 DEF TxInv

\* A txg is synced when all that it dirtied is written.
LEMMA SyncDoneInv == TxInv /\ Dt!SyncDone => TxInv'
<1> SUFFICES ASSUME TxInv, Dt!SyncDone PROVE TxInv'
  OBVIOUS
<1>1. tx_open \in Nat /\ drained \in Nat /\ synced \in Nat /\ synced' = synced + 1 /\ synced < drained
  BY DEF TxInv, Types, Dt!SyncDone
<1>2. Types' /\ Pipeline' /\ Positions' /\ TakenDnodes'
  BY <1>1 DEF TxInv, Types, Pipeline, Positions, Position, TakenDnodes, Dt!SyncDone, Dt!dnVars, Dt!dirtyVars
<1>3. Dt!DirtyAccounted'
  <2>1. ASSUME NEW s \in 0 .. Dt!TXG_MASK, s \notin {Dt!Slot(t) : t \in synced + 2 .. tx_open} PROVE dp_dirty_pertxg[s] = 0
    <3>1. CASE s = Dt!Slot(synced + 1)
      BY <3>1 DEF Dt!SyncDone, Dt!Share
    <3>2. CASE s # Dt!Slot(synced + 1)
      <4>1. s \notin {Dt!Slot(t) : t \in synced + 1 .. tx_open}
        BY <1>1, <2>1, <3>2
      <4> QED
        BY <4>1 DEF TxInv, Dt!DirtyAccounted
    <3> QED
      BY <3>1, <3>2
  <2>2. synced' + 1 = synced + 2
    BY <1>1
  <2> QED
    BY <2>1, <2>2 DEF TxInv, Dt!DirtyAccounted, Dt!SyncDone, Dt!dirtyVars
<1> QED
  BY <1>2, <1>3 DEF TxInv

-----------------------------------------------------------------------------
\* Every step keeps the invariant.
LEMMA TxInductive == Dt!DmuTxAssumption /\ TxInv /\ [Dt!Next]_Dt!vars => TxInv'
<1> SUFFICES ASSUME Dt!DmuTxAssumption, TxInv, [Dt!Next]_Dt!vars PROVE TxInv'
  OBVIOUS
<1>1. ASSUME NEW x \in Txs, Dt!TryAssign(x) \/ Dt!Wait(x) \/ Dt!Body(x) PROVE TxInv'
  BY <1>1, TxWaitInv, TryHoldInv, AssignDnodeInv, ReserveInv, UnassignInv, DirtySpaceInv, TxCommitInv DEF Dt!TryAssign, Dt!Body
<1>2. CASE Dt!OpenNext \/ Dt!Drain \/ Dt!Undirty \/ Dt!UndirtyExtra \/ Dt!SyncDone
  BY <1>2, OpenNextInv, DrainInv, UndirtyInv, SyncDoneInv
<1>3. CASE Dt!Suspend \/ Dt!Resume \/ Dt!Finished \/ UNCHANGED Dt!vars
  <2>1. UNCHANGED <<Dt!pipeVars, tx, Dt!dnVars, dp_dirty_total, dp_dirty_pertxg>>
    BY <1>3 DEF Dt!Suspend, Dt!Resume, Dt!Finished, Dt!vars, Dt!dirtyVars
  <2> QED
    BY <2>1 DEF TxInv, Types, Pipeline, Positions, Position, TakenDnodes, Dt!DirtyAccounted, Dt!pipeVars, Dt!dnVars
<1> QED
  BY <1>1, <1>2, <1>3 DEF Dt!Next, Dt!Thread, Dt!QuiesceThread, Dt!SyncThread

\* The invariant of assignment, waiting, commit and the accounting of dirty data holds
\* through every interleaving with the pipeline and with suspensions of the pool.
THEOREM TxInvariance == Dt!DmuTxAssumption => (Dt!Spec => []TxInv)
<1> SUFFICES ASSUME Dt!DmuTxAssumption PROVE Dt!Spec => []TxInv
  OBVIOUS
<1>1. TxInv /\ [Dt!Next]_Dt!vars => TxInv'
  BY TxInductive
<1> QED
  BY <1>1, TxInit, PTL DEF Dt!Spec

\* A dnode is in use by the transactions of one txg only, and by none that waits or is
\* over: dmu_tx_unassign and dmu_tx_commit undo what dmu_tx_try_assign did.
THEOREM OneTxg == Dt!DmuTxAssumption => (Dt!Spec => []Dt!DnodeInOneTxg)
<1>1. TxInv => Dt!DnodeInOneTxg
  <2> SUFFICES ASSUME TxInv, NEW d \in Dnodes, NEW h \in dn_tx_holds[d]
               PROVE  tx[h[1]].txg = dn_assigned_txg[d] /\ tx[h[1]].pc \in {"holding", "assigned", "unassign"}
    BY DEF TxInv, TakenDnodes, Dt!DnodeInOneTxg
  <2>1. PICK x \in Txs, i \in Nat \ {0} : h = <<x, i>>
    BY DEF TxInv, Types
  <2>2. Held(tx[x], x, i) /\ tx[x].txg = dn_assigned_txg[d]
    BY <2>1 DEF TxInv, TakenDnodes
  <2>3. h[1] = x
    BY <2>1
  <2> QED
    BY <2>2, <2>3 DEF Held
<1> QED
  BY <1>1, TxInvariance, PTL

\* dp_dirty_total is the dirty data of the txgs that are not synced, whatever the
\* order of writes, syncs and transactions.
THEOREM DirtyTotal == Dt!DmuTxAssumption => (Dt!Spec => []Dt!DirtyAccounted)
<1>1. TxInv => Dt!DirtyAccounted
  BY DEF TxInv
<1> QED
  BY <1>1, TxInvariance, PTL
=============================================================================
