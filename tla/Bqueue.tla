------------------------------- MODULE Bqueue -------------------------------
(***************************************************************************)
(* The blocking queue (bqueue.c): a list of sized items, bounded by the    *)
(* sum of their sizes.  One action is a section under bq_lock, up to the   *)
(* next wait or unlock; bqueue_dequeue signals after it has unlocked.      *)
(***************************************************************************)
EXTENDS Integers, Sequences, FiniteSets, Functions

CONSTANTS
  Threads,
  Items,
  Size(_),      \* item_size of an item
  bq_maxsize,
  NoItem

VARIABLES
  bq_list,      \* the items, first to last
  bq_size,
  bq            \* each thread's call: [op, item], and whether it sleeps

queueVars == <<bq_list, bq_size, bq>>

ASSUME BqueueAssumption ==
  /\ bq_maxsize \in Nat /\ NoItem \notin Items
  /\ \A x \in Items : Size(x) \in 1..(bq_maxsize - 1)

Ops == {"none", "enqueue", "dequeue", "signal"}
BqTypeOK ==
  /\ bq_list \in Seq(Items) /\ bq_size \in 0..bq_maxsize
  /\ bq \in [Threads -> [op : Ops, item : Items \cup {NoItem}, asleep : BOOLEAN]]

InCall(t, op) == bq[t].op = op
Runs(t, op) == InCall(t, op) /\ ~bq[t].asleep
Return(x) == [op |-> "none", item |-> x, asleep |-> FALSE]

\* cv_signal: one of the threads asleep in the call op, if there is one, is
\* woken.  b is the state of the calls otherwise.
Signal(b, op) ==
  LET S == {t \in Threads : b[t].op = op /\ b[t].asleep}
  IN  IF S = {} THEN {b} ELSE {[b EXCEPT ![t].asleep = FALSE] : t \in S}

-----------------------------------------------------------------------------
\* The call begins.
bqueue_enqueue(t, x) ==
  /\ Runs(t, "none")
  /\ bq' = [bq EXCEPT ![t] = [op |-> "enqueue", item |-> x, asleep |-> FALSE]]
  /\ UNCHANGED <<bq_list, bq_size>>

Room(x) == bq_size + Size(x) <= bq_maxsize

\* list_insert_tail
Insert(x) == Append(bq_list, x)

\* cv_signal(&q->bq_pop_cv), under the lock.
PopSignal(b) == Signal(b, "dequeue")

\* A section of bqueue_enqueue: wait for room, or insert and signal bq_pop_cv.
Enqueue(t) ==
  /\ Runs(t, "enqueue")
  /\ IF Room(bq[t].item)
     THEN /\ bq_list' = Insert(bq[t].item)
          /\ bq_size' = bq_size + Size(bq[t].item)
          /\ bq' \in PopSignal([bq EXCEPT ![t] = Return(NoItem)])
     ELSE /\ bq' = [bq EXCEPT ![t].asleep = TRUE]
          /\ UNCHANGED <<bq_list, bq_size>>

bqueue_dequeue(t) ==
  /\ Runs(t, "none")
  /\ bq' = [bq EXCEPT ![t] = [op |-> "dequeue", item |-> NoItem, asleep |-> FALSE]]
  /\ UNCHANGED <<bq_list, bq_size>>

\* A section of bqueue_dequeue: wait for an item, or take the first.
Dequeue(t) ==
  /\ Runs(t, "dequeue")
  /\ IF bq_size = 0
     THEN /\ bq' = [bq EXCEPT ![t].asleep = TRUE]
          /\ UNCHANGED <<bq_list, bq_size>>
     ELSE /\ bq_list' = Tail(bq_list)
          /\ bq_size' = bq_size - Size(Head(bq_list))
          /\ bq' = [bq EXCEPT ![t] = [op |-> "signal", item |-> Head(bq_list), asleep |-> FALSE]]

\* bqueue_dequeue signals bq_add_cv after the unlock, and returns.
DequeueSignal(t) ==
  /\ Runs(t, "signal")
  /\ bq' \in Signal([bq EXCEPT ![t] = Return(bq[t].item)], "enqueue")
  /\ UNCHANGED <<bq_list, bq_size>>

\* bqueue_init.
BqInit ==
  /\ bq_list = << >> /\ bq_size = 0
  /\ bq = [t \in Threads |-> Return(NoItem)]

BqSpurious(t) ==
  /\ bq[t].asleep
  /\ bq' = [bq EXCEPT ![t].asleep = FALSE]
  /\ UNCHANGED <<bq_list, bq_size>>

BqStep(t) == Enqueue(t) \/ Dequeue(t) \/ DequeueSignal(t)

-----------------------------------------------------------------------------
(* The queue by itself: any thread may put an item that is not in use.     *)

InUse == Range(bq_list) \cup {bq[t].item : t \in Threads}

Next ==
  \E t \in Threads :
    \/ \E x \in Items \ InUse : bqueue_enqueue(t, x)
    \/ bqueue_dequeue(t) \/ BqStep(t) \/ BqSpurious(t)

Spec == BqInit /\ [][Next]_queueVars

-----------------------------------------------------------------------------
\* bq_size is the sum of the sizes of the items, so it is 0 exactly when there is
\* none: sum[i] is that of the first i.
Sized ==
  \E sum \in [0..Len(bq_list) -> 0..bq_maxsize] :
    /\ sum[0] = 0 /\ bq_size = sum[Len(bq_list)]
    /\ \A i \in 1..Len(bq_list) : sum[i] = sum[i - 1] + Size(bq_list[i])
    /\ \A i, j \in 0..Len(bq_list) : i < j => sum[i] < sum[j]
=============================================================================
