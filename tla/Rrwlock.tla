------------------------------ MODULE Rrwlock ------------------------------
(***************************************************************************)
(* The re-entrant reader-writer lock and the reader-mostly lock built of   *)
(* NLocks of them (rrwlock.c).  With NLocks = 1 it is a plain rrwlock_t.   *)
(*                                                                         *)
(* A section under rr_lock is one action.  The build defines _KERNEL and   *)
(* not DEBUG, so the fast paths are compiled in; they do what the slow     *)
(* paths do when no writer is about, and the model does not tell them      *)
(* apart.  A read hold is a pair of a thread and a tag; a thread that      *)
(* enters again uses another tag.                                          *)
(***************************************************************************)
EXTENDS LockThreads

CONSTANTS
  Tags,        \* a thread has at most one hold per tag
  NLocks,      \* RRM_NUM_LOCKS
  LockOf,      \* RRM_TD_LOCK of each thread
  TrackAll,    \* rr_track_all
  Prio,        \* the threads that may call rrw_enter_read_prio
  MaxEnters    \* bound on the holds a thread takes before it drops all

ASSUME RrwlockAssumption ==
  /\ IsFiniteSet(Tags)
  /\ NLocks \in Nat \ {0} /\ MaxEnters \in Nat
  /\ LockOf \in [Threads -> 0 .. NLocks - 1]
  /\ TrackAll \in BOOLEAN /\ Prio \subseteq Threads

Locks == 0 .. NLocks - 1
Holds == Threads \X Tags

VARIABLES
  rr_writer, rr_writer_wanted, rr_anon_rcount, rr_linked_rcount,  \* per lock
  hold,      \* "anon" or "linked" for a hold; the linked ones are the thread's rrw_nodes
  op,        \* the call each thread is in; "writer" when it has the write lock
  at,        \* the lock that call is about
  asleep,    \* the threads blocked on the rr_cv of their lock
  entered    \* holds taken since the thread last had none

lockVars == <<rr_writer, rr_writer_wanted, rr_anon_rcount, rr_linked_rcount>>
vars == <<lockVars, hold, op, at, asleep, entered>>

\* The fields stay in their domains: no count is released below zero.
TypeOK ==
  /\ rr_writer \in [Locks -> Threads \cup {NoThread}]
  /\ rr_writer_wanted \in [Locks -> BOOLEAN]
  /\ rr_anon_rcount \in [Locks -> Nat] /\ rr_linked_rcount \in [Locks -> Nat]
  /\ hold \in [Holds -> {"none", "anon", "linked"}]
  /\ op \in [Threads -> {"none", "read", "prio", "write", "writer"}]
  /\ at \in [Threads -> Locks]
  /\ asleep \in SUBSET Threads
  /\ entered \in [Threads -> 0 .. MaxEnters]

Awake(t) == t \notin asleep
AwakeAfter(i) == {t \in asleep : at[t] # i}     \* cv_broadcast(&rr_cv) of lock i

HoldsOf(t) == {h \in Holds : h[1] = t /\ hold[h] # "none"}

-----------------------------------------------------------------------------
(* Readers.                                                                *)

\* The thread has a node for the lock; not looked for when none is linked.
rrn_find(t, i) ==
  rr_linked_rcount[i] # 0 /\ \E g \in Tags : hold[<<t, g>>] = "linked"

\* Mutant: a thread that has the lock already waits for the writer too.
ReadBlockedAll(t, i, prio) == rr_writer[i] # NoThread \/ rr_writer_wanted[i]

\* Mutant: a waiting writer is overtaken by every reader.
ReadBlockedWriter(t, i, prio) == rr_writer[i] # NoThread

ReadBlocked(t, i, prio) ==
  \/ rr_writer[i] # NoThread
  \/ /\ rr_writer_wanted[i] /\ rr_anon_rcount[i] = 0
     /\ ~ prio /\ ~ rrn_find(t, i)

\* Mutant: a hold taken under rr_track_all is not linked.
LinksUntracked(i) == rr_writer_wanted[i]

Links(i) == rr_writer_wanted[i] \/ TrackAll

\* The hold is linked when a writer may have to tell re-entrant readers apart.
GrantRead(t, i, g) ==
  IF Links(i)
  THEN /\ hold' = [hold EXCEPT ![<<t, g>>] = "linked"]
       /\ rr_linked_rcount' = [rr_linked_rcount EXCEPT ![i] = @ + 1]
       /\ UNCHANGED rr_anon_rcount
  ELSE /\ hold' = [hold EXCEPT ![<<t, g>>] = "anon"]
       /\ rr_anon_rcount' = [rr_anon_rcount EXCEPT ![i] = @ + 1]
       /\ UNCHANGED rr_linked_rcount

\* The loop of rrw_enter_read_impl, and what follows it.
ReadLoop(t, prio, g) ==
  LET i == LockOf[t]
  IN /\ hold[<<t, g>>] = "none"
     /\ at' = [at EXCEPT ![t] = i]
     /\ IF ReadBlocked(t, i, prio)
        THEN /\ op' = [op EXCEPT ![t] = IF prio THEN "prio" ELSE "read"]
             /\ asleep' = asleep \cup {t}
             /\ UNCHANGED <<rr_anon_rcount, rr_linked_rcount, hold, entered>>
        ELSE /\ GrantRead(t, i, g)
             /\ op' = [op EXCEPT ![t] = "none"]
             /\ entered' = [entered EXCEPT ![t] = @ + 1]
             /\ UNCHANGED asleep
     /\ UNCHANGED <<rr_writer, rr_writer_wanted>>

\* rrm_enter_read, rrw_enter_read and rrw_enter_read_prio.
rrw_enter_read(t, prio, g) ==
  /\ op[t] = "none" /\ entered[t] < MaxEnters /\ (prio => t \in Prio)
  /\ ReadLoop(t, prio, g)

ReadWake(t, g) ==
  /\ op[t] \in {"read", "prio"} /\ Awake(t)
  /\ ReadLoop(t, op[t] = "prio", g)

\* The thread has a node with that tag.
rrn_find_and_remove(t, g) ==
  rr_linked_rcount[LockOf[t]] # 0 /\ hold[<<t, g>>] = "linked"

LastOut(linked, count) == count = 0

\* rrw_exit of a reader: the node with that tag, or else an anonymous hold.
rrw_exit(t, g) ==
  LET i == LockOf[t]
      linked == rrn_find_and_remove(t, g)
      count == IF linked THEN rr_linked_rcount[i] - 1 ELSE rr_anon_rcount[i] - 1
  IN /\ op[t] = "none" /\ hold[<<t, g>>] # "none"
     /\ hold' = [hold EXCEPT ![<<t, g>>] = "none"]
     /\ rr_linked_rcount' = [rr_linked_rcount EXCEPT ![i] = IF linked THEN count ELSE @]
     /\ rr_anon_rcount' = [rr_anon_rcount EXCEPT ![i] = IF linked THEN @ ELSE count]
     /\ asleep' = IF LastOut(linked, count) THEN AwakeAfter(i) ELSE asleep
     /\ entered' = [entered EXCEPT ![t] = IF HoldsOf(t) = {<<t, g>>} THEN 0 ELSE @]
     /\ UNCHANGED <<rr_writer, rr_writer_wanted, op, at>>

-----------------------------------------------------------------------------
(* Writers.                                                                *)

WriteBlocked(i) ==
  rr_anon_rcount[i] > 0 \/ rr_linked_rcount[i] > 0 \/ rr_writer[i] # NoThread

\* The loop of rrw_enter_write on one lock; rrm_enter_write takes them in order.
WriteLoop(t, i) ==
  /\ IF WriteBlocked(i)
     THEN /\ rr_writer_wanted' = [rr_writer_wanted EXCEPT ![i] = TRUE]
          /\ asleep' = asleep \cup {t}
          /\ op' = [op EXCEPT ![t] = "write"]
          /\ at' = [at EXCEPT ![t] = i]
          /\ UNCHANGED rr_writer
     ELSE /\ rr_writer_wanted' = [rr_writer_wanted EXCEPT ![i] = FALSE]
          /\ rr_writer' = [rr_writer EXCEPT ![i] = t]
          /\ op' = [op EXCEPT ![t] = IF i = NLocks - 1 THEN "writer" ELSE "write"]
          /\ at' = [at EXCEPT ![t] = IF i = NLocks - 1 THEN 0 ELSE i + 1]
          /\ UNCHANGED asleep
  /\ UNCHANGED <<rr_anon_rcount, rr_linked_rcount, hold, entered>>

\* A thread that reads must not write: it would wait for itself.
rrm_enter_write(t) ==
  /\ op[t] = "none" /\ HoldsOf(t) = {}
  /\ WriteLoop(t, 0)

WriteStep(t) ==
  /\ op[t] = "write" /\ Awake(t)
  /\ WriteLoop(t, at[t])

\* rrm_exit of the writer, one lock at a time.
WriteExit(t) ==
  LET i == at[t]
  IN /\ op[t] = "writer"
     /\ rr_writer' = [rr_writer EXCEPT ![i] = NoThread]
     /\ asleep' = AwakeAfter(i)
     /\ op' = [op EXCEPT ![t] = IF i = NLocks - 1 THEN "none" ELSE "writer"]
     /\ at' = [at EXCEPT ![t] = IF i = NLocks - 1 THEN 0 ELSE i + 1]
     /\ UNCHANGED <<rr_writer_wanted, rr_anon_rcount, rr_linked_rcount, hold, entered>>

-----------------------------------------------------------------------------
Init ==
  /\ rr_writer = [i \in Locks |-> NoThread]
  /\ rr_writer_wanted = [i \in Locks |-> FALSE]
  /\ rr_anon_rcount = [i \in Locks |-> 0] /\ rr_linked_rcount = [i \in Locks |-> 0]
  /\ hold = [h \in Holds |-> "none"]
  /\ op = [t \in Threads |-> "none"] /\ at = [t \in Threads |-> 0]
  /\ asleep = {} /\ entered = [t \in Threads |-> 0]

\* pthread_cond_wait may return unasked.
SpuriousWake(t) ==
  /\ t \in asleep
  /\ asleep' = asleep \ {t}
  /\ UNCHANGED <<lockVars, hold, op, at, entered>>

ReaderStep(t) ==
  \E g \in Tags : ReadWake(t, g) \/ rrw_exit(t, g)
                    \/ \E prio \in BOOLEAN : rrw_enter_read(t, prio, g)

WriterStep(t) == rrm_enter_write(t) \/ WriteStep(t) \/ WriteExit(t)

Next == \E t \in Threads : ReaderStep(t) \/ WriterStep(t) \/ SpuriousWake(t)

Spec == Init /\ [][Next]_vars

-----------------------------------------------------------------------------
(* Safety.                                                                 *)

Reading(t) == HoldsOf(t) # {}
Writing(t) == op[t] = "writer" /\ at[t] = 0    \* it has all the locks

\* A thread with the write lock is alone, although readers are counted on one
\* of NLocks locks and in one of two counters each.
WriterAlone ==
  \A t, u \in Threads : Writing(t) => ~ Reading(u) /\ (Writing(u) => u = t)

\* A thread that has the lock for reading never blocks entering it again, so a
\* waiting writer and a re-entrant reader cannot wait for each other
\* ("If they are a re-entrant lock, then we must let the proceed").
ReentrantNeverWaits == \A t \in asleep : ~ Reading(t)

\* rrw_held(RW_READER): exact for a lock created with track_all, as its comment
\* says, even while writers come and go.
rrw_held_read(t) == rr_anon_rcount[LockOf[t]] # 0 \/ rrn_find(t, LockOf[t])

HeldIsExact == TrackAll => \A t \in Threads : rrw_held_read(t) <=> Reading(t)

\* The counters are the holds: inductive, with the position of each writer.
HoldsOn(i, kind) == {h \in Holds : LockOf[h[1]] = i /\ hold[h] = kind}

OwnsLock(t, i) ==
  (op[t] = "write" /\ i < at[t]) \/ (op[t] = "writer" /\ at[t] <= i)

CountInv ==
  \A i \in Locks : /\ rr_anon_rcount[i] = Cardinality(HoldsOn(i, "anon"))
                   /\ rr_linked_rcount[i] = Cardinality(HoldsOn(i, "linked"))

OwnerInv ==
  \A i \in Locks :
    /\ rr_writer[i] # NoThread => rr_anon_rcount[i] = 0 /\ rr_linked_rcount[i] = 0
    /\ \A t \in Threads : rr_writer[i] = t <=> OwnsLock(t, i)

CallInv ==
  /\ \A t \in Threads : op[t] # "none" => ~ Reading(t)
  /\ \A t \in asleep : op[t] \in {"read", "prio", "write"}
  /\ \A t \in Threads : op[t] \in {"read", "prio"} => at[t] = LockOf[t] /\ entered[t] < MaxEnters

RrwInv ==
  /\ TypeOK /\ CountInv /\ OwnerInv /\ CallInv
  /\ TrackAll => \A h \in Holds : hold[h] # "anon"

\* The lock implements the abstract reader-writer lock.
TheWriter == IF \E t \in Threads : Writing(t)
             THEN CHOOSE t \in Threads : Writing(t) ELSE NoThread

RW == INSTANCE RWLock WITH Writers <- Threads, NoWriter <- NoThread,
        readers <- {h \in Holds : hold[h] # "none"}, writer <- TheWriter

ImplementsRWLock == RW!Spec

-----------------------------------------------------------------------------
(* Liveness.  Whoever has the lock gives it up, and whoever is awake runs. *)

Fairness ==
  \A t \in Threads :
    /\ \A g \in Tags : WF_vars(rrw_exit(t, g))
    /\ WF_vars(\E g \in Tags : ReadWake(t, g))
    /\ WF_vars(WriteStep(t)) /\ WF_vars(WriteExit(t))
=============================================================================
