------------------------------ MODULE KRwlock -------------------------------
(***************************************************************************)
(* The reader-writer lock of libspl (rwlock.c): the spinning ck_rwlock of  *)
(* libck (ck_rwlock.h) and, beside it, the thread that writes.  Every      *)
(* atomic operation on the two counters, and every store to the writer     *)
(* field, is an action.  Fences make memory sequentially consistent here.  *)
(***************************************************************************)
EXTENDS LockThreads

VARIABLES
  ck_writer, n_readers,   \* ck_rwlock_t
  writer,                 \* krwlock_t.writer
  pc,                     \* where each thread is
  try                     \* whether its call is rw_tryenter

vars == <<ck_writer, n_readers, writer, pc, try>>

\* Places of a writer: about to swap, waiting for readers, about to set the
\* field, writing, about to unlock; then the two steps of a downgrade.
WriterSide == {"drain", "set", "write", "unlock", "giveup", "inc", "store"}
ReaderSide == {"load", "count", "check", "uncount", "read"}
Places == {"none", "swap"} \cup WriterSide \cup ReaderSide

TypeOK ==
  /\ ck_writer \in {0, 1} /\ n_readers \in Nat
  /\ writer \in Threads \cup {NoThread}
  /\ pc \in [Threads -> Places] /\ try \in [Threads -> BOOLEAN]

Go(t, from, to) == pc[t] = from /\ pc' = [pc EXCEPT ![t] = to]

-----------------------------------------------------------------------------
(* Writing.                                                                *)

rw_enter_writer(t) ==
  /\ Go(t, "none", "swap") /\ \E b \in BOOLEAN : try' = [try EXCEPT ![t] = b]
  /\ UNCHANGED <<ck_writer, n_readers, writer>>

\* ck_pr_fas_uint(&rw->writer, 1): spin, or fail, if it was 1.
Swap(t) ==
  /\ pc[t] = "swap"
  /\ ck_writer' = 1
  /\ pc' = [pc EXCEPT ![t] = IF ck_writer = 0 THEN "drain" ELSE IF try[t] THEN "none" ELSE "swap"]
  /\ UNCHANGED <<n_readers, writer, try>>

\* Mutant: readers are not waited for.
DrainNot(t) ==
  /\ Go(t, "drain", "set")
  /\ UNCHANGED <<ck_writer, n_readers, writer, try>>

\* ck_pr_load_uint(&rw->n_readers): spin, or give up, while there are readers.
Drain(t) ==
  /\ pc[t] = "drain"
  /\ n_readers = 0 \/ try[t]
  /\ pc' = [pc EXCEPT ![t] = IF n_readers = 0 THEN "set" ELSE "giveup"]
  /\ UNCHANGED <<ck_writer, n_readers, writer, try>>

\* The rest of ck_rwlock_write_trylock if there were readers.
GiveUp(t) ==
  /\ Go(t, "giveup", "none")
  /\ ck_writer' = 0
  /\ UNCHANGED <<n_readers, writer, try>>

\* rw->writer = pthread_to_kthread(pthread_self())
SetWriter(t) ==
  /\ Go(t, "set", "write")
  /\ writer' = t
  /\ UNCHANGED <<ck_writer, n_readers, try>>

\* rw_exit asks rw_iswriter which lock the caller has.
rw_exit(t) ==
  /\ pc[t] \in {"write", "read"}
  /\ IF writer = t
     THEN /\ writer' = NoThread
          /\ pc' = [pc EXCEPT ![t] = "unlock"]
          /\ UNCHANGED n_readers
     ELSE /\ n_readers' = n_readers - 1
          /\ pc' = [pc EXCEPT ![t] = "none"]
          /\ UNCHANGED writer
  /\ UNCHANGED <<ck_writer, try>>

\* ck_rwlock_write_unlock
WriteUnlock(t) ==
  /\ Go(t, "unlock", "none")
  /\ ck_writer' = 0
  /\ UNCHANGED <<n_readers, writer, try>>

rw_downgrade(t) ==
  /\ Go(t, "write", "inc")
  /\ writer' = NoThread
  /\ UNCHANGED <<ck_writer, n_readers, try>>

\* ck_rwlock_write_downgrade: count a reader, then release.
DowngradeInc(t) ==
  /\ Go(t, "inc", "store")
  /\ n_readers' = n_readers + 1
  /\ UNCHANGED <<ck_writer, writer, try>>

DowngradeStore(t) ==
  /\ Go(t, "store", "read")
  /\ ck_writer' = 0
  /\ UNCHANGED <<n_readers, writer, try>>

-----------------------------------------------------------------------------
(* Reading.                                                                *)

rw_enter_reader(t) ==
  /\ Go(t, "none", "load") /\ \E b \in BOOLEAN : try' = [try EXCEPT ![t] = b]
  /\ UNCHANGED <<ck_writer, n_readers, writer>>

\* ck_pr_load_uint(&rw->writer): spin, or fail, while there is a writer.
Load(t) ==
  /\ pc[t] = "load"
  /\ ck_writer = 0 \/ try[t]
  /\ pc' = [pc EXCEPT ![t] = IF ck_writer = 0 THEN "count" ELSE "none"]
  /\ UNCHANGED <<ck_writer, n_readers, writer, try>>

Count(t) ==
  /\ Go(t, "count", "check")
  /\ n_readers' = n_readers + 1
  /\ UNCHANGED <<ck_writer, writer, try>>

\* The second look at the writer.
Check(t) ==
  /\ pc[t] = "check"
  /\ pc' = [pc EXCEPT ![t] = IF ck_writer = 0 THEN "read" ELSE "uncount"]
  /\ UNCHANGED <<ck_writer, n_readers, writer, try>>

Uncount(t) ==
  /\ Go(t, "uncount", IF try[t] THEN "none" ELSE "load")
  /\ n_readers' = n_readers - 1
  /\ UNCHANGED <<ck_writer, writer, try>>

-----------------------------------------------------------------------------
\* rw_init
Init ==
  /\ ck_writer = 0 /\ n_readers = 0 /\ writer = NoThread
  /\ pc = [t \in Threads |-> "none"] /\ try = [t \in Threads |-> FALSE]

WriterStep(t) ==
  \/ Swap(t) \/ Drain(t) \/ GiveUp(t) \/ SetWriter(t) \/ WriteUnlock(t)
  \/ DowngradeInc(t) \/ DowngradeStore(t)
ReaderStep(t) == Load(t) \/ Count(t) \/ Check(t) \/ Uncount(t)

Next ==
  \E t \in Threads :
    \/ rw_enter_writer(t) \/ rw_enter_reader(t) \/ rw_exit(t) \/ rw_downgrade(t)
    \/ WriterStep(t) \/ ReaderStep(t)

Spec == Init /\ [][Next]_vars

-----------------------------------------------------------------------------
(* Safety.                                                                 *)

\* Places at which a thread is one of n_readers.
Counted(t) == pc[t] \in {"check", "uncount", "read", "store"}
CountedSet == {t \in Threads : Counted(t)}

\* Exact counters, one writer, nobody reads while one writes, and the writer
\* field tells rw_exit the truth (inductive).
KRwInv ==
  /\ TypeOK
  /\ ck_writer = 1 <=> \E t \in Threads : pc[t] \in WriterSide
  /\ \A t, u \in Threads : pc[t] \in WriterSide /\ pc[u] \in WriterSide => t = u
  /\ n_readers = Cardinality(CountedSet)
  /\ \A t, u \in Threads : pc[t] = "read" => pc[u] \notin {"set", "write", "unlock", "inc", "store"}
  /\ \A t \in Threads : writer = t <=> pc[t] = "write"

\* The lock implements the abstract reader-writer lock, the downgrade included.
Writes(t) == pc[t] \in {"set", "write", "unlock", "inc", "store"}
TheWriter == IF \E t \in Threads : Writes(t) THEN CHOOSE t \in Threads : Writes(t) ELSE NoThread
RW == INSTANCE RWLock WITH Holds <- Threads, Writers <- Threads, NoWriter <- NoThread,
        readers <- {t \in Threads : pc[t] = "read"}, writer <- TheWriter
ImplementsRWLock == RW!Spec

-----------------------------------------------------------------------------
(* Liveness.  Threads run and give up what they have.                      *)

Fairness ==
  \A t \in Threads : WF_vars(WriterStep(t)) /\ WF_vars(ReaderStep(t)) /\ WF_vars(rw_exit(t))
=============================================================================
