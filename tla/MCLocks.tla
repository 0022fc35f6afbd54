------------------------------ MODULE MCLocks -------------------------------
(***************************************************************************)
(* The locks of the repository side by side: every behaviour picks one of  *)
(* them (part) and exercises it.  The others stay as they are initialised. *)
(***************************************************************************)
EXTENDS Rrwlock, TLC

CONSTANTS t1, t2, t3, io

VARIABLES
  part,
  zr_refcount, zr_mtx, zr_ref, zr_pc, zr_n, zr_asleep,
  scl_writer, scl_write_wanted, scl_held, scl_call, scl_asleep,
  ck_writer, n_readers, rw_writer, rw_pc, rw_try

zrVars == <<zr_refcount, zr_mtx, zr_ref, zr_pc, zr_n, zr_asleep>>
sclVars == <<scl_writer, scl_write_wanted, scl_held, scl_call, scl_asleep>>
krwVars == <<ck_writer, n_readers, rw_writer, rw_pc, rw_try>>
allVars == <<part, vars, zrVars, sclVars, krwVars>>

\* A reader-mostly lock of two, without and with rr_track_all and priorities.
TwoLocks == [t \in {t1, t2, t3} |-> IF t = t1 THEN 0 ELSE 1]
Tracked == INSTANCE Rrwlock WITH TrackAll <- TRUE, Prio <- Threads

Zrl == INSTANCE Zrlock WITH
  Slots <- {1}, ref <- zr_ref, pc <- zr_pc, n <- zr_n, asleep <- zr_asleep

\* Two locks, which is enough to have one and wait for the other; t3 is the
\* thread that completes I/O.
Scl == INSTANCE SpaConfigLock WITH
  Writers <- {t1, t2}, Interrupts <- {t3}, Ios <- {io}, NLocks <- 2,
  held <- scl_held, call <- scl_call, asleep <- scl_asleep

Krw == INSTANCE KRwlock WITH writer <- rw_writer, pc <- rw_pc, try <- rw_try

Parts == {"rrmlock", "tracked", "zrlock", "scl", "krwlock"}

LocksInit ==
  /\ part \in Parts
  /\ Init /\ Zrl!Init /\ Scl!Init /\ Krw!Init

Only(p) == part = p /\ UNCHANGED part
Rest(p) ==
  /\ p # "rrw" => UNCHANGED vars
  /\ p # "zrl" => UNCHANGED zrVars
  /\ p # "scl" => UNCHANGED sclVars
  /\ p # "krw" => UNCHANGED krwVars

LocksNext ==
  \/ Only("rrmlock") /\ Next /\ Rest("rrw")
  \/ Only("tracked") /\ Tracked!Next /\ Rest("rrw")
  \/ Only("zrlock") /\ Zrl!Next /\ Rest("zrl")
  \/ Only("scl") /\ Scl!Next /\ Rest("scl")
  \/ Only("krwlock") /\ Krw!Next /\ Rest("krw")

\* Nobody is in a call at first, so the fairness of the parts that are not
\* exercised asks for nothing.
LocksSpec ==
  /\ LocksInit /\ [][LocksNext]_allVars
  /\ Fairness /\ Scl!Fairness /\ Krw!Fairness

\* Each of the four locks implements the abstract reader-writer lock: readers
\* share it, a writer has it alone, and a downgraded writer lets no other in.
\* spa_config_tryenter takes all the locks it was asked for, or none.
LocksExclude ==
  /\ ImplementsRWLock /\ Zrl!ImplementsRWLock /\ Scl!ImplementsRWLock /\ Krw!ImplementsRWLock
  /\ Scl!TryAllOrNothing

\* What the locks count is what their threads hold.  rrw_held_read of a lock that
\* tracks all its readers is true of exactly those; zr_refcount, changed without a
\* lock, is the number of references; scl_write_wanted is the number of waiting
\* writers, and whoever sleeps has somebody to wait for; what
\* spa_config_exit and a refused spa_config_tryenter give back is held.
HoldsExact ==
  /\ part = "tracked" => Tracked!HeldIsExact
  /\ part = "zrlock" => Zrl!ZrlInv /\ Zrl!SleepersAwaited
  /\ part = "scl" => Scl!SclInv /\ Scl!OnlyHeldGivenBack

\* A writer of t's lock waits: t itself, or one of the lock TwoLocks[t].
WriterWaits(t) ==
  CASE part = "rrmlock" -> \E u \in Threads : op[u] = "write"
    [] part = "scl" -> Scl!Wanting(TwoLocks[t]) # {}
    [] part = "krwlock" -> rw_pc[t] = "drain"
    [] OTHER -> FALSE

WriterIn(t) ==
  CASE part = "rrmlock" -> \E u \in Threads : op[u] = "writer"
    [] part = "scl" -> scl_writer[TwoLocks[t]] # NoThread
    [] part = "krwlock" -> rw_pc[t] # "drain"
    [] OTHER -> TRUE

\* "Hence, we do not starve writers" (rrwlock.c): when writers wait one gets in,
\* however many readers come, unless they ask for priority.  The same of the pool's
\* configuration locks, whatever locks a thread has already: write-wanted keeps
\* readers out, the order of the locks keeps threads from waiting for each other.
\* A writer that has announced itself to ck_rwlock sees the readers turn back.
WritersEnter == \A t \in Threads : WriterWaits(t) ~> WriterIn(t)
=============================================================================
