------------------------------- MODULE RWLock -------------------------------
(***************************************************************************)
(* What a reader-writer lock promises: any number of read holds, or one    *)
(* writer and no read hold.  The locks of rrwlock.c, zrlock.c, spa_misc.c  *)
(* and libspl's rwlock.c each implement it.                                *)
(***************************************************************************)
CONSTANTS
  Holds,     \* the read holds that may be taken
  Writers,   \* who may write
  NoWriter

VARIABLES readers, writer

lockVars == <<readers, writer>>

Init == readers = {} /\ writer = NoWriter

AcquireRead(h) ==
  /\ h \notin readers /\ writer = NoWriter
  /\ readers' = readers \cup {h}
  /\ UNCHANGED writer

ReleaseRead(h) ==
  /\ h \in readers
  /\ readers' = readers \ {h}
  /\ UNCHANGED writer

AcquireWrite(t) ==
  /\ readers = {} /\ writer = NoWriter
  /\ writer' = t
  /\ UNCHANGED readers

ReleaseWrite ==
  /\ writer # NoWriter
  /\ writer' = NoWriter
  /\ UNCHANGED readers

\* The writer becomes a reader without letting another writer in between.
Downgrade(h) ==
  /\ writer # NoWriter
  /\ writer' = NoWriter
  /\ readers' = {h}

Next ==
  \/ \E h \in Holds : AcquireRead(h) \/ ReleaseRead(h) \/ Downgrade(h)
  \/ \E t \in Writers : AcquireWrite(t)
  \/ ReleaseWrite

Spec == Init /\ [][Next]_lockVars
=============================================================================
