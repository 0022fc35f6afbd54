---------------------------- MODULE LockThreads -----------------------------
(* The threads that use a lock, for the modules that model locks.          *)
EXTENDS Integers, FiniteSets

CONSTANTS
  Threads,
  NoThread     \* the owner of a lock that nobody has: NULL, or INVALID_KTHREAD

ASSUME ThreadsAssumption == IsFiniteSet(Threads) /\ NoThread \notin Threads
=============================================================================
