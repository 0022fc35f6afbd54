CONSTANTS
  t1 = t1 t2 = t2 t3 = t3 io = io
  Threads = {t1, t2, t3}
  NoThread = none
  Tags = {1, 2}
  NLocks = 2
  LockOf <- TwoLocks
  TrackAll = FALSE
  Prio = {}
  MaxEnters = 2
SPECIFICATION LocksSpec
INVARIANTS ReentrantNeverWaits HoldsExact
PROPERTIES LocksExclude  WritersEnter
