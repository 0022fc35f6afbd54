SPECIFICATION ZilSpec
CONSTANTS
  t1 = t1
  t2 = t2
  s1 = s1
  s2 = s2
  w1 = w1
  c1 = c1
  d1 = d1
  Threads = {t1, t2}
  Suspenders = {s1, s2}
  Offliners = {s2}
  Calls = 1
  Fresh = FALSE
INVARIANTS
  ReturnsStable
  CommittedSurvive
PROPERTY EveryCommitReturns
CHECK_DEADLOCK FALSE
