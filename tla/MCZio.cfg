SPECIFICATION FairSpec
CONSTANTS
  r = r
  w = w
  a = a
  G = G
  s1 = s1
  s2 = s2
  Zios = {r, w, a}
  Trees <- MCTrees
  Async = G
  Suspenders = {s1, s2}
  NoZio = NoZio
  Copies = 2
  MaxSlots = 2
  Errors = {"EIO", "ENOSPC"}
  MaxFaults = 1
INVARIANTS
  OneExecutor
  BlocksExact
  ErrorsReported
PROPERTIES
  EveryIoCompletes
CHECK_DEADLOCK FALSE
