SPECIFICATION DslSpec
CONSTANTS
  c1 = c1
  c2 = c2
  c3 = c3
  r1 = r1
  x = x
  y = y
  b1 = b1
  x1 = x1
  x2 = x2
  x3 = x3
  d1 = d1
  d2 = d2
  Callers = {c1, c2, c3}
  NoWait = {c3}
  Readers = {r1}
  Kind <- MCKind
  Name <- MCName
  InUse = {}
  SpaceCheck = {c2}
  MaxTxg = 5
  MaxCrash = 1
INVARIANTS
  ReturnsTruth
  LookupsWhole
  BlocksExact
  DnodeInOneTxg
  DirtyAccounted
PROPERTIES
  EveryCallReturns
  AssignReturns
CHECK_DEADLOCK FALSE
