SPECIFICATION MCSpec
CONSTANTS
  t1 = t1
  w1 = w1
  u1 = u1 u2 = u2 u3 = u3
  NoThread = none
  NCpus = 2
  Txs = {t1}
  Waiters = {}
  Targets <- MCTargets
  FirstTxg = 4
  MaxTxg = 8
SYMMETRY Perms
INVARIANTS
  SyncTxgHasNoHolder
  SyncedIsDurable
  StoppedIsClean
  TreeExact
  AppendsAppend
PROPERTIES
  CallbacksNotEarly
  CommitsInGroups
  RangesExclude
