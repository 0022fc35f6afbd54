SPECIFICATION FairSpec
CONSTANTS
  t1 = t1
  w1 = w1
  NCpus = 1
  Txs = {t1}
  Waiters = {w1}
  Targets <- MCTargets
  FirstTxg = 4
  MaxTxg = 7
PROPERTIES
  CallersReturn
