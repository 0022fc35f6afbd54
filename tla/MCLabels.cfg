SPECIFICATION Spec
CONSTANTS
  d1 = d1
  d2 = d2
  top1 = top1
  top2 = top2
  Torn = Torn
  Disks <- MCDisks
  Plans <- MCPlans
  VDEV_LABELS = 2
  UbCount = 3
  MaxIdle = 1
  MayMiss = FALSE
SYMMETRY Perms
INVARIANT RestartWhole
PROPERTY CommitsAtomically
CHECK_DEADLOCK FALSE
