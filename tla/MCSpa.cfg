SPECIFICATION SpaSpec
CONSTANTS
  b1 = b1
  b2 = b2
  v1 = v1
  v2 = v2
  d1 = d1
  d2 = d2
  NULL = NULL
  Blocks = {b1, b2}
  LowSpace = FALSE
  Aborts = TRUE
  UnloadDelay = 1
  MaxTxg = 8
  MaxPass = 2
  MaxCrash = 1
SYMMETRY Perms
INVARIANTS
  FreeIsUnused
  SpaceMapExact
  DirtyVdevsFlushed
  HonestIfPresent
PROPERTY AdminKeepsData
CHECK_DEADLOCK FALSE
