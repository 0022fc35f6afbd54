CONSTANTS
  tv = tv main = main eos = eos rmain = rmain wr = wr drr_end = drr_end
  Threads = {tv, main}
  NBlocks = 4
  NoRecord = {2}
  Items <- MCItems
  Size <- MCSize
  RecvSize <- MCRecvSize
  bq_maxsize = 3
  NoItem = none
SPECIFICATION ReplSpec
INVARIANTS Transferred QueuesUnused
PROPERTIES BothReturn
CHECK_DEADLOCK FALSE
