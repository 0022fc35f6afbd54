CONSTANTS
  w1 = w1 w2 = w2 c1 = c1 c2 = c2 a = a b = b k = k p = p
  Workers <- MCWorkers
  Clients <- MCClients
  Tasks <- MCTasks
  Prealloc = {p}
  Front = {b}
  Child <- MCChild
  Roots <- MCRoots
  MinAlloc = 1
  MaxAlloc = 2
SPECIFICATION Spec
INVARIANT SleepDispatchSucceeds
