SPECIFICATION Spec
CONSTANTS
  f1 = f1
  f2 = f2
  f3 = f3
  w1 = w1
  w2 = w2
  w3 = w3
  NoFile = NoFile
  WorldSize = 1
  Files = {f1}
  Workers = {w1, w2}
  NodeOf <- MCNodeOf
  Owner <- MCOwner
  Iters <- MCManyIters
  MaxIteration = 1
  Persist = TRUE
  LockStep = TRUE
  Faults = {"disk"}
  MaxSaves = 3
  MaxFaults = 1
INVARIANTS NoLostWork
CHECK_DEADLOCK FALSE
