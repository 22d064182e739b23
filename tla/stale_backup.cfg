SPECIFICATION Spec
CONSTANTS
  f1 = f1
  f2 = f2
  f3 = f3
  w1 = w1
  w2 = w2
  w3 = w3
  NoFile = NoFile
  WorldSize = 2
  Files = {f1}
  Workers = {w1, w2, w3}
  NodeOf <- MCNodeOf
  Owner <- MCOwner
  Iters <- MCIters
  MaxIteration = 1
  Persist = TRUE
  LockStep = TRUE
  Faults = {"db", "net", "mem", "disk"}
  MaxSaves = 2
  MaxFaults = 0
INVARIANTS BackedUpTruth
CHECK_DEADLOCK FALSE
