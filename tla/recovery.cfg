SPECIFICATION Spec
CONSTANTS
  f1 = f1
  f2 = f2
  f3 = f3
  f4 = f4
  NoFile = NoFile
  WorldSize = 2
  Files = {f1, f2, f3}
  Owner <- MCOwner
  Iter <- MCIter
  MaxIteration = 1
  RetryTimes = 1
  SkipFirst = TRUE
  MaxCrashes = 2
  Faults = {"mem"}
  MaxFaults = 1
INVARIANTS TypeOK PersistentOnDisk RecoveredIntact ReadyHoldsBackups WindowRebuilt
PROPERTIES RestoredFromDisk
SYMMETRY MCSymmetry
CHECK_DEADLOCK FALSE
