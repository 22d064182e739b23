SPECIFICATION FairSpec
CONSTANTS
  f1 = f1
  f2 = f2
  f3 = f3
  f4 = f4
  NoFile = NoFile
  WorldSize = 2
  Files = {f1, f4}
  Owner <- MCOwner
  Iter <- MCIter
  MaxIteration = 1
  RetryTimes = 2
  SkipFirst = TRUE
  MaxCrashes = 1
  Faults = {}
  MaxFaults = 0
INVARIANTS BackupFetched
CHECK_DEADLOCK FALSE
