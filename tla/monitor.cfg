CONSTANTS
  f1 = f1  f2 = f2  t1 = t1  t2 = t2
  Files <- MCFiles
  Threads <- MCThreads
  Sizes <- MCSizes
  Capacity = 3
  Usages <- MCUsages
  Word = 16
  MaxOps = 4
SPECIFICATION Spec
SYMMETRY Symmetry
INVARIANTS TypeOK UsageExact WithinLimit StoredIsMapped
