\* A file kept on this node and a remote one, two ranks, one request in the channel, one failure.
SPECIFICATION FairSpec
CONSTANTS
  f1 = f1
  f2 = f2
  Files = {f1, f2}
  NoFile = NoFile
  Places <- HereAndThere
  Ranks = {r1, r2}
  Cap = 1
  Faults = {"db", "net"}
  MaxSaves = 1
  MaxFaults = 1
INVARIANTS LoadedOnce LoadsIntact NoDescriptorLost
PROPERTIES Answered
CHECK_DEADLOCK FALSE
