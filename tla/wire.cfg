\* Two connections on two cards, one failure of any kind, files that fit the
\* send queue and one that does not.
SPECIFICATION FairSpec
CONSTANTS
  c1 = c1
  c2 = c2
  Conns = {c1, c2}
  Chunks = {1, 2}
  Ops <- AnyAndMeta
  CqSize = 1
  NumNics = 2
  Faults = {"connect", "accept", "refuse", "alloc", "nic", "rdma", "reset", "split"}
  MaxFaults = 1
INVARIANTS TypeOK InStep DeadEndNeedsFault NicBalanced
PROPERTIES Refinement Settles
CHECK_DEADLOCK FALSE
