SPECIFICATION FairSpec
CONSTANTS
  p1 = p1
  p2 = p2
  p3 = p3
  r1 = r1
  r2 = r2
  Nobody = Nobody
  Writers = {p1, p2}
  Readers = {r1, r2}
  Cap = 2
  Closes = TRUE
  MaxPushes = 4
INVARIANTS TypeOK InOrder
PROPERTIES Refinement Drained
CHECK_DEADLOCK FALSE
