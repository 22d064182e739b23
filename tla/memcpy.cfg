SPECIFICATION Spec
CONSTANTS
  Checkpoints <- MCCheckpoints
  MetaSize = 1
  BUFFER_SIZE = 3
  Devices = {TRUE, FALSE}
INVARIANTS WritesInPlace CopyComplete
CHECK_DEADLOCK FALSE
