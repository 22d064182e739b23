\* Two workers and a producer on a channel of two, two keys, a permit every two ticks, the clock set once by three. A jam is a stop.
SPECIFICATION FairSpec
CONSTANTS
  Keys = {k1, k2}
  Workers = {w1, w2}
  Producers = {p1}
  Cap = 2
  Interval = 2
  Step = 3
  MaxSets = 1
INVARIANTS Paced
PROPERTIES Served
CHECK_DEADLOCK FALSE
