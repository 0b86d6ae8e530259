SPECIFICATION RingFairSpec
CONSTANTS
  Writers = {w1, w2}
  Clients = {c1, c2}
  MaxSize = 2
  Replayed = 1
  ChanCap = 1
  MaxEntries = 3
INVARIANT NoGap
PROPERTIES WritesFinish
CHECK_DEADLOCK FALSE
