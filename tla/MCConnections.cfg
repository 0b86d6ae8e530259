SPECIFICATION FairSpec
CONSTANTS
  Conns = {c1}
  Chunks = 2
INVARIANTS FlowOnce RecordSettled TunnelExact
PROPERTY RelayEnds
CHECK_DEADLOCK FALSE
