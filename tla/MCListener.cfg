SPECIFICATION ListenerFairSpec
CONSTANT MaxRuns = 2
INVARIANT DoorsClosed
PROPERTY StartReturns
CHECK_DEADLOCK FALSE
