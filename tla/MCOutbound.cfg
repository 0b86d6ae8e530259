SPECIFICATION FairSpec
CONSTANT MaxPayload = 2
INVARIANTS SocketsSettled StreamExact
PROPERTY Returns
CHECK_DEADLOCK FALSE
