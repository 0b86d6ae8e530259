SPECIFICATION BridgesFairSpec
CONSTANTS
  Bridges = {solo, bridge}
  Solo = {solo}
  None = None
  Full = TRUE
  Cap = 1
  MaxHandlers = 1
INVARIANT LeavesNothing
PROPERTIES Ends Drains
CHECK_DEADLOCK FALSE
