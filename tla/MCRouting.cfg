SPECIFICATION RoutingFairSpec
CONSTANTS
  Clients = {1, 2}
  Setups <- SmallSetups
  MaxDepth = 3
INVARIANTS RouteKept FailoverFinds BestMeasured
PROPERTY ConnectsEnd
CHECK_DEADLOCK FALSE
