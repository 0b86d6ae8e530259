SPECIFICATION FairSpec
CONSTANTS
  Edges = {e1, e2}
  NoOne = NoOne
  Super = Super
  Pool = 2
  MaxNet = 1
  MaxTasks = 1
  MaxFrames = 1
INVARIANTS DirectFaithful NotViaSelf
PROPERTIES ImplementsLease Discovers
