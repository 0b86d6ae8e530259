SPECIFICATION Spec
CONSTANTS
  Clients = {c1, c2}
  NoOne = NoOne
  Pool = 2
  MaxNet = 1
  MaxTasks = 2
  MaxFrames = 1
INVARIANTS SingleHolder PoolAccounted
PROPERTIES ImplementsLease RelayFaithful
SYMMETRY ClientSymmetry
