SPECIFICATION FairSpec
CONSTANTS
  Clients = {c1, c2}
  NoOne = NoOne
  Pool = 1
  MaxNet = 1
  MaxTasks = 1
  MaxFrames = 1
PROPERTY Rejoins
