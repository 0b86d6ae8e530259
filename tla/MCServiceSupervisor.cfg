SPECIFICATION SupervisorFairSpec
CONSTANTS
  Agent = agent
  Clis = {cli}
  MaxProcs = 3
INVARIANT EntryHasWaiter
PROPERTIES LiveEntryKept DeadUnlisted
