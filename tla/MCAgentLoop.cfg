SPECIFICATION Spec
CONSTANTS
  Days <- SmallDays
  Sessions = {s1, s2}
  NoSession = NoSession
  Keep = 4
  MaxMessages = 5
SYMMETRY SessionSymmetry
INVARIANTS HistoryPaired ConversationKept DenialKept NothingForgotten
CHECK_DEADLOCK FALSE
