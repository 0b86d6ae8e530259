SPECIFICATION Spec
CONSTANTS
  Calls = {1}
  MaxChunks = 2
  Senders = {1, 2}
  MaxMsgs = 2
  Inbox = 1
  Queries = {1, 2}
  Domains = {1}
  TTL = 1
  MaxFetch = 1
  Patience = 1
  MaxTime = 3
INVARIANTS StreamWhole AnswersGoHome SessionServed PanicsAtEndOnly AnswersFresh
PROPERTY HangUpPassed
CHECK_DEADLOCK FALSE
