SPECIFICATION BackplaneSpec
CONSTANTS
  None = None
  Calls = {c1, c2}
  FailureThreshold = 2
  MaxFailures = 3
  MaxVersion = 1
  MaxMessages = 3
  MaxRebalances = 1
  KeyPrefix = TRUE
INVARIANTS BreakerInv AnswersMatchLog HandledOnce
PROPERTIES Recovers FreshInTheEnd EveryMessagePassed
