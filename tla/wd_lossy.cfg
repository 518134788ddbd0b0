SPECIFICATION WdSpec
CONSTANTS
  Rate = 2
  Wait = 2
  Timeout = 6
  MaxDelay = 5
  MaxPings = 5
INVARIANTS AliveHasAnswered PromptIsAlive
CHECK_DEADLOCK FALSE
