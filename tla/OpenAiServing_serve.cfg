SPECIFICATION ServingSpec
CONSTANTS
  MaxTokens = 5
  PendingLimit = 2
INVARIANTS
  ReadyWhenAccepting
  NoPartialSuccess
  StreamIsOrdered
  FailureIsReported
PROPERTIES
  EveryRequestEnds
CHECK_DEADLOCK FALSE
