SPECIFICATION CSpec
CONSTANTS
  Capacity = 1
  MaxEpoch = 2
  MaxFlush = 2
  RewindWindow = 2
  Spans <- MCSpans
  WordSpan <- MCWordSpan
  Weights <- MCWeights
  MaxClaims = 3
INVARIANTS NoAliasedWrite PinsAllOrNothing
PROPERTIES HeldWhileRunning
CHECK_DEADLOCK FALSE
