SPECIFICATION SpecAnyTicket
CONSTANTS
  Capacity = 1
  MaxEpoch = 1
  MaxFlush = 1
  RewindWindow = 1
INVARIANTS Trusted
CHECK_DEADLOCK FALSE
