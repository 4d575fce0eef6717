SPECIFICATION FairSpec
CONSTANTS
  Capacity = 3
  MaxEpoch = 3
  MaxFlush = 2
  RewindWindow = 2
INVARIANTS Trusted NoReplay QuietWhenIdle
PROPERTIES IsAppendLog EveryCommandEnds
CHECK_DEADLOCK FALSE
