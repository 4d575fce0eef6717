SPECIFICATION TrunkSpec
SYMMETRY Tokens
CONSTANTS
  Token = {a, b}
  Pad = pad
  Capacity = 4
  MaxTokens = 3
  VerifyRows = 3
  Window = 2
  NgramHistory = 2
  Ratio = 2
  RewindWindow = 3
  RestoreWindow = 2
  MaxEpoch = 3
  MaxSerial = 2
INVARIANTS HistoryExact StatesAgree ResidualMatch
PROPERTIES SessionIsLog
CHECK_DEADLOCK FALSE
