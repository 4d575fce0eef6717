SPECIFICATION Spec
SYMMETRY Tokens
CONSTANTS
  Token = {a, b}
  Pad = pad
  Capacity = 2
  MaxTokens = 2
  VerifyRows = 2
  Window = 1
  NgramHistory = 1
  Ratio = 2
  RewindWindow = 2
  RestoreWindow = 2
  MaxEpoch = 3
  MaxSerial = 2
PROPERTIES FedFromText IsTokenGraph
CHECK_DEADLOCK FALSE
