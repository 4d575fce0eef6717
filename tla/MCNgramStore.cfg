CONSTANTS
  Mix <- MCMix
  Int64Max = 63
  Int32Max = 1000
  Rows = 6
  BadRows = {4}
  Units = 1
  StagingRows = 2
  Slots = 4
  MaxGeneration = 3
  MaxVersion = 2
  Kernel = 2
  Dilation = 2
  StateEpochs = 3
  Config <- MCConfig
  Token = {1, 2}
  States = {s1}
  Workspaces = {w1}
  MaxTokens = 2
  Budget = 16
  Size <- MCSize
  MaxText = 3
SPECIFICATION Spec
INVARIANTS LeaseServesItsRows CommittedHistory DeltaIsOneShot BudgetExact
CHECK_DEADLOCK FALSE
