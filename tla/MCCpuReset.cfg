CONSTANTS
  Layers <- MCOneLayer
  Vocabulary = {1, 2}
  Order = 2
  Eos = 2
  ChunkTokens = 2
  Context = 3
  Ratio = 2
  Kernel = 2
  Dilation = 1
  StateEpochs = 3
SPECIFICATION Spec
INVARIANT ResetRecovers
CHECK_DEADLOCK FALSE
