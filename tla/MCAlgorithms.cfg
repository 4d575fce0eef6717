CONSTANTS
  Added <- MCAdded
  SizeMax = 95
  HeaderMax = 64
  Table = "table"
  Micro = 2
  Uint32Max = 1000
  Int64Max = 8
  Int32Max = 500
  Letters <- MCLetters
  MaxText = 4
  Raw <- MCRaw
  MaxRaw = 4
  MaxRules = 3
  MaxWord = 5
  Octets <- MCOctets
  MaxOctets = 4
  MaxTurns = 3
  MaxListed = 4
  MaxScores = 6
  MaxRows = 3
  TopK = 2
  Experts = 3
  MaxTensors = 3
  Pages = {8}
  Limits = {8, 16, 32}
  MaxHeads = 2
  Radix = 4
  StringMax = 6
  ArrayMax = 4
  Identifier = {1, 3}
  MaxPieces = 4
  MaxNest = 2
  MaxChunks = 16
  Lanes = 4
  MaxShared = 4
  MaxDepth = 3
  MaxNodes = 4
  Controls = {"^A"}
SPECIFICATION Spec
INVARIANTS SegmentsAsTrained EncodeRoundTrips DecoderStreams TranscriptIsTheTemplate ChoosesTheBest ViewsCoverTensors HashableConfig ProductsAgree
CHECK_DEADLOCK FALSE
