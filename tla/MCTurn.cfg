SPECIFICATION Spec
CONSTANTS
  word = word
  nl = nl
  im_end = im_end
  Token = {word, nl, im_end}
  StopTokens = {im_end}
  ImEnd = im_end
  Newline = nl
  Bodies <- MCBodies
  Capacity = 7
  MaxTokens = 3
  VerifyRows = 3
  RewindWindow = 4
  RestoreWindow = 2
  Chunks = {1, 2}
  MaxNew = 2
  Limits = {0, 1, 4}
INVARIANTS NeverRefused EndsForItsReason PrefixOrReplay PredictorFollows
PROPERTIES PlainGreedy NothingAfterStop TurnEnds
