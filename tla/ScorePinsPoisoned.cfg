SPECIFICATION ScoreSpec
CONSTANTS
  Weights = {w1, w2}
  Card = {c1}
  MaxStarts = 3
  Rollbacks = TRUE
  NoWeights = NoWeights
INVARIANT VectorsMatchPins
CHECK_DEADLOCK FALSE
