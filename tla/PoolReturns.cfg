CONSTANTS
  Caller = caller
  Helpers = {h1, h2}
  None = none
  TakesPerThread = 1
  BatchesMax = 3
  TagMod = 2
  Shapes <- Pairs
  Failures = {}
  MaxRounds = 2

SPECIFICATION RoundSpec
PROPERTIES
  RoundReturns CloseReturns
