CONSTANTS
  Conns = {a, b, c}
  MaxConnections = 2
  MaxAhead = 1
  MaxTokens = 3
  None = none
SYMMETRY ConnSymmetry
SPECIFICATION Spec
INVARIANTS
  TableAgrees NothingOverlooked HandedWhole
PROPERTIES
  LingeringEnds
