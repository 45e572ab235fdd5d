SPECIFICATION Spec
CONSTANTS
  Structs <- MCStructs
  Unions <- MCUnions
  Declared <- MCDeclared
  Functions_ <- MCFunctions
  Methods <- MCMethods
  Compiled <- MCCompiled
  MaxTurns = 2
CHECK_DEADLOCK FALSE
INVARIANTS
  OwnersGoOnce NothingLeaks BorrowsExclude HandlesMatch
