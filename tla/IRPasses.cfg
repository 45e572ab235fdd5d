SPECIFICATION Spec
CHECK_DEADLOCK FALSE
CONSTANTS
    IntLimit = 8
    ArrayLimit = 4
    Fuel = 400
    InlineLimit = 8
    ForwardVisitLimit = 64
    VersionLimit = 64
    RotateLimit = 8
    Programs <- MCPrograms
    Inputs <- MCInputs
    Lowered <- MCLowered
    Passed <- MCPassed
    Means <- MCMeans
    Does <- MCDoes
    BranchSubtreeLimit = 64
    Emitted <- MCEmitted
    Executes <- MCExecutes
    EmittedNative <- MCEmittedNative
    ExecutesNative <- MCExecutesNative
INVARIANTS
  Verified SameMeaning DominatorsExact BinarySame NativeSame
