CONSTANTS
    Programs <- MCPrograms
    Refused <- MCRefused
    Mended <- MCMended
    Prelude <- MCPrelude
    Inputs <- MCInputs
    Verdict <- MCVerdict
    Advances <- MCAdvances
    Ends <- MCEnds
    MaxFuel = 4
    MaxInstantiationDepth = 4
SPECIFICATION Spec
CHECK_DEADLOCK FALSE
INVARIANTS
  NeverGoesWrong OnlyPermitted InstancesWereChecked ExamplesAsTested
