CONSTANTS
  Caller = caller
  Helpers = {h1, h2}
  None = none
  TakesPerThread = 1
  BatchesMax = 2
  TagMod = 2
  Shapes <- Cuts
  Failures = {"Worker"}
  MaxRounds = 2
SYMMETRY HelperSymmetry
SPECIFICATION Spec
INVARIANTS
  LentOnlyDuringRound EveryElementOnce NoLostStart NoLostFinish RoundInv
PROPERTIES
  KeepsPromise
