CONSTANTS
  Procs = {p1, p2}
  Exes = {1, 3}
  Runtimes = {2}
  RuntimeOf <- SharedRuntime
  Size <- UnequalSizes
  MaxBytes = 3
  Wanted = {1, 2, 3}
  Prunes = TRUE
  None = none
  MaxStamps = 3
  MaxFaults = 0
SYMMETRY ProcSymmetry
SPECIFICATION Spec
CHECK_DEADLOCK FALSE
INVARIANTS
   QuietFits CacheInv
