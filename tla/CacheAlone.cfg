CONSTANTS
  Procs = {p1}
  Exes = {1, 3}
  Runtimes = {2}
  RuntimeOf <- SharedRuntime
  Size <- UnequalSizes
  MaxBytes = 3
  Wanted = {1, 2, 3}
  Prunes = TRUE
  None = none
  MaxStamps = 5
  MaxFaults = 2
SPECIFICATION Spec
CHECK_DEADLOCK FALSE
INVARIANTS
  HandedPathReal
