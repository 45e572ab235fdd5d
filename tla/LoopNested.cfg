CONSTANTS
  Main = main
  Tasks = {a, b, c}
  Sets = {s}
  None = none
SYMMETRY TaskSymmetry
SPECIFICATION Spec
CHECK_DEADLOCK FALSE
INVARIANTS
  TablesAgree CancelArrives
PROPERTIES
  WaitsAnswered GivesUpOnlyBelow
