SPECIFICATION Spec
CONSTANTS
  DefaultReports = 3
  SetReports = 2
  QMax = 2
  Requeues = FALSE
INVARIANTS SweepInOrder
CHECK_DEADLOCK FALSE
