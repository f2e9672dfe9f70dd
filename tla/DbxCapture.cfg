SPECIFICATION FairSpec
CONSTANTS
  DefaultReports = 3
  SetReports = 2
  QMax = 2
  Requeues = TRUE
INVARIANTS TypeOK NoUseAfterClose SetSweepInOrder
PROPERTIES FailureStopsServer DeadDeviceIsReleased SweepsFlow
CHECK_DEADLOCK FALSE
