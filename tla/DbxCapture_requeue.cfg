SPECIFICATION Spec
CONSTANTS
  DefaultReports = 2
  SetReports = 2
  QMax = 2
  Requeues = TRUE
PROPERTIES RequeuedIsSent
CHECK_DEADLOCK FALSE
