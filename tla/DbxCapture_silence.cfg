SPECIFICATION FairSpec
CONSTANTS
  DefaultReports = 2
  SetReports = 2
  QMax = 2
  Requeues = FALSE
PROPERTIES SilenceIsReported
CHECK_DEADLOCK FALSE
