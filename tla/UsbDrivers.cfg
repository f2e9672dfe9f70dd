SPECIFICATION FairSpec
CONSTANTS
  QMax = 1
  RunMax = 4
  Packets = 2
  FullBytes = 3
  LastBytes = 2
  Gen1Packets = 2
  CalibrateSweeps = 2
  NumFreqs = 3
  ReportSamples = 2
  AvgSamples = 2
  Turns = 2
INVARIANTS TypeOK NoUseAfterClose InOrder24x CalibratedSweep PeakWindowWhole
PROPERTIES RequeuedIsSent  FailureStopsRaw
CHECK_DEADLOCK FALSE
