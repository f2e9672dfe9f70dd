SPECIFICATION FairSpec
CONSTANTS
  Devices = {d1, d2}
  BlockLen = 2
  SweepLen = 3
  HeaderLen = 2
  RbufSz = 7
  JunkSz = 2
  WireSz = 9
  MaxSweeps = 2
INVARIANTS TypeOK ParserInStep NoLostWakeup
PROPERTIES ImplementsFeed EndsWithServer SweepsAreTaken
CHECK_DEADLOCK FALSE
