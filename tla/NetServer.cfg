SPECIFICATION FairSpec
CONSTANTS
  Clients = {c1}
  Devices = {d1, d2}
  Ids = {d1, d2, d3}
  BlockLen = 2
  SweepLen = 3
  BufSz = 7
  SockSz = 2
  MaxUp = 1
INVARIANTS TypeOK BufferFits StreamIsFramed NothingUnwanted
PROPERTIES SubscriberIsServed ImplementsStream
CHECK_DEADLOCK FALSE
