SPECIFICATION Spec
CONSTANTS
  Clients = {c1}
  Devices = {d1, d2}
  Ids = {d1, d2}
  BlockLen = 2
  SweepLen = 3
  BufSz = 7
  SockSz = 2
  MaxUp = 1
INVARIANTS SubscriptionsFollowCommands
CHECK_DEADLOCK FALSE
