\* the cache of spectool_curses and of the planar view
CONSTANTS
  NumSlots = 3
  Lens = {1, 2}
  Levels = {0, 1, 5}
  CalcPeak = TRUE
  CalcAvg = TRUE
  MaxAppends = 7
SPECIFICATION Spec
INVARIANT TypeOK
INVARIANT RingHoldsNewest
INVARIANT PeakIsRunningMax
INVARIANT RollPeakIsWindowMax
INVARIANT AvgIsWindowMean
INVARIANT AppendsAreSafe
INVARIANT ItrNewestFirst
