\* the iterator's end test
CONSTANTS
  NumSlots = 3
  Lens = {1}
  Levels = {0, 1}
  CalcPeak = FALSE
  CalcAvg = FALSE
  MaxAppends = 5
SPECIFICATION Spec
INVARIANT ItrPuntsWhenCovered
