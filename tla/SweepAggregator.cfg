\* every aggregation the widgets ask for
CONSTANTS
  NumAggs = {1, 2, 3}
  Levels = {0, 1, 5}
SPECIFICATION Spec
INVARIANT DeliveredIsBatchPeak
INVARIANT AppendsAreSafe
