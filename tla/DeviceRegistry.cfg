SPECIFICATION Spec
CONSTANTS
  Devices = {d1, d2, d3}
  NoDevice = NoDevice
  MaxDev = 2
  Tabs = {1, 2}
  NumGraphs = 2
  MaxPickers = 1
SYMMETRY Symmetry
INVARIANTS TypeOK RefsMatch PhyValid CallbacksMatch ShowsOwnDevice
CHECK_DEADLOCK FALSE
