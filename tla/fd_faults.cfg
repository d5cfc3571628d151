SPECIFICATION FaultsSpec
CONSTANTS
  n1 = n1
  n2 = n2
  n3 = n3
  Node = {n1, n2, n3}
  ZeroPort = ZeroPort
  NoPort = NoPort
  Port = {n1, n2, n3, ZeroPort}
  CAPACITY = 1
  FAN_OUT = 3
  Timely = TRUE
  InStep = FALSE
  MaxQueued = 0
  MaxLoss = 1
  MaxCrash = 2
  MaxStarved = 1
SYMMETRY Symmetry
INVARIANTS RemovalsAnnounced AccurateDespiteFaults
\* Two nodes may have ended and the third sleep in reset_state.
CHECK_DEADLOCK FALSE
