SPECIFICATION FairSpec
CONSTANTS
  n1 = n1
  n2 = n2
  n3 = n3
  Node = {n1, n2, n3}
  ZeroPort = ZeroPort
  NoPort = NoPort
  Port = {n1, n2, n3, ZeroPort}
  CAPACITY = 4
  FAN_OUT = 3
  Timely = TRUE
  InStep = TRUE
  MaxQueued = 0
  MaxLoss = 0
  MaxCrash = 1
  MaxStarved = 1
PROPERTY Completeness
