SPECIFICATION FairSpec
CONSTANTS
  n1 = n1
  n2 = n2
  n3 = n3
  m = m
  Node = {n1, n2, n3}
  Members = {n1, n2, n3, m}
  Joiners = {}
  Mortals = {m}
  ZeroPort = ZeroPort
  NoPort = NoPort
  Port = {n1, n2, n3, m, ZeroPort}
  AnyOrder = FALSE
  CAPACITY = 4
  FAN_OUT = 3
  MaxJoin = 0
  MaxDead = 3
  MaxLoss = 0
  MaxQueued = 9
CHECK_DEADLOCK FALSE
PROPERTY RemovalSpreads
