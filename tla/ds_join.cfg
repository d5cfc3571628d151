SPECIFICATION FairSpec
CONSTANTS
  n1 = n1
  n2 = n2
  n3 = n3
  m = m
  Node = {n1, n2, n3}
  Members = {n1, n2, m}
  Joiners = {n3}
  Mortals = {}
  ZeroPort = ZeroPort
  NoPort = NoPort
  Port = {n1, n2, n3, m, ZeroPort}
  AnyOrder = FALSE
  CAPACITY = 4
  FAN_OUT = 3
  MaxJoin = 1
  MaxDead = 0
  MaxLoss = 1
  MaxQueued = 9
INVARIANT NoDuplicates
PROPERTIES JoinSpreads GossipEnds
CHECK_DEADLOCK FALSE
