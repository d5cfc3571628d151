SPECIFICATION Spec
CONSTANTS
  n1 = n1
  n2 = n2
  m = m
  j = j
  Node = {n1, n2}
  Members = {n1, n2, m}
  Joiners = {m, j}
  Mortals = {m, j}
  ZeroPort = ZeroPort
  NoPort = NoPort
  Port = {n1, n2, m, j, ZeroPort}
  AnyOrder = FALSE
  CAPACITY = 3
  FAN_OUT = 1
  MaxJoin = 2
  MaxDead = 1
  MaxLoss = 1
  MaxQueued = 1
CHECK_DEADLOCK FALSE
INVARIANTS TypeOK NewsIsFounded
PROPERTY ImplementsMembership
