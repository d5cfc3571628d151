SPECIFICATION JoinFairSpec
CONSTANTS
  n1 = n1
  n2 = n2
  n3 = n3
  m = m
  Node = {n1, n2, n3}
  Members = {n1, n2, m}
  Joiners = {n3}
  Mortals = {n3}
  ZeroPort = ZeroPort
  NoPort = NoPort
  Port = {n1, n2, n3, m, ZeroPort}
  AnyOrder = FALSE
  CAPACITY = 5
  FAN_OUT = 3
  MaxJoin = 0
  MaxDead = 0
  MaxLoss = 0
  MaxQueued = 9
  Unnoticed = {m}
  MaxTrouble = 2
INVARIANTS JoinTypeOK NoDuplicates
CHECK_DEADLOCK FALSE
 
