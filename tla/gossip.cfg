SPECIFICATION MCSpec
CONSTANTS
  Factor <- MCFactor
  Instances <- MCInstances
  MinDelay = 2
  MaxDelay = 3
CHECK_DEADLOCK FALSE
INVARIANTS TypeOK CurvesGrow PushAtMostDoubles MessagesPay NewsTakesTime
           PushPullAhead FreshNodesSpread OneHopARound
PROPERTY ImplementsEpidemic
