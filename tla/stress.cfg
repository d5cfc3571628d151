SPECIFICATION FairSpec
CONSTANTS
  NameLength = 5
  Letters = 5
  MaxRounds = 2
CHECK_DEADLOCK FALSE
INVARIANTS TypeOK NoOrphans OneNetwork
PROPERTY RunsThrough
