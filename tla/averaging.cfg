SPECIFICATION MCSpec
CONSTANTS
  Factor <- MCFactor
  Graphs <- MCGraphs
  Value <- MCValue
  Rounds <- MCRounds
  Grain <- MCGrain
CHECK_DEADLOCK FALSE
INVARIANTS TypeOK EstimatesInRange MassConserved LossesHeal
