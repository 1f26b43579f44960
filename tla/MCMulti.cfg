CONSTANTS
  Seeds <- MCSeeds
  Rounds = 2
  MaxCycles = 2
  MinDistance = 4
  CoreSize = 18
  NoJob = NoJob
SPECIFICATION Spec
INVARIANTS
  TypeOK
  MovesAlternate
  RoundsAsPlayed
  ScoresInJobOrder
  StepsAddUp
PROPERTY
  Returns
CHECK_DEADLOCK FALSE
