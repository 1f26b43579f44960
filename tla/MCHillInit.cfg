CONSTANTS
  r1 = r1
  r2 = r2
  Runs = {r1, r2}
  None = None
  Ids = {1, 2, 3}
  Garbage = Garbage
  Rules <- TwoRules
  Assembles <- MCAssembles
  Play <- MCPlay
  HashSeed <- MCHashSeed
  DrawnSeed <- MCDrawnSeed
  Draws = {0, 1}
  MaxFiles = 1
  MaxChallenges = 1
  MaxEdits = 0
  MaxCrashes = 0
  MaxInits = 2
SPECIFICATION Spec
PROPERTY InitRefusesHill
CHECK_DEADLOCK FALSE
