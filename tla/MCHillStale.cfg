CONSTANTS
  r1 = r1
  r2 = r2
  Runs = {r1, r2}
  None = None
  Ids = {1, 2, 3}
  Garbage = Garbage
  Rules <- TwoRules
  Assembles <- MCAssembles
  Play <- MCPlay
  HashSeed <- MCHashSeed
  DrawnSeed <- MCDrawnSeed
  Draws = {0, 1}
  MaxFiles = 1
  MaxChallenges = 2
  MaxEdits = 1
  MaxCrashes = 0
  MaxInits = 1
SPECIFICATION Spec
PROPERTY RulesStayApplied
CHECK_DEADLOCK FALSE
