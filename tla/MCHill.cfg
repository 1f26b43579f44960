CONSTANTS
  r1 = r1
  r2 = r2
  Runs = {r1, r2}
  None = None
  Ids = {1, 2, 3}
  Garbage = Garbage
  Rules <- RuleSet
  Assembles <- MCAssembles
  Play <- MCPlay
  HashSeed <- MCHashSeed
  DrawnSeed <- MCDrawnSeed
  Draws = {0, 1}
  MaxFiles = 2
  MaxChallenges = 2
  MaxEdits = 1
  MaxCrashes = 1
  MaxInits = 1
SPECIFICATION Spec
INVARIANTS
  TypeOK
  AgesCountArrivals
  MembersHaveSources
  ResultsReproducible
  VerifiesOnceSaved
PROPERTY
  NoLostChallenge
SYMMETRY RunSymmetry
CHECK_DEADLOCK FALSE
