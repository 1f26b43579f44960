CONSTANTS
  MaxJobs = 4
  MaxAsked = 4
  Scores <- MCScores
  Default <- MCDefault
  ScoreOf <- MCScoreOf
  StepsOf <- MCStepsOf
  Batches <- MCBatches
  Positions = 11
  AsFirst <- MCAsFirst
  AsSecond <- MCAsSecond
SPECIFICATION TablesSpec
INVARIANTS
  TypeOK
  ClaimedOnce
  SameAsSequential
  TableAsPlayed
PROPERTY
  Returns
CHECK_DEADLOCK FALSE
