CONSTANTS
  CoreSize = 18
  MaxLength = 4
  p1 = p1
  p2 = p2
  NoPin = NoPin
  Pins = {p1, p2}
  MaxProcesses = 3
  MaxCycles = 6
  MinDistance = 4
  Rounds = 3
  Jobs <- Matches
  NoJob = NoJob
  MaxMatches = 2
  Noting = TRUE
SPECIFICATION Spec
INVARIANTS
  TypeOK
  OutcomeSound
  FairTurns
  LoadedIntact
  ResultCarries
  MatchRepeatable
PROPERTIES
  WritesNoted
  PspacePrivate
  MatchEnds
CHECK_DEADLOCK FALSE
