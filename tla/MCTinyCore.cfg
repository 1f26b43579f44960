CONSTANTS
  CoreSize = 2
  MaxLength = 1
  p1 = p1
  p2 = p2
  NoPin = NoPin
  Pins = {p1, p2}
  MaxProcesses = 2
  MaxCycles = 1
  MinDistance = 1
  Rounds = 2
  Jobs <- MCJobs
  NoJob = NoJob
  MaxMatches = 1
SPECIFICATION Spec
PROPERTY SameSemantics
CHECK_DEADLOCK FALSE
