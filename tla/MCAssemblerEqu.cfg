CONSTANTS
  Huge = 16
  Wide = 8
  GrpMax = 3
  Registers <- MCRegisters
  CoreSize = 7
  MaxLength = 5
  Pins <- MCPins
  NoPin = NoPin
  Predefined <- MCPredefined
  Warriors = 2
  FirstWarrior = TRUE
  MaxDepth = 16
  MaxExpansion = 12
  MaxOut = 6
  MaxInstr = 6
  MaxText = 11
  eval_expr <- EvalExpr
SPECIFICATION EquSpec
INVARIANT EquIsTextual
CHECK_DEADLOCK FALSE
