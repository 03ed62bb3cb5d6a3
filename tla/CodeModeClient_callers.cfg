SPECIFICATION Spec
CONSTANTS
  a1 = a1
  a2 = a2
  x1 = x1
  x2 = x2
  v1 = v1
  v2 = v2
  s1 = s1
  None = None
  Callers <- TwoCallers
  FirstPhase <- AtFirst
  NextPhases <- Later
  PerCall <- SecondCaller
  Cells <- TwoCells
  Contents <- TwoContents
  Sessions <- OneSession
  MaxEdits = 1
  MaxRecords = 3
CHECK_DEADLOCK FALSE
SYMMETRY Symmetry
INVARIANTS GateHolds ReleasedIsDeclared
PROPERTIES NothingUnseenIsLost
