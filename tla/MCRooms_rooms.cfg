SPECIFICATION Spec
CONSTANTS
  Players = {"a", "b", "c"}
  NoResult = NoResult
  SafetyTimeout = TRUE
  TrustRounds = 3
  Strides = {1, 3, 5}
  FinishLine = 6
  RaceRounds = 3
  TextLength = 2
  Order <- MCOrder
  CakeSize = 3
INVARIANTS
  RoomsTypeOK
  ResultStands
  LastOneWins
PROPERTIES
  RaceStopsAtTheLine
  RoundsSettledOnce
  RoomsClose
