SPECIFICATION Spec
CONSTANTS
  p1 = p1
  p2 = p2
  p3 = p3
  Boss = Boss
  NoPlayer = NoPlayer
  Users = {p1, p2}
  Openings <- MCHosted
  MiniGameModes = {"none", "frontend", "rpc"}
  OnlineTimeout = TRUE
  DebugSignals = FALSE
  LateJoins = TRUE
  Repeats = TRUE
  MaxRank = 2
  MaxRound = 2
PROPERTIES
  KeepsPromise
  OnlineMiniGameEnds
