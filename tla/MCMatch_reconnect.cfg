SPECIFICATION MatchSpec
CONSTANTS
  p1 = p1
  p2 = p2
  p3 = p3
  Boss = Boss
  NoPlayer = NoPlayer
  Users = {p1, p2, p3}
  Openings <- MCEither
  MiniGameModes = {"frontend"}
  OnlineTimeout = FALSE
  DebugSignals = FALSE
  LateJoins = TRUE
  Repeats = TRUE
  MaxRank = 2
  MaxRound = 1
  MaxPlayers = 2
  MaxSessions = 2
INVARIANTS
  ConnectedIsKnown
