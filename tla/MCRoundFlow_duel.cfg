SPECIFICATION Spec
CONSTANTS
  p1 = p1
  p2 = p2
  p3 = p3
  Boss = Boss
  NoPlayer = NoPlayer
  Users = {p1, p2}
  Openings <- MCEither
  MiniGameModes = {"frontend", "rpc"}
  OnlineTimeout = TRUE
  DebugSignals = TRUE
  LateJoins = TRUE
  Repeats = TRUE
  MaxRank = 2
  MaxRound = 2
INVARIANTS
  TypeOK
  TurnOwnership
  OneTurnEach
  TurnOrderFollowsRanks
  RanksAreEarned
  NoMissedCompletion
  BossActsLast
PROPERTIES
  EveryoneActsEachRound
  RoundsAsPromised
  NothingAfterBossDefeat
  SubmissionsComplete
  SignalsComplete
