SPECIFICATION Spec
CONSTANTS
  a = a
  b = b
  Nobody = Nobody
  Users = {a, b}
  BossHP = 14
  Faces = {1, 6}
  Outcomes <- WonAndLost
  MaxRounds = 4
  MaxTurns = 3
INVARIANTS
  AchievementsPaid
  DeedsAreCredited
