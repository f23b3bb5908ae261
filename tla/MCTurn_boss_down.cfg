SPECIFICATION Spec
CONSTANTS
  Users = {"a", "b"}
  Boss = "boss"
  Nobody = "nobody"
  InitHP = 4
  MaxHP = 4
  InitLP = 1
  MaxLP = 2
  BossHP = 2
  ItemPool = {"crimson_blade"}
  BuffPool = {"curse"}
  EventPool = {"herb", "mosquito"}
  SkillPool = {"curse"}
  QueueLimit = 50
  Length = 3
  Course <- LinksCourse
  Faction <- LinksFaction
  DiceFaces = {1}
  MaxRounds = 2
  MaxUses = 2
INVARIANT
  DeadBossIsBeaten
