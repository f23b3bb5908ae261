SPECIFICATION Spec
CONSTANTS
  Users = {"a", "b"}
  Boss = "boss"
  Nobody = "nobody"
  InitHP = 2
  MaxHP = 4
  InitLP = 1
  MaxLP = 2
  BossHP = 9
  ItemPool = {"reverse_clock"}
  BuffPool = {"curse"}
  EventPool = {"herb", "mosquito"}
  SkillPool = {"thunder"}
  QueueLimit = 50
  Length = 3
  Course <- LinksCourse
  Faction <- LinksFaction
  DiceFaces = {3}
  MaxRounds = 2
  MaxUses = 2
PROPERTY
  UsedItemsAreGone
