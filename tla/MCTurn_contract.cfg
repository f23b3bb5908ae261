SPECIFICATION Spec
CONSTANTS
  Users = {"a", "b"}
  Boss = "boss"
  Nobody = "nobody"
  InitHP = 1
  MaxHP = 2
  InitLP = 1
  MaxLP = 1
  BossHP = 1
  ItemPool = {"magic_flute"}
  BuffPool = {"curse"}
  EventPool = {"dog_poop"}
  SkillPool = {"thunder"}
  QueueLimit = 50
  Length = 3
  Course <- LinksCourse
  Faction <- LinksFaction
  DiceFaces = {1}
  MaxRounds = 3
  MaxUses = 1
PROPERTY
  KeepsContract
