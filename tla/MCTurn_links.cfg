SPECIFICATION Spec
CONSTANTS
  Users = {"a", "b"}
  Boss = "boss"
  Nobody = "nobody"
  InitHP = 1
  MaxHP = 2
  InitLP = 1
  MaxLP = 1
  BossHP = 2
  ItemPool = {"cupid_arrow", "magic_flute"}
  BuffPool = {"curse"}
  EventPool = {"dog_poop"}
  SkillPool = {}
  QueueLimit = 50
  Length = 3
  Course <- LinksCourse
  Faction <- LinksFaction
  DiceFaces = {1}
  MaxRounds = 3
  MaxUses = 1
INVARIANTS
  NeverCutOff
  DeadAreMarked
PROPERTIES
  TheDeadAreLeftAlone
  DeathCountedOnce
  RobbedGainNothing
