SPECIFICATION Spec
CONSTANTS
  Users = {"a"}
  Boss = "boss"
  Nobody = "nobody"
  InitHP = 2
  MaxHP = 3
  InitLP = 1
  MaxLP = 2
  BossHP = 4
  ItemPool = {"reverse_clock", "any_door", "dice_upgrade", "crimson_blade", "magic_flute", "cupid_arrow", "rainwater_vessel"}
  BuffPool = {"curse", "lost", "corrupt", "poison", "hidden", "divine", "rain", "exorcism", "fearless", "golden_body"}
  EventPool = {"herb", "lucky_bubble", "relic", "divine_bless", "exchange", "hidden_buff", "taste_test", "mosquito", "ghost_hit", "dog_poop", "wind_gust", "skull_gaze", "lost_way", "thunder"}
  SkillPool = {"thunder", "curse", "rest", "thorns"}
  QueueLimit = 50
  Length = 7
  Course <- QuestCourse
  Faction <- QuestFaction
  DiceFaces = {1, 2}
  MaxRounds = 3
  MaxUses = 1
INVARIANTS
  TurnTypeOK
  ExpiredBuffsGo
  StandingOnBroken
PROPERTIES
  FearlessSurvive
  EveryCheckpointServed
