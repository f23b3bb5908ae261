------------------------------- MODULE Scores -------------------------------
(***************************************************************************)
(* Scores and achievements of a match: the achievement handlers on the     *)
(* event bus (internal/engine/achievement_registry.go, game.go), the       *)
(* counters they keep on the players (internal/core/player.go), what the   *)
(* states of the match award themselves (internal/engine/hsm), and the     *)
(* settlement when the match is over.                                      *)
(*                                                                         *)
(* Turns, items and battles are here only the occasions for points; what   *)
(* leads to them is Turn's and Effects' business.  An action that another  *)
(* handler intercepts is not seen by the handlers below, which come last,  *)
(* and changes nothing: it is left out.                                    *)
(*                                                                         *)
(* The handlers of all players for one kind of achievement are subscribed  *)
(* under one source, the kind.                                             *)
(***************************************************************************)
EXTENDS Naturals, Sequences, FiniteSets

CONSTANTS
  Users,      \* the players of the match, late joiners included
  Nobody,     \* not a user
  BossHP,     \* hit points the Boss begins with, and its maximum
  Faces,      \* what the dice may show
  Outcomes,   \* how mini-games may end: the users' ranks, 0 for none
  MaxRounds,  \* bound: number of mini-games
  MaxTurns    \* bound: number of other occasions

ASSUME PlayersAssumption == IsFiniteSet(Users) /\ Nobody \notin Users
ASSUME DiceAssumption == Faces \subseteq Nat \ {0}
ASSUME OutcomeAssumption == Outcomes \subseteq [Users -> Nat]
ASSUME LimitAssumption == BossHP \in Nat \ {0} /\ MaxRounds \in Nat /\ MaxTurns \in Nat

\* Achievements detected by handlers on the bus, and those the states detect.
EventBusAchievementTypes ==
  {"triple_one", "triple_six", "boss_kill_shot", "boss_damage_ten", "item_collector"}

AchievementTypes ==
  EventBusAchievementTypes \cup
    {"survivor", "luck_master", "first_to_boss", "mini_game_winner_three"}

\* AchievementDefinition.Points
Points == [k \in AchievementTypes |-> IF k \in {"survivor", "mini_game_winner_three"} THEN 8 ELSE 5]

VARIABLES
  running,          \* the match goes on
  listening,        \* bus subscriptions: <<owner, kind>>
  earned,           \* metadata "achievements"
  lastDiceResults,  \* metadata "last_dice_results"
  bossDamageDealt,  \* metadata "boss_damage_dealt"
  inventory,        \* number of items held
  roundsWon,        \* metadata "rounds_won"
  deathCount,       \* metadata "death_count"
  firstToBossSet,   \* game metadata KeyFirstToBossSet
  diceUpgrade,      \* "dice_upgrade_player" in the context of MainAction
  bossLeft,         \* the Boss's hit points
  miniGameScore, bossScore, itemScore, achievementScore,  \* by category
  rounds, turns,    \* how often the bounds have been drawn on
  started,          \* history: who was there when the match began
  striker,          \* history: whose blow was struck last, if it was just now
  struck,           \* history: damage of the blows each user struck at the Boss
  criticals,        \* history: how many of them were critical
  killer,           \* history: whose blow the Boss died of
  lastRoll,         \* history: each user's last roll, 0 for none
  gained,           \* history: items each user was given
  used,             \* history: items each user has used
  upgrades          \* history: those of them that upgraded the user's dice

scoreVars   == <<miniGameScore, bossScore, itemScore, achievementScore>>
battleVars  == <<bossDamageDealt, firstToBossSet, bossLeft>>
blowHistory == <<struck, criticals, killer>>
itemHistory == <<gained, used, upgrades>>
vars == <<running, listening, earned, lastDiceResults, inventory, roundsWon, deathCount,
          battleVars, diceUpgrade, scoreVars, rounds, turns, started, striker, blowHistory,
          lastRoll, itemHistory>>

Zero == [u \in Users |-> 0]

-----------------------------------------------------------------------------
(* Granting *)

HasAchievement(u, k) == k \in earned[u]

\* A handler is subscribed and not told by its first check to stop.
Watches(u, k) == <<u, k>> \in listening /\ ~HasAchievement(u, k)

Prize(granted, k) == IF k \in granted THEN Points[k] ELSE 0

\* The points of a set of achievements.
Prizes(granted) ==
  Prize(granted, "triple_one") + Prize(granted, "triple_six") + Prize(granted, "boss_kill_shot")
  + Prize(granted, "boss_damage_ten") + Prize(granted, "item_collector")
  + Prize(granted, "survivor") + Prize(granted, "luck_master")
  + Prize(granted, "first_to_boss") + Prize(granted, "mini_game_winner_three")

\* GrantAchievementToPlayer for every user u and every kind of granted[u], each
\* followed by its score.  A kind that is new to someone is unsubscribed by its
\* source: for everybody.
Grant(granted) ==
  /\ earned' = [u \in Users |-> earned[u] \cup granted[u]]
  /\ achievementScore' = [u \in Users |-> achievementScore[u] + Prizes(granted[u])]
  /\ listening' = {l \in listening : \A u \in Users : l[2] \notin granted[u] \ earned[u]}

\* What is granted to u alone.
Only(u, kinds) == [v \in Users |-> IF v = u THEN kinds ELSE {}]

Raise(f, u, n) == [f EXCEPT ![u] = @ + n]

-----------------------------------------------------------------------------
\* WaitingForHost.Exit: the handlers of those who are there are subscribed;
\* who joins later has none.
Init ==
  /\ running = TRUE
  /\ started \in SUBSET Users
  /\ listening = started \X EventBusAchievementTypes
  /\ earned = [u \in Users |-> {}]
  /\ lastDiceResults = [u \in Users |-> <<>>]
  /\ bossDamageDealt = Zero
  /\ inventory = Zero
  /\ roundsWon = Zero
  /\ deathCount = Zero
  /\ firstToBossSet = FALSE
  /\ bossLeft = BossHP
  /\ miniGameScore = Zero /\ bossScore = Zero /\ itemScore = Zero /\ achievementScore = Zero
  /\ rounds = 0 /\ turns = 0
  /\ striker = Nobody
  /\ struck = Zero /\ criticals = Zero /\ killer = Nobody
  /\ lastRoll = Zero
  /\ diceUpgrade = Nobody
  /\ gained = Zero /\ used = Zero /\ upgrades = Zero

-----------------------------------------------------------------------------
(* Mini-games *)

\* MiniGameRankToScore
RankScore(r, n) == IF r > n \/ n < 2 \/ r > 3 THEN 1 ELSE 10 - (r - 1) * 3

\* Mutant of WinsThree: it is not asked who has the achievement already.
WinsThreeAgain(won, u) == won[u] >= 3

\* mini_game_winner_three is due.
WinsThree(won, u) == ~HasAchievement(u, "mini_game_winner_three") /\ won[u] >= 3

\* RoundMiniGame.Exit
MiniGame(rank) ==
  LET n   == Cardinality(Users)
      won == [u \in Users |-> IF rank[u] = 1 THEN roundsWon[u] + 1 ELSE roundsWon[u]]
  IN /\ running /\ rounds < MaxRounds
     /\ rounds' = rounds + 1
     /\ roundsWon' = won
     /\ miniGameScore' = [u \in Users |->
          IF rank[u] > 0 /\ n >= 2 THEN miniGameScore[u] + RankScore(rank[u], n)
          ELSE miniGameScore[u]]
     /\ Grant([u \in Users |-> IF WinsThree(won, u) THEN {"mini_game_winner_three"} ELSE {}])
     /\ striker' = Nobody /\ diceUpgrade' = Nobody
     /\ UNCHANGED <<running, lastDiceResults, inventory, deathCount, battleVars, bossScore,
                    itemScore, turns, started, blowHistory, lastRoll, itemHistory>>

-----------------------------------------------------------------------------
(* Turns *)

Occasion == running /\ turns < MaxTurns /\ turns' = turns + 1

\* PushDiceResult keeps the last three.
Pushed(results, n) == IF Len(results) < 3 THEN Append(results, n) ELSE Append(Tail(results), n)

\* makeDiceRollTripleHandler: what the handler of kind k leaves of the results.
Recorded(u, k, results, n) == IF Watches(u, k) THEN Pushed(results, n) ELSE results

Thrice(n) == <<n, n, n>>

\* A roll is recorded by the handler for ones and then, once more, by the
\* handler for sixes: either may find a triple after two rolls.
RollDice(u, n) ==
  LET ones  == Recorded(u, "triple_one", lastDiceResults[u], n)
      sixes == Recorded(u, "triple_six", ones, n)
  IN /\ Occasion
     /\ lastDiceResults' = [lastDiceResults EXCEPT ![u] = sixes]
     /\ lastRoll' = [lastRoll EXCEPT ![u] = n]
     /\ Grant(Only(u, {k \in {"triple_one", "triple_six"} :
                         /\ Watches(u, k)
                         /\ k = "triple_one" => ones = Thrice(1)
                         /\ k = "triple_six" => sixes = Thrice(6)}))
     /\ striker' = Nobody /\ diceUpgrade' = Nobody
     /\ UNCHANGED <<running, inventory, roundsWon, deathCount, battleVars, miniGameScore,
                    bossScore, itemScore, rounds, started, blowHistory, itemHistory>>

\* makeItemCollectorHandler and AddItemAction.
AddItem(u) ==
  LET heard == <<u, "item_collector">> \in listening
  IN /\ Occasion
     /\ itemScore' = IF heard THEN Raise(itemScore, u, 3) ELSE itemScore
     /\ Grant(Only(u, {k \in {"item_collector"} : Watches(u, k) /\ inventory[u] >= 2}))
     /\ inventory' = Raise(inventory, u, 1)
     /\ gained' = Raise(gained, u, 1)
     /\ striker' = Nobody
     /\ UNCHANGED <<running, lastDiceResults, roundsWon, deathCount, battleVars, diceUpgrade,
                    miniGameScore, bossScore, rounds, started, blowHistory, lastRoll, used,
                    upgrades>>

\* The end of OnUseItem; upgrading tells whether the item has just upgraded
\* its user's dice.  What that leaves in the context stays there until the dice
\* are rolled, and is rewarded again at every further use.  A use counts also
\* when the mark of death keeps the item in the bag.
UseItem(u, upgrading) ==
  LET upgraded == upgrading \/ diceUpgrade = u
  IN /\ Occasion
     /\ inventory[u] > 0
     /\ inventory' \in {inventory, [inventory EXCEPT ![u] = @ - 1]}
     /\ itemScore' = Raise(itemScore, u, IF upgraded THEN 7 ELSE 2)
     /\ diceUpgrade' = IF upgraded THEN u ELSE Nobody
     /\ used' = Raise(used, u, 1)
     /\ upgrades' = IF upgrading THEN Raise(upgrades, u, 1) ELSE upgrades
     /\ striker' = Nobody
     /\ UNCHANGED <<running, listening, earned, lastDiceResults, roundsWon, deathCount,
                    battleVars, miniGameScore, bossScore, achievementScore, rounds, started,
                    blowHistory, lastRoll, gained>>

\* What n points of damage leave of the Boss.
Left(n) == IF bossLeft > n THEN bossLeft - n ELSE 0

\* An item is lost, DeathAction is executed, the Boss rests or is hurt by other
\* means than a blow: nobody's points.
Happens(inv, deaths, left) ==
  /\ Occasion
  /\ inventory' = inv /\ deathCount' = deaths /\ bossLeft' = left
  /\ striker' = Nobody
  /\ UNCHANGED <<running, listening, earned, lastDiceResults, roundsWon, bossDamageDealt,
                 firstToBossSet, diceUpgrade, scoreVars, rounds, started, blowHistory, lastRoll,
                 itemHistory>>

LoseItem(u) ==
  inventory[u] > 0 /\ Happens([inventory EXCEPT ![u] = @ - 1], deathCount, bossLeft)

Die(u) == Happens(inventory, Raise(deathCount, u, 1), bossLeft)

HurtBoss(n) == bossLeft > 0 /\ Happens(inventory, deathCount, Left(n))

BossRests ==
  /\ bossLeft > 0
  /\ Happens(inventory, deathCount, IF bossLeft + 20 < BossHP THEN bossLeft + 20 ELSE BossHP)

-----------------------------------------------------------------------------
(* Battles *)

\* Mutant of CritBonus: two points more for every blow.
CritBonusAlways(crit) == 2

CritBonus(crit) == IF crit THEN 2 ELSE 0

\* makeBossKillShotHandler foresees that the Boss, who is alive, will die.
KillShot(u, d) == Watches(u, "boss_kill_shot") /\ bossLeft > 0 /\ bossLeft <= d

\* One BossDamageAction of u, of d points.  Before it is executed the kill shot
\* is foreseen and the damage counted, by their handlers; "more" is granted
\* besides.
Blow(u, d, crit, more) ==
  LET counted == <<u, "boss_damage_ten">> \in listening
      dealt   == bossDamageDealt[u] + (IF counted THEN d ELSE 0)
      ten     == counted /\ ~HasAchievement(u, "boss_damage_ten") /\ dealt >= 10
  IN /\ bossDamageDealt' = [bossDamageDealt EXCEPT ![u] = dealt]
     /\ bossScore' = Raise(bossScore, u,
          (IF KillShot(u, d) THEN 15 ELSE 0) + (IF counted THEN d + CritBonus(crit) ELSE 0))
     /\ Grant(Only(u, more \cup (IF KillShot(u, d) THEN {"boss_kill_shot"} ELSE {})
                           \cup (IF ten THEN {"boss_damage_ten"} ELSE {})))
     /\ bossLeft' = Left(d)
     /\ striker' = u
     /\ struck' = Raise(struck, u, d)
     /\ criticals' = IF crit THEN Raise(criticals, u, 1) ELSE criticals
     /\ killer' = IF bossLeft > 0 /\ bossLeft <= d THEN u ELSE killer
     /\ diceUpgrade' = Nobody
     /\ UNCHANGED <<running, lastDiceResults, inventory, roundsWon, deathCount, miniGameScore,
                    itemScore, rounds, started, lastRoll, itemHistory>>

\* The first user in a battle gets first_to_boss.
First(u) == {"first_to_boss"} \ (IF firstToBossSet THEN {"first_to_boss"} ELSE earned[u])

\* TurnBossBattle.Enter for a user, whose roll n is the damage, doubled when
\* critical.
BossBattle(u, n, crit) ==
  /\ Occasion
  /\ bossLeft > 0
  /\ firstToBossSet' = TRUE
  /\ Blow(u, IF crit THEN 2 * n ELSE n, crit, First(u))

\* The blow may be intercepted: its striker is marked dead.
BlockedBattle(u) ==
  /\ Occasion
  /\ bossLeft > 0
  /\ firstToBossSet' = TRUE
  /\ Grant(Only(u, First(u)))
  /\ striker' = Nobody /\ diceUpgrade' = Nobody
  /\ UNCHANGED <<running, lastDiceResults, inventory, roundsWon, deathCount, bossDamageDealt,
                 bossLeft, miniGameScore, bossScore, itemScore, rounds, started, blowHistory,
                 lastRoll, itemHistory>>

\* Dominance and Wrath derive another blow from one, executed right after it, on
\* a dead Boss too.
Amplify(u, n) ==
  /\ Occasion
  /\ striker = u
  /\ Blow(u, n, FALSE, {})
  /\ UNCHANGED firstToBossSet

-----------------------------------------------------------------------------
(* The end *)

\* GameOver.Enter for a match whose Boss was beaten: those who never died, and
\* the lucky, whose luck is at its maximum.
GameOver(lucky) ==
  /\ running /\ killer # Nobody
  /\ Grant([u \in Users |->
       {k \in {"survivor"} : ~HasAchievement(u, k) /\ deathCount[u] = 0} \cup
       {k \in {"luck_master"} : ~HasAchievement(u, k) /\ u \in lucky}])
  /\ running' = FALSE
  /\ striker' = Nobody /\ diceUpgrade' = Nobody
  /\ UNCHANGED <<lastDiceResults, inventory, roundsWon, deathCount, battleVars, miniGameScore,
                 bossScore, itemScore, rounds, turns, started, blowHistory, lastRoll, itemHistory>>

\* MatchStop settles nothing.
MatchStop ==
  /\ running
  /\ running' = FALSE
  /\ UNCHANGED <<listening, earned, lastDiceResults, inventory, roundsWon, deathCount, battleVars,
                 diceUpgrade, scoreVars, rounds, turns, started, striker, blowHistory, lastRoll,
                 itemHistory>>

Ended == ~running /\ UNCHANGED vars

Next ==
  \/ \E rank \in Outcomes : MiniGame(rank)
  \/ \E u \in Users :
       \/ \E n \in Faces : RollDice(u, n)
       \/ AddItem(u) \/ LoseItem(u) \/ Die(u) \/ BlockedBattle(u)
       \/ \E upgrading \in BOOLEAN : UseItem(u, upgrading)
       \/ \E n \in Faces, crit \in BOOLEAN : BossBattle(u, n, crit)
       \/ \E n \in Faces : Amplify(u, n)
  \/ \E n \in Faces : HurtBoss(n)
  \/ BossRests
  \/ \E lucky \in SUBSET Users : GameOver(lucky)
  \/ MatchStop
  \/ Ended

Spec == Init /\ [][Next]_vars

-----------------------------------------------------------------------------
(* Properties *)

\* The achievement score of a player is that of the achievements the settlement
\* lists: none is paid twice, none is listed unpaid, whichever of the places
\* that grant them it came from.
AchievementsPaid == \A u \in Users : achievementScore[u] = Prizes(earned[u])

\* What a player's blows are worth: a point for each point of damage, two for a
\* critical one, fifteen for the Boss's death.
Worth(u) == struck[u] + 2 * criticals[u] + (IF killer = u THEN 15 ELSE 0)

\* Nobody is credited with more than their blows are worth, and everybody who
\* was there from the start with all of it until somebody has earned
\* boss_damage_ten.  The kill shot is theirs, and theirs alone, of whose blow the
\* Boss died, if they were there from the start.
BlowsAreCredited ==
  \A u \in Users :
    /\ bossScore[u] <= Worth(u)
    /\ u \in started /\ (\A v \in Users : ~HasAchievement(v, "boss_damage_ten")) =>
         bossScore[u] = Worth(u) /\ bossDamageDealt[u] = struck[u]
    /\ HasAchievement(u, "boss_kill_shot") <=> killer = u /\ u \in started

\* The same for items: the use of one is never forgotten, nor that it upgraded
\* dice, and being given one only after somebody has earned item_collector; no
\* use is worth more than the use of an upgrade.
ItemsAreCredited ==
  \A u \in Users :
    LET uses == 2 * used[u] + 5 * upgrades[u]
    IN /\ itemScore[u] >= uses /\ itemScore[u] <= 3 * gained[u] + 7 * used[u]
       /\ u \in started /\ (\A v \in Users : ~HasAchievement(v, "item_collector")) =>
            itemScore[u] >= uses + 3 * gained[u]

DeedsAreCredited == BlowsAreCredited /\ ItemsAreCredited

\* Who is granted a triple has rolled its number twice in a row, at least.
TriplesAreRuns ==
  [][\A u \in Users :
       /\ HasAchievement(u, "triple_one")' /\ ~HasAchievement(u, "triple_one") =>
            lastRoll[u] = 1 /\ lastRoll'[u] = 1
       /\ HasAchievement(u, "triple_six")' /\ ~HasAchievement(u, "triple_six") =>
            lastRoll[u] = 6 /\ lastRoll'[u] = 6]_vars
=============================================================================
