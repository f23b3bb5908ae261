---------------------------- MODULE ScoresProofs ----------------------------
(***************************************************************************)
(* Theorems about Scores, for every set of players, every dice and every   *)
(* Boss, and without the bounds that TLC needs.                            *)
(*                                                                         *)
(* Whatever grants an achievement, handler or state, asks first whether it *)
(* was granted before (NextEarns); points and subscriptions follow from    *)
(* that alone (Earning).  A handler that was subscribed is silent only     *)
(* once somebody has earned its kind (UnearnedAreHeard): with it the       *)
(* scores of blows and items can be compared with what was done.           *)
(***************************************************************************)
EXTENDS Scores, SequenceTheorems, TLAPS

-----------------------------------------------------------------------------
(* The inductive invariant *)

Counters == [Users -> Nat]

ScoresTypeOK ==
  /\ started \subseteq Users
  /\ listening \subseteq started \X EventBusAchievementTypes
  /\ earned \in [Users -> SUBSET AchievementTypes]
  /\ lastDiceResults \in [Users -> Seq(Nat)]
  /\ bossDamageDealt \in Counters /\ inventory \in Counters
  /\ roundsWon \in Counters /\ deathCount \in Counters
  /\ miniGameScore \in Counters /\ bossScore \in Counters
  /\ itemScore \in Counters /\ achievementScore \in Counters
  /\ struck \in Counters /\ criticals \in Counters /\ lastRoll \in Counters
  /\ gained \in Counters /\ used \in Counters /\ upgrades \in Counters
  /\ bossLeft \in 0 .. BossHP
  /\ killer \in Users \cup {Nobody}
  /\ striker \in Users \cup {Nobody}
  /\ diceUpgrade \in Users \cup {Nobody}

\* The handlers of those who were there from the start are subscribed until
\* somebody has earned what they detect.
UnearnedAreHeard ==
  \A u \in started, k \in EventBusAchievementTypes :
    (\A v \in Users : ~HasAchievement(v, k)) => <<u, k>> \in listening

\* Who has killed the Boss, whom nothing revives.
KilledForGood == killer # Nobody => bossLeft = 0

\* As long as one of the two handlers records the rolls of a user, the last
\* result is the last roll.
RollsAreRecorded ==
  \A u \in Users :
    /\ Len(lastDiceResults[u]) <= 3
    /\ Watches(u, "triple_one") \/ Watches(u, "triple_six") =>
         lastDiceResults[u] = <<>> \/ lastDiceResults[u][Len(lastDiceResults[u])] = lastRoll[u]

ScoresInv ==
  /\ ScoresTypeOK /\ UnearnedAreHeard /\ KilledForGood /\ RollsAreRecorded
  /\ AchievementsPaid /\ BlowsAreCredited /\ ItemsAreCredited

-----------------------------------------------------------------------------
(* Operators *)

LEMMA RaiseFacts ==
  ASSUME NEW f \in Counters, NEW u \in Users, NEW n \in Nat
  PROVE  /\ Raise(f, u, n) \in Counters
         /\ Raise(f, u, n)[u] = f[u] + n
         /\ \A v \in Users \ {u} : Raise(f, u, n)[v] = f[v]
BY DEF Raise, Counters

LEMMA RaiseByNothing ==
  ASSUME NEW f \in Counters, NEW u \in Users
  PROVE  Raise(f, u, 0) = f
BY DEF Raise, Counters

LEMMA LowerFacts ==
  ASSUME NEW f \in Counters, NEW u \in Users, f[u] > 0
  PROVE  [f EXCEPT ![u] = @ - 1] \in Counters
BY DEF Counters

\* What PushDiceResult leaves.
LEMMA PushedFacts ==
  ASSUME NEW r \in Seq(Nat), Len(r) <= 3, NEW n \in Nat
  PROVE  LET p == Pushed(r, n) IN
         /\ p \in Seq(Nat)
         /\ Len(p) \in 1 .. 3
         /\ p[Len(p)] = n
         /\ Len(p) >= 2 => Len(r) >= 1 /\ p[Len(p) - 1] = r[Len(r)]
         /\ Len(p) = 3 => Len(r) >= 2 /\ p[1] = r[Len(r) - 1]
<1>1. CASE Len(r) < 3
  BY <1>1 DEF Pushed
<1>2. CASE Len(r) = 3
  <2>1. Tail(r) \in Seq(Nat) /\ Len(Tail(r)) = 2 /\ Tail(r)[1] = r[2] /\ Tail(r)[2] = r[3]
    <3>1. /\ Tail(r) \in Seq(Nat) /\ Len(Tail(r)) = 2
          /\ \A i \in 1 .. Len(Tail(r)) : Tail(r)[i] = r[i + 1]
      BY <1>2, HeadTailProperties
    <3>2. \A t \in Seq(Nat) : Len(t) = 2 /\ (\A i \in 1 .. Len(t) : t[i] = r[i + 1]) =>
            t[1] = r[2] /\ t[2] = r[3]
      OBVIOUS
    <3> QED
      BY <3>1, <3>2
  <2>2. Pushed(r, n) = Append(Tail(r), n)
    BY <1>2 DEF Pushed
  <2>3. \A t \in Seq(Nat) : Len(t) = 2 =>
          /\ Append(t, n) \in Seq(Nat) /\ Len(Append(t, n)) = 3
          /\ Append(t, n)[3] = n /\ Append(t, n)[2] = t[2] /\ Append(t, n)[1] = t[1]
    <3>1. ASSUME NEW t \in Seq(Nat), Len(t) = 2
          PROVE  /\ Append(t, n) \in Seq(Nat) /\ Len(Append(t, n)) = 3
                 /\ Append(t, n)[3] = n /\ Append(t, n)[2] = t[2] /\ Append(t, n)[1] = t[1]
      <4>1. /\ Append(t, n) \in Seq(Nat) /\ Len(Append(t, n)) = Len(t) + 1
            /\ \A i \in 1 .. Len(t) : Append(t, n)[i] = t[i]
            /\ Append(t, n)[Len(t) + 1] = n
        BY AppendProperties
      <4> QED
        BY ONLY <3>1, <4>1
    <3> QED
      BY <3>1
  <2>4. /\ Pushed(r, n) \in Seq(Nat) /\ Len(Pushed(r, n)) = 3
        /\ Pushed(r, n)[3] = n /\ Pushed(r, n)[2] = r[3] /\ Pushed(r, n)[1] = r[2]
    BY <2>1, <2>2, <2>3
  <2> QED
    BY <1>2, <2>4
<1>3. Len(r) \in Nat
  BY LenProperties
<1>4. \A k \in Nat : k <= 3 => k < 3 \/ k = 3
  OBVIOUS
<1>5. Len(r) < 3 \/ Len(r) = 3
  BY <1>3, <1>4, Zenon
<1> QED
  BY <1>1, <1>2, <1>5

\* Who is found to have rolled three of a kind.
LEMMA ThriceFacts ==
  ASSUME NEW r \in Seq(Nat), Len(r) <= 3, NEW n \in Nat, NEW m \in Nat,
         Pushed(r, n) = Thrice(m)
  PROVE  n = m /\ Len(r) >= 2 /\ r[Len(r)] = m /\ r[Len(r) - 1] = m
<1>1. Len(Thrice(m)) = 3 /\ Thrice(m)[3] = m /\ Thrice(m)[2] = m /\ Thrice(m)[1] = m
  BY DEF Thrice
<1> DEFINE p == Pushed(r, n)
<1>2. Len(p) = 3 /\ p[3] = m /\ p[2] = m /\ p[1] = m
  BY <1>1
<1>3. /\ p[Len(p)] = n
      /\ Len(p) >= 2 => Len(r) >= 1 /\ p[Len(p) - 1] = r[Len(r)]
      /\ Len(p) = 3 => Len(r) >= 2 /\ p[1] = r[Len(r) - 1]
  BY PushedFacts
<1> HIDE DEF p
<1> QED
  BY <1>2, <1>3

\* Each kind is counted once: what two sets that share nothing are worth.
LEMMA PrizesAdd ==
  ASSUME NEW E \in SUBSET AchievementTypes, NEW N \in SUBSET AchievementTypes, E \cap N = {}
  PROVE  /\ Prizes(N) \in Nat
         /\ Prizes(E \cup N) = Prizes(E) + Prizes(N)
<1>1. \A k \in AchievementTypes : Points[k] \in Nat
  BY DEF Points
<1>2. \A k \in AchievementTypes :
        /\ Prize(E, k) \in Nat /\ Prize(N, k) \in Nat
        /\ Prize(E \cup N, k) = Prize(E, k) + Prize(N, k)
  BY <1>1 DEF Prize
<1>3. {"triple_one", "triple_six", "boss_kill_shot", "boss_damage_ten", "item_collector",
       "survivor", "luck_master", "first_to_boss", "mini_game_winner_three"}
        \subseteq AchievementTypes
  BY DEF AchievementTypes, EventBusAchievementTypes
<1> DEFINE Adds(k) ==
      /\ Prize(E, k) \in Nat /\ Prize(N, k) \in Nat
      /\ Prize(E \cup N, k) = Prize(E, k) + Prize(N, k)
<1>4. /\ Adds("triple_one") /\ Adds("triple_six") /\ Adds("boss_kill_shot")
      /\ Adds("boss_damage_ten") /\ Adds("item_collector") /\ Adds("survivor")
      /\ Adds("luck_master") /\ Adds("first_to_boss") /\ Adds("mini_game_winner_three")
  BY <1>2, <1>3
<1> QED
  BY ONLY <1>4 DEF Prizes

LEMMA NothingForNothing == Prizes({}) = 0
BY DEF Prizes, Prize

-----------------------------------------------------------------------------
(* Granting *)

\* What is granted is new to everybody who is granted it.
GrantsNew ==
  \E granted \in [Users -> SUBSET AchievementTypes] :
    /\ \A u \in Users : granted[u] \cap earned[u] = {}
    /\ Grant(granted)

Earns == GrantsNew \/ UNCHANGED <<earned, achievementScore, listening>>

LEMMA OnlyGrants ==
  ASSUME ScoresTypeOK, NEW u \in Users, NEW kinds \in SUBSET AchievementTypes,
         kinds \cap earned[u] = {}, Grant(Only(u, kinds))
  PROVE  GrantsNew /\ earned'[u] = earned[u] \cup kinds
                   /\ \A v \in Users \ {u} : earned'[v] = earned[v]
<1> DEFINE g == Only(u, kinds)
<1>1. /\ g \in [Users -> SUBSET AchievementTypes]
      /\ g[u] = kinds
      /\ \A v \in Users \ {u} : g[v] = {}
  BY DEF Only
<1>2. \A v \in Users : earned'[v] = earned[v] \cup g[v]
  BY DEF Grant
<1> HIDE DEF g
<1> QED
  BY <1>1, <1>2 DEF GrantsNew, g

\* Points and subscriptions follow what is earned.
LEMMA Earning ==
  ASSUME ScoresTypeOK, UnearnedAreHeard, AchievementsPaid, Earns, UNCHANGED started
  PROVE  /\ earned' \in [Users -> SUBSET AchievementTypes]
         /\ achievementScore' \in Counters
         /\ listening' \subseteq started' \X EventBusAchievementTypes
         /\ listening' \subseteq listening
         /\ UnearnedAreHeard' /\ AchievementsPaid'
         /\ \A u \in Users : earned[u] \subseteq earned'[u]
<1>1. CASE GrantsNew
  <2>1. PICK granted \in [Users -> SUBSET AchievementTypes] :
          /\ \A u \in Users : granted[u] \cap earned[u] = {}
          /\ Grant(granted)
    BY <1>1 DEF GrantsNew
  <2>2. /\ earned' = [u \in Users |-> earned[u] \cup granted[u]]
        /\ achievementScore' = [u \in Users |-> achievementScore[u] + Prizes(granted[u])]
        /\ listening' =
             {l \in listening : \A u \in Users : l[2] \notin granted[u] \ earned[u]}
    BY <2>1 DEF Grant
  <2>3. \A u \in Users : /\ earned[u] \in SUBSET AchievementTypes
                         /\ granted[u] \in SUBSET AchievementTypes
                         /\ achievementScore[u] \in Nat
    BY DEF ScoresTypeOK, Counters
  <2>4. \A u \in Users :
          /\ Prizes(granted[u]) \in Nat
          /\ Prizes(earned[u] \cup granted[u]) = Prizes(earned[u]) + Prizes(granted[u])
    BY <2>1, <2>3, PrizesAdd
  <2>5. earned' \in [Users -> SUBSET AchievementTypes]
    BY <2>2, <2>3
  <2>6. achievementScore' \in Counters
    <3>1. ASSUME NEW u \in Users
          PROVE  achievementScore[u] + Prizes(granted[u]) \in Nat
      <4>1. achievementScore[u] \in Nat /\ Prizes(granted[u]) \in Nat
        BY <2>3, <2>4
      <4> QED
        BY ONLY <4>1
    <3> QED
      BY <2>2, <3>1 DEF Counters
  <2>7. AchievementsPaid'
    BY <2>2, <2>4 DEF AchievementsPaid
  <2>8. ASSUME NEW u \in started, NEW k \in EventBusAchievementTypes,
               \A v \in Users : k \notin earned'[v]
        PROVE  <<u, k>> \in listening'
    <3>1. \A v \in Users : k \notin earned[v] /\ k \notin granted[v]
      BY <2>2, <2>8
    <3>2. <<u, k>> \in listening
      BY <3>1, <2>8 DEF UnearnedAreHeard, HasAchievement
    <3> QED
      BY <2>2, <3>1, <3>2
  <2>9. UnearnedAreHeard'
    BY <2>8 DEF UnearnedAreHeard, HasAchievement
  <2> QED
    BY <2>2, <2>5, <2>6, <2>7, <2>9 DEF ScoresTypeOK
<1>2. CASE UNCHANGED <<earned, achievementScore, listening>>
  BY <1>2 DEF ScoresTypeOK, UnearnedAreHeard, AchievementsPaid, HasAchievement
<1> QED
  BY <1>1, <1>2 DEF Earns

\* Nobody is asked to watch again.
LEMMA WatchesFade ==
  ASSUME listening' \subseteq listening, NEW u, NEW k, earned[u] \subseteq earned'[u]
  PROVE  Watches(u, k)' => Watches(u, k)
BY DEF Watches, HasAchievement

LEMMA BlowEarns ==
  ASSUME ScoresTypeOK, NEW u \in Users, NEW d, NEW crit, NEW more \in SUBSET {"first_to_boss"},
         more \cap earned[u] = {}, Blow(u, d, crit, more)
  PROVE  /\ GrantsNew
         /\ HasAchievement(u, "boss_kill_shot")' <=>
              HasAchievement(u, "boss_kill_shot") \/ KillShot(u, d)
         /\ earned'[u] \subseteq
              earned[u] \cup {"first_to_boss", "boss_kill_shot", "boss_damage_ten"}
         /\ \A v \in Users \ {u} : earned'[v] = earned[v]
<1> DEFINE counted == <<u, "boss_damage_ten">> \in listening
           dealt   == bossDamageDealt[u] + (IF counted THEN d ELSE 0)
           ten     == counted /\ ~HasAchievement(u, "boss_damage_ten") /\ dealt >= 10
           kinds   == more \cup (IF KillShot(u, d) THEN {"boss_kill_shot"} ELSE {})
                           \cup (IF ten THEN {"boss_damage_ten"} ELSE {})
<1>1. Grant(Only(u, kinds))
  BY DEF Blow
<1>2. kinds \in SUBSET AchievementTypes
  BY DEF AchievementTypes, EventBusAchievementTypes
<1>3. kinds \cap earned[u] = {}
  BY DEF KillShot, Watches, HasAchievement
<1>4. /\ "boss_kill_shot" \in kinds <=> KillShot(u, d)
      /\ kinds \subseteq {"first_to_boss", "boss_kill_shot", "boss_damage_ten"}
  OBVIOUS
<1> HIDE DEF kinds
<1>5. /\ GrantsNew /\ earned'[u] = earned[u] \cup kinds
      /\ \A v \in Users \ {u} : earned'[v] = earned[v]
  BY <1>1, <1>2, <1>3, OnlyGrants
<1> QED
  BY <1>4, <1>5 DEF HasAchievement

-----------------------------------------------------------------------------
(* Steps *)

\* A user strikes the Boss.
Strikes ==
  \E u \in Users, d \in Nat, crit \in BOOLEAN, more \in SUBSET {"first_to_boss"} :
    more \cap earned[u] = {} /\ Blow(u, d, crit, more) /\ firstToBossSet' \in {TRUE, firstToBossSet}

\* Nobody strikes the Boss, and nobody has killed it.
Peace ==
  /\ UNCHANGED <<bossScore, bossDamageDealt, blowHistory>>
  /\ \A u \in Users : HasAchievement(u, "boss_kill_shot")' => HasAchievement(u, "boss_kill_shot")

\* No dice have shown a triple.
NoTriples ==
  \A u \in Users, k \in {"triple_one", "triple_six"} :
    HasAchievement(u, k)' => HasAchievement(u, k)

LEMMA FirstFacts ==
  ASSUME NEW u
  PROVE  First(u) \in SUBSET {"first_to_boss"} /\ First(u) \cap earned[u] = {}
BY DEF First

LEMMA BattleStrikes ==
  ASSUME NEW u \in Users, NEW n \in Faces, NEW crit \in BOOLEAN, BossBattle(u, n, crit)
  PROVE  Strikes
<1>1. n \in Nat /\ 2 * n \in Nat
  BY DiceAssumption
<1> DEFINE d == IF crit THEN 2 * n ELSE n
<1>2. d \in Nat
  BY <1>1
<1>3. Blow(u, d, crit, First(u)) /\ firstToBossSet' = TRUE
  BY DEF BossBattle
<1> HIDE DEF d
<1> QED
  BY <1>2, <1>3, FirstFacts DEF Strikes

LEMMA AmplifyStrikes ==
  ASSUME NEW u \in Users, NEW n \in Faces, Amplify(u, n)
  PROVE  Strikes
<1>1. n \in Nat
  BY DiceAssumption
<1>2. Blow(u, n, FALSE, {}) /\ firstToBossSet' = firstToBossSet
  BY DEF Amplify
<1> QED
  BY <1>1, <1>2 DEF Strikes

\* What the dice grant.
LEMMA RollGrants ==
  ASSUME ScoresTypeOK, NEW u \in Users, NEW n \in Faces, RollDice(u, n)
  PROVE  GrantsNew /\ Peace
<1> DEFINE ones  == Recorded(u, "triple_one", lastDiceResults[u], n)
           sixes == Recorded(u, "triple_six", ones, n)
           kinds == {k \in {"triple_one", "triple_six"} :
                       /\ Watches(u, k)
                       /\ k = "triple_one" => ones = Thrice(1)
                       /\ k = "triple_six" => sixes = Thrice(6)}
<1>1. Grant(Only(u, kinds)) /\ UNCHANGED <<bossScore, battleVars, blowHistory>>
  BY DEF RollDice
<1>2. kinds \subseteq {"triple_one", "triple_six"} /\ kinds \cap earned[u] = {}
  BY DEF Watches, HasAchievement
<1> HIDE DEF kinds
<1>3. kinds \in SUBSET AchievementTypes
  BY <1>2 DEF AchievementTypes, EventBusAchievementTypes
<1>4. /\ GrantsNew /\ earned'[u] = earned[u] \cup kinds
      /\ \A v \in Users \ {u} : earned'[v] = earned[v]
  BY <1>1, <1>2, <1>3, OnlyGrants
<1> QED
  BY <1>1, <1>2, <1>4 DEF Peace, HasAchievement, battleVars

LEMMA MiniGameGrants ==
  ASSUME ScoresTypeOK, NEW rank \in Outcomes, MiniGame(rank)
  PROVE  GrantsNew /\ Peace /\ NoTriples
<1> DEFINE won == [u \in Users |-> IF rank[u] = 1 THEN roundsWon[u] + 1 ELSE roundsWon[u]]
           g   == [u \in Users |->
                     IF WinsThree(won, u) THEN {"mini_game_winner_three"} ELSE {}]
<1>1. Grant(g) /\ UNCHANGED <<bossScore, battleVars, blowHistory>>
  BY DEF MiniGame
<1>2. \A u \in Users : g[u] \subseteq {"mini_game_winner_three"} /\ g[u] \cap earned[u] = {}
  BY DEF WinsThree, HasAchievement
<1>3. g \in [Users -> SUBSET AchievementTypes]
  BY DEF AchievementTypes
<1> HIDE DEF g
<1>4. \A u \in Users : earned'[u] = earned[u] \cup g[u]
  BY <1>1 DEF Grant
<1> QED
  BY <1>1, <1>2, <1>3, <1>4 DEF GrantsNew, Peace, NoTriples, HasAchievement, battleVars

LEMMA GameOverGrants ==
  ASSUME ScoresTypeOK, NEW lucky \in SUBSET Users, GameOver(lucky)
  PROVE  GrantsNew /\ Peace /\ NoTriples
<1> DEFINE g == [u \in Users |->
                   {k \in {"survivor"} : ~HasAchievement(u, k) /\ deathCount[u] = 0} \cup
                   {k \in {"luck_master"} : ~HasAchievement(u, k) /\ u \in lucky}]
<1>1. Grant(g) /\ UNCHANGED <<bossScore, battleVars, blowHistory>>
  BY DEF GameOver
<1>2. \A u \in Users : g[u] \subseteq {"survivor", "luck_master"} /\ g[u] \cap earned[u] = {}
  BY DEF HasAchievement
<1>3. g \in [Users -> SUBSET AchievementTypes]
  BY DEF AchievementTypes
<1> HIDE DEF g
<1>4. \A u \in Users : earned'[u] = earned[u] \cup g[u]
  BY <1>1 DEF Grant
<1> QED
  BY <1>1, <1>2, <1>3, <1>4 DEF GrantsNew, Peace, NoTriples, HasAchievement, battleVars

LEMMA AddItemGrants ==
  ASSUME ScoresTypeOK, NEW u \in Users, AddItem(u)
  PROVE  GrantsNew /\ Peace /\ NoTriples
<1> DEFINE kinds == {k \in {"item_collector"} : Watches(u, k) /\ inventory[u] >= 2}
<1>1. Grant(Only(u, kinds)) /\ UNCHANGED <<bossScore, battleVars, blowHistory>>
  BY DEF AddItem
<1>2. kinds \subseteq {"item_collector"} /\ kinds \cap earned[u] = {}
  BY DEF Watches, HasAchievement
<1> HIDE DEF kinds
<1>3. kinds \in SUBSET AchievementTypes
  BY <1>2 DEF AchievementTypes, EventBusAchievementTypes
<1>4. /\ GrantsNew /\ earned'[u] = earned[u] \cup kinds
      /\ \A v \in Users \ {u} : earned'[v] = earned[v]
  BY <1>1, <1>2, <1>3, OnlyGrants
<1> QED
  BY <1>1, <1>2, <1>4 DEF Peace, NoTriples, HasAchievement, battleVars

LEMMA BlockedGrants ==
  ASSUME ScoresTypeOK, NEW u \in Users, BlockedBattle(u)
  PROVE  GrantsNew /\ Peace /\ NoTriples
<1>1. Grant(Only(u, First(u))) /\ UNCHANGED <<bossScore, bossDamageDealt, blowHistory>>
  BY DEF BlockedBattle
<1>2. First(u) \subseteq {"first_to_boss"} /\ First(u) \cap earned[u] = {}
  BY FirstFacts
<1>3. First(u) \in SUBSET AchievementTypes
  BY <1>2 DEF AchievementTypes
<1>4. /\ GrantsNew /\ earned'[u] = earned[u] \cup First(u)
      /\ \A v \in Users \ {u} : earned'[v] = earned[v]
  BY <1>1, <1>2, <1>3, OnlyGrants
<1> QED
  BY <1>1, <1>2, <1>4 DEF Peace, NoTriples, HasAchievement

\* The steps that bring nobody points: what happens to items, users and the Boss.
OtherSteps ==
  \/ \E u \in Users : LoseItem(u) \/ Die(u)
  \/ \E n \in Faces : HurtBoss(n)
  \/ BossRests

LEMMA OtherStepsRest ==
  ASSUME OtherSteps
  PROVE  /\ UNCHANGED <<listening, earned, lastDiceResults, bossDamageDealt, scoreVars,
                        started, blowHistory, lastRoll, itemHistory>>
         /\ Peace
BY DEF OtherSteps, LoseItem, Die, HurtBoss, BossRests, Happens, Peace, scoreVars, HasAchievement

\* Every step of the match, by what it grants.
LEMMA NextEarns ==
  ASSUME ScoresTypeOK, [Next]_vars
  PROVE  Earns /\ UNCHANGED started /\ (Peace \/ Strikes)
<1>1. ASSUME NEW rank \in Outcomes, MiniGame(rank)
      PROVE  Earns /\ UNCHANGED started /\ Peace
  BY <1>1, MiniGameGrants DEF Earns, MiniGame
<1>2. ASSUME NEW u \in Users, NEW n \in Faces, RollDice(u, n)
      PROVE  Earns /\ UNCHANGED started /\ Peace
  BY <1>2, RollGrants DEF Earns, RollDice
<1>3. ASSUME NEW u \in Users, AddItem(u)
      PROVE  Earns /\ UNCHANGED started /\ Peace
  BY <1>3, AddItemGrants DEF Earns, AddItem
<1>4. ASSUME OtherSteps
      PROVE  Earns /\ UNCHANGED started /\ Peace
  BY <1>4, OtherStepsRest DEF Earns, scoreVars
<1>5. ASSUME NEW u \in Users, BlockedBattle(u)
      PROVE  Earns /\ UNCHANGED started /\ Peace
  BY <1>5, BlockedGrants DEF Earns, BlockedBattle
<1>6. ASSUME NEW u \in Users, NEW upgrading \in BOOLEAN, UseItem(u, upgrading)
      PROVE  Earns /\ UNCHANGED started /\ Peace
  BY <1>6 DEF Earns, UseItem, Peace, HasAchievement, battleVars
<1>7. ASSUME Strikes
      PROVE  Earns /\ UNCHANGED started
  <2>1. PICK u \in Users, d \in Nat, crit \in BOOLEAN, more \in SUBSET {"first_to_boss"} :
          more \cap earned[u] = {} /\ Blow(u, d, crit, more)
    BY <1>7 DEF Strikes
  <2> QED
    BY <2>1, BlowEarns DEF Earns, Blow
<1>8. ASSUME NEW lucky \in SUBSET Users, GameOver(lucky)
      PROVE  Earns /\ UNCHANGED started /\ Peace
  BY <1>8, GameOverGrants DEF Earns, GameOver
<1>9. ASSUME MatchStop
      PROVE  Earns /\ UNCHANGED started /\ Peace
  BY <1>9 DEF Earns, MatchStop, Peace, HasAchievement, battleVars, scoreVars
<1>10. ASSUME UNCHANGED vars
       PROVE  Earns /\ UNCHANGED started /\ Peace
  BY <1>10 DEF Earns, vars, Peace, HasAchievement, battleVars, scoreVars
<1> QED
  BY <1>1, <1>2, <1>3, <1>4, <1>5, <1>6, <1>7, <1>8, <1>9, <1>10,
     BattleStrikes, AmplifyStrikes DEF Next, OtherSteps, Ended

-----------------------------------------------------------------------------
(* Types *)

\* What a blow leaves.
LEMMA BlowFacts ==
  ASSUME ScoresTypeOK, NEW u \in Users, NEW d \in Nat, NEW crit \in BOOLEAN, NEW more,
         Blow(u, d, crit, more)
  PROVE  LET counted == <<u, "boss_damage_ten">> \in listening
             points  == (IF KillShot(u, d) THEN 15 ELSE 0)
                        + (IF counted THEN d + CritBonus(crit) ELSE 0)
             damage  == IF counted THEN d ELSE 0
         IN /\ points \in Nat /\ damage \in Nat
            /\ bossScore' = Raise(bossScore, u, points)
            /\ bossDamageDealt' = Raise(bossDamageDealt, u, damage)
            /\ struck' = Raise(struck, u, d)
            /\ criticals' = Raise(criticals, u, IF crit THEN 1 ELSE 0)
            /\ bossLeft' \in 0 .. BossHP
            /\ bossLeft <= d => bossLeft' = 0
            /\ killer' = IF bossLeft > 0 /\ bossLeft <= d THEN u ELSE killer
            /\ UNCHANGED <<lastDiceResults, inventory, roundsWon, deathCount, miniGameScore,
                           itemScore, lastRoll, itemHistory>>
            /\ striker' \in Users \cup {Nobody} /\ diceUpgrade' \in Users \cup {Nobody}
<1> DEFINE counted == <<u, "boss_damage_ten">> \in listening
           points  == (IF KillShot(u, d) THEN 15 ELSE 0)
                      + (IF counted THEN d + CritBonus(crit) ELSE 0)
           damage  == IF counted THEN d ELSE 0
<1>1. points \in Nat /\ damage \in Nat
  BY DEF CritBonus
<1>2. bossLeft' \in 0 .. BossHP /\ (bossLeft <= d => bossLeft' = 0)
  BY LimitAssumption DEF Blow, Left, ScoresTypeOK
<1>3. bossScore' = Raise(bossScore, u, points)
  BY DEF Blow
<1>4. bossDamageDealt' = Raise(bossDamageDealt, u, damage)
  BY DEF Blow, Raise
<1>5. criticals' = Raise(criticals, u, IF crit THEN 1 ELSE 0)
  <2>1. CASE crit
    BY <2>1 DEF Blow
  <2>2. CASE ~crit
    <3>1. criticals' = criticals
      BY <2>2 DEF Blow
    <3>2. criticals = Raise(criticals, u, 0)
      BY RaiseByNothing DEF ScoresTypeOK
    <3> QED
      BY <2>2, <3>1, <3>2
  <2> QED
    BY <2>1, <2>2
<1>6. /\ struck' = Raise(struck, u, d)
      /\ killer' = IF bossLeft > 0 /\ bossLeft <= d THEN u ELSE killer
      /\ UNCHANGED <<lastDiceResults, inventory, roundsWon, deathCount, miniGameScore,
                     itemScore, lastRoll, itemHistory>>
      /\ striker' \in Users \cup {Nobody} /\ diceUpgrade' \in Users \cup {Nobody}
  BY DEF Blow
<1> QED
  BY <1>1, <1>2, <1>3, <1>4, <1>5, <1>6

\* What is not granted keeps its type.
LEMMA TypesKept ==
  ASSUME ScoresTypeOK, [Next]_vars, UnearnedAreHeard, AchievementsPaid
  PROVE  ScoresTypeOK'
<1> DEFINE Rest ==
      /\ lastDiceResults' \in [Users -> Seq(Nat)]
      /\ bossDamageDealt' \in Counters /\ inventory' \in Counters
      /\ roundsWon' \in Counters /\ deathCount' \in Counters
      /\ miniGameScore' \in Counters /\ bossScore' \in Counters /\ itemScore' \in Counters
      /\ struck' \in Counters /\ criticals' \in Counters /\ lastRoll' \in Counters
      /\ gained' \in Counters /\ used' \in Counters /\ upgrades' \in Counters
      /\ bossLeft' \in 0 .. BossHP
      /\ killer' \in Users \cup {Nobody}
      /\ striker' \in Users \cup {Nobody}
      /\ diceUpgrade' \in Users \cup {Nobody}
<1>1. ASSUME NEW rank \in Outcomes, MiniGame(rank)
      PROVE  Rest
  <2>1. roundsWon' \in Counters
    <3> DEFINE won == [u \in Users |-> IF rank[u] = 1 THEN roundsWon[u] + 1 ELSE roundsWon[u]]
    <3>1. roundsWon' = won
      BY <1>1 DEF MiniGame
    <3>2. \A u \in Users : roundsWon[u] \in Nat
      BY DEF ScoresTypeOK, Counters
    <3> QED
      BY <3>1, <3>2 DEF Counters
  <2>2. ASSUME NEW u \in Users, rank[u] > 0
        PROVE  RankScore(rank[u], Cardinality(Users)) \in Nat
    <3>1. rank[u] \in Nat
      BY OutcomeAssumption
    <3> QED
      BY <2>2, <3>1 DEF RankScore
  <2>3. miniGameScore' \in Counters
    <3> DEFINE n == Cardinality(Users)
               m == [u \in Users |-> IF rank[u] > 0 /\ n >= 2
                                     THEN miniGameScore[u] + RankScore(rank[u], n)
                                     ELSE miniGameScore[u]]
    <3>1. miniGameScore' = m
      BY <1>1 DEF MiniGame
    <3>2. ASSUME NEW u \in Users
          PROVE  m[u] \in Nat
      <4>1. miniGameScore[u] \in Nat
        BY DEF ScoresTypeOK, Counters
      <4>2. CASE rank[u] > 0 /\ n >= 2
        <5>1. RankScore(rank[u], n) \in Nat
          BY <2>2, <4>2
        <5> HIDE DEF n
        <5> QED
          BY <4>1, <4>2, <5>1
      <4>3. CASE ~(rank[u] > 0 /\ n >= 2)
        BY <4>1, <4>3
      <4> QED
        BY <4>2, <4>3
    <3> QED
      BY <3>1, <3>2 DEF Counters
  <2> QED
    BY <1>1, <2>1, <2>3 DEF MiniGame, ScoresTypeOK, battleVars, blowHistory, itemHistory
<1>2. ASSUME NEW u \in Users, NEW n \in Faces, RollDice(u, n)
      PROVE  Rest
  <2>1. n \in Nat
    BY DiceAssumption
  <2>2. \A r \in Seq(Nat), k \in {"triple_one", "triple_six"} : Recorded(u, k, r, n) \in Seq(Nat)
    BY <2>1 DEF Recorded, Pushed
  <2>3. lastDiceResults[u] \in Seq(Nat)
    BY DEF ScoresTypeOK
  <2> DEFINE rec == Recorded(u, "triple_six",
                             Recorded(u, "triple_one", lastDiceResults[u], n), n)
  <2>4. rec \in Seq(Nat)
    BY <2>2, <2>3
  <2>5. lastDiceResults' = [lastDiceResults EXCEPT ![u] = rec]
    BY <1>2 DEF RollDice
  <2> HIDE DEF rec
  <2>6. lastDiceResults' \in [Users -> Seq(Nat)]
    BY <2>4, <2>5 DEF ScoresTypeOK
  <2>7. lastRoll' \in Counters
    BY <1>2, <2>1 DEF RollDice, ScoresTypeOK, Counters
  <2> QED
    BY <1>2, <2>6, <2>7 DEF RollDice, ScoresTypeOK, battleVars, blowHistory, itemHistory
<1>3. ASSUME NEW u \in Users, AddItem(u)
      PROVE  Rest
  <2>1. itemScore' \in Counters /\ inventory' \in Counters /\ gained' \in Counters
    BY <1>3, RaiseFacts DEF AddItem, ScoresTypeOK
  <2> QED
    BY <1>3, <2>1 DEF AddItem, ScoresTypeOK, battleVars, blowHistory
<1>4. ASSUME NEW u \in Users, NEW upgrading \in BOOLEAN, UseItem(u, upgrading)
      PROVE  Rest
  <2>1. itemScore' \in Counters /\ used' \in Counters /\ upgrades' \in Counters
    BY <1>4, RaiseFacts DEF UseItem, ScoresTypeOK
  <2>2. inventory' \in Counters
    <3>1. inventory \in Counters /\ inventory[u] > 0
      BY <1>4 DEF UseItem, ScoresTypeOK
    <3>2. inventory' \in {inventory, [inventory EXCEPT ![u] = @ - 1]}
      BY <1>4 DEF UseItem
    <3> QED
      BY <3>1, <3>2, LowerFacts
  <2>3. diceUpgrade' \in Users \cup {Nobody}
    BY <1>4 DEF UseItem
  <2> QED
    BY <1>4, <2>1, <2>2, <2>3 DEF UseItem, ScoresTypeOK, battleVars, blowHistory
<1>5. ASSUME OtherSteps
      PROVE  Rest
  <2>1. inventory' \in Counters /\ deathCount' \in Counters
    <3>1. inventory \in Counters /\ deathCount \in Counters
      BY DEF ScoresTypeOK
    <3>2. ASSUME NEW u \in Users, LoseItem(u)
          PROVE  inventory' \in Counters /\ deathCount' = deathCount
      BY <3>1, <3>2, LowerFacts DEF LoseItem, Happens
    <3>3. ASSUME NEW u \in Users, Die(u)
          PROVE  inventory' = inventory /\ deathCount' \in Counters
      BY <3>1, <3>3, RaiseFacts DEF Die, Happens
    <3>4. ASSUME BossRests \/ \E n \in Faces : HurtBoss(n)
          PROVE  inventory' = inventory /\ deathCount' = deathCount
      BY <3>4 DEF BossRests, HurtBoss, Happens
    <3> QED
      BY <1>5, <3>1, <3>2, <3>3, <3>4 DEF OtherSteps
  <2>2. bossLeft' \in 0 .. BossHP
    BY <1>5, LimitAssumption, DiceAssumption
    DEF OtherSteps, LoseItem, Die, HurtBoss, BossRests, Happens, Left, ScoresTypeOK
  <2> QED
    BY <1>5, <2>1, <2>2
    DEF OtherSteps, LoseItem, Die, HurtBoss, BossRests, Happens, ScoresTypeOK, scoreVars,
        blowHistory, itemHistory
<1>6. ASSUME NEW u \in Users, BlockedBattle(u)
      PROVE  Rest
  BY <1>6 DEF BlockedBattle, ScoresTypeOK, blowHistory, itemHistory
<1>7. ASSUME Strikes
      PROVE  Rest
  <2>1. PICK u \in Users, d \in Nat, crit \in BOOLEAN, more \in SUBSET {"first_to_boss"} :
          Blow(u, d, crit, more)
    BY <1>7 DEF Strikes
  <2> DEFINE points == (IF KillShot(u, d) THEN 15 ELSE 0)
                       + (IF <<u, "boss_damage_ten">> \in listening
                          THEN d + CritBonus(crit) ELSE 0)
             damage == IF <<u, "boss_damage_ten">> \in listening THEN d ELSE 0
             crits  == IF crit THEN 1 ELSE 0
  <2>2. /\ points \in Nat /\ damage \in Nat /\ crits \in Nat
        /\ bossScore' = Raise(bossScore, u, points)
        /\ bossDamageDealt' = Raise(bossDamageDealt, u, damage)
        /\ criticals' = Raise(criticals, u, crits)
    BY <2>1, BlowFacts
  <2>3. /\ struck' = Raise(struck, u, d)
        /\ bossLeft' \in 0 .. BossHP
        /\ killer' \in {u, killer}
        /\ UNCHANGED <<lastDiceResults, inventory, roundsWon, deathCount, miniGameScore,
                       itemScore, lastRoll, itemHistory>>
        /\ striker' \in Users \cup {Nobody} /\ diceUpgrade' \in Users \cup {Nobody}
    BY <2>1, BlowFacts
  <2> HIDE DEF points, damage, crits
  <2>4. /\ bossScore \in Counters /\ bossDamageDealt \in Counters
        /\ struck \in Counters /\ criticals \in Counters
    BY DEF ScoresTypeOK
  <2>5. /\ bossScore' \in Counters /\ bossDamageDealt' \in Counters
        /\ struck' \in Counters /\ criticals' \in Counters
    BY <2>2, <2>3, <2>4, RaiseFacts
  <2> QED
    BY <2>3, <2>5 DEF ScoresTypeOK, itemHistory
<1>8. ASSUME NEW lucky \in SUBSET Users, GameOver(lucky)
      PROVE  Rest
  BY <1>8 DEF GameOver, ScoresTypeOK, battleVars, blowHistory, itemHistory
<1>9. ASSUME MatchStop \/ UNCHANGED vars
      PROVE  Rest
  BY <1>9 DEF MatchStop, vars, ScoresTypeOK, battleVars, scoreVars, blowHistory, itemHistory
<1>10. Rest
  BY <1>1, <1>2, <1>3, <1>4, <1>5, <1>6, <1>7, <1>8, <1>9, BattleStrikes, AmplifyStrikes
  DEF Next, OtherSteps, Ended
<1>11. /\ started' \subseteq Users
       /\ listening' \subseteq started' \X EventBusAchievementTypes
       /\ earned' \in [Users -> SUBSET AchievementTypes] /\ achievementScore' \in Counters
  BY NextEarns, Earning DEF ScoresTypeOK
<1> QED
  BY <1>10, <1>11 DEF ScoresTypeOK

-----------------------------------------------------------------------------
(* Blows *)

\* Who killed the Boss is not forgotten, and the Boss is not killed twice.
LEMMA KilledOnce ==
  ASSUME ScoresTypeOK, KilledForGood, [Next]_vars
  PROVE  KilledForGood'
<1>1. ASSUME Strikes
      PROVE  KilledForGood'
  <2>1. PICK u \in Users, d \in Nat, crit \in BOOLEAN, more \in SUBSET {"first_to_boss"} :
          Blow(u, d, crit, more)
    BY <1>1 DEF Strikes
  <2>2. /\ bossLeft <= d => bossLeft' = 0
        /\ killer' = IF bossLeft > 0 /\ bossLeft <= d THEN u ELSE killer
    BY <2>1, BlowFacts
  <2>3. bossLeft \in Nat /\ d \in Nat
    BY DEF ScoresTypeOK
  <2> QED
    BY <2>2, <2>3 DEF KilledForGood
<1>2. ASSUME OtherSteps
      PROVE  KilledForGood'
  BY <1>2 DEF OtherSteps, LoseItem, Die, HurtBoss, BossRests, Happens, KilledForGood, blowHistory,
              ScoresTypeOK
<1>3. CASE UNCHANGED <<bossLeft, killer>>
  BY <1>3 DEF KilledForGood
<1>4. Strikes \/ OtherSteps \/ UNCHANGED <<bossLeft, killer>>
  BY BattleStrikes, AmplifyStrikes
  DEF Next, OtherSteps, Ended, MatchStop, vars, MiniGame, RollDice, AddItem, UseItem,
      BlockedBattle, GameOver, battleVars, blowHistory
<1> QED
  BY <1>1, <1>2, <1>3, <1>4

LEMMA BlowsCredited ==
  ASSUME ScoresInv, [Next]_vars, ScoresTypeOK'
  PROVE  BlowsAreCredited'
<1>1. /\ ScoresTypeOK /\ UnearnedAreHeard /\ KilledForGood /\ BlowsAreCredited
      /\ Earns /\ UNCHANGED started /\ (Peace \/ Strikes)
  BY NextEarns DEF ScoresInv
<1>2. /\ listening' \subseteq listening
      /\ \A u \in Users : earned[u] \subseteq earned'[u]
  BY <1>1, Earning DEF ScoresInv
<1>3. CASE Peace
  <2>1. UNCHANGED <<bossScore, bossDamageDealt, struck, criticals, killer, started>>
    BY <1>1, <1>3 DEF Peace, blowHistory
  <2>2. \A u \in Users : Worth(u)' = Worth(u)
    BY <2>1 DEF Worth
  <2>3. \A u \in Users :
          /\ HasAchievement(u, "boss_kill_shot")' <=> HasAchievement(u, "boss_kill_shot")
          /\ HasAchievement(u, "boss_damage_ten") => HasAchievement(u, "boss_damage_ten")'
    BY <1>2, <1>3 DEF Peace, HasAchievement
  <2> HIDE DEF Worth, HasAchievement
  <2> QED
    BY <1>1, <2>1, <2>2, <2>3 DEF BlowsAreCredited
<1>4. CASE Strikes
  <2>1. PICK u \in Users, d \in Nat, crit \in BOOLEAN, more \in SUBSET {"first_to_boss"} :
          more \cap earned[u] = {} /\ Blow(u, d, crit, more)
    BY <1>4 DEF Strikes
  <2> DEFINE counted == <<u, "boss_damage_ten">> \in listening
             shot    == KillShot(u, d)
             kills   == bossLeft > 0 /\ bossLeft <= d
             points  == (IF shot THEN 15 ELSE 0)
                        + (IF counted THEN d + CritBonus(crit) ELSE 0)
             damage  == IF counted THEN d ELSE 0
             crits   == IF crit THEN 1 ELSE 0
  <2>2. /\ points \in Nat /\ damage \in Nat /\ crits \in Nat
        /\ bossScore' = Raise(bossScore, u, points)
        /\ bossDamageDealt' = Raise(bossDamageDealt, u, damage)
        /\ criticals' = Raise(criticals, u, crits)
        /\ struck' = Raise(struck, u, d)
        /\ killer' = IF kills THEN u ELSE killer
    BY <1>1, <2>1, BlowFacts
  <2>3. /\ HasAchievement(u, "boss_kill_shot")' <=>
             HasAchievement(u, "boss_kill_shot") \/ shot
        /\ \A v \in Users \ {u} : earned'[v] = earned[v]
    BY <1>1, <2>1, BlowEarns
  <2>4. kills => killer = Nobody
    <3>1. bossLeft \in Nat
      BY <1>1 DEF ScoresTypeOK
    <3> QED
      BY <1>1, <3>1 DEF KilledForGood
  \* Of those who were there from the start it is foreseen.
  <2>5. shot <=> kills /\ u \in started
    <3>1. kills => \A v \in Users : ~HasAchievement(v, "boss_kill_shot")
      BY <1>1, <2>4, PlayersAssumption DEF BlowsAreCredited
    <3>2. "boss_kill_shot" \in EventBusAchievementTypes
      BY DEF EventBusAchievementTypes
    <3>3. kills /\ u \in started => Watches(u, "boss_kill_shot")
      BY <1>1, <3>1, <3>2 DEF UnearnedAreHeard, Watches
    <3>4. Watches(u, "boss_kill_shot") => u \in started
      BY <1>1 DEF Watches, ScoresTypeOK
    <3> QED
      BY <3>3, <3>4 DEF KillShot
  <2>6. /\ bossScore[u] \in Nat /\ struck[u] \in Nat /\ criticals[u] \in Nat
        /\ bossDamageDealt[u] \in Nat
    BY <1>1 DEF ScoresTypeOK, Counters
  <2>7. /\ bossScore'[u] = bossScore[u] + points
        /\ bossDamageDealt'[u] = bossDamageDealt[u] + damage
        /\ struck'[u] = struck[u] + d
        /\ criticals'[u] = criticals[u] + crits
        /\ \A v \in Users \ {u} : /\ bossScore'[v] = bossScore[v]
                                  /\ bossDamageDealt'[v] = bossDamageDealt[v]
                                  /\ struck'[v] = struck[v]
                                  /\ criticals'[v] = criticals[v]
    <3>1. /\ bossScore \in Counters /\ bossDamageDealt \in Counters
          /\ struck \in Counters /\ criticals \in Counters
      BY <1>1 DEF ScoresTypeOK
    <3> HIDE DEF points, damage, crits
    <3>2. /\ bossScore'[u] = bossScore[u] + points
          /\ \A v \in Users \ {u} : bossScore'[v] = bossScore[v]
      BY <2>2, <3>1, RaiseFacts, ZenonT(40)
    <3>3. /\ bossDamageDealt'[u] = bossDamageDealt[u] + damage
          /\ \A v \in Users \ {u} : bossDamageDealt'[v] = bossDamageDealt[v]
      BY <2>2, <3>1, RaiseFacts, ZenonT(40)
    <3>4. /\ struck'[u] = struck[u] + d
          /\ \A v \in Users \ {u} : struck'[v] = struck[v]
      BY <2>2, <3>1, RaiseFacts, ZenonT(40)
    <3>5. /\ criticals'[u] = criticals[u] + crits
          /\ \A v \in Users \ {u} : criticals'[v] = criticals[v]
      BY <2>2, <3>1, RaiseFacts, ZenonT(40)
    <3> QED
      BY <3>2, <3>3, <3>4, <3>5
  \* What the blow is worth, and to whom.
  <2>8. Worth(u)' = Worth(u) + d + 2 * crits + (IF kills THEN 15 ELSE 0)
    <3>1. Worth(u)' = struck[u] + d + 2 * (criticals[u] + crits)
                      + (IF kills \/ killer = u THEN 15 ELSE 0)
      BY <2>2, <2>7 DEF Worth
    <3>2. kills => killer # u
      BY <2>4, PlayersAssumption
    <3> HIDE DEF kills, crits
    <3> QED
      BY <2>2, <2>6, <3>1, <3>2 DEF Worth
  <2>9. \A v \in Users \ {u} : Worth(v)' = Worth(v)
    BY <2>2, <2>4, <2>7, PlayersAssumption DEF Worth
  <2>10. /\ points <= d + 2 * crits + (IF kills THEN 15 ELSE 0)
         /\ u \in started /\ counted =>
              points = d + 2 * crits + (IF kills THEN 15 ELSE 0) /\ damage = d
    BY <2>5 DEF CritBonus
  <2>11. u \in started /\ (\A v \in Users : ~HasAchievement(v, "boss_damage_ten")) => counted
    BY <1>1 DEF UnearnedAreHeard, EventBusAchievementTypes
  <2>12. \A v \in Users :
           HasAchievement(v, "boss_damage_ten") => HasAchievement(v, "boss_damage_ten")'
    BY <1>2 DEF HasAchievement
  <2>13. Worth(u) \in Nat
    BY <2>6 DEF Worth
  <2>14. HasAchievement(u, "boss_kill_shot")' <=> killer' = u /\ u \in started'
    BY <1>1, <2>2, <2>3, <2>5 DEF BlowsAreCredited
  <2>15. \A v \in Users \ {u} :
           HasAchievement(v, "boss_kill_shot")' <=> killer' = v /\ v \in started'
    BY <1>1, <2>2, <2>3, <2>4, PlayersAssumption DEF BlowsAreCredited, HasAchievement
  <2>16. bossScore'[u] <= Worth(u)'
    <3>1. bossScore[u] <= Worth(u)
      BY <1>1 DEF BlowsAreCredited
    <3> HIDE DEF points, crits, kills
    <3> QED
      BY <2>2, <2>6, <2>7, <2>8, <2>10, <2>13, <3>1
  <2>17. u \in started' /\ (\A v \in Users : ~HasAchievement(v, "boss_damage_ten")') =>
           bossScore'[u] = Worth(u)' /\ bossDamageDealt'[u] = struck'[u]
    <3>1. SUFFICES ASSUME u \in started, \A v \in Users : ~HasAchievement(v, "boss_damage_ten")
                   PROVE  bossScore'[u] = Worth(u)' /\ bossDamageDealt'[u] = struck'[u]
      BY <1>1, <2>12
    <3>2. bossScore[u] = Worth(u) /\ bossDamageDealt[u] = struck[u]
      BY <1>1, <3>1 DEF BlowsAreCredited
    <3>3. points = d + 2 * crits + (IF kills THEN 15 ELSE 0) /\ damage = d
      BY <2>10, <2>11, <3>1
    <3> HIDE DEF points, damage, crits, kills
    <3> QED
      BY <2>2, <2>6, <2>7, <2>8, <2>13, <3>2, <3>3
  <2>18. ASSUME NEW v \in Users \ {u}
         PROVE  /\ bossScore'[v] <= Worth(v)'
                /\ v \in started' /\ (\A w \in Users : ~HasAchievement(w, "boss_damage_ten")') =>
                     bossScore'[v] = Worth(v)' /\ bossDamageDealt'[v] = struck'[v]
    BY <1>1, <2>7, <2>9, <2>12 DEF BlowsAreCredited
  <2> QED
    BY <2>14, <2>15, <2>16, <2>17, <2>18 DEF BlowsAreCredited
<1> QED
  BY <1>1, <1>3, <1>4

-----------------------------------------------------------------------------
(* Items *)

LEMMA ItemsCredited ==
  ASSUME ScoresInv, [Next]_vars
  PROVE  ItemsAreCredited'
<1>1. /\ ScoresTypeOK /\ UnearnedAreHeard /\ ItemsAreCredited /\ UNCHANGED started
  BY NextEarns DEF ScoresInv
<1>2. \A u \in Users : earned[u] \subseteq earned'[u]
  BY <1>1, NextEarns, Earning DEF ScoresInv
<1>3. \A v \in Users :
        HasAchievement(v, "item_collector") => HasAchievement(v, "item_collector")'
  BY <1>2 DEF HasAchievement
<1>4. \A v \in Users : /\ itemScore[v] \in Nat /\ gained[v] \in Nat
                       /\ used[v] \in Nat /\ upgrades[v] \in Nat
  BY <1>1 DEF ScoresTypeOK, Counters
\* n more points, for g items given, w used and up upgrades
<1> DEFINE Changes(u, n, g, w, up) ==
      /\ itemScore' = Raise(itemScore, u, n) /\ gained' = Raise(gained, u, g)
      /\ used' = Raise(used, u, w) /\ upgrades' = Raise(upgrades, u, up)
<1>5. ASSUME NEW u \in Users, NEW n \in Nat, NEW g \in Nat, NEW w \in Nat, NEW up \in Nat,
             Changes(u, n, g, w, up),
             n >= 2 * w + 5 * up, n <= 3 * g + 7 * w,
             u \in started /\ (\A v \in Users : ~HasAchievement(v, "item_collector")) =>
               n >= 2 * w + 5 * up + 3 * g
      PROVE  ItemsAreCredited'
  <2>1. /\ itemScore'[u] = itemScore[u] + n /\ gained'[u] = gained[u] + g
        /\ used'[u] = used[u] + w /\ upgrades'[u] = upgrades[u] + up
        /\ \A v \in Users \ {u} :
             /\ itemScore'[v] = itemScore[v] /\ gained'[v] = gained[v]
             /\ used'[v] = used[v] /\ upgrades'[v] = upgrades[v]
    <3>1. /\ itemScore \in Counters /\ gained \in Counters
          /\ used \in Counters /\ upgrades \in Counters
      BY <1>1 DEF ScoresTypeOK
    <3>2. /\ itemScore'[u] = itemScore[u] + n
          /\ \A v \in Users \ {u} : itemScore'[v] = itemScore[v]
      BY <1>5, <3>1, RaiseFacts, ZenonT(40)
    <3>3. gained'[u] = gained[u] + g /\ \A v \in Users \ {u} : gained'[v] = gained[v]
      BY <1>5, <3>1, RaiseFacts, ZenonT(40)
    <3>4. used'[u] = used[u] + w /\ \A v \in Users \ {u} : used'[v] = used[v]
      BY <1>5, <3>1, RaiseFacts, ZenonT(40)
    <3>5. upgrades'[u] = upgrades[u] + up /\ \A v \in Users \ {u} : upgrades'[v] = upgrades[v]
      BY <1>5, <3>1, RaiseFacts
    <3> QED
      BY <3>2, <3>3, <3>4, <3>5
  <2>2. /\ itemScore'[u] >= 2 * used'[u] + 5 * upgrades'[u]
        /\ itemScore'[u] <= 3 * gained'[u] + 7 * used'[u]
    <3>1. /\ itemScore[u] >= 2 * used[u] + 5 * upgrades[u]
          /\ itemScore[u] <= 3 * gained[u] + 7 * used[u]
      BY <1>1 DEF ItemsAreCredited
    <3> QED
      BY <1>4, <1>5, <2>1, <3>1
  <2>3. u \in started' /\ (\A v \in Users : ~HasAchievement(v, "item_collector")') =>
          itemScore'[u] >= 2 * used'[u] + 5 * upgrades'[u] + 3 * gained'[u]
    <3>1. SUFFICES ASSUME u \in started, \A v \in Users : ~HasAchievement(v, "item_collector")
                   PROVE  itemScore'[u] >= 2 * used'[u] + 5 * upgrades'[u] + 3 * gained'[u]
      BY <1>1, <1>3
    <3>2. itemScore[u] >= 2 * used[u] + 5 * upgrades[u] + 3 * gained[u]
      BY <1>1, <3>1 DEF ItemsAreCredited
    <3> QED
      BY <1>4, <1>5, <2>1, <3>1, <3>2
  <2>4. ASSUME NEW v \in Users \ {u}
        PROVE  /\ itemScore'[v] >= 2 * used'[v] + 5 * upgrades'[v]
               /\ itemScore'[v] <= 3 * gained'[v] + 7 * used'[v]
               /\ v \in started' /\ (\A w2 \in Users : ~HasAchievement(w2, "item_collector")') =>
                    itemScore'[v] >= 2 * used'[v] + 5 * upgrades'[v] + 3 * gained'[v]
    BY <1>1, <1>3, <2>1 DEF ItemsAreCredited
  <2> QED
    BY <2>2, <2>3, <2>4 DEF ItemsAreCredited
<1>6. ASSUME NEW u \in Users, AddItem(u)
      PROVE  ItemsAreCredited'
  <2> DEFINE n == IF <<u, "item_collector">> \in listening THEN 3 ELSE 0
  <2>1. itemScore' = Raise(itemScore, u, n)
    <3>1. itemScore = Raise(itemScore, u, 0)
      BY <1>1, RaiseByNothing DEF ScoresTypeOK
    <3> QED
      BY <1>6, <3>1 DEF AddItem
  <2>2. used = Raise(used, u, 0) /\ upgrades = Raise(upgrades, u, 0)
    BY <1>1, RaiseByNothing DEF ScoresTypeOK
  <2>3. Changes(u, n, 1, 0, 0)
    BY <1>6, <2>1, <2>2 DEF AddItem
  <2>4. u \in started /\ (\A v \in Users : ~HasAchievement(v, "item_collector")) => n = 3
    BY <1>1 DEF UnearnedAreHeard, EventBusAchievementTypes
  <2>5. n \in {0, 3}
    OBVIOUS
  <2> HIDE DEF n
  <2> QED
    BY <1>5, <2>3, <2>4, <2>5
<1>7. ASSUME NEW u \in Users, NEW upgrading \in BOOLEAN, UseItem(u, upgrading)
      PROVE  ItemsAreCredited'
  <2> DEFINE n  == IF upgrading \/ diceUpgrade = u THEN 7 ELSE 2
             up == IF upgrading THEN 1 ELSE 0
  <2>1. upgrades' = Raise(upgrades, u, up)
    <3>1. upgrades = Raise(upgrades, u, 0)
      BY <1>1, RaiseByNothing DEF ScoresTypeOK
    <3> QED
      BY <1>7, <3>1 DEF UseItem
  <2>2. gained = Raise(gained, u, 0)
    BY <1>1, RaiseByNothing DEF ScoresTypeOK
  <2>3. Changes(u, n, 0, 1, up)
    BY <1>7, <2>1, <2>2 DEF UseItem
  <2>4. n \in Nat /\ up \in Nat /\ n >= 2 + 5 * up /\ n <= 7
    OBVIOUS
  <2> HIDE DEF n, up
  <2> QED
    BY <1>5, <2>3, <2>4
<1>8. CASE UNCHANGED <<itemScore, gained, used, upgrades>>
  BY <1>1, <1>3, <1>8 DEF ItemsAreCredited
<1>9. ASSUME Strikes
      PROVE  UNCHANGED <<itemScore, gained, used, upgrades>>
  BY <1>9 DEF Strikes, Blow, itemHistory
<1>10. \/ \E u \in Users : AddItem(u)
       \/ \E u \in Users, upgrading \in BOOLEAN : UseItem(u, upgrading)
       \/ UNCHANGED <<itemScore, gained, used, upgrades>>
  BY <1>9, BattleStrikes, AmplifyStrikes
  DEF Next, Ended, MatchStop, vars, MiniGame, RollDice, LoseItem, Die, HurtBoss, BossRests,
      Happens, BlockedBattle, GameOver, scoreVars, itemHistory
<1> QED
  BY <1>6, <1>7, <1>8, <1>10

-----------------------------------------------------------------------------
(* Rolls *)

\* What the two handlers leave of a user's results.
LEMMA RecordedFacts ==
  ASSUME NEW u \in Users, NEW k, NEW r \in Seq(Nat), Len(r) <= 3, NEW n \in Nat
  PROVE  /\ Recorded(u, k, r, n) \in Seq(Nat)
         /\ Len(Recorded(u, k, r, n)) <= 3
         /\ Watches(u, k) => /\ Recorded(u, k, r, n) = Pushed(r, n)
                             /\ Recorded(u, k, r, n) # <<>>
                             /\ Recorded(u, k, r, n)[Len(Recorded(u, k, r, n))] = n
         /\ ~Watches(u, k) => Recorded(u, k, r, n) = r
<1>1. CASE Watches(u, k)
  <2>1. /\ Pushed(r, n) \in Seq(Nat) /\ Len(Pushed(r, n)) \in 1 .. 3
        /\ Pushed(r, n)[Len(Pushed(r, n))] = n
    BY PushedFacts
  <2>2. Len(<<>>) = 0
    OBVIOUS
  <2>3. Recorded(u, k, r, n) = Pushed(r, n)
    BY <1>1 DEF Recorded
  <2>4. Pushed(r, n) # <<>>
    <3>1. ASSUME Pushed(r, n) = <<>>
          PROVE  FALSE
      <4>1. Len(Pushed(r, n)) = 0
        BY <2>2, <3>1
      <4> QED
        BY <2>1, <4>1
    <3> QED
      BY <3>1
  <2> QED
    BY <1>1, <2>1, <2>3, <2>4
<1>2. CASE ~Watches(u, k)
  BY <1>2 DEF Recorded
<1> QED
  BY <1>1, <1>2

LEMMA RollsRecorded ==
  ASSUME ScoresInv, [Next]_vars
  PROVE  RollsAreRecorded'
<1>1. ScoresTypeOK /\ RollsAreRecorded
  BY DEF ScoresInv
<1>2. \A u \in Users : \A k : Watches(u, k)' => Watches(u, k)
  BY NextEarns, Earning, WatchesFade DEF ScoresInv
<1>3. ASSUME NEW u \in Users, NEW n \in Faces, RollDice(u, n)
      PROVE  RollsAreRecorded'
  <2> DEFINE res   == lastDiceResults[u]
             ones  == Recorded(u, "triple_one", res, n)
             sixes == Recorded(u, "triple_six", ones, n)
  <2>1. res \in Seq(Nat) /\ Len(res) <= 3 /\ n \in Nat
    BY <1>1, DiceAssumption DEF ScoresTypeOK, RollsAreRecorded
  <2>2. /\ lastDiceResults'[u] = sixes /\ lastRoll'[u] = n
        /\ \A v \in Users \ {u} : lastDiceResults'[v] = lastDiceResults[v] /\ lastRoll'[v] = lastRoll[v]
    BY <1>1, <1>3 DEF RollDice, ScoresTypeOK, Counters
  <2> HIDE DEF res
  <2>3. /\ ones \in Seq(Nat) /\ Len(ones) <= 3
        /\ Watches(u, "triple_one") => ones[Len(ones)] = n
    BY <2>1, RecordedFacts
  <2> HIDE DEF ones
  <2>4. /\ Len(sixes) <= 3
        /\ Watches(u, "triple_six") => sixes[Len(sixes)] = n
        /\ ~Watches(u, "triple_six") => sixes = ones
    BY <2>1, <2>3, RecordedFacts
  <2> HIDE DEF sixes
  <2>5. Watches(u, "triple_one") \/ Watches(u, "triple_six") => sixes[Len(sixes)] = n
    BY <2>3, <2>4
  <2>6. /\ Len(lastDiceResults'[u]) <= 3
        /\ Watches(u, "triple_one")' \/ Watches(u, "triple_six")' =>
             lastDiceResults'[u][Len(lastDiceResults'[u])] = lastRoll'[u]
    BY <1>2, <2>2, <2>4, <2>5
  <2> QED
    BY <1>1, <1>2, <2>2, <2>6 DEF RollsAreRecorded
<1>4. CASE UNCHANGED <<lastDiceResults, lastRoll>>
  BY <1>1, <1>2, <1>4 DEF RollsAreRecorded
<1>5. ASSUME Strikes
      PROVE  UNCHANGED <<lastDiceResults, lastRoll>>
  BY <1>5 DEF Strikes, Blow
<1>6. \/ \E u \in Users, n \in Faces : RollDice(u, n)
      \/ UNCHANGED <<lastDiceResults, lastRoll>>
  BY <1>5, BattleStrikes, AmplifyStrikes
  DEF Next, Ended, MatchStop, vars, MiniGame, AddItem, UseItem, LoseItem, Die, HurtBoss,
      BossRests, Happens, BlockedBattle, GameOver
<1> QED
  BY <1>3, <1>4, <1>6

\* A handler finds three of a kind only if the roll before showed it too.
LEMMA RollsMakeRuns ==
  ASSUME ScoresTypeOK, RollsAreRecorded, NEW u \in Users, NEW n \in Faces, RollDice(u, n),
         NEW k \in {"triple_one", "triple_six"}, k \notin earned[u], k \in earned'[u]
  PROVE  LET m == IF k = "triple_one" THEN 1 ELSE 6 IN lastRoll[u] = m /\ lastRoll'[u] = m
<1> DEFINE res   == lastDiceResults[u]
           ones  == Recorded(u, "triple_one", res, n)
           sixes == Recorded(u, "triple_six", ones, n)
           kinds == {j \in {"triple_one", "triple_six"} :
                       /\ Watches(u, j)
                       /\ j = "triple_one" => ones = Thrice(1)
                       /\ j = "triple_six" => sixes = Thrice(6)}
<1>1. /\ res \in Seq(Nat) /\ Len(res) <= 3 /\ n \in Nat
      /\ Watches(u, "triple_one") \/ Watches(u, "triple_six") =>
           res = <<>> \/ res[Len(res)] = lastRoll[u]
  BY DiceAssumption DEF ScoresTypeOK, RollsAreRecorded
<1>2. Grant(Only(u, kinds)) /\ lastRoll'[u] = n
  BY DEF RollDice, ScoresTypeOK, Counters
<1>3. k \in kinds
  <2> HIDE DEF kinds
  <2>1. earned'[u] = earned[u] \cup kinds
    BY <1>2 DEF Grant, Only
  <2> QED
    BY <2>1
<1>4. CASE k = "triple_one"
  <2>1. Watches(u, "triple_one") /\ ones = Thrice(1)
    BY <1>3, <1>4
  <2>2. Pushed(res, n) = Thrice(1)
    BY <2>1 DEF Recorded
  <2> HIDE DEF res
  <2>3. n = 1 /\ Len(res) >= 2 /\ res[Len(res)] = 1
    BY <1>1, <2>2, ThriceFacts
  <2>4. res # <<>>
    BY <2>3
  <2> QED
    BY <1>1, <1>2, <1>4, <2>1, <2>3, <2>4
<1>5. CASE k = "triple_six"
  <2>1. Watches(u, "triple_six") /\ sixes = Thrice(6)
    BY <1>3, <1>5
  <2>2. Pushed(ones, n) = Thrice(6)
    BY <2>1 DEF Recorded
  <2> HIDE DEF res
  <2>3. ones \in Seq(Nat) /\ Len(ones) <= 3
    BY <1>1, RecordedFacts
  <2>4. /\ Watches(u, "triple_one") => ones = Pushed(res, n)
        /\ ~Watches(u, "triple_one") => ones = res
    BY <1>1, RecordedFacts
  <2> HIDE DEF ones
  <2>5. n = 6 /\ Len(ones) >= 2 /\ ones[Len(ones)] = 6 /\ ones[Len(ones) - 1] = 6
    BY <1>1, <2>2, <2>3, ThriceFacts
  <2>6. res # <<>> /\ res[Len(res)] = 6
    BY <1>1, <2>4, <2>5, PushedFacts
  <2> QED
    BY <1>1, <1>2, <1>5, <2>1, <2>5, <2>6
<1> QED
  BY <1>4, <1>5

-----------------------------------------------------------------------------
(* Theorems *)

LEMMA Initially == Init => ScoresInv
<1> SUFFICES ASSUME Init
             PROVE  ScoresInv
  OBVIOUS
<1>1. ScoresTypeOK
  BY LimitAssumption DEF Init, ScoresTypeOK, Counters, Zero
<1>2. UnearnedAreHeard /\ KilledForGood
  BY DEF Init, UnearnedAreHeard, KilledForGood
<1>3. RollsAreRecorded
  BY DEF Init, RollsAreRecorded
<1>4. AchievementsPaid
  BY NothingForNothing DEF Init, AchievementsPaid, Zero
<1>5. BlowsAreCredited
  BY PlayersAssumption DEF Init, BlowsAreCredited, Worth, HasAchievement, Zero
<1>6. ItemsAreCredited
  BY DEF Init, ItemsAreCredited, Zero
<1> QED
  BY <1>1, <1>2, <1>3, <1>4, <1>5, <1>6 DEF ScoresInv

LEMMA Invariance == ScoresInv /\ [Next]_vars => ScoresInv'
<1> SUFFICES ASSUME ScoresInv, [Next]_vars
             PROVE  ScoresInv'
  OBVIOUS
<1>1. ScoresTypeOK'
  BY TypesKept DEF ScoresInv
<1>2. UnearnedAreHeard' /\ AchievementsPaid'
  BY NextEarns, Earning DEF ScoresInv
<1>3. KilledForGood'
  BY KilledOnce DEF ScoresInv
<1>4. RollsAreRecorded' /\ BlowsAreCredited' /\ ItemsAreCredited'
  BY <1>1, RollsRecorded, BlowsCredited, ItemsCredited
<1> QED
  BY <1>1, <1>2, <1>3, <1>4 DEF ScoresInv

\* The invariant holds throughout a match.
THEOREM ScoresInvariant == Spec => []ScoresInv
BY Initially, Invariance, PTL DEF Spec

\* The achievements' score that GameOver settles is what the achievements it
\* lists are worth, in every match.
THEOREM PaidOnce == Spec => []AchievementsPaid
<1>1. ScoresInv => AchievementsPaid
  BY DEF ScoresInv
<1> QED
  BY <1>1, ScoresInvariant, PTL

\* Blows and items earn what they are worth until the achievement for them
\* silences their handler, and never more; the kill shot is its striker's.
THEOREM DeedsCredited == Spec => []DeedsAreCredited
<1>1. ScoresInv => DeedsAreCredited
  BY DEF ScoresInv, DeedsAreCredited
<1> QED
  BY <1>1, ScoresInvariant, PTL

\* Two rolls make three of a kind, at least, though one that both handlers
\* record counts twice.
THEOREM TriplesTakeTwo == Spec => TriplesAreRuns
<1> DEFINE New(u, k) == HasAchievement(u, k)' /\ ~HasAchievement(u, k)
           Runs == \A u \in Users :
             /\ New(u, "triple_one") => lastRoll[u] = 1 /\ lastRoll'[u] = 1
             /\ New(u, "triple_six") => lastRoll[u] = 6 /\ lastRoll'[u] = 6
<1>1. ASSUME ScoresInv, [Next]_vars
      PROVE  [Runs]_vars
  <2>1. ScoresTypeOK /\ RollsAreRecorded
    BY <1>1 DEF ScoresInv
  <2>2. ASSUME NEW u \in Users, NEW n \in Faces, RollDice(u, n)
        PROVE  Runs
    <3>1. \A v \in Users \ {u} : earned'[v] = earned[v]
      BY <2>2 DEF RollDice, Grant, Only, ScoresTypeOK
    <3>2. \A k \in {"triple_one", "triple_six"} : New(u, k) =>
            LET m == IF k = "triple_one" THEN 1 ELSE 6 IN lastRoll[u] = m /\ lastRoll'[u] = m
      BY <2>1, <2>2, RollsMakeRuns DEF HasAchievement
    <3> QED
      BY <3>1, <3>2 DEF HasAchievement
  <2>3. CASE NoTriples
    BY <2>3 DEF NoTriples
  <2>4. ASSUME Strikes
        PROVE  NoTriples
    <3>1. PICK u \in Users, d \in Nat, crit \in BOOLEAN, more \in SUBSET {"first_to_boss"} :
            more \cap earned[u] = {} /\ Blow(u, d, crit, more)
      BY <2>4 DEF Strikes
    <3>2. /\ earned'[u] \subseteq
               earned[u] \cup {"first_to_boss", "boss_kill_shot", "boss_damage_ten"}
          /\ \A v \in Users \ {u} : earned'[v] = earned[v]
      BY <2>1, <3>1, BlowEarns
    <3> QED
      BY <3>2 DEF NoTriples, HasAchievement
  <2>5. CASE earned' = earned
    BY <2>5 DEF HasAchievement
  <2>6. \/ \E u \in Users, n \in Faces : RollDice(u, n)
        \/ NoTriples \/ Strikes \/ earned' = earned
    BY <1>1, <2>1, MiniGameGrants, AddItemGrants, BlockedGrants, GameOverGrants,
       BattleStrikes, AmplifyStrikes
    DEF Next, Ended, MatchStop, vars, UseItem, LoseItem, Die, HurtBoss, BossRests, Happens
  <2> QED
    BY <2>2, <2>3, <2>4, <2>5, <2>6
<1> QED
  BY <1>1, ScoresInvariant, PTL DEF Spec, TriplesAreRuns
=============================================================================
