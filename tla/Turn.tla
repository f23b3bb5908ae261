-------------------------------- MODULE Turn ---------------------------------
(***************************************************************************)
(* A turn of a match (internal/engine/hsm/turn_states.go): the states a    *)
(* turn goes through, what each does to the board and to the players, and  *)
(* the effects this sets off (Effects), which are run to the end before    *)
(* the state is left.                                                      *)
(*                                                                         *)
(* A state is entered at its step "enter" and goes on from step to step    *)
(* each time the queue is empty; its Update and Exit are its last step.    *)
(* Whose turn is next is decided by RoundFlow and left open here, also for *)
(* the Boss, who need not be the last.  Left out: SkipTurn, which nothing  *)
(* ever sets; decisions, which no handler offers; kinds of dice, scores,   *)
(* statistics.                                                             *)
(***************************************************************************)
EXTENDS Effects, Board

CONSTANTS
  Faction,     \* the faction of each user
  EventPool,   \* Game.EventPool
  SkillPool,   \* Game.BossSkillPool
  DiceFaces,   \* what a roll may show
  MaxRounds,   \* the bounds of the model: the rounds played,
  MaxUses      \* and the items used in one turn

Factions == {"QingLong", "BaiHu", "XuanWu", "ZhuQue"}

ASSUME FactionAssumption == Faction \in [Users -> Factions]
ASSUME TurnPoolAssumption ==
  EventPool \subseteq Events /\ SkillPool \subseteq Skills /\ DiceFaces \subseteq Nat
ASSUME EventCellAssumption ==
  \A c \in Cells : Course[c].type = "event" => Course[c].event \in Events

VARIABLES
  turn,     \* the turn under way: whose, in which state and step of it, KeyDiceSteps
            \* and what the state keeps (drawn, used, expiring, its targets)
  acted,    \* who has had a turn in this round
  round,
  charge,   \* core.Player: charge count, 0 or 1
  parity,   \* charge turn counter, modulo 2
  broken,   \* the fragile cells that are broken
  beaten    \* KeyBossDefeated

course == <<acted, round, charge, parity, broken, beaten>>
vars == <<engine, turn, course>>

Me == turn.who

Here(p) == player[p].pos

Resting == turn.state = "Rest"

At(state, step) == turn.state = state /\ turn.step = step /\ ~draining

Then(step) == turn' = [turn EXCEPT !.step = step]

\* Update and Exit of a state: the next one, with a fresh context.
Go(state) ==
  /\ turn' = [turn EXCEPT !.state = state, !.step = "enter"]
  /\ Clear
  /\ UNCHANGED course

Idle ==
  [who |-> Nobody, state |-> "Rest", step |-> "enter", steps |-> 0, draw |-> "none",
   drawn |-> "none", used |-> "none", uses |-> 0, expiring |-> {}, prey |-> {}]

Init ==
  /\ EngineInit([p \in All |-> IF p = Boss THEN Length - 1 ELSE 0],
                {u \in Users : Faction[u] = "ZhuQue"})
  /\ turn = Idle
  /\ acted = {} /\ round = 1
  /\ charge = [u \in Users |-> 0] /\ parity = [u \in Users |-> 0]
  /\ broken = {} /\ beaten = FALSE

------------------------------------------------------------------------------
\* Whose turn.

Over == Resting /\ (beaten \/ round > MaxRounds)

Begin(p) ==
  /\ Resting /\ ~Over
  /\ p \notin acted
  /\ turn' = [Idle EXCEPT !.who = p, !.state = "Upkeep"]
  /\ UNCHANGED <<engine, course>>

Finished == Over /\ UNCHANGED vars

------------------------------------------------------------------------------
\* TurnUpkeepState.

\* Every third turn the fire of ZhuQue brings luck.
Kindled(p) == Has(p, "fire") /\ buffs[p]["fire"].beat + 1 >= 3

Rekindled(p, held) ==
  [k \in DOMAIN held |->
     IF k = "fire" THEN [held[k] EXCEPT !.beat = IF Kindled(p) THEN 0 ELSE @ + 1]
     ELSE held[k]]

\* PhaseBeforeTurn, all buffs of the player having become tick-eligible.
Upkeep ==
  /\ At("Upkeep", "enter") /\ Me \in Users
  /\ buffs' = [buffs EXCEPT ![Me] = Rekindled(Me, Ripen(@, Buffs))]
  /\ Push(IF Kindled(Me) THEN <<ModifyLP(Me, 1)>> ELSE <<>>)
  /\ Then(IF Has(Me, "poison") THEN "poisoned" ELSE "done")
  /\ UNCHANGED course

\* DrawFromBad falls back to the whole pool when it has no bad event.
BadDraws ==
  IF EventPool \cap BadEvents # {} THEN EventPool \cap BadEvents ELSE EventPool

\* The effect of an event follows the drawing of it.
Drawn(e) == turn' = [turn EXCEPT !.step = "suffer", !.drawn = e]

\* DrawEventAction from a pool: no event where the draw is intercepted.
DrawEvent(pool) ==
  /\ Top(Act("DrawEvent", Me, 0, "none"))
  /\ \/ Stopped(Act("DrawEvent", Me, 0, "none")) /\ Then("done")
     \/ /\ ~Stopped(Act("DrawEvent", Me, 0, "none"))
        /\ \E e \in pool : Drawn(e)

PoisonDraw == At("Upkeep", "poisoned") /\ DrawEvent(BadDraws) /\ UNCHANGED course

\* runEventEffect.
SufferEvent ==
  /\ turn.step = "suffer" /\ ~draining
  /\ \E next \in EventEffects(turn.drawn, Me) : Push(next)
  /\ Then("done")
  /\ UNCHANGED <<buffs, course>>

LeaveUpkeep ==
  \/ At("Upkeep", "enter") /\ Me = Boss /\ Go("BossBattle")
  \/ At("Upkeep", "done") /\ Go("Main")

------------------------------------------------------------------------------
\* MainActionState.

\* OnUseItem, for the items whose handler succeeds.
UseItem(i, t) ==
  /\ At("Main", "enter") /\ turn.uses < MaxUses
  /\ Contains(player[Me].bag, i)
  /\ t = Nobody => i \notin NeedsTarget
  /\ Push(ItemEffect(i, Me, t))
  /\ turn' = [turn EXCEPT !.step = "consume", !.used = i, !.uses = @ + 1]
  /\ UNCHANGED <<buffs, course>>

Consume ==
  /\ At("Main", "consume")
  /\ Top(Act("RemoveItem", Me, 0, turn.used))
  /\ turn' = [turn EXCEPT !.step = "enter", !.used = "none"]
  /\ UNCHANGED course

\* OnUseSkill: the charge is gone whether or not the buff is let through.
UseSkill(t) ==
  /\ At("Main", "enter")
  /\ charge[Me] > 0 /\ Faction[Me] # "ZhuQue"
  /\ Faction[Me] # "BaiHu" => t = Me
  /\ Top(AddBuff(t, CASE Faction[Me] = "QingLong" -> "dominance"
                      [] Faction[Me] = "BaiHu" -> "rob_luck"
                      [] Faction[Me] = "XuanWu" -> "suppress"))
  /\ charge' = [charge EXCEPT ![Me] = 0] /\ parity' = [parity EXCEPT ![Me] = 0]
  /\ turn' = [turn EXCEPT !.step = IF Faction[Me] = "BaiHu" THEN "claim" ELSE @,
                          !.prey = {t}]
  /\ UNCHANGED <<acted, round, broken, beaten>>

\* The luck of BaiHu's target goes to BaiHu only once the buff is there.
Claim ==
  /\ At("Main", "claim")
  /\ buffs' = [p \in All |->
                 IF p \in turn.prey /\ Has(p, "rob_luck")
                   THEN [buffs[p] EXCEPT !["rob_luck"].peer = Me] ELSE buffs[p]]
  /\ turn' = [turn EXCEPT !.step = "enter", !.prey = {}]
  /\ UNCHANGED <<player, queue, draining, count, extended, course>>

\* OnRollDice, and the same by the time-out; the steps are those of the dice
\* even where the action is intercepted.
Roll(n) ==
  /\ At("Main", "enter")
  /\ Top(Act("RollDice", Me, 0, "none"))
  /\ turn' = [turn EXCEPT !.step = "rolled", !.steps = n, !.prey = {}]
  /\ UNCHANGED course

OnBossCell(p) == ~player[Boss].dead /\ Course[Here(p)].type = "boss"

LeaveMain ==
  /\ At("Main", "rolled")
  /\ turn' = [turn EXCEPT !.state = IF OnBossCell(Me) THEN "BossBattle" ELSE "Moving",
                          !.step = "enter", !.uses = 0]
  /\ Clear
  /\ UNCHANGED course

------------------------------------------------------------------------------
\* TurnMovingState.

\* Who is lost walks back.
Reversed(steps) == IF Has(Me, "lost") /\ steps > 0 THEN -steps ELSE steps

\* PhasePreMove.
PreMove ==
  /\ At("Moving", "enter") /\ turn.steps # 0
  /\ buffs' = [buffs EXCEPT ![Me] = Ripen(@, {"lost"})]
  /\ turn' = [turn EXCEPT !.step = "set_off", !.steps = Reversed(@)]
  /\ UNCHANGED <<player, queue, draining, count, extended, course>>

Route == CalculatePath(Here(Me), turn.steps, broken)

StopsShort == turn.steps > 0 /\ CheckpointsIn(Route.path) # {}

\* The way is cut at its first checkpoint, unless it ends in a fall.
Walk ==
  IF Route.fell \/ ~StopsShort
    THEN /\ Top(Act("Move", Me, Route.target, "none"))
         /\ Then(IF Route.fell THEN "fell" ELSE "walked")
    ELSE /\ Top(Act("Move", Me, FirstCheckpoint(Route.path), "none"))
         /\ turn' = [turn EXCEPT !.step = "checkpoint",
                                 !.steps = Route.original - FirstCheckpoint(Route.path)]

SetOff ==
  /\ At("Moving", "set_off")
  /\ Walk
  /\ broken' = broken \cup Route.breaks
  /\ UNCHANGED <<acted, round, charge, parity, beaten>>

FallDown ==
  /\ At("Moving", "fell")
  /\ Top(Act("FellDown", Me, 1, "none"))
  /\ Then("fallen")
  /\ UNCHANGED course

LeaveMoving ==
  \/ At("Moving", "enter") /\ turn.steps = 0 /\ Go("Landed")
  \/ At("Moving", "walked") /\ Go("Landed")
  \/ At("Moving", "checkpoint") /\ Go("Checkpoint")
  \/ At("Moving", "fallen") /\ Go("End")

------------------------------------------------------------------------------
\* TurnCheckpointState, TurnLandedState and TurnDrawState.

Draw(what) == Top(Act(what, Me, 0, "none")) /\ Then("done")

Treasure == At("Checkpoint", "enter") /\ Draw("DrawItem") /\ UNCHANGED course

LeaveCheckpoint == At("Checkpoint", "done") /\ Go("Moving")

\* An event cell has its own event, whose effect follows even where the drawing
\* of it is intercepted; other cells may draw in the next state.
Land ==
  /\ At("Landed", "enter")
  /\ ~player[Me].dead /\ Course[Here(Me)].type = "event"
  /\ Top(Act("DrawEvent", Me, 0, "none"))
  /\ Drawn(Course[Here(Me)].event)
  /\ UNCHANGED course

Draws(p) ==
  ~player[p].dead /\ Course[Here(p)].type \notin {"checkpoint", "boss"}
    /\ Course[Here(p)].draw # "none"

LeaveLanded ==
  \/ At("Landed", "done") /\ Go("End")
  \/ /\ At("Landed", "enter")
     /\ player[Me].dead \/ Course[Here(Me)].type # "event"
     /\ turn' = [turn EXCEPT !.state = IF Draws(Me) THEN "Draw" ELSE "End",
                             !.draw = Course[Here(Me)].draw]
     /\ Clear
     /\ UNCHANGED course

DrawSomething ==
  /\ At("Draw", "enter")
  /\ \/ turn.draw = "event" /\ DrawEvent(EventPool)
     \/ turn.draw = "item" /\ Draw("DrawItem")
     \/ turn.draw = "buff" /\ Draw("DrawBuff")
  /\ UNCHANGED course

LeaveDraw == At("Draw", "done") /\ Go("End")

------------------------------------------------------------------------------
\* TurnBossBattleState, the branch of a player.

Blow == IF turn.steps < 1 THEN 1 ELSE turn.steps

Strike(crit) ==
  /\ At("BossBattle", "enter") /\ Me \in Users
  /\ Top(BossDamage(Me, IF crit THEN 2 * Blow ELSE Blow))
  /\ Then("struck")
  /\ UNCHANGED course

Victory ==
  /\ At("BossBattle", "struck") /\ Me \in Users /\ player[Boss].dead
  /\ beaten' = TRUE
  /\ Then("done")
  /\ UNCHANGED <<engine, acted, round, charge, parity, broken>>

\* A reward, by the player's luck.
Rewards(p) ==
  (IF player[p].lp > 0 THEN {"item", "buff"} ELSE {}) \cup
  (IF player[p].lp < MaxLP THEN {"none"} ELSE {})

Reward(r) ==
  /\ At("BossBattle", "struck") /\ Me \in Users /\ ~player[Boss].dead
  /\ r \in Rewards(Me)
  /\ turn' = [turn EXCEPT !.state = IF r = "none" THEN "End" ELSE "Draw",
                          !.step = "enter", !.draw = r]
  /\ Clear
  /\ UNCHANGED course

------------------------------------------------------------------------------
\* The branch of the Boss.

\* findBossCellPlayers: the living players where the Boss is.
InReach == {u \in Users : ~player[u].dead /\ Here(u) = Here(Boss)}

MayFight == At("BossBattle", "enter") /\ Me = Boss /\ ~player[Boss].dead /\ InReach # {}

BossHits(u, n) ==
  /\ MayFight /\ u \in InReach
  /\ Top(Act("BossAttack", u, n, "none"))
  /\ turn' = [turn EXCEPT !.step = "struck", !.prey = {u}]
  /\ UNCHANGED course

BossCasts(s) ==
  /\ MayFight
  /\ Top(Act("BossSkill", Boss, 0, "none"))
  /\ turn' = [turn EXCEPT !.step = "cast", !.drawn = s, !.prey = InReach]
  /\ UNCHANGED course

SkillStrikes ==
  /\ At("BossBattle", "cast")
  /\ \E next \in SkillEffects(turn.drawn, turn.prey) : Push(next)
  /\ Then("struck")
  /\ UNCHANGED <<buffs, course>>

\* Those the Boss killed are brought back at once; their marks stay.
Slain == {u \in turn.prey : player[u].dead}

Revive(u) ==
  /\ At("BossBattle", "struck") /\ Me = Boss /\ u \in Slain
  /\ Top(Act("Respawn", u, GetLastCheckpoint(Here(u)), "none"))
  /\ UNCHANGED <<turn, course>>

LeaveBattle ==
  \/ At("BossBattle", "done") /\ Go("End")
  \/ At("BossBattle", "enter") /\ Me = Boss /\ ~MayFight /\ Go("End")
  \/ At("BossBattle", "struck") /\ Me = Boss /\ Slain = {} /\ Go("End")

------------------------------------------------------------------------------
\* TurnEndState.

Beats(held, k) == k \in DOMAIN held /\ held[k].beat + 1 >= 2

\* PhaseAfterTurn: every second turn corruption hurts and sweet rain heals.
Beaten(held) ==
  [k \in DOMAIN held |->
     IF k \notin {"corrupt", "rain"} THEN held[k]
     ELSE [held[k] EXCEPT !.ripe = TRUE, !.beat = IF Beats(held, k) THEN 0 ELSE @ + 1]]

Dues(p) ==
  (IF Beats(buffs[p], "corrupt") THEN {Damage(p, 1)} ELSE {}) \cup
  (IF Beats(buffs[p], "rain") THEN {Heal(p, 1)} ELSE {})

AfterTurn ==
  /\ At("End", "enter") /\ Me \in Users /\ ~beaten
  /\ buffs' = [buffs EXCEPT ![Me] = Beaten(@)]
  /\ \E next \in SetToSeqs(Dues(Me)) : Push(next)
  /\ Then("settle")
  /\ UNCHANGED course

\* Mutant of Unmarked: the mark is left to the countdown.
StillMarked(held) == held

\* The mark of the dead is taken off directly; then the buffs count down.
Unmarked(held) == IF Me \in Users THEN Without(held, "death_mark") ELSE held

Settle ==
  /\ At("End", IF Me = Boss THEN "enter" ELSE "settle")
  /\ buffs' = [buffs EXCEPT ![Me] = Ticked(Unmarked(@))]
  /\ turn' = [turn EXCEPT !.step = "expire", !.expiring = Expired(buffs'[Me])]
  /\ UNCHANGED <<player, queue, draining, count, extended, course>>

Expire(k) ==
  /\ At("End", "expire") /\ k \in turn.expiring
  /\ Top(RemoveBuff(Me, k))
  /\ turn' = [turn EXCEPT !.expiring = @ \ {k}]
  /\ UNCHANGED course

TurnEndRespawn ==
  /\ At("End", "expire") /\ turn.expiring = {} /\ Me \in Users /\ player[Me].dead
  /\ Top(Act("Respawn", Me, GetLastCheckpoint(Here(Me)), "none"))
  /\ UNCHANGED <<turn, course>>

\* handleFactionCharging: a charge every second turn, never more than one.
Charges(p) == p \in Users /\ Faction[p] # "ZhuQue" /\ ~beaten

\* Mutant of Settled: a turn may end with its player dead.
SettledAnyhow ==
  \/ At("End", "expire") /\ turn.expiring = {}
  \/ At("End", "enter") /\ Me \in Users /\ beaten

\* Nothing is left to do in this turn; after the Boss's defeat nothing is done.
Settled ==
  \/ At("End", "expire") /\ turn.expiring = {} /\ (Me = Boss \/ ~player[Me].dead)
  \/ At("End", "enter") /\ Me \in Users /\ beaten

\* Who has had a turn in this round when this one is over.
HaveActed == acted \cup {Me}

\* A round lasts until everybody has had a turn.
Rest ==
  /\ Settled
  /\ IF Charges(Me)
       THEN /\ parity' = [parity EXCEPT ![Me] = 1 - @]
            /\ charge' = [charge EXCEPT ![Me] = IF parity[Me] = 1 THEN 1 ELSE @]
       ELSE UNCHANGED <<charge, parity>>
  /\ turn' = Idle
  /\ Clear
  /\ acted' = IF HaveActed = All THEN {} ELSE HaveActed
  /\ round' = IF HaveActed = All THEN round + 1 ELSE round
  /\ UNCHANGED <<broken, beaten>>

------------------------------------------------------------------------------
Drain == DrainOne /\ UNCHANGED <<turn, course>>

Decide ==
  \/ \E i \in Items, t \in All \cup {Nobody} : UseItem(i, t)
  \/ \E t \in All : UseSkill(t)

Proceed ==
  \/ \E p \in All : Begin(p)
  \/ Drain \/ Upkeep \/ PoisonDraw \/ SufferEvent \/ LeaveUpkeep
  \/ Consume \/ Claim \/ (\E n \in DiceFaces : Roll(n)) \/ LeaveMain
  \/ PreMove \/ SetOff \/ FallDown \/ LeaveMoving
  \/ Treasure \/ LeaveCheckpoint \/ Land \/ LeaveLanded \/ DrawSomething \/ LeaveDraw
  \/ (\E crit \in BOOLEAN : Strike(crit)) \/ Victory
  \/ (\E r \in DrawTypes : Reward(r))
  \/ (\E u \in Users, n \in {1, 2} : BossHits(u, n))
  \/ (\E s \in SkillPool : BossCasts(s)) \/ SkillStrikes
  \/ (\E u \in Users : Revive(u)) \/ LeaveBattle
  \/ AfterTurn \/ Settle \/ (\E k \in Buffs : Expire(k)) \/ TurnEndRespawn \/ Rest

Next == Proceed \/ Decide \/ Finished

\* The engine runs by itself and the time-out rolls for who does nothing; nobody
\* has to use an item or a skill.
Fairness == WF_vars(Proceed)

Spec == Init /\ [][Next]_vars /\ Fairness

------------------------------------------------------------------------------
\* Properties.

\* Every variable stays in its type: hit points, luck and positions within their
\* bounds for players and Boss alike, buffs and bags of known kinds.
TurnTypeOK ==
  /\ \A p \in All :
       /\ player[p].hp \in 0 .. MaxHPOf(p) /\ player[p].lp \in 0 .. MaxLP
       /\ player[p].pos \in Cells /\ ToSet(player[p].bag) \subseteq Items
       /\ DOMAIN buffs[p] \subseteq Buffs
       /\ \A k \in DOMAIN buffs[p] : buffs[p][k].peer \in All \cup {Nobody}
  /\ \A i \in DOMAIN queue : queue[i].src \in Sources /\ queue[i].to \in All
  /\ turn.who \in All \cup {Nobody} /\ turn.draw \in DrawTypes
  /\ broken \subseteq {c \in Cells : IsFragile(c)}
  /\ acted \subseteq All
  /\ \A u \in Users : charge[u] \in 0 .. 1 /\ parity[u] \in 0 .. 1

\* The chain of effects an action sets off always comes to its end: links that
\* share, luck that is robbed and effects that are doubled never feed each other
\* until ProcessQueue gives up with an error.
NeverCutOff == draining => count < QueueLimit

\* Between two turns, a player who is dead carries the mark that keeps every
\* action off the dead, whoever's turn it died in.
DeadAreMarked ==
  Resting => \A u \in Users : player[u].dead => Has(u, "death_mark")

\* Between two turns no player keeps a buff whose time is over, though buffs run
\* out in turns in which their removal could be intercepted.
ExpiredBuffsGo == Resting => \A u \in Users : Expired(buffs[u]) = {}

\* Nobody stands on a fragile cell that still holds: walking, falling, changing
\* places and any_door all come to cells that were broken by whoever was there.
StandingOnBroken ==
  Resting => \A u \in Users : IsFragile(Here(u)) => Here(u) \in broken

\* A walk never passes a checkpoint by: it stops there for the treasure, even
\* when the way was shortened by a hole or continued from another checkpoint.  And
\* it gives a treasure only where it has just come to a checkpoint, so none twice,
\* unless its player still bears the mark of a death and cannot move.
EveryCheckpointServed ==
  [][ (At("Moving", "set_off") /\ turn'.step # "fell") =>
        /\ \A c \in Here(Me) + 1 .. player'[Me].pos - 1 : ~IsCheckpoint(c)
        /\ (player'[Me].pos > Here(Me) /\ IsCheckpoint(player'[Me].pos))
             => turn'.step = "checkpoint"
        /\ (turn'.step = "checkpoint" /\ ~Has(Me, "death_mark"))
             => player'[Me].pos > Here(Me) /\ IsCheckpoint(player'[Me].pos) ]_vars

Revived(u) == player[u].dead /\ ~player'[u].dead

\* From its death until it is brought back, nothing happens to a player who bears
\* the mark: it neither moves, gains, loses nor receives a buff.
TheDeadAreLeftAlone ==
  [][ \A u \in Users :
        (player[u].dead /\ Has(u, "death_mark") /\ ~Revived(u)) =>
           player'[u] = player[u] /\ DOMAIN buffs'[u] \subseteq DOMAIN buffs[u] ]_vars

\* However many fatal effects are queued at once, a death is counted once.
DeathCountedOnce ==
  [][ \A u \in All :
        player'[u].deaths # player[u].deaths =>
           /\ player'[u].deaths = player[u].deaths + 1
           /\ player[u].dead /\ ~Has(u, "death_mark") ]_vars

\* Who is fearless is left one hit point by it and keeps it: neither the loss that
\* comes with the buff nor what others do kills.
FearlessSurvive ==
  [][ \A u \in Users : (Has(u, "fearless") /\ ~player[u].dead) => ~player'[u].dead ]_vars

\* The player who holds u's luck, where somebody else holds it.
RobbedBy(u) ==
  IF Has(u, "rob_luck") THEN {buffs[u]["rob_luck"].peer} \ {u, Nobody} ELSE {}

\* Whose luck is robbed gains nothing, neither directly nor as the share of a
\* link or by a doubled effect, unless it robs somebody's luck itself.
RobbedGainNothing ==
  [][ \A u \in Users :
        (RobbedBy(u) # {} /\ \A v \in All : u \notin RobbedBy(v)) =>
           /\ player'[u].lp <= player[u].lp
           /\ player'[u].hp <= player[u].hp \/ Revived(u)
           /\ Len(player'[u].bag) <= Len(player[u].bag) ]_vars

\* The turns of a match keep the contract of TurnContract: one a round for each,
\* nobody left down by its own turn, no turn that does not finish.
Contract ==
  INSTANCE TurnContract WITH
    acting <- turn.who,
    played <- acted,
    down   <- {u \in Users : player[u].dead},
    won    <- beaten

KeepsContract == Contract!Spec

\* doc/background.md:211, once the Boss is defeated the match ends: a dead Boss is
\* a beaten Boss.
DeadBossIsBeaten == Resting /\ player[Boss].dead => beaten

\* turn_states.go:401, the item is consumed after its handler has run.
UsedItemsAreGone ==
  [][ turn.step = "consume" /\ turn'.step = "enter" =>
        Len(player'[Me].bag) < Len(player[Me].bag) ]_vars

==============================================================================
