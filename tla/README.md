# ParaDiced in TLA+

ParaDiced is a multiplayer dice game. The server is a Nakama plugin in Go: a match handler around a
three-layer state machine, a small engine of actions and events, and rules for buffs, items, events
and the Boss. Some mini-games run in a service of their own (TypeScript, Colyseus). This directory
holds a specification of the server's protocol logic, TLC runs on small instances of it, and proofs
for all instances.

Paths below are relative to the repository.

## The system

| Component | Where | State it keeps | Operations |
|---|---|---|---|
| Global state machine | `internal/engine/hsm/global_states.go`, `hsm.go` | global state, turn state, round, turn, turn player, results and ready counters | enter, update and leave MatchInit, WaitingForHost, RoundMiniGame, RoundPrep, TurnLoop, RoundEndWait, GameOver |
| Turn states | `internal/engine/hsm/turn_states.go` | the turn of one player: dice, steps, cell, drawn event | Upkeep, MainAction, Moving, Checkpoint, Landed, Draw, BossBattle, End |
| Interrupts | `internal/engine/hsm/interrupt_states.go`, `state_stack.go` | stack of suspended states, pending decision | push, pop, choice, time-out |
| Match driver | `internal/nakama/lifecycle.go` | pending results, pending trigger, start flag | the tick: finished turn, results, time-out, trigger, update |
| Match adapter | `internal/nakama/adapter.go` | - | Nakama's MatchInit, JoinAttempt, Join, Leave, Loop, Signal, Terminate |
| Presence | `internal/nakama/presence.go` | seats, host, disconnected users | join, rejoin, leave |
| Messages | `internal/nakama/message.go` | - | start, kick, roll, use item or skill, choice, submission, ready |
| Mini-games | `internal/engine/minigame` | - | draw a game, create a room, rank submissions |
| Mini-game service | `minigame-server/src/rooms` | rooms and their players | play a room, call back with ranks |
| Actions and events | `internal/engine/action`, `internal/event` | action queue, subscriptions | publish, execute, publish again, process derived actions |
| Rules | `internal/engine/*_registry.go` | - | what buffs, items, events and Boss skills do |
| Achievements and scores | `internal/engine/achievement_registry.go`, `game.go`, `pkg/constants/score.go` | subscriptions, counters, scores by category | listen, count, grant, award, settle |
| Game and players | `internal/engine/game.go`, `internal/core` | turn order, life points, buffs, items, deaths | add, remove, apply, revive |
| Map | `internal/gamemap` | cells, positions | paths, checkpoints, movement |
| Network builder, test client, utilities | `internal/net`, `internal/cli`, `pkg` | - | output, tests, containers |

How they interact. Nakama runs the entry points of one match one at a time. A call of the adapter's
MatchLoop first handles all queued client messages, in order, and then runs one tick of the driver;
joins, leaves and signals are calls of their own between the ticks. There is therefore no data race.
What makes the system hard is the order of those calls:

- a join is two calls (`MatchJoinAttempt`, `MatchJoin`), and anything may happen between them;
- the driver reads the state once and acts on it after transitions that it made itself;
- the Boss is defeated in one tick, and the match ended in a later one;
- clients repeat messages, stay away, or come back by a second session before the first is gone;
- results of online mini-games come late, twice, in part or not at all;
- the turn is kept in three places, over a list of players that is sorted and extended in place.

What makes each component correct:

- rounds: everyone has one turn per round, in the order of the ranks; waits end when, and only when,
  what is waited for is there; a defeated Boss ends the match;
- seats: the seat list and the turn order agree; nobody beyond the maximum gets a seat; seats survive
  disconnections during the game; a match neither outlives its players nor waits for a host it lacks;
- actions: values stay in range, the dead are marked, left alone and counted once, no chain of effects
  is cut off, whose luck is robbed gains nothing;
- turns: the chain of turn states reaches its end, whatever the effects do, and leaves nobody down;
  checkpoints are served, broken cells are broken for everybody, buffs that have run out go;
- achievements and scores: none is paid twice or listed unpaid, from whichever of the places that grant
  it; points follow the deeds they are for;
- mini-game rooms: a room ends once, its result stands, each round is settled once, and it closes by its
  timers alone;
- interrupts (dormant, see below): a suspended state is resumed exactly once.

## The modules

| Module | What it is |
|---|---|
| `RoundFlow` | the round protocol: global states, the tick, messages and signals |
| `RoundPromise` | what the rounds of a match promise, abstractly; `RoundFlow` is shown to implement it |
| `RoundFlowProofs` | its inductive invariant and seven theorems, for TLAPS, that refinement among them |
| `RankingProofs` | five more, about ranks, the order of turns, and what is waited for |
| `Match` | presence, seats and sessions composed with `RoundFlow` (it EXTENDS it and reuses its actions); it is shown to implement `RoundFlow`'s `Spec` |
| `MatchProofs` | theorems about seats, the safety part of that refinement, and what it carries over |
| `Board` | the map's arithmetic: where a move leads, which cells break, which checkpoints are met |
| `Effects` | the effect engine: actions, what buffs make of them, the queue of what they derive; the items, events and Boss skills |
| `Turn` | the turn states of players and Boss, over `Effects` and `Board` (it EXTENDS both) |
| `TurnContract` | what the turns of a match promise, abstractly; `Turn` is shown to implement it |
| `EffectsProofs` | what one execution of one action may do, and what it may cost, over `Turn` |
| `TurnProofs` | the two inductive invariants of the turns and fourteen theorems, over `EffectsProofs` |
| `Extremes` | lemmas on least and greatest elements, for `RoomsProofs` and `EffectsProofs` |
| `Scores` | achievements and scores: the handlers on the bus, what the states award, the settlement |
| `ScoresProofs` | its inductive invariant and four theorems |
| `Room` | what the mini-game rooms share: clients, phases and their timers, the report, the closing |
| `TrustDilemma`, `DilemmaRace`, `TypingSpeed`, `CakeCutting` | one room each, over `Room` |
| `Rooms` | composes the four: a room of any game, its clients and its timers |
| `RoomsProofs` | its inductive invariant and five theorems |
| `MCRoundFlow`, `MCMatch`, `MCTurn`, `MCRooms`, `MCScores` | small instances for TLC; one `.cfg` per run |

The two halves meet at the turn. `RoundFlow` takes a turn as one step that may defeat the Boss; `Turn`
leaves the order of the players open and models what happens inside. `TurnContract` is the seam: that a
turn ends, may win, and begins for nobody twice in a round is what `RoundFlow` assumes of it. What
`RoundFlow` makes of such turns is `RoundPromise`. Likewise
`RoundFlow` takes the results of a mini-game from outside (early, late, twice, never) and `Rooms` is the
service they come from: the report is sent once, may be lost, and is not sent again.

### RoundFlow

The variables carry the names of the Go fields (`globalState` is `hsm.globalStateID`, `players` is
`game.Players`, `turn` is `hsm.turn`, `currentPlayerIndex` is TurnLoop's own index, `pendingResults` is
`handler.pendingMiniGameResults`, ...). Two are history: `turnsTaken` counts the turns begun in a round
and `readyFrom` holds who signalled ready in a wait.

A transition of the state machine runs Exit, Enter and Update, and all follow-up transitions, before it
returns. So the model's states are those the code comes to *rest* in: WaitingForHost, RoundMiniGame,
TurnLoop (in MainAction or TurnEnd), RoundEndWait and GameOver. MatchInit, RoundPrep and the other turn
states are passed through within one action: `EnterRoundMiniGame`, `PrepareRound` and `BeginTurn` are
those chains.

| Code | Model |
|---|---|
| `WaitingForHostState.Update` | `BeginMatch` |
| `RoundMiniGameState.Enter` | `EnterRoundMiniGame` |
| `RoundPrepState.Enter`, `TurnLoopState.Enter`, `Update` | `PrepareRound`, `RankOrders` |
| `TurnLoopState.OnTurnComplete`, `StartPlayerTurn` | `NextIndex`, `NextTurn`, `EndRound`, `BeginTurn` |
| `RoundEndWaitState` | `EnterRoundEndWait`, `RoundReady` |
| `GameOverState.Enter` | `EnterGameOver`, `EndGame` |
| `MainActionState` | `RollDice`, `AutoRoll`, `PlayTurn` |
| `RoundMiniGameState.OnMiniGameDataSubmit`, `Calculate` | `SubmitMiniGameData`, `Rankings` |
| `MatchLoop`: results and time-out | `OnlineResults` |
| `MatchLoop`: debug trigger | `ForceMiniGame` |
| `MatchSignal` | `SignalResults`, `SignalTrigger` |
| `HandlePresenceJoin`, `HandlePresenceLeave`, kick, start, stop | `AddPlayer`, `LeaveWaitingRoom`, `KickPlayer`, `StartGame`, `MatchStop` |

`inBatch` is TRUE from the first message of a MatchLoop call to its tick, and guards every call that
cannot come in between.

Abstractions. The scores a player submits are replaced by the rankings that can come of them
(`Rankings`: a bijection onto 1..N, with a shared last rank in Rainbow Memory). What a turn does to the
board is left out, except that it may defeat the Boss and that a player who must skip goes straight to
TurnEnd. The drawn mini-game is reduced to its mode. Using items and skills and answering decisions stay
inside MainAction and do not move the round. Errors in a turn state's Enter (a failing action) are not
modelled.

`RoundPromise` is the protocol without its order, ranks, indices, counters and messages: who is in the
match (`members <- ToSet(players)`), who has begun a turn in this round of turns (`served <- Served`), whose
dice are waited for (`awaited <- Awaited`), whether the Boss is defeated, and the state the match is in. A
round opens with a mini-game or with its first turn; a turn begins when the one before is over, of somebody
not served yet; a round is closed when all members are served; a defeated Boss leaves nothing but the end.
`Recall` is the debug panel's mini-game, and there only with `DebugSignals`. `RoundsAsPromised` is its safety
part, `KeepsPromise` all of it.

### Match

`playerList` is the seat list (the keys of `handler.players` are the same set: the code changes both
together), `disconnected` the users with the flag set. `sessions` counts the sessions of each user that
Nakama has in the match, and `accepted` holds the users between join attempt and join. `JoinAttempt`,
`Rejoin`, `TakeSeat` and `TurnedAway` are the ways in; `LeaveAndStop`, `LeaveSeat`, `Disconnect`,
`LeaveUnseated` and `Kick` the ways out. Messages, signals and ticks are `RoundFlow`'s own actions. The
match is modelled from the first join on, as the state machine is started there.

Refinement: every step of `Match` is a step of `RoundFlow` or leaves its variables alone, and fairness
carries over. The run `seats` checks it as the property `Spec`, under the identity mapping.

### Board, Effects and Turn

`player[p]` holds what `core.Player` does of the rules (`hp`, `lp`, `dead`, `deaths`, `pos`, `bag`).
`buffs[p]` maps the kinds of buff p has to the instance: the turns `left` (-1 for ever), `ripe`
(tick-eligible), the `peer` it points at, and `beat`, a turn counter. `queue`, `draining`, `count` and
`extended` are the `ActionContext`: its queue, that `ProcessQueue` runs, `processedCount`, and the
metadata key `buff_duration_extended`.

| Code | Model |
|---|---|
| `ExecuteAction` | `Run`, called by a turn state: `Top` |
| `PhasePreAction`: handlers of target and attacker, by priority, until one blocks | `ActorPlayers`, `Asked`, `Heard`, `Blockers`, `FromActors` |
| trigger and lifecycle phases around the action | `PreTriggered`, `BeforeTrigger`, `Hides`, `AfterTrigger` |
| each action's `Execute` | `ExecuteDamage`, `ExecuteAddBuff`, `ExecuteDeath`, ... |
| `ProcessQueue`, `ActionContext.Clear` | `DrainOne`, `Push`, `Clear` |
| buff handlers | `DeathMarkBlocks`, `FearlessBlocks`, `RobLuckTakes`, `Shares`, `Amplifies`, `Amount`, ... |
| event, item and skill handlers | `EventEffects`, `ItemEffect`, `SkillEffects` |

The code runs a queue without a pause; here each action is a step, so that properties see every
intermediate state. `Turn` waits for the queue to be empty before it goes on (`At`).

`turn` is the turn under way: `who`, the `state` and the `step` reached in it, and what the state keeps.
`course` is what outlives a turn: who has `acted`, the `round`, `charge` and its `parity`, the `broken`
cells, and `beaten` (`KeyBossDefeated`).

| Code (`turn_states.go`) | Model |
|---|---|
| `TurnUpkeepState` | `Upkeep`, `PoisonDraw`, `SufferEvent`, `LeaveUpkeep` |
| `MainActionState`: `OnUseItem`, `OnUseSkill`, `OnRollDice` and its time-out | `UseItem`, `Consume`, `UseSkill`, `Claim`, `Roll`, `LeaveMain` |
| `TurnMovingState` | `PreMove`, `SetOff`, `FallDown`, `LeaveMoving` |
| `TurnCheckpointState`, `TurnLandedState`, `TurnDrawState` | `Treasure`, `LeaveCheckpoint`, `Land`, `LeaveLanded`, `DrawSomething`, `LeaveDraw` |
| `TurnBossBattleState`, a player's branch | `Strike`, `Victory`, `Reward` |
| `TurnBossBattleState`, the Boss's branch | `BossHits`, `BossCasts`, `SkillStrikes`, `Revive`, `LeaveBattle` |
| `TurnEndState` | `AfterTurn`, `Settle`, `Expire`, `TurnEndRespawn`, `Rest` |

Abstractions. Dice, draws, critical blows and the Boss's choices are nondeterministic over their pools;
kinds of dice, statistics, and whether a
cell of fog has been lifted are left out; scores are in `Scores`. A handler that fails leaves no trace and is no
step. Handlers that meet one action in an order a Go map decides (`Dues`, the targets of a skill) may
come in any order. Who begins next is open (`RoundFlow` settles it): the Boss has its turn at any place of a
round, as the sort key it shares with the unranked lets it.

### Rooms

A room is `phase`, the clients `present`, who is `ready`, `round`, `choice`, the `result` reported and
`callback`: `none`, `sent`, `taken` or `lost` by Nakama, `closed`. Each game adds its own: `score`;
`position`; `typed` and `finishTime`; `cake`, `alive`, `eliminated`, `turnCount` and
`active`. `onCreate` is `Create`; the messages are `Choose`, `Pick`, `SubmitProgress`, `CutCake` and the `...Confirm` of the rules;
a phase's timer is `...Timer`; `finishGame`, `sendResultToNakama` and `disconnect` are `Finish`,
`Answered` and `Disconnect`; the safety time-out is `...ForceFinish`. The server runs a room's messages
and timers one at a time, so they are interleaved and not torn.

Timers are state of their own. `timers` holds those that run, each named by the phase that set it, and
`timerRef` is the one the room's reference points at, which is the one `clearRoundTimer` can stop
(`Cleared`). `Enter` is how a phase starts: clear, then set a timer and the reference. That a timer expires
is a step whenever it runs, in whatever phase, and the step asks what the function it calls asks:
`startRound` and `resolveRound` of the race look whether it is finished, `startPlaying` of the typists looks
at nothing. A race's pause between two rounds sets a timer that the reference does not point at, so nothing
clears it and it may expire in a finished room (`PauseTimer`).

`turnCount` of the cake is compared only, and is normalised when it is stored. `onAuth`'s tokens are
left out: a client in a room is on its list.

### Scores

`listening` is what the achievement handlers have subscribed, by owner and kind; `earned`,
`lastDiceResults`, `bossDamageDealt`, `roundsWon` and `deathCount` are the entries of a player's metadata;
`diceUpgrade` is `dice_upgrade_player` in the context of MainAction, which lives until the dice are rolled;
the scores are by category. `started`, `struck`, `criticals`, `killer`, `lastRoll`, `gained`, `used` and
`upgrades` are history: what was done, whatever was counted of it.

| Code | Model |
|---|---|
| `GrantAchievementToPlayer`, and the score that follows each call of it | `Grant` |
| `RoundMiniGameState.Exit` | `MiniGame`, `RankScore`, `WinsThree` |
| `makeDiceRollTripleHandler`, `PushDiceResult` | `RollDice`, `Recorded`, `Pushed` |
| `makeItemCollectorHandler`; the end of `OnUseItem` | `AddItem`; `UseItem` |
| `makeBossKillShotHandler`, `makeBossDamageTenHandler` | `KillShot`, `Blow`, `Amplify` |
| `TurnBossBattleState.Enter` of a user | `BossBattle`, `BlockedBattle`, `First` |
| `GameOverState.Enter`; `MatchStop` | `GameOver`; `MatchStop` |

Turns, items and battles are the occasions for points here and come in any order; what leads to them is in
`Turn`. Who joins late (`Users` outside `started`) has no handlers, as they are subscribed once, when the
room is left.

## The runs

| Run | Instance | What it shows |
|---|---|---|
| `duel` | 2 users, Boss, hosted or matched, frontend and online mini-games, time-out, triggers, late joins, repeats; 423,140 states | types, turn ownership, one turn each, order by rank, ranks earned, no missed completion; rounds closed complete; nothing after the Boss's defeat; every step is one of `RoundPromise`; where everybody is counted once, the waits are for everybody and the Boss acts last |
| `absent` | 2 users, all three modes, time-out; 34,765 states | `RoundFlow` implements `RoundPromise`, its liveness included, from ticks and timers alone; an online mini-game ends |
| `seats` | 3 users, 2 seats, 2 sessions each; 56,272 states | seats, host and match stay consistent; seats are kept during the game; `Match` implements `RoundFlow` |
| `links` | 2 users (BaiHu, QingLong) on 3 cells with cupid_arrow and magic_flute, 1 hit point to begin with, 3 rounds; 1,055,421 states | no chain of effects is cut off; the dead are marked, left alone, counted once; the robbed gain nothing |
| `contract` | 2 users on 3 cells, magic_flute, a Boss of one hit point with its thunder, 3 rounds; 95,235 states | `Turn` implements `TurnContract`, its liveness included |
| `quest` | 1 user (ZhuQue) on 7 cells with 7 items, 14 events, 10 buffs, 4 skills, dice 1 and 2, 3 rounds; 765,652 states | values stay in range, expired buffs go, whoever stands on a fragile cell has broken it, the fearless survive, every checkpoint is served, and only where it has been come to |
| `rooms` | 3 players in each of the 4 games; 187,935 states | results stand and no timer starts a finished room again, rounds settle once, a race stops at its line, the last survivor wins, rooms close |
| `scores` | 2 users, a Boss of 14, dice 1 and 6, 4 mini-games, 3 other occasions; 618,388 states | achievements are paid once and none is unpaid; points follow the deeds |
| `repeated_submission`, `reconnect`, `boss_down`, `used_up` | | each finds the counterexample of one finding, below |

Bounds of the match. `MaxRound` = 2 lets two rounds pass, so what one round leaves behind (ranks, order,
counters, pending results) meets the next. `MaxRank` = 2 has callbacks agree and disagree with the number
of players. Three users are there where a seat is contested or somebody joins late in a game that was
started properly (`seats`); two seats is the least for which a game can start; two sessions is
what a reconnect makes. The proofs need none of these bounds. Symmetry is not used: the openings name the
users. `OnlineTimeout` is a parameter, as `GetTimeout` belongs to an interface: with a positive time-out
an online mini-game ends (`absent`); the provider of the repository returns 0. `DebugSignals`, `Repeats`
and `LateJoins` switch debug triggers, repeated messages and joins in the running game on. `MCMatch` runs
leave triggers and online results to `MCRoundFlow`, where they are not restricted by seats.

Bounds of the turn. Three rounds is what it takes for a charge (every second turn), a link (two turns) and
a death to meet in one turn. `MaxRounds` ends a match. `MaxUses` bounds the items used in a turn, which
the code does not: a player whose removals are blocked (`used_up`) may go on for ever. The real limits are
50 queued actions (used as it is), hit points 6 of 8, luck 4 of 8 and a Boss of 50; smaller ones bring
deaths, empty luck and victory within a few turns; any blow beats the Boss of `contract`, at whatever place
of the round it has had its turn. The pools of `links` and `contract` hold what the
properties are about, those of `quest` nearly everything.

Bounds of the rooms. The real ones are 4 rounds of the dilemma, 15 cells and 20 rounds of the race with
strides of 1, 3 and 5 (kept), and a cake of 100. In the run a race is from cell 1, where it begins in the
code, to cell 6, in 3 rounds: one stride of 5 reaches the line, three of 1 do not. `SafetyTimeout` is TRUE in the run, so that the forced
end may come between any two steps; liveness does not count on it.

Bounds of the scores. Four mini-games are one past the third win, which earns an achievement. Three other
occasions are a run of equal rolls, an item given, used and used again, or the blows that kill a Boss of 14
(a six, or twice that when critical). The proofs need neither bound.

Fairness. Nakama ticks a match ten times a second while it runs: `WF(MatchLoop)`. A player's 45 seconds
and an online mini-game's time-out run out: weak fairness of `AutoRoll` and of the expired
`OnlineResults`. In `Turn`, weak fairness of `Proceed`: the engine goes on by itself and the time-out
rolls for whoever does nothing, so `TurnsFinish` needs nobody to use an item or a skill; that is why the
contract has a run of its own. In `Rooms`, timers expire, a call to Nakama returns one way or the other,
and the room is left a second later. Nothing is assumed of clients, of the service or of joins.
`RoomsClose` has one exception in its statement: players who go on cutting inside the cake for ever.

Deadlock is checked in every run; a match that has ended stutters (`Ended`, `Finished`), as does a room
that is closed.

## What the runs found

| Run | Finding |
|---|---|
| `repeated_submission` | submissions are counted, not players: one who submits twice ends a mini-game for two, and the other is unranked. Ready signals (`OnRoundReady`) are counted the same way |
| `reconnect` | a reconnect whose old session is closed last leaves a connected player marked as disconnected |
| `boss_down` | a Boss killed outside its battle (by an item, say) is dead and nobody has won: only the blow of a battle sets `KeyBossDefeated`, and no later battle begins against a dead Boss |
| `used_up` | a user the Boss killed and revived acts with the DeathMark still on: an item's effect runs as far as it is not blocked, its removal is blocked, and it can be used again |

The properties that hold say how far these reach: even with late joins and repeats everyone has exactly
one turn a round, in the order of the ranks, and rounds are closed complete.

Further disagreements of code and text, met while reading and reflected in the models, which follow the
code:

- `internal/nakama/presence.go:93`: the join is not checked again, so a user accepted in the waiting room
  enters the running game, against `adapter.go:190`;
- `presence.go:79`: the host is who joins an empty list; a matchmaker's match has none and nobody can
  start it, against `presence.go:422`;
- no mini-game times out: the provider's `GetTimeout` is 0 and frontend games have none, against
  `doc/internal/hsm_design.md:307`;
- `message.go:613`: the number of players is checked when the host starts, and the match begins in the
  tick after, so a kick or a leave in between may leave one player to play;
- `hsm/global_states.go:518`: the unranked share the Boss's sort key and may act after it, against
  `game.go:481` (they cannot where everybody has been counted once, `BossActsLast`);
- `game.go:495`: "no LP" for the Boss, which gets `NewPlayer`'s defaults;
- `action/context.go:92`: the limit on executed actions is "in a single ProcessQueue cycle", but
  `processedCount` (line 346) is reset by `Clear` only and otherwise counts on for the life of a context:
  that of MainAction lives through all the items used in a turn. A turn with more items than the limit
  allows for (five for certain, see `NeverGivesUp`) may find the effects of a late one cut off;
- `action/types.go:409`: `buff_duration_extended` is not reset within a context, so after one extension
  buffs newly applied in the same context skip their post phase (`extended` in `Apply`);
- `buff_registry.go:937`: the suppressing buff asks for `event_evaluation`, which nothing sets, so it
  never blocks; `applied_buff_type` is set for the post phase only (`context.go:294`), so hidden turns
  away good buffs too (`buff_registry.go:550`) and the branches of suppress, rob_luck, sinking and eternal
  for a buff about to be applied never act;
- exorcism sets `block_poison_effect` (`buff_registry.go:584`), which nothing reads, so poison goes on
  against what the resource file says of it (line 135);
- `game.go:392`: granting an achievement unsubscribes by its kind, so the first to earn one silences the
  handlers of everybody, and with them what else these do: blows score no more and
  `GetBossDamageDealt` is no longer "the cumulative boss damage dealt by this player"
  (`core/player.go:477`), rolls may be recorded by one handler only;
- both triple handlers record the same roll, so two equal rolls make a triple, against
  `pkg/constants/achievement.go:11` (`TriplesAreRuns` holds of two);
- `turn_states.go:457`: once an item has upgraded its user's dice, every further item used before the
  roll is paid as another upgrade;
- who joins the running game has no achievement handlers (`HandlePresenceJoin` subscribes none);
- fire gives luck every third turn (`game.go:325` says every fourth);
- `CakeCuttingRoom.ts:289`: eliminations by time-out do not advance the turn count, and can tie with
  others, against its line 14.

## What is proved

The theorems are about every value of the constants that the `ASSUME`s of the modules admit, which TLC
evaluates on each run:

- `RoundFlow`, `Match`: every finite set of users, every set of openings, every subset of the modes and
  every value of the switches and bounds;
- the rooms: every finite set of players, every list of them to cut the cake by, and games, tracks, texts
  and cakes of any length;
- `Effects`, `Turn`: every finite set of users and their factions, every course of any length, every pool
  of items, buffs, events and skills, all dice, limits and starting values. `EndsAssumption` says that the
  first and the last cell are not fragile, as in `pkg/resource/default.json`: players begin on the one and
  meet the Boss on the other, where no move would break them. `EventCellAssumption` says that a cell of an
  event names an event there is. `DrawableAssumption` says that the buffs of the skills, dominance and
  rob_luck, are not drawn, as `buildBuffPool` (`buff_registry.go:192`) leaves out what `IsDraw` denies;
- `Scores`: every finite set of users, all dice, every outcome of mini-games, a Boss of any strength.

A further assumption is named in the last column.

| Module | Theorem | Property | Assumes |
|---|---|---|---|
| `RoundFlowProofs` | `TypeCorrectness` | `TypeOK` | |
| | `TurnsAreOwned` | `TurnOwnership` | |
| | `TurnsAreFair` | `OneTurnEach` | |
| | `NothingIsAwaitedInVain` | `NoMissedCompletion` | |
| | `RoundsAreComplete` | `EveryoneActsEachRound` | |
| | `DefeatIsFinal` | `NothingAfterBossDefeat` | |
| | `RoundsKeepPromise` | `RoundsAsPromised` | |
| `RankingProofs` | `TurnsGoByRank` | `TurnOrderFollowsRanks` | `LowRanks` |
| | `RanksGoToPlayers` | `RanksAreEarned` | `LowRanks` |
| | `SubmissionsAreAwaited` | `SubmissionsComplete` | |
| | `SignalsAreAwaited` | `SignalsComplete` | |
| | `BossTakesTheLastTurn` | `BossActsLast` | `LowRanks` |
| `MatchProofs` | `SeatsAreTyped` | `MatchTypeOK` | `LateJoins` |
| | `SeatsAndTurnsAgree` | `SeatsAgree` | `LateJoins` |
| | `SeatsSuffice` | `NeverOverfull` | `LateJoins` |
| | `HostIsThere` | `HostHoldsTheRoom` | `LateJoins` |
| | `SomebodyIsThere` | `NobodyLeftBehind` | `LateJoins` |
| | `SeatsLast` | `SeatsAreKept` | `LateJoins` |
| | `MatchImplementsRounds` | `Init /\ [][Next]_vars`, the safety part of `Spec` | `LateJoins` |
| | `TurnsAreFairInMatches` | `OneTurnEach`, of `Match` | `LateJoins` |
| | `MatchKeepsPromise` | `RoundsAsPromised`, of `Match` | `LateJoins` |
| `RoomsProofs` | `RoomsAreTyped` | `RoomsTypeOK` | |
| | `ResultsLast` | `ResultStands` | |
| | `RacesStop` | `RaceStopsAtTheLine` | |
| | `SurvivorsWin` | `LastOneWins` | |
| | `RoundsAreSettled` | `RoundsSettledOnce` | |
| `EffectsProofs` | `RunOK` | what one executed action may do (`Outcome`) | |
| | `RunBurns` | what one executed action costs | |
| `TurnProofs` | `Inductive` | `TurnInv` | |
| | `TurnIsTyped` | `TurnTypeOK` | |
| | `DeadBearTheMark` | `DeadAreMarked` | |
| | `BuffsRunOut` | `ExpiredBuffsGo` | |
| | `NobodyHovers` | `StandingOnBroken` | |
| | `DeadLeftAlone` | `TheDeadAreLeftAlone` | |
| | `DeathsCounted` | `DeathCountedOnce` | |
| | `FearlessLive` | `FearlessSurvive` | |
| | `RobbedGain` | `RobbedGainNothing` | |
| | `CheckpointsServed` | `EveryCheckpointServed` | |
| | `FuelInductive` | `TurnInv /\ FuelInv` | |
| | `RunsDry` | `EffectsRunDry` | |
| | `NeverGivesUp` | `NeverCutOff`, while ten times the items used are within `QueueLimit` | `QueueLimit` at least 29 and 9 + 4 for each user |
| | `TurnsKeepContract` | the safety part of `KeepsContract` | |
| `ScoresProofs` | `ScoresInvariant` | `ScoresInv` | |
| | `PaidOnce` | `AchievementsPaid` | |
| | `DeedsCredited` | `DeedsAreCredited` | |
| | `TriplesTakeTwo` | `TriplesAreRuns` | |

`LateJoins` is the setting in which `RoundFlow` has every join that `Match` lets in, as the code does.
`LowRanks` says that the mini-game service reports no rank above a hundred: the sort key of the unranked
is the number of players plus 100, and nothing in the code keeps a reported rank below it.

The arguments. `IInv`, the inductive invariant of `RoundFlow`, has parts for the flow of turns, the
mini-game, and what signals leave pending. Three things are in it beyond the properties. `OneTurnEach` is
not inductive: a late join appends a player whose count must be 0, which holds because nobody outside the
turn order has taken a turn (`AbsentTookNoTurn`). A sort must keep the list a list of the same people,
which the roster lemmas (`SortedRoster`, `ExtendedRoster`, `ReducedRoster`) establish from the sort being
a permutation. And the Boss is marked defeated during a round of turns only (`DefeatIsFresh`), which is
what makes the final property hold of `ForceMiniGame` and `RoundReady`. The proof of a step is split by
the calls of the code: one lemma for each group of actions, one step for each action.

`RankInv` is inductive given `IInv`. The order made by the sort outlives a join only because whoever joins
has no rank (`RanksHaveOwners`: ranks, submissions and pending results are of people in the turn order)
and because no rank reaches the key of the unranked, which every join raises (`RanksAreLow`). Ranks are
earned because a mini-game in the clients begins with none (`MiniGameIsBlank`).

The code waits by counting: submissions against the number of players, signals against the number at the
start of the wait. `WaitInv` keeps the records of who was counted among those who are there
(`RecordsHaveOwners`); if everyone was counted once, as many as all are all (`AsManyAsAll`, by
cardinalities), so the waits are for everybody. After a mini-game that everybody played, everybody but the
Boss has a rank (`SubmittersAreRanked`), and the Boss's key is above all of them: it acts last.

`MatchInv` joins `IInv` with the seats: that a seat is a place in the turn order is for both to keep. What
it adds is `AcceptedFit`, that a user let in has a session to spare when the join arrives. Under it each
step of `Match` is a step of `RoundFlow` or a stutter, so the theorems about rounds hold of matches.

`RoomsInv` has a part for each game and one for what the rooms share, in all of which a step of one game
leaves the parts of the others alone, and one for the timers. `ClockInv` says that while a game goes on the
timer of its phase runs and no other, and that a finished game has left none, but for the pause of a race:
that one is forgotten by its reference, so a race finished in the pause leaves it running. From `ClockInv`
a timer that expires is that of the phase the room is in (`TimerOfPhase`), which the functions it calls do
not ask; it is kept because whoever enters a phase or finishes the game clears what runs (`ClockKept`), and
the race has its own argument (`RaceClock`). So a result stands: nothing the ranking reads moves after
`finished`, and the one timer that may be left starts no round then (`RacesStop`). The knife always
finds somebody: the next survivor on the list exists while two are alive (`NextIsAlive`). A ranking gives
every player a rank within their number, ties and eliminations included (`RanksFit`, `MostFirst`,
`FastestFirst`, `SurvivorsFirst`), and every matrix of the dilemma has an entry for each number of
defectors (`PayoffType`).

The proofs about turns come in two layers. `EffectsProofs` asks what the execution of one action may do,
whatever buffs its target and its attacker have: `Outcome` says that only the target changes, in what the
action's kind allows (only a move changes a place, only damage kills, only a respawn revives), that buffs
come and go only by actions that say so, and what may be queued behind the rest. `RunOK` proves it for
every action, with a lemma for what each of the handlers leaves. `TurnProofs` shows that every step of a
turn keeps `TurnInv` and either executes one such action or changes no player and gives no buff (`Kept`);
the theorems about steps follow from the two together, since a property like "the fearless survive" then
has to be asked of one action only.

None of the properties is inductive by itself. What `TurnInv` has in addition is mostly about what waits in
the queue. Between the blow and the mark a player is dead and unmarked: then a death is queued for it
(`DeathsOK`). A hit point is left to the fearless by damage that is computed when the buff strikes and
executed later: there is one such action in the queue at most, it leaves a point, and nothing hurts its
bearer in between (`FearOK`). What robbers are given must come from somebody who is robbed when it comes
(`RobbersOK`). Somebody may be teleported only to a cell that is broken or holds (`PlacesOK`). Buffs are
over only while the turn's end takes them off one by one (`DurationsOK`). And an intercepted blow against
the Boss leaves its derived blow in the queue, which nobody executes before the next action clears it
(`LeftoversOK`).

That no chain of effects is cut off is a second induction, over `TurnInv`. `Weight` says how many actions are
executed because of one, itself included: luck gained may be robbed once, shared once and doubled once, and
the marks an action bears say which of these are spent; a blow may be answered, and what answers it weighs
less; a drawn buff weighs what the heaviest does when it comes. `Fuel` adds the weights of a queue up.
`RunBurns` goes through every handler and shows that an execution costs one more than what it queues, so the
fuel falls with every step (`RunsDry`): effects end, whatever the limit. That depends on who does what: what
was robbed is not robbed again, and what was doubled is not doubled again, but either does not look for the
other's mark, so that luck would go back and forth for ever between two who rob each other and double what
they get. `SkillBuffsOK` rules it out, as rob_luck serves players of BaiHu only and dominance those of
QingLong. What a state of the turn may spend is `Allowance`, found by weighing each of its actions
(`SinglePrice`, `ItemPrice`, `SkillPrice`, ...): ten for an item, eleven for an event, eighteen for what is
due at the end of a turn, and in the Boss's battle nine and four for each user, as a skill may strike all of
them. `FuelInv` is that what has been executed in a state and what is queued still stay within it. Only
MainAction has an allowance without a bound of its own, as nothing bounds the items used in a turn: hence the
hypothesis of `NeverGivesUp`. With the code's 50 it covers up to ten users and five items a turn.

`RoundsKeepPromise` adds two facts to `IInv`: the Boss's dice are never waited for (`BossNeedsNoDice`), and
triggers come from the debug panel (`TriggersAreDebug`). With `OneTurnEach`, which turns an index into a set
of those served (`FinishedSeen`), every action of the code is one of the promise's: the sort and the first
turn, say, are `Begin` for somebody in the match with nobody served (`PrepareRoundSeen`). As every match is a
behaviour of `RoundFlow`, it keeps the promise too.

The contract is proved step by step: a step that begins a turn is `TurnContract`'s beginning, one that ends
it the end, and deaths, returns and the victory map to its other actions or to a stutter. That no turn
leaves its player down comes from `DurationsOK` and `DeathsOK` at the end of the turn.

`ScoresInv` joins the properties with what makes them inductive: the handlers of those who were there
from the start are subscribed until somebody has earned what they detect (`UnearnedAreHeard`), nothing
revives a Boss that was killed (`KilledForGood`: otherwise a second blow could be foreseen as its death), and
while one of the triple handlers records rolls, the last result is the last roll (`RollsAreRecorded`).

Model-checked only: liveness (`RoomsClose`, `OnlineMiniGameEnds`, `TurnsComplete` and `DefeatEndsMatch` of
`RoundPromise`, `TurnsFinish` of `TurnContract`), and with it the fairness halves of the three refinements, as
fairness and ENABLED are beyond the prover. That effects end is proved as far as it is safety: the fuel is a
number that falls with each step.

## Not modelled

- The buffs wrath, savior and sage_protection, and the items foolish_ring, greedy_ring, wrath_ring,
  named_blade and sage_protection: they are commented out of `pkg/resource/paradiced.yml` and never
  registered. `StealBuffAction` and `ClearNegativeBuffs` are never called; nothing sets SkipTurn.
- Interrupts and decisions: no registered effect asks for a decision (`NeedConfirm` is false throughout),
  so the layer cannot be reached in a match.
- Statistics that nobody reads, the reasons listed with scores, the final ranking by total score; kinds of
  dice and all probabilities.
- Snapshots: nothing in the server takes or restores one.
- Network messages, logging, storage, the test client; tokens, secrets, and the judge and debug requests
  of the mini-game service.
- Broken clients are covered by leaving clients unconstrained; failing Nakama calls are ignored by the
  code, which only logs them. Errors of a failing action in a turn state are not modelled.

## Plan

All components of the plan are modelled: `RoundFlow` and `Match` with `RoundPromise`, `Effects`, `Board`,
`Turn` and `TurnContract`, the four rooms and `Rooms`, `Scores`; all invariants and action properties that the
runs check are theorems. What is left waits for the code: `Interrupt`, the stack of suspended states and
decisions with time-outs, once an effect asks for one.
