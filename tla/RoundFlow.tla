------------------------------ MODULE RoundFlow ------------------------------
(***************************************************************************)
(* The round protocol of a ParaDiced match: the global layer of the        *)
(* hierarchical state machine (internal/engine/hsm/global_states.go), the  *)
(* per-tick driver (internal/nakama/lifecycle.go, MatchLoop) and the       *)
(* client messages and match signals that move it.                         *)
(*                                                                         *)
(* Nakama runs the entry points of one match one after the other.  One     *)
(* call of the adapter's MatchLoop handles every queued message and then   *)
(* runs the tick, so no join, leave or signal comes between a message and  *)
(* the tick that follows it: inBatch is TRUE from the first message to     *)
(* that tick.                                                              *)
(*                                                                         *)
(* A state transition runs its Exit, Enter and Update, and every follow-up *)
(* transition, before it returns.  Between two entry points the match is   *)
(* therefore only in the states the code comes to rest in: MatchInit,      *)
(* RoundPrep and the inner turn states are passed through.                 *)
(***************************************************************************)
EXTENDS Naturals, Sequences, FiniteSets, Functions, SequencesExt

CONSTANTS
  Users,          \* the users that may ever be in the match
  Boss,           \* the Boss, an entry of game.Players like the others
  NoPlayer,       \* nobody: hsm.turnPlayer = nil, hostUserID = ""
  Openings,       \* how waiting rooms open: [host, players] records
  MiniGameModes,  \* how a mini-game may run: "frontend", "rpc", "none" (skipped)
  OnlineTimeout,  \* TRUE when the provider's GetTimeout is positive
  DebugSignals,   \* TRUE when trigger_minigame signals are sent
  LateJoins,      \* TRUE when a join accepted in the waiting room may land later
  Repeats,        \* TRUE when clients may send a submission or ready signal again
  MaxRank,        \* bound: largest rank a result callback carries
  MaxRound        \* bound: no round is opened by a client after this one

Participants == Users \cup {Boss}

ASSUME UsersAssumption == IsFiniteSet(Users)
ASSUME BossAssumption == Boss \notin Users /\ NoPlayer \notin Participants
ASSUME OpeningAssumption ==
  \A o \in Openings :
    /\ o.players \in Seq(Participants) /\ IsInjective(o.players)
    /\ Boss \in ToSet(o.players) /\ ToSet(o.players) # {Boss}
    /\ o.host \in (ToSet(o.players) \ {Boss}) \cup {NoPlayer}
ASSUME ModeAssumption ==
  MiniGameModes \subseteq {"none", "frontend", "rpc"} /\ MiniGameModes # {}
ASSUME SwitchAssumption ==
  {OnlineTimeout, DebugSignals, LateJoins, Repeats} \subseteq BOOLEAN
ASSUME BoundAssumption == MaxRank \in Nat \ {0} /\ MaxRound \in Nat \ {0}

VARIABLES
  hostUserID,         \* handler.hostUserID, set when the room opens
  running,            \* hsm.running, and Nakama still runs the match
  globalState,        \* hsm.globalStateID
  turnState,          \* hsm.turnStateID
  players,            \* game.Players: the turn order, Boss included
  round,              \* hsm.round
  turn,               \* hsm.turn: the index getCurrentPlayer reads
  turnPlayer,         \* hsm.turnPlayer: the player the turn states act on
  currentPlayerIndex, \* TurnLoopState.currentPlayerIndex
  mode,               \* RoundMiniGameState.mode, "none" when gameType is None
  totalPlayers,       \* RoundMiniGameState.totalPlayers
  resultsReceived,    \* RoundMiniGameState.resultsReceived
  gameData,           \* keys of RoundMiniGameState.gameData
  rank,               \* RoundData mini-game ranks, 0 = unset
  bossDefeated,       \* RoundData KeyBossDefeated
  readyReceived,      \* RoundEndWaitState.readyReceived
  readyTotal,         \* RoundEndWaitState.totalPlayers
  startRequested,     \* handler.startRequested
  pendingResults,     \* handler.pendingMiniGameResults: user -> rank
  pendingTrigger,     \* handler.pendingTriggerMinigame is set
  inBatch,            \* a message of the current MatchLoop call was handled
  turnsTaken,         \* history: turns each participant began this round
  readyFrom           \* history: who signalled ready in this wait

hsmVars    == <<running, globalState, turnState>>
turnVars   == <<turn, turnPlayer, currentPlayerIndex, turnsTaken>>
miniVars   == <<mode, totalPlayers, resultsReceived, gameData>>
readyVars  == <<readyReceived, readyTotal, readyFrom>>
signalVars == <<pendingResults, pendingTrigger>>
vars == <<hsmVars, players, round, turnVars, miniVars, rank, bossDefeated,
          readyVars, startRequested, signalVars, inBatch, hostUserID>>

-----------------------------------------------------------------------------
(* Rosters and ranks *)

\* The non-Boss players: who plays mini-games and who must signal ready.
Competitors == ToSet(players) \ {Boss}

Unranked  == [u \in Users |-> 0]
NoTurns   == [p \in Participants |-> 0]
NoResults == [u \in {} |-> 0]

\* The sort key of RoundPrep: players without a rank come after all others.
SortKey(ps, rk, i) ==
  IF ps[i] # Boss /\ rk[ps[i]] > 0 THEN rk[ps[i]] ELSE Len(ps) + 100

\* Mutant of RankOrders: the comparison turned around.
RankOrdersDescending(ps, rk) ==
  {f \in [1..Len(ps) -> 1..Len(ps)] :
     \A i, j \in 1..Len(ps) : i < j =>
        \/ SortKey(ps, rk, f[i]) > SortKey(ps, rk, f[j])
        \/ SortKey(ps, rk, f[i]) = SortKey(ps, rk, f[j]) /\ f[i] < f[j]}

\* The stable sort of RoundPrep as the permutations it may apply to ps.
RankOrders(ps, rk) ==
  {f \in [1..Len(ps) -> 1..Len(ps)] :
     \A i, j \in 1..Len(ps) : i < j =>
        \/ SortKey(ps, rk, f[i]) < SortKey(ps, rk, f[j])
        \/ SortKey(ps, rk, f[i]) = SortKey(ps, rk, f[j]) /\ f[i] < f[j]}

\* RankCalculator.Calculate: those who submitted are ranked 1..N, one each; in
\* Rainbow Memory all wrong answers, from place k + 1 on, get the last rank.
Rankings(S) ==
  LET N == Cardinality(S)
      Places == Bijection(S, 1..N)
  IN {[u \in S |-> IF r[u] <= k THEN r[u] ELSE N] : r \in Places, k \in 0..N}

\* Ranks of r written over rk (SetMiniGameRank for every key of r).
WithRanks(rk, r) == [u \in Users |-> IF u \in DOMAIN r THEN r[u] ELSE rk[u]]

\* Mutants of Enough: off by one, either way.
MoreThanEnough(received, total) == received > total
OneShort(received, total) == received + 1 >= total

\* All the results or signals that were waited for are there.
Enough(received, total) == received >= total

\* Mutant of ClearedRanks: the ranks of the round before survive.
KeptRanks == rank

\* The ranks after RoundData.Clear at the start of a mini-game.
ClearedRanks == Unranked

-----------------------------------------------------------------------------
(* Transitions of the state machine, each with the chain it sets off *)

Resting(g) ==
  /\ globalState' = g
  /\ turnState' = "None"
  /\ turnPlayer' = NoPlayer
  /\ currentPlayerIndex' = 0

\* GameOver.Enter broadcasts the rankings and stops the state machine.
EnterGameOver ==
  /\ Resting("GameOver")
  /\ running' = FALSE
  /\ UNCHANGED <<turn, turnsTaken>>

\* Mutant of BeginTurn: StartPlayerTurn forgets hsm.turn.
BeginTurnUnmarked(ps, i, taken) ==
  /\ globalState' = "TurnLoop"
  /\ turn' = turn
  /\ currentPlayerIndex' = i
  /\ turnPlayer' = ps[i + 1]
  /\ turnState' \in IF ps[i + 1] = Boss THEN {"TurnEnd"} ELSE {"MainAction", "TurnEnd"}
  /\ turnsTaken' = [taken EXCEPT ![ps[i + 1]] = @ + 1]

\* StartPlayerTurn and the turn chain from TurnUpkeep: the Boss goes through
\* its battle to TurnEnd, a skipped player straight to TurnEnd, any other
\* player waits in MainAction.  taken counts the turns before this one.
BeginTurn(ps, i, taken) ==
  /\ globalState' = "TurnLoop"
  /\ turn' = i
  /\ currentPlayerIndex' = i
  /\ turnPlayer' = ps[i + 1]
  /\ turnState' \in IF ps[i + 1] = Boss THEN {"TurnEnd"} ELSE {"MainAction", "TurnEnd"}
  /\ turnsTaken' = [taken EXCEPT ![ps[i + 1]] = @ + 1]

\* RoundPrep sorts game.Players in place by rank rk; TurnLoop is entered and
\* its Update starts the first turn, unless the Boss is marked defeated.
PrepareRound(rk, defeated) ==
  \E f \in RankOrders(players, rk) :
    LET ps == [i \in 1..Len(players) |-> players[f[i]]] IN
    /\ players' = ps
    /\ IF defeated
       THEN EnterGameOver
       ELSE BeginTurn(ps, 0, NoTurns) /\ UNCHANGED running

\* RoundMiniGame.Enter: RoundData is cleared, the results are reset and a
\* mini-game is chosen; with none to play the round goes on at once.  hsm.turn
\* stays at t and the turns begun so far are taken.
EnterRoundMiniGame(t, taken) ==
  \E m \in MiniGameModes :
    /\ mode' = m
    /\ totalPlayers' = Cardinality(Competitors)
    /\ resultsReceived' = 0
    /\ gameData' = {}
    /\ rank' = ClearedRanks
    /\ bossDefeated' = FALSE
    /\ IF m = "none"
       THEN PrepareRound(ClearedRanks, FALSE)
       ELSE /\ Resting("RoundMiniGame")
            /\ turn' = t
            /\ turnsTaken' = taken
            /\ UNCHANGED <<running, players>>

\* RoundEndWait.Enter
EnterRoundEndWait ==
  /\ Resting("RoundEndWait")
  /\ readyReceived' = 0
  /\ readyTotal' = Cardinality(Competitors)
  /\ readyFrom' = {}
  /\ UNCHANGED <<running, turn, turnsTaken>>

-----------------------------------------------------------------------------
Init ==
  /\ running = TRUE
  /\ globalState = "WaitingForHost"
  /\ turnState = "None"
  /\ \E o \in Openings : hostUserID = o.host /\ players = o.players
  /\ round = 1
  /\ turn = 0
  /\ turnPlayer = NoPlayer
  /\ currentPlayerIndex = 0
  /\ mode = "frontend"
  /\ totalPlayers = 0
  /\ resultsReceived = 0
  /\ gameData = {}
  /\ rank = Unranked
  /\ bossDefeated = FALSE
  /\ readyReceived = 0
  /\ readyTotal = 0
  /\ startRequested = FALSE
  /\ pendingResults = NoResults
  /\ pendingTrigger = FALSE
  /\ inBatch = FALSE
  /\ turnsTaken = NoTurns
  /\ readyFrom = {}

-----------------------------------------------------------------------------
(* The waiting room's hold on the round protocol (internal/nakama/presence, *)
(* message): game.Players grows and shrinks, the host asks to start, the    *)
(* match stops.                                                             *)

\* Mutant of IsNewcomer.
IsAnybody(u) == u \in Users

\* HandlePresenceJoin adds users who are not in the match yet.
IsNewcomer(u) == u \notin Competitors

\* HandlePresenceJoin appends a new player to game.Players, behind the Boss.
\* MatchJoinAttempt lets users in while the host waits; the join itself is a
\* later call and checks no state, so the game may have begun by then.
AddPlayer(u) ==
  /\ running /\ ~inBatch
  /\ IsNewcomer(u)
  /\ globalState = "WaitingForHost" \/ LateJoins
  /\ players' = Append(players, u)
  /\ UNCHANGED <<hsmVars, round, turnVars, miniVars, rank, bossDefeated,
                 readyVars, startRequested, signalVars, inBatch>>

\* Game.RemovePlayer
DropFromGame(u) ==
  \E i \in 1..Len(players) :
    players[i] = u /\ players' = RemoveAt(players, i)

\* A player other than the host and not the last one is removed: when they
\* leave, the match stops.
RemovePlayer(u) ==
  /\ running /\ globalState = "WaitingForHost"
  /\ u \in Competitors \ {hostUserID}
  /\ Competitors # {u}
  /\ DropFromGame(u)
  /\ UNCHANGED <<hsmVars, round, turnVars, miniVars, rank, bossDefeated,
                 readyVars, startRequested, signalVars>>

\* A non-host player leaves the waiting room: a call of its own.
LeaveWaitingRoom(u) == ~inBatch /\ RemovePlayer(u) /\ UNCHANGED inBatch

\* The host kicks a player: a message.
KickPlayer(u) ==
  hostUserID \in Competitors /\ RemovePlayer(u) /\ inBatch' = TRUE

\* MatchStop: the host left the waiting room, or everyone disconnected.
MatchStop ==
  /\ running /\ ~inBatch
  /\ running' = FALSE
  /\ UNCHANGED <<globalState, turnState, players, round, turnVars, miniVars,
                 rank, bossDefeated, readyVars, startRequested, signalVars, inBatch>>

-----------------------------------------------------------------------------
(* Client messages (internal/nakama/message.go) *)

Message(u) == running /\ u \in Competitors /\ inBatch' = TRUE

\* handleStartGame: the flag is read by the tick of this same call.
StartGame(u) ==
  /\ Message(u)
  /\ u = hostUserID
  /\ globalState = "WaitingForHost"
  /\ Cardinality(Competitors) >= 2
  /\ startRequested' = TRUE
  /\ UNCHANGED <<hsmVars, players, round, turnVars, miniVars, rank, bossDefeated,
                 readyVars, signalVars>>

\* The turn chain from the dice roll to TurnEnd; on the Boss cell the roll
\* is an attack, which may defeat the Boss.
PlayTurn ==
  /\ turnState' = "TurnEnd"
  /\ bossDefeated' \in {FALSE, TRUE}
  /\ UNCHANGED <<running, globalState, players, round, turnVars, miniVars, rank,
                 readyVars, startRequested, pendingResults>>

\* getCurrentPlayer: the player at index hsm.turn.
IsCurrentPlayer(u) == turn < Len(players) /\ players[turn + 1] = u

\* handleRollDice
RollDice(u) ==
  /\ Message(u)
  /\ IsCurrentPlayer(u)
  /\ turnState = "MainAction"
  /\ PlayTurn
  /\ UNCHANGED pendingTrigger

\* handleMiniGameDataSubmit and OnMiniGameDataSubmit: every submission
\* counts, whoever sends it; the one that reaches totalPlayers ranks the
\* players whose data is there and moves on to RoundPrep.
SubmitMiniGameData(u) ==
  /\ Message(u)
  /\ globalState = "RoundMiniGame"
  /\ mode = "frontend"
  /\ Repeats \/ u \notin gameData
  /\ gameData' = gameData \cup {u}
  /\ resultsReceived' = resultsReceived + 1
  /\ IF Enough(resultsReceived + 1, totalPlayers)
     THEN \E r \in Rankings(gameData \cup {u}) :
            /\ rank' = WithRanks(rank, r)
            /\ PrepareRound(WithRanks(rank, r), bossDefeated)
     ELSE UNCHANGED <<hsmVars, players, turnVars, rank>>
  /\ UNCHANGED <<round, mode, totalPlayers, bossDefeated, readyVars,
                 startRequested, signalVars>>

\* handleRoundReady and OnRoundReady: every signal counts, whoever sends it.
RoundReady(u) ==
  /\ Message(u)
  /\ round <= MaxRound
  /\ globalState = "RoundEndWait"
  /\ Repeats \/ u \notin readyFrom
  /\ readyReceived' = readyReceived + 1
  /\ readyFrom' = readyFrom \cup {u}
  /\ IF Enough(readyReceived + 1, readyTotal)
     THEN EnterRoundMiniGame(turn, turnsTaken)
     ELSE UNCHANGED <<hsmVars, players, turnVars, miniVars, rank, bossDefeated>>
  /\ UNCHANGED <<round, readyTotal, startRequested, signalVars>>

-----------------------------------------------------------------------------
(* Match signals (internal/nakama/adapter.go, MatchSignal) *)

\* The mini-game service reports ranks of players of a room it ran, late or
\* twice if it so happens; the entries are merged into the pending ones
\* whatever the match is doing.
SignalResults(r) ==
  /\ running /\ ~inBatch
  /\ "rpc" \in MiniGameModes /\ globalState # "WaitingForHost"
  /\ DOMAIN r \subseteq Competitors
  /\ pendingResults' =
       [u \in DOMAIN r \cup DOMAIN pendingResults |->
          IF u \in DOMAIN r THEN r[u] ELSE pendingResults[u]]
  /\ UNCHANGED <<hsmVars, players, round, turnVars, miniVars, rank, bossDefeated,
                 readyVars, startRequested, pendingTrigger, inBatch>>

\* The debug panel asks for a mini-game.
SignalTrigger ==
  /\ running /\ ~inBatch
  /\ DebugSignals
  /\ round <= MaxRound
  /\ pendingTrigger' = TRUE
  /\ UNCHANGED <<hsmVars, players, round, turnVars, miniVars, rank, bossDefeated,
                 readyVars, startRequested, pendingResults, inBatch>>

-----------------------------------------------------------------------------
(* The tick (internal/nakama/lifecycle.go, MatchLoop), one action per course *)
(* it may take.  It looks, in this order, at a finished turn, at the results *)
(* of an online mini-game, at a pending debug trigger, and then updates the  *)
(* state machine.                                                            *)

Tick == running /\ inBatch' = FALSE /\ UNCHANGED hostUserID

TurnFinished == globalState = "TurnLoop" /\ turnState = "TurnEnd"

\* Mutant of NextIndex: the turn is not counted as complete.
SameIndex == currentPlayerIndex

\* The index OnTurnComplete moves on to.
NextIndex == currentPlayerIndex + 1

\* Mutant of RoundComplete: the last player is passed over.
RoundCompleteEarly == NextIndex + 1 >= Len(players)

\* StartPlayerTurn: nobody is left to act.
RoundComplete == NextIndex >= Len(players)

\* Mutant of BossBeaten: the flag is looked for in the context of this tick,
\* where the turn that set it left nothing.
BossUnnoticed == FALSE

\* The Boss was defeated in the turn that just ended.
BossBeaten == bossDefeated

\* The trigger is consumed outside mini-games only.
Triggered == pendingTrigger /\ globalState # "RoundMiniGame"

\* The match is over; a pending trigger is consumed and its transition out of
\* GameOver refused.
EndGame ==
  /\ Tick
  /\ TurnFinished /\ BossBeaten
  /\ EnterGameOver
  /\ pendingTrigger' = FALSE
  /\ UNCHANGED <<players, round, miniVars, rank, bossDefeated, readyVars,
                 startRequested, pendingResults>>

NextTurn ==
  /\ Tick
  /\ TurnFinished /\ ~BossBeaten /\ ~RoundComplete /\ ~Triggered
  /\ BeginTurn(players, NextIndex, turnsTaken)
  /\ UNCHANGED <<running, players, round, miniVars, rank, bossDefeated, readyVars,
                 startRequested, signalVars>>

EndRound ==
  /\ Tick
  /\ TurnFinished /\ ~BossBeaten /\ RoundComplete /\ ~Triggered
  /\ round' = round + 1
  /\ EnterRoundEndWait
  /\ UNCHANGED <<players, miniVars, rank, bossDefeated, startRequested, signalVars>>

\* WaitingForHost.Update
BeginMatch ==
  /\ Tick
  /\ globalState = "WaitingForHost" /\ startRequested /\ ~Triggered
  /\ EnterRoundMiniGame(turn, turnsTaken)
  /\ UNCHANGED <<round, readyVars, startRequested, signalVars>>

\* Mutant of AutoRoll: MainAction has no time-out.
NoAutoRoll == FALSE

\* MainAction.Update: the player's 45 seconds are over and the dice roll
\* themselves.
AutoRoll ==
  /\ Tick
  /\ globalState = "TurnLoop" /\ turnState = "MainAction" /\ ~Triggered
  /\ PlayTurn
  /\ UNCHANGED pendingTrigger

\* Mutant of LeftOver: the time-out ranks nobody.
NobodyLeftOver(ranks) == {}

\* The players an online mini-game that runs out of time has not ranked.
LeftOver(ranks) == {u \in Competitors : ranks[u] = 0}

\* The results of an online mini-game are applied, every entry counting as
\* one; when its time is over the players still without a rank share the
\* last one.  Enough results move the round on.
OnlineResults(expired) ==
  /\ Tick
  /\ globalState = "RoundMiniGame" /\ mode = "rpc"
  /\ pendingResults # NoResults \/ expired
  /\ LET reported == WithRanks(rank, pendingResults)
         received == resultsReceived + Cardinality(DOMAIN pendingResults)
         missing  == IF expired /\ received < totalPlayers
                     THEN LeftOver(reported) ELSE {}
         final    == WithRanks(reported, [u \in missing |-> totalPlayers])
         counted  == received + Cardinality(missing)
     IN /\ rank' = final
        /\ resultsReceived' = counted
        /\ IF Enough(counted, totalPlayers)
           THEN PrepareRound(final, bossDefeated)
           ELSE UNCHANGED <<hsmVars, players, turnVars>>
  /\ pendingResults' = NoResults
  /\ UNCHANGED <<round, mode, totalPlayers, gameData, bossDefeated, readyVars,
                 startRequested, pendingTrigger>>

\* triggerMiniGameFromDebugSignal: the match is taken to a mini-game from
\* wherever it is, after a finished turn has been completed as usual.
ForceMiniGame ==
  /\ Tick
  /\ Triggered /\ ~(TurnFinished /\ BossBeaten)
  /\ round' = IF TurnFinished /\ RoundComplete THEN round + 1 ELSE round
  /\ IF TurnFinished /\ ~RoundComplete
     THEN EnterRoundMiniGame(NextIndex,
            [turnsTaken EXCEPT ![players[NextIndex + 1]] = @ + 1])
     ELSE EnterRoundMiniGame(turn, turnsTaken)
  /\ IF globalState = "TurnLoop"
     THEN readyReceived' = 0 /\ readyTotal' = Cardinality(Competitors) /\ readyFrom' = {}
     ELSE UNCHANGED readyVars
  /\ pendingTrigger' = FALSE
  /\ UNCHANGED <<startRequested, pendingResults>>

\* Nothing to do but to end the batch.
IdleTick ==
  /\ Tick /\ inBatch
  /\ ~TurnFinished /\ ~Triggered
  /\ ~(globalState = "WaitingForHost" /\ startRequested)
  /\ ~(globalState = "RoundMiniGame" /\ mode = "rpc" /\ pendingResults # NoResults)
  /\ UNCHANGED <<hsmVars, players, round, turnVars, miniVars, rank, bossDefeated,
                 readyVars, startRequested, signalVars>>

MatchLoop ==
  \/ EndGame \/ NextTurn \/ EndRound \/ BeginMatch \/ AutoRoll
  \/ OnlineResults(FALSE) \/ (OnlineTimeout /\ OnlineResults(TRUE))
  \/ ForceMiniGame \/ IdleTick

\* Nakama ends a match whose state machine has stopped.
Ended == ~running /\ UNCHANGED vars

-----------------------------------------------------------------------------
(* What a result callback may carry: ranks for some of the users. *)
CallbackResults ==
  UNION {[S -> 1..MaxRank] : S \in SUBSET Users} \ {NoResults}

Event ==
  \/ \E u \in Users :
       \/ AddPlayer(u) \/ LeaveWaitingRoom(u) \/ KickPlayer(u)
       \/ StartGame(u) \/ RollDice(u) \/ SubmitMiniGameData(u) \/ RoundReady(u)
  \/ \E r \in CallbackResults : SignalResults(r)
  \/ SignalTrigger
  \/ MatchStop

Next == (Event /\ UNCHANGED hostUserID) \/ MatchLoop \/ Ended

\* Nakama ticks a match ten times a second as long as it runs, and the timers
\* of MainAction and of an online mini-game run out.  Clients promise nothing.
Fairness ==
  /\ WF_vars(MatchLoop)
  /\ WF_vars(AutoRoll)
  /\ WF_vars(OnlineTimeout /\ OnlineResults(TRUE))

Spec == Init /\ [][Next]_vars /\ Fairness

-----------------------------------------------------------------------------
(* Invariants *)

\* Every variable holds a value of its kind; the turn order never loses the
\* Boss and never holds a participant twice.
TypeOK ==
  /\ hostUserID \in Users \cup {NoPlayer}
  /\ running \in BOOLEAN
  /\ globalState \in {"WaitingForHost", "RoundMiniGame", "TurnLoop",
                      "RoundEndWait", "GameOver"}
  /\ turnState \in {"None", "MainAction", "TurnEnd"}
  /\ players \in Seq(Participants) /\ IsInjective(players)
  /\ Boss \in ToSet(players) /\ Competitors # {}
  /\ round \in Nat \ {0}
  /\ turn \in Nat
  /\ turnPlayer \in Participants \cup {NoPlayer}
  /\ currentPlayerIndex \in Nat
  /\ mode \in {"none", "frontend", "rpc"}
  /\ totalPlayers \in Nat
  /\ resultsReceived \in Nat
  /\ gameData \subseteq Users
  /\ rank \in [Users -> Nat]
  /\ bossDefeated \in BOOLEAN
  /\ readyReceived \in Nat
  /\ readyTotal \in Nat
  /\ startRequested \in BOOLEAN
  /\ DOMAIN pendingResults \subseteq Users
  /\ pendingResults \in [DOMAIN pendingResults -> Nat]
  /\ pendingTrigger \in BOOLEAN
  /\ inBatch \in BOOLEAN
  /\ turnsTaken \in [Participants -> Nat]
  /\ readyFrom \subseteq Users

\* The code keeps the turn in three places: TurnLoop's index, hsm.turn, by
\* which a sender is recognised as the current player, and hsm.turnPlayer, on
\* which the turn states act.  While a turn is on they name one player, even
\* though joins extend game.Players in between, and outside turns nobody.
TurnOwnership ==
  /\ globalState = "TurnLoop" =>
       /\ turnState # "None"
       /\ turn = currentPlayerIndex
       /\ turn < Len(players)
       /\ turnPlayer = players[turn + 1]
  /\ globalState # "TurnLoop" =>
       turnState = "None" /\ turnPlayer = NoPlayer /\ currentPlayerIndex = 0

\* Nobody has begun two turns of one round, the turns begun are those of the
\* players up to the current one, and the players after it wait for theirs.
OneTurnEach ==
  globalState = "TurnLoop" =>
    \A i \in 1..Len(players) :
      turnsTaken[players[i]] = IF i <= currentPlayerIndex + 1 THEN 1 ELSE 0

\* The order of the turns is the order of the mini-game ranks: nobody acts
\* before a better ranked player, and players without a rank (the Boss, late
\* joiners, anyone who did not submit) act after all ranked ones.
TurnOrderFollowsRanks ==
  globalState = "TurnLoop" =>
    \A i, j \in 1..Len(players) :
      i < j => SortKey(players, rank, i) <= SortKey(players, rank, j)

\* A match does not wait for what it already has: neither the mini-game nor
\* the end of a round holds on to enough results or ready signals.
NoMissedCompletion ==
  /\ globalState = "RoundMiniGame" => resultsReceived < totalPlayers
  /\ globalState = "RoundEndWait" => readyReceived < readyTotal

\* In a mini-game played in the clients a rank goes to those only who have
\* submitted data for this very game, and no rank but the last is shared.
RanksAreEarned ==
  globalState = "TurnLoop" /\ mode = "frontend" =>
    \A u, v \in Users :
      rank[u] > 0 =>
        /\ u \in gameData /\ rank[u] <= Cardinality(gameData)
        /\ rank[u] = rank[v] => u = v \/ rank[u] = Cardinality(gameData)

-----------------------------------------------------------------------------
(* Action properties *)

\* A round is closed, and the counter raised by one, when every player in the
\* turn order, the Boss and late joiners included, has had exactly one turn.
EveryoneActsEachRound ==
  [][round' # round =>
       /\ round' = round + 1
       /\ \A i \in 1..Len(players) : turnsTaken[players[i]] = 1]_vars

\* Once the Boss is defeated no turn begins, no round is closed and no
\* mini-game starts: the match goes to GameOver or is stopped.
NothingAfterBossDefeat ==
  [][bossDefeated =>
       /\ turnsTaken' = turnsTaken /\ round' = round
       /\ globalState' \in {globalState, "GameOver"}]_vars

-----------------------------------------------------------------------------
(* Liveness, from the server's ticks alone *)

\* An online mini-game ends by its time-out even if the service never calls
\* back; results that came before it, for some of the players or twice for
\* one, do not keep it from ending.
OnlineMiniGameEnds ==
  globalState = "RoundMiniGame" /\ mode = "rpc"
    ~> globalState # "RoundMiniGame" \/ ~running

------------------------------------------------------------------------------
(* What the repository says of waits and of the Boss's turn, and how far it   *)
(* holds.  Submissions and signals are counted, not players.                  *)

\* "Waits for all players to submit mini-game data (game_data), then
\* calculates rankings." (global_states.go, RoundMiniGameState)  The code does
\* not keep this from a player who submits twice.
WaitsForAllSubmissions ==
  [][globalState = "RoundMiniGame" /\ mode = "frontend" /\ globalState' = "TurnLoop"
       => Competitors \subseteq gameData']_vars

\* Every submission came from another player, and nobody has joined since the
\* players were counted.
CountedOnce ==
  resultsReceived = Cardinality(gameData) /\ totalPlayers = Cardinality(Competitors)

\* It does keep it where nobody submits twice and nobody comes late.
SubmissionsComplete ==
  [][globalState = "RoundMiniGame" /\ mode = "frontend" /\ globalState' = "TurnLoop"
       => (CountedOnce' => Competitors \subseteq gameData')]_vars

\* "Waits for all clients to signal OpRoundReady before transitioning to
\* RoundMiniGame." (global_states.go, RoundEndWaitState): so it does where
\* nobody signals twice and nobody comes late.
SignalsComplete ==
  [][globalState = "RoundEndWait" /\ globalState' # "RoundEndWait" /\ ~pendingTrigger
       => (readyReceived' = Cardinality(readyFrom') /\ readyTotal = Cardinality(Competitors)
             => Competitors \subseteq readyFrom')]_vars

\* "Boss is always at the end of the Players list (last turn each round)."
\* (game.go, InitializeBoss): so it is after a mini-game in the clients in
\* which everybody was counted, once.
BossActsLast ==
  globalState = "TurnLoop" /\ mode = "frontend" /\ CountedOnce
    => players[Len(players)] = Boss

------------------------------------------------------------------------------
(* The promise of the rounds *)

\* Who has begun a turn in the round of turns under way.
Served ==
  IF globalState = "TurnLoop" THEN {p \in Participants : turnsTaken[p] > 0} ELSE {}

\* Whose dice MainAction waits for.
Awaited == IF turnState = "MainAction" THEN turnPlayer ELSE NoPlayer

Promise ==
  INSTANCE RoundPromise WITH
    Nobody <- NoPlayer, Debug <- DebugSignals, stage <- globalState,
    members <- ToSet(players), served <- Served, awaited <- Awaited, won <- bossDefeated

\* Seen without the order of the turns, the ranks and the counters, every step
\* is one of RoundPromise or none: rounds are opened and closed, turns begun
\* and ended, as it says, whatever joins, repeats and triggers come in between.
RoundsAsPromised == Promise!Safety

\* And, with the server's ticks alone, turns are completed and a defeated Boss
\* ends the match.
KeepsPromise == Promise!Spec

=============================================================================
