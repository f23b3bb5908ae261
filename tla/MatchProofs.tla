----------------------------- MODULE MatchProofs -----------------------------
(***************************************************************************)
(* Theorems about Match: seats, host and connections stay together, and    *)
(* the match does what the round protocol does.                            *)
(*                                                                         *)
(* The two halves need each other.  That a seat taken is a place at the    *)
(* end of the turn order, and one given up a place less, is the round      *)
(* protocol's to say (Roster); that its joins and removals concern the     *)
(* right people follows from the seats.  So the invariant of RoundFlow is  *)
(* a part of this one.  LateJoins is assumed: without it RoundFlow would   *)
(* leave out joins that the match does let in.                             *)
(***************************************************************************)
EXTENDS Match, RoundFlowProofs

-----------------------------------------------------------------------------
(* The inductive invariant *)

\* A user who was let in still has a session to spare: between the two calls of
\* a join nobody else can use it up.
AcceptedFit == \A u \in accepted : sessions[u] < MaxSessions

SeatInv ==
  /\ MatchTypeOK /\ AcceptedFit
  /\ SeatsAgree /\ NeverOverfull
  /\ HostHoldsTheRoom /\ NobodyLeftBehind

MatchInv == IInv /\ HostType /\ SeatInv

-----------------------------------------------------------------------------
(* What the round protocol's own steps mean to the seats *)

\* Preparing a round reorders the players and leaves the waiting room.
LEMMA PrepareRoundSeats ==
  ASSUME FlowInv, running, NEW rk \in [Users -> Nat], NEW d, PrepareRound(rk, d)
  PROVE  ToSet(players') = ToSet(players) /\ globalState' # "WaitingForHost"
<1>1. PICK f \in RankOrders(players, rk) :
        players' = [i \in 1..Len(players) |-> players[f[i]]]
  BY DEF PrepareRound
<1>2. ToSet(players') = ToSet(players)
  BY <1>1, SortedRoster DEF FlowInv, FlowTypes
<1>3. globalState' # "WaitingForHost"
  BY PrepareRoundFlow
<1> QED
  BY <1>2, <1>3

LEMMA EnterRoundMiniGameSeats ==
  ASSUME FlowInv, running, NEW t, NEW taken, EnterRoundMiniGame(t, taken)
  PROVE  ToSet(players') = ToSet(players) /\ globalState' # "WaitingForHost"
<1>1. ClearedRanks \in [Users -> Nat]
  BY DEF ClearedRanks, Unranked
<1>2. CASE PrepareRound(ClearedRanks, FALSE)
  BY <1>1, <1>2, PrepareRoundSeats
<1>3. CASE ~PrepareRound(ClearedRanks, FALSE)
  BY <1>3 DEF EnterRoundMiniGame, Resting
<1> QED
  BY <1>2, <1>3

\* What the seats see of a step of the round protocol: the same people, the same
\* host, and no way back into the waiting room or out of the stop.
SeatsUntouched ==
  /\ ToSet(players') = ToSet(players)
  /\ hostUserID' = hostUserID
  /\ running' => running
  /\ Waiting' => Waiting

LEMMA MessageSeats ==
  ASSUME IInv, NEW u \in Users, SeatedMessage(u)
  PROVE  SeatsUntouched
<1>1. hostUserID' = hostUserID /\ running
  BY DEF SeatedMessage, StartGame, RollDice, SubmitMiniGameData, RoundReady, Message
<1>2. CASE StartGame(u)
  BY <1>1, <1>2 DEF StartGame, SeatsUntouched, Waiting, hsmVars
<1>3. CASE RollDice(u)
  BY <1>1, <1>3 DEF RollDice, PlayTurn, SeatsUntouched, Waiting
<1>4. CASE SubmitMiniGameData(u)
  <2>1. CASE Enough(resultsReceived + 1, totalPlayers)
    <3>1. PICK r \in Rankings(gameData \cup {u}) :
            PrepareRound(WithRanks(rank, r), bossDefeated)
      BY <1>4, <2>1 DEF SubmitMiniGameData
    <3>2. WithRanks(rank, r) \in [Users -> Nat]
      BY WithRanksType, RankingsType DEF IInv, MiniTypes
    <3> QED
      BY <1>1, <3>1, <3>2, PrepareRoundSeats DEF IInv, SeatsUntouched, Waiting
  <2>2. CASE ~Enough(resultsReceived + 1, totalPlayers)
    BY <1>1, <1>4, <2>2 DEF SubmitMiniGameData, SeatsUntouched, Waiting, hsmVars
  <2> QED
    BY <2>1, <2>2
<1>5. CASE RoundReady(u)
  <2>1. CASE Enough(readyReceived + 1, readyTotal)
    BY <1>1, <1>5, <2>1, EnterRoundMiniGameSeats
    DEF RoundReady, IInv, SeatsUntouched, Waiting
  <2>2. CASE ~Enough(readyReceived + 1, readyTotal)
    BY <1>1, <1>5, <2>2 DEF RoundReady, SeatsUntouched, Waiting, hsmVars
  <2> QED
    BY <2>1, <2>2
<1> QED
  BY <1>2, <1>3, <1>4, <1>5 DEF SeatedMessage

LEMMA LoopSeats ==
  ASSUME IInv, MatchLoop
  PROVE  SeatsUntouched
<1>1. hostUserID' = hostUserID /\ running
  BY DEF MatchLoop, Tick, EndGame, NextTurn, EndRound, BeginMatch, AutoRoll,
         OnlineResults, ForceMiniGame, IdleTick
<1>2. CASE EndGame \/ EndRound
  BY <1>1, <1>2 DEF EndGame, EndRound, EnterGameOver, EnterRoundEndWait, Resting,
                    SeatsUntouched, Waiting
<1>3. CASE NextTurn
  BY <1>1, <1>3 DEF NextTurn, BeginTurn, SeatsUntouched, Waiting
<1>4. CASE BeginMatch \/ ForceMiniGame
  <2>1. \E t, taken : EnterRoundMiniGame(t, taken)
    BY <1>4 DEF BeginMatch, ForceMiniGame
  <2> QED
    BY <1>1, <2>1, EnterRoundMiniGameSeats DEF IInv, SeatsUntouched, Waiting
<1>5. CASE AutoRoll \/ IdleTick
  BY <1>1, <1>5 DEF AutoRoll, IdleTick, PlayTurn, SeatsUntouched, Waiting, hsmVars
<1>6. CASE \E expired \in BOOLEAN : OnlineResults(expired)
  <2>1. CASE UNCHANGED <<hsmVars, players>>
    BY <1>1, <2>1 DEF SeatsUntouched, Waiting, hsmVars
  <2>2. CASE ~(UNCHANGED <<hsmVars, players>>)
    <3>1. PrepareRound(rank', bossDefeated)
      BY <1>6, <2>2 DEF OnlineResults
    <3>2. rank' \in [Users -> Nat]
      BY <1>6, OnlineSteps DEF IInv, MiniTypes
    <3> QED
      BY <1>1, <3>1, <3>2, PrepareRoundSeats DEF IInv, SeatsUntouched, Waiting
  <2> QED
    BY <2>1, <2>2
<1> QED
  BY <1>2, <1>3, <1>4, <1>5, <1>6 DEF MatchLoop

\* Signals and the end of the match touch neither.
LEMMA SignalSeats ==
  ASSUME Signal \/ Ended
  PROVE  SeatsUntouched
<1>1. CASE SignalTrigger /\ UNCHANGED hostUserID
  BY <1>1 DEF SignalTrigger, SeatsUntouched, Waiting, hsmVars
<1>2. CASE (\E r \in CallbackResults : SignalResults(r)) /\ UNCHANGED hostUserID
  BY <1>2 DEF SignalResults, SeatsUntouched, Waiting, hsmVars
<1>3. CASE Ended
  BY <1>3 DEF Ended, vars, SeatsUntouched, Waiting, hsmVars
<1> QED
  BY <1>1, <1>2, <1>3 DEF Signal

\* So the invariant of the seats survives a step that leaves the seats alone.
LEMMA UntouchedSeats ==
  ASSUME SeatInv, SeatsUntouched, UNCHANGED matchVars
  PROVE  SeatInv'
BY DEF SeatInv, SeatsUntouched, MatchTypeOK, AcceptedFit, SeatsAgree, NeverOverfull,
       HostHoldsTheRoom, NobodyLeftBehind, matchVars, Competitors

-----------------------------------------------------------------------------
(* Joins and leaves *)

\* A set of seats is finite, and one seat more is one more.
LEMMA SeatCounts ==
  ASSUME MatchTypeOK, NEW u \in Users
  PROVE  /\ Cardinality(playerList) \in Nat
         /\ u \notin playerList =>
              Cardinality(playerList \cup {u}) = Cardinality(playerList) + 1
         /\ u \in playerList =>
              Cardinality(playerList \ {u}) = Cardinality(playerList) - 1
<1>1. IsFiniteSet(playerList)
  BY FS_Subset, UsersAssumption DEF MatchTypeOK
<1> QED
  BY <1>1, FS_CardinalityType, FS_AddElement, FS_RemoveElement

LEMMA ComingIn ==
  ASSUME MatchInv, NEW u \in Users,
         JoinAttempt(u) \/ Rejoin(u) \/ TakeSeat(u) \/ TurnedAway(u)
  PROVE  SeatInv'
<1>1. CASE JoinAttempt(u)
  BY <1>1 DEF JoinAttempt, vars, hsmVars, MatchInv, SeatInv, MatchTypeOK, AcceptedFit,
              SeatsAgree, NeverOverfull, HostHoldsTheRoom, NobodyLeftBehind, Waiting, Competitors
<1>2. ASSUME Arrive(u)
      PROVE  /\ accepted' \subseteq Users /\ AcceptedFit'
             /\ sessions' \in [Users -> 0..MaxSessions]
  <2>1. sessions[u] \in 0..MaxSessions /\ sessions[u] < MaxSessions
    BY <1>2 DEF Arrive, MatchInv, SeatInv, MatchTypeOK, AcceptedFit
  <2>2. sessions[u] + 1 \in 0..MaxSessions
    BY <2>1, SessionAssumption
  <2>3. accepted' \subseteq Users /\ AcceptedFit'
    BY <1>2 DEF Arrive, MatchInv, SeatInv, MatchTypeOK, AcceptedFit
  <2>4. sessions' \in [Users -> 0..MaxSessions]
    BY <1>2, <2>2 DEF Arrive, MatchInv, SeatInv, MatchTypeOK
  <2> QED
    BY <2>3, <2>4
<1>3. CASE Rejoin(u)
  <2>1. Arrive(u) /\ disconnected' = disconnected \ {u} /\ UNCHANGED <<vars, playerList>>
    BY <1>3 DEF Rejoin, NotAway
  <2> QED
    BY <1>2, <2>1 DEF vars, hsmVars, MatchInv, SeatInv, MatchTypeOK,
              SeatsAgree, NeverOverfull, HostHoldsTheRoom, NobodyLeftBehind, Waiting, Competitors
<1>4. CASE TakeSeat(u)
  <2>1. /\ Arrive(u) /\ u \notin playerList /\ HasRoom /\ running
        /\ playerList' = playerList \cup {u} /\ players' = Append(players, u)
        /\ UNCHANGED <<hsmVars, hostUserID, disconnected>>
    BY <1>4 DEF TakeSeat, Arrive
  <2>2. Roster(players) /\ u \notin ToSet(players) /\ u # Boss
    BY <2>1, BossAssumption
    DEF MatchInv, IInv, FlowInv, FlowTypes, SeatInv, SeatsAgree, Competitors
  <2>3. ToSet(players') = ToSet(players) \cup {u}
    BY <2>1, <2>2, ExtendedRoster
  <2>4. SeatsAgree'
    BY <2>1, <2>2, <2>3 DEF MatchInv, SeatInv, SeatsAgree, Competitors
  <2>5. NeverOverfull'
    BY <2>1, SeatCounts, SeatAssumption DEF MatchInv, SeatInv, NeverOverfull, HasRoom
  <2>6. MatchTypeOK' /\ HostHoldsTheRoom' /\ NobodyLeftBehind'
    BY <1>2, <2>1 DEF MatchInv, SeatInv, MatchTypeOK, HostHoldsTheRoom, NobodyLeftBehind,
                      Waiting, hsmVars
  <2> QED
    BY <1>2, <2>1, <2>4, <2>5, <2>6 DEF SeatInv
<1>5. CASE TurnedAway(u)
  <2>1. Arrive(u) /\ UNCHANGED <<vars, playerList, disconnected>>
    BY <1>5 DEF TurnedAway
  <2> QED
    BY <1>2, <2>1 DEF vars, hsmVars, MatchInv, SeatInv, MatchTypeOK,
              SeatsAgree, NeverOverfull, HostHoldsTheRoom, NobodyLeftBehind, Waiting, Competitors
<1> QED
  BY <1>1, <1>3, <1>4, <1>5

\* Who is removed from the game was in it once, and with him goes one place.
LEMMA DroppedPlayer ==
  ASSUME MatchInv, running, NEW u \in playerList, playerList # {u}, DropFromGame(u)
  PROVE  ToSet(players') = ToSet(players) \ {u}
<1>1. PICK k \in 1..Len(players) : players[k] = u /\ players' = RemoveAt(players, k)
  BY DEF DropFromGame
<1>2. playerList = ToSet(players) \ {Boss}
  BY DEF MatchInv, SeatInv, SeatsAgree, Competitors
<1>3. Roster(players)
  BY DEF MatchInv, IInv, FlowInv, FlowTypes
<1> QED
  BY <1>1, <1>2, <1>3, ReducedRoster

\* A seat is given up: the turn order loses a place with it, and whoever is left
\* is not left alone.
LEMMA SeatGivenUp ==
  ASSUME MatchInv, running, NEW u \in playerList, u # hostUserID,
         playerList # {u}, DropFromGame(u),
         playerList' = playerList \ {u}, disconnected' = disconnected \ {u},
         UNCHANGED <<hsmVars, hostUserID>>,
         playerList' \ disconnected' # {},
         sessions' \in [Users -> 0..MaxSessions], accepted' = accepted, AcceptedFit'
  PROVE  SeatInv'
<1>1. ToSet(players') = ToSet(players) \ {u}
  BY DroppedPlayer
<1>2. SeatsAgree'
  BY <1>1 DEF MatchInv, SeatInv, SeatsAgree, Competitors
<1>3. NeverOverfull'
  <2>1. u \in Users /\ Cardinality(playerList \ {u}) = Cardinality(playerList) - 1
    BY SeatCounts DEF MatchInv, SeatInv, MatchTypeOK
  <2> QED
    BY <2>1, SeatCounts, SeatAssumption DEF MatchInv, SeatInv, NeverOverfull
<1>4. MatchTypeOK' /\ NobodyLeftBehind'
  BY DEF MatchInv, SeatInv, MatchTypeOK, NobodyLeftBehind
<1>5. HostHoldsTheRoom'
  BY DEF MatchInv, SeatInv, HostHoldsTheRoom, Waiting, hsmVars
<1> QED
  BY <1>2, <1>3, <1>4, <1>5 DEF SeatInv

\* A stopped match has no seats, and promises nothing any more.
LEMMA StoppedSeats ==
  ASSUME MatchInv, Stop, sessions' \in [Users -> 0..MaxSessions],
         accepted' = accepted, AcceptedFit'
  PROVE  SeatInv'
<1>1. running' = FALSE /\ playerList' = {} /\ disconnected' = {}
  BY DEF Stop, MatchStop
<1>2. NeverOverfull'
  BY <1>1, FS_EmptySet, SeatAssumption DEF NeverOverfull
<1> QED
  BY <1>1, <1>2 DEF MatchInv, SeatInv, MatchTypeOK, SeatsAgree, HostHoldsTheRoom,
                    NobodyLeftBehind

LEMMA GoingOut ==
  ASSUME MatchInv, NEW u \in Users,
         LeaveAndStop(u) \/ LeaveSeat(u) \/ Disconnect(u) \/ LeaveUnseated(u) \/ Kick(u)
  PROVE  SeatInv'
<1>1. ASSUME Depart(u)
      PROVE  /\ sessions' \in [Users -> 0..MaxSessions]
             /\ accepted' = accepted /\ AcceptedFit'
             /\ hostUserID' = hostUserID /\ running
  <2>1. /\ sessions[u] \in 0..MaxSessions /\ sessions[u] > 0
        /\ sessions' = [sessions EXCEPT ![u] = @ - 1]
        /\ sessions \in [Users -> 0..MaxSessions]
        /\ UNCHANGED <<hostUserID, accepted>> /\ running
    BY <1>1 DEF Depart, MatchInv, SeatInv, MatchTypeOK
  <2>2. sessions[u] - 1 \in 0..MaxSessions /\ sessions[u] - 1 < sessions[u]
    BY <2>1, SessionAssumption
  <2>3. sessions' \in [Users -> 0..MaxSessions]
    BY <2>1, <2>2
  <2>4. ASSUME NEW v \in accepted PROVE sessions'[v] < MaxSessions
    <3>1. v \in Users /\ sessions[v] < MaxSessions
      BY DEF MatchInv, SeatInv, MatchTypeOK, AcceptedFit
    <3>2. CASE v = u
      BY <2>1, <2>2, <3>1, <3>2, SessionAssumption
    <3>3. CASE v # u
      BY <2>1, <3>1, <3>3
    <3> QED
      BY <3>2, <3>3
  <2> QED
    BY <2>1, <2>3, <2>4 DEF AcceptedFit
<1>2. CASE LeaveAndStop(u)
  BY <1>1, <1>2, StoppedSeats DEF LeaveAndStop
<1>3. CASE LeaveSeat(u)
  <2>1. /\ Depart(u) /\ u \in playerList /\ u # hostUserID /\ DropFromGame(u)
        /\ playerList' = playerList \ {u} /\ disconnected' = disconnected \ {u}
        /\ UNCHANGED hsmVars
        /\ playerList' \ disconnected' # {}
    BY <1>3 DEF LeaveSeat, HostLeaves, SeatIsKept, Abandoned, SeatsWithout, NotAway
  <2> QED
    BY <1>1, <2>1, SeatGivenUp
<1>4. CASE Disconnect(u)
  <2>1. /\ Depart(u) /\ u \in playerList /\ ~Waiting
        /\ disconnected' = disconnected \cup {u} /\ UNCHANGED <<vars, playerList>>
        /\ playerList' \ disconnected' # {}
    BY <1>4 DEF Disconnect, SeatIsKept, Abandoned
  <2> QED
    BY <1>1, <2>1 DEF vars, hsmVars, MatchInv, SeatInv, MatchTypeOK, SeatsAgree,
                      NeverOverfull, HostHoldsTheRoom, NobodyLeftBehind, Waiting, Competitors
<1>5. CASE LeaveUnseated(u)
  <2>1. Depart(u) /\ UNCHANGED <<vars, playerList, disconnected>>
    BY <1>5 DEF LeaveUnseated
  <2> QED
    BY <1>1, <2>1 DEF vars, hsmVars, MatchInv, SeatInv, MatchTypeOK, SeatsAgree,
                      NeverOverfull, HostHoldsTheRoom, NobodyLeftBehind, Waiting, Competitors
<1>6. CASE Kick(u)
  <2>1. /\ running /\ Waiting /\ hostUserID \in playerList
        /\ u \in playerList /\ u # hostUserID /\ DropFromGame(u)
        /\ playerList' = playerList \ {u} /\ disconnected' = disconnected \ {u}
        /\ UNCHANGED <<hsmVars, hostUserID, sessions, accepted>>
    BY <1>6 DEF Kick, SeatsWithout, NotAway
  <2>2. hostUserID \in playerList \ disconnected
    BY <2>1, BossAssumption
    DEF MatchInv, SeatInv, MatchTypeOK, HostHoldsTheRoom, Participants
  <2>3. /\ sessions' \in [Users -> 0..MaxSessions] /\ AcceptedFit'
        /\ playerList # {u} /\ playerList' \ disconnected' # {}
    BY <2>1, <2>2 DEF MatchInv, SeatInv, MatchTypeOK, AcceptedFit
  <2> QED
    BY <2>1, <2>3, SeatGivenUp
<1> QED
  BY <1>2, <1>3, <1>4, <1>5, <1>6

-----------------------------------------------------------------------------
(* The match does what the round protocol does *)

LEMMA OpenRefines == MatchOpen => Init
BY DEF MatchOpen

\* Every step of the match is one of the round protocol, or none of its concern.
LEMMA StepRefines ==
  ASSUME LateJoins, MatchInv, [MatchNext]_allVars
  PROVE  [Next]_vars
<1>1. running => playerList = Competitors
  BY DEF MatchInv, SeatInv, SeatsAgree
<1>2. ASSUME NEW u \in Users,
             JoinAttempt(u) \/ Rejoin(u) \/ TurnedAway(u) \/ Disconnect(u) \/ LeaveUnseated(u)
      PROVE  UNCHANGED vars
  BY <1>2 DEF JoinAttempt, Rejoin, TurnedAway, Disconnect, LeaveUnseated
<1>3. ASSUME NEW u \in Users, TakeSeat(u)
      PROVE  AddPlayer(u) /\ UNCHANGED hostUserID
  BY <1>1, <1>3 DEF TakeSeat, Arrive, AddPlayer, IsNewcomer
<1>4. ASSUME Stop, UNCHANGED hostUserID
      PROVE  MatchStop /\ UNCHANGED hostUserID
  BY <1>4 DEF Stop
<1>5. ASSUME NEW u \in Users, LeaveSeat(u)
      PROVE  LeaveWaitingRoom(u) /\ UNCHANGED hostUserID
  <2>1. /\ running /\ ~inBatch /\ Waiting /\ u \in playerList /\ u # hostUserID
        /\ playerList \ {u} # {} /\ DropFromGame(u) /\ UNCHANGED hostUserID
        /\ UNCHANGED <<hsmVars, round, turnVars, miniVars, rank, bossDefeated, readyVars,
                       startRequested, signalVars, inBatch>>
    BY <1>5 DEF LeaveSeat, Depart, HostLeaves, SeatIsKept, Abandoned, SeatsWithout
  <2> QED
    BY <1>1, <2>1 DEF LeaveWaitingRoom, RemovePlayer, Waiting
<1>6. ASSUME NEW u \in Users, Kick(u)
      PROVE  KickPlayer(u) /\ UNCHANGED hostUserID
  BY <1>1, <1>6 DEF Kick, KickPlayer, RemovePlayer, Waiting
<1>7. ASSUME NEW u \in Users, LeaveAndStop(u)
      PROVE  MatchStop /\ UNCHANGED hostUserID
  BY <1>4, <1>7 DEF LeaveAndStop, Depart
<1>8. ASSUME NEW u \in Users, SeatedMessage(u)
      PROVE  Event /\ UNCHANGED hostUserID
  BY <1>8 DEF SeatedMessage, Event
<1>9. ASSUME Signal
      PROVE  Event /\ UNCHANGED hostUserID
  BY <1>9 DEF Signal, Event
<1>10. ASSUME Terminate
       PROVE  MatchStop /\ UNCHANGED hostUserID
  BY <1>4, <1>10 DEF Terminate
<1>11. CASE UNCHANGED allVars
  BY <1>11 DEF allVars
<1>12. CASE MatchNext
  BY <1>2, <1>3, <1>5, <1>6, <1>7, <1>8, <1>9, <1>10, <1>12 DEF MatchNext, Next, Event
<1> QED
  BY <1>11, <1>12

-----------------------------------------------------------------------------
(* The inductive invariant holds *)

LEMMA OpenMatchInv == MatchOpen => MatchInv
<1> SUFFICES ASSUME MatchOpen PROVE MatchInv
  OBVIOUS
<1>1. IInv
  BY InitIInv DEF MatchOpen
<1>2. PICK o \in Openings : hostUserID = o.host /\ players = o.players
  BY DEF MatchOpen, Init
<1>3. PICK first \in Competitors :
        /\ hostUserID # NoPlayer => first = hostUserID
        /\ disconnected = Competitors \ {first}
        /\ sessions = [u \in Users |-> IF u = first THEN 1 ELSE 0]
  BY DEF MatchOpen
<1>4. Competitors \subseteq Users
  <2>1. \A x \in ToSet(players) : x \in Participants
    BY <1>1, ToSetOfSeq, ElementOfSeq DEF IInv, FlowInv, FlowTypes, Roster
  <2> QED
    BY <2>1 DEF Competitors, Participants
<1>5. HostType
  BY <1>2, <1>4, OpeningAssumption DEF HostType, Competitors
<1>6. MatchTypeOK /\ AcceptedFit
  <2>1. sessions \in [Users -> 0..MaxSessions]
    BY <1>3, SessionAssumption
  <2> QED
    BY <1>3, <1>4, <2>1 DEF MatchOpen, MatchTypeOK, AcceptedFit
<1>7. NeverOverfull
  BY <1>2, SeatAssumption DEF MatchOpen, NeverOverfull, Competitors
<1>8. SeatsAgree /\ HostHoldsTheRoom /\ NobodyLeftBehind
  BY <1>3 DEF MatchOpen, SeatsAgree, HostHoldsTheRoom, NobodyLeftBehind
<1> QED
  BY <1>1, <1>5, <1>6, <1>7, <1>8 DEF MatchInv, SeatInv

LEMMA StepMatchInv ==
  ASSUME LateJoins, MatchInv, [MatchNext]_allVars
  PROVE  MatchInv'
<1>1. IInv'
  BY StepRefines, StepIInv DEF MatchInv
<1>2. HostType'
  <2>1. [Next]_vars => UNCHANGED hostUserID
    BY DEF Next, Ended, vars, MatchLoop, Tick, EndGame, NextTurn, EndRound, BeginMatch,
           AutoRoll, OnlineResults, ForceMiniGame, IdleTick
  <2> QED
    BY <2>1, StepRefines DEF MatchInv, HostType
<1>3. SeatInv'
  <2>1. CASE UNCHANGED allVars
    BY <2>1 DEF allVars, vars, hsmVars, matchVars, MatchInv, SeatInv, MatchTypeOK, AcceptedFit,
                SeatsAgree, NeverOverfull, HostHoldsTheRoom, NobodyLeftBehind, Waiting, Competitors
  <2>2. ASSUME NEW u \in Users, SeatedMessage(u), UNCHANGED matchVars
        PROVE  SeatInv'
    BY <2>2, MessageSeats, UntouchedSeats DEF MatchInv
  <2>3. CASE (Signal \/ MatchLoop \/ Ended) /\ UNCHANGED matchVars
    BY <2>3, LoopSeats, SignalSeats, UntouchedSeats DEF MatchInv
  <2>4. CASE Terminate
    <3>1. Stop /\ UNCHANGED <<sessions, accepted>>
      BY <2>4 DEF Terminate
    <3> QED
      BY <3>1, StoppedSeats DEF MatchInv, SeatInv, MatchTypeOK, AcceptedFit
  <2>5. CASE MatchNext
    BY <2>2, <2>3, <2>4, <2>5, ComingIn, GoingOut DEF MatchNext
  <2> QED
    BY <2>1, <2>5
<1> QED
  BY <1>1, <1>2, <1>3 DEF MatchInv

LEMMA MatchInvAlways ==
  ASSUME LateJoins
  PROVE  MatchSpec => []MatchInv
<1>1. MatchInv /\ [MatchNext]_allVars => MatchInv'
  BY StepMatchInv
<1>2. MatchSpec => MatchOpen /\ [][MatchNext]_allVars
  BY DEF MatchSpec
<1> QED
  BY <1>1, <1>2, OpenMatchInv, PTL

-----------------------------------------------------------------------------
(* The theorems *)

\* Only people with a seat are listed as disconnected, and no user has more
\* sessions in the match than may be there, though joins overlap with leaves.
THEOREM SeatsAreTyped ==
  ASSUME LateJoins
  PROVE  MatchSpec => []MatchTypeOK
<1>1. MatchInv => MatchTypeOK
  BY DEF MatchInv, SeatInv
<1> QED
  BY <1>1, MatchInvAlways, PTL

\* The handler's list of seats and the turn order of the game name the same
\* people as long as the match runs, along every way in and out.
THEOREM SeatsAndTurnsAgree ==
  ASSUME LateJoins
  PROVE  MatchSpec => []SeatsAgree
<1>1. MatchInv => SeatsAgree
  BY DEF MatchInv, SeatInv
<1> QED
  BY <1>1, MatchInvAlways, PTL

\* However many users were let in for the last seat, one takes it.
THEOREM SeatsSuffice ==
  ASSUME LateJoins
  PROVE  MatchSpec => []NeverOverfull
<1>1. MatchInv => NeverOverfull
  BY DEF MatchInv, SeatInv
<1> QED
  BY <1>1, MatchInvAlways, PTL

\* A waiting room that has a host has it connected, and with it the one user
\* who can start the match.
THEOREM HostIsThere ==
  ASSUME LateJoins
  PROVE  MatchSpec => []HostHoldsTheRoom
<1>1. MatchInv => HostHoldsTheRoom
  BY DEF MatchInv, SeatInv
<1> QED
  BY <1>1, MatchInvAlways, PTL

\* A match in which nobody is connected has been stopped.
THEOREM SomebodyIsThere ==
  ASSUME LateJoins
  PROVE  MatchSpec => []NobodyLeftBehind
<1>1. MatchInv => NobodyLeftBehind
  BY DEF MatchInv, SeatInv
<1> QED
  BY <1>1, MatchInvAlways, PTL

\* Once the game has begun nobody loses a seat or the place in the turn order
\* that goes with it.
THEOREM SeatsLast ==
  ASSUME LateJoins
  PROVE  MatchSpec => SeatsAreKept
<1> DEFINE Kept == running' /\ ~Waiting =>
                     playerList \subseteq playerList' /\ ToSet(players) \subseteq ToSet(players')
<1>1. MatchInv /\ [MatchNext]_allVars => [Kept]_allVars
  <2> SUFFICES ASSUME MatchInv, MatchNext, running', ~Waiting
               PROVE  playerList \subseteq playerList' /\ ToSet(players) \subseteq ToSet(players')
    OBVIOUS
  <2>1. ASSUME NEW u \in Users, TakeSeat(u)
        PROVE  playerList \subseteq playerList' /\ ToSet(players) \subseteq ToSet(players')
    <3>1. /\ Roster(players) /\ u \notin ToSet(players)
          /\ players' = Append(players, u) /\ playerList' = playerList \cup {u}
      BY <2>1, BossAssumption DEF TakeSeat, Arrive, MatchInv, IInv, FlowInv, FlowTypes,
                                  SeatInv, SeatsAgree, Competitors
    <3> QED
      BY <3>1, ExtendedRoster
  <2>2. ASSUME NEW u \in Users,
               JoinAttempt(u) \/ Rejoin(u) \/ TurnedAway(u) \/ Disconnect(u) \/ LeaveUnseated(u)
        PROVE  UNCHANGED <<playerList, players>>
    BY <2>2 DEF JoinAttempt, Rejoin, TurnedAway, Disconnect, LeaveUnseated, vars
  <2>3. ASSUME NEW u \in Users
        PROVE  ~LeaveAndStop(u) /\ ~LeaveSeat(u) /\ ~Kick(u)
    BY DEF LeaveAndStop, LeaveSeat, SeatIsKept, Kick, Stop, MatchStop
  <2>4. ASSUME NEW u \in Users, SeatedMessage(u), UNCHANGED matchVars
        PROVE  playerList' = playerList /\ ToSet(players') = ToSet(players)
    BY <2>4, MessageSeats DEF MatchInv, SeatsUntouched, matchVars
  <2>5. CASE (Signal \/ MatchLoop \/ Ended) /\ UNCHANGED matchVars
    BY <2>5, LoopSeats, SignalSeats DEF MatchInv, SeatsUntouched, matchVars
  <2>6. ~Terminate
    BY DEF Terminate, Stop, MatchStop
  <2> QED
    BY <2>1, <2>2, <2>3, <2>4, <2>5, <2>6 DEF MatchNext
<1>2. MatchSpec => [][MatchNext]_allVars
  BY DEF MatchSpec
<1> QED
  BY <1>1, <1>2, MatchInvAlways, PTL DEF SeatsAreKept

\* The match implements the round protocol: it opens as a waiting room, and each
\* of its steps is one of the protocol's or none of its concern.
THEOREM MatchImplementsRounds ==
  ASSUME LateJoins
  PROVE  MatchSpec => Init /\ [][Next]_vars
<1>1. MatchInv /\ [MatchNext]_allVars => [Next]_vars
  BY StepRefines
<1>2. MatchSpec => MatchOpen /\ [][MatchNext]_allVars
  BY DEF MatchSpec
<1> QED
  BY <1>1, <1>2, OpenRefines, MatchInvAlways, PTL

\* So what is proved of rounds holds of matches with their joins, reconnects and
\* kicks: nobody has two turns in a round, or none.
THEOREM TurnsAreFairInMatches ==
  ASSUME LateJoins
  PROVE  MatchSpec => []OneTurnEach
<1>1. MatchInv => OneTurnEach
  BY DEF MatchInv, IInv, FlowInv
<1> QED
  BY <1>1, MatchInvAlways, PTL

\* And the match as a whole keeps the promise of the rounds.
THEOREM MatchKeepsPromise ==
  ASSUME LateJoins
  PROVE  MatchSpec => RoundsAsPromised
BY MatchImplementsRounds, RoundsRefine DEF RoundsAsPromised, Promise!Safety
=============================================================================
