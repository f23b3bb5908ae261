-------------------------------- MODULE Match --------------------------------
(***************************************************************************)
(* A Nakama match around the round protocol: who may come in, who holds a  *)
(* seat, who is connected, and when the match ends (internal/nakama:       *)
(* adapter.go, presence.go, message.go).                                   *)
(*                                                                         *)
(* A join is two calls.  MatchJoinAttempt decides; the join itself comes   *)
(* later, and other calls come in between.  Nakama knows sessions, the     *)
(* handler knows users only: after a reconnect a user has two sessions     *)
(* until the old one is found dead, and the two may come and go in any     *)
(* order.                                                                  *)
(*                                                                         *)
(* The match is modelled from the moment its state machine has started: by *)
(* the first join of a room somebody created, or by the first join of a    *)
(* match the matchmaker filled.                                            *)
(***************************************************************************)
EXTENDS RoundFlow

CONSTANTS
  MaxPlayers,  \* handler.maxPlayers
  MaxSessions  \* bound: sessions of one user at a time

ASSUME SeatAssumption ==
  /\ MaxPlayers \in Nat
  /\ \A o \in Openings : Cardinality(ToSet(o.players) \ {Boss}) <= MaxPlayers
ASSUME SessionAssumption == MaxSessions \in Nat \ {0}

VARIABLES
  playerList,   \* users with a seat: handler.playerList, keys of handler.players
  disconnected, \* users u with handler.disconnected[u] = true
  sessions,     \* Nakama: sessions of each user that are in the match
  accepted      \* Nakama: users let in by MatchJoinAttempt and yet to join

matchVars == <<playerList, disconnected, sessions, accepted>>
allVars   == <<vars, matchVars>>

Waiting == globalState = "WaitingForHost"

-----------------------------------------------------------------------------
(* The first join has been handled: one user is in, and players the         *)
(* matchmaker seated in advance count as disconnected until they join.      *)
MatchOpen ==
  /\ Init
  /\ playerList = Competitors
  /\ \E first \in Competitors :
       /\ hostUserID # NoPlayer => first = hostUserID
       /\ disconnected = Competitors \ {first}
       /\ sessions = [u \in Users |-> IF u = first THEN 1 ELSE 0]
  /\ accepted = {}

-----------------------------------------------------------------------------
(* Coming in (MatchJoinAttempt, MatchJoin, HandlePresenceJoin)              *)

\* Mutant of HasRoom.
AlwaysRoom == TRUE

HasRoom == Cardinality(playerList) < MaxPlayers

\* Mutant of NotAway: the flag survives.
StillAway(u) == disconnected

\* The flag of a user who comes back is reset, of one who loses the seat deleted.
NotAway(u) == disconnected \ {u}

\* MatchJoinAttempt: those who have a seat always, others while the host
\* waits and there is room.
JoinAttempt(u) ==
  /\ running /\ ~inBatch
  /\ u \notin accepted /\ sessions[u] < MaxSessions
  /\ u \in playerList \/ (Waiting /\ HasRoom)
  /\ accepted' = accepted \cup {u}
  /\ UNCHANGED <<vars, playerList, disconnected, sessions>>

Arrive(u) ==
  /\ running /\ ~inBatch
  /\ u \in accepted
  /\ accepted' = accepted \ {u}
  /\ sessions' = [sessions EXCEPT ![u] = @ + 1]

\* A seated user is back, or was never away (a duplicate join).
Rejoin(u) ==
  /\ Arrive(u)
  /\ u \in playerList
  /\ disconnected' = NotAway(u)
  /\ UNCHANGED <<vars, playerList>>

\* A new user gets a seat, and a place behind all others in game.Players.
TakeSeat(u) ==
  /\ Arrive(u)
  /\ u \notin playerList /\ HasRoom
  /\ playerList' = playerList \cup {u}
  /\ players' = Append(players, u)
  /\ UNCHANGED <<hsmVars, round, turnVars, miniVars, rank, bossDefeated, readyVars,
                 startRequested, signalVars, inBatch, hostUserID, disconnected>>

\* The last seat went to somebody else after the attempt was accepted.
TurnedAway(u) ==
  /\ Arrive(u)
  /\ u \notin playerList /\ ~HasRoom
  /\ UNCHANGED <<vars, playerList, disconnected>>

-----------------------------------------------------------------------------
(* Leaving (MatchLeave, HandlePresenceLeave) and being kicked               *)

\* Mutant of HostLeaves: the host is a player like any other.
HostIsNobody(u) == FALSE

HostLeaves(u) == u = hostUserID /\ Waiting

\* Mutant of SeatIsKept: leaving costs the seat at any time.
SeatIsLost == FALSE

\* Players who leave the waiting room lose their seat, later ones keep it.
SeatIsKept == ~Waiting

\* Mutant of Abandoned.
NeverAbandoned(seats, gone) == FALSE

\* Nobody of those with a seat is connected.
Abandoned(seats, gone) == seats \subseteq gone

\* Mutant of SeatsWithout: the user is dropped from the game only.
SeatsKept(u) == playerList

\* The user is dropped from handler.players and handler.playerList.
SeatsWithout(u) == playerList \ {u}

Depart(u) ==
  /\ running /\ ~inBatch
  /\ sessions[u] > 0
  /\ sessions' = [sessions EXCEPT ![u] = @ - 1]
  /\ UNCHANGED <<hostUserID, accepted>>

\* MatchStop empties the handler's lists; the adapter then ends the match.
Stop ==
  /\ MatchStop
  /\ playerList' = {} /\ disconnected' = {}

\* The host leaves the waiting room, or the last connected player leaves.
LeaveAndStop(u) ==
  /\ Depart(u)
  /\ \/ u \in playerList /\ HostLeaves(u)
     \/ u \in playerList /\ ~HostLeaves(u) /\ ~SeatIsKept
          /\ Abandoned(SeatsWithout(u), NotAway(u))
     \/ u \in playerList /\ SeatIsKept /\ Abandoned(playerList, disconnected \cup {u})
     \/ u \notin playerList /\ Abandoned(playerList, disconnected)
  /\ Stop

\* Another player leaves the waiting room and loses the seat.
LeaveSeat(u) ==
  /\ Depart(u)
  /\ u \in playerList /\ ~HostLeaves(u) /\ ~SeatIsKept
  /\ ~Abandoned(SeatsWithout(u), NotAway(u))
  /\ DropFromGame(u)
  /\ playerList' = SeatsWithout(u)
  /\ disconnected' = NotAway(u)
  /\ UNCHANGED <<hsmVars, round, turnVars, miniVars, rank, bossDefeated, readyVars,
                 startRequested, signalVars, inBatch>>

\* During the game a player who leaves keeps the seat.
Disconnect(u) ==
  /\ Depart(u)
  /\ u \in playerList /\ SeatIsKept
  /\ ~Abandoned(playerList, disconnected \cup {u})
  /\ disconnected' = disconnected \cup {u}
  /\ UNCHANGED <<vars, playerList>>

\* One who was kicked or turned away has nothing to lose.
LeaveUnseated(u) ==
  /\ Depart(u)
  /\ u \notin playerList
  /\ ~Abandoned(playerList, disconnected)
  /\ UNCHANGED <<vars, playerList, disconnected>>

\* handleKickPlayer: the seat is lost at once, the session stays.
Kick(u) ==
  /\ running /\ Waiting
  /\ hostUserID \in playerList /\ u \in playerList \ {hostUserID}
  /\ inBatch' = TRUE
  /\ DropFromGame(u)
  /\ playerList' = SeatsWithout(u)
  /\ disconnected' = NotAway(u)
  /\ UNCHANGED <<hsmVars, round, turnVars, miniVars, rank, bossDefeated, readyVars,
                 startRequested, signalVars, hostUserID, sessions, accepted>>

\* MatchTerminate: the server shuts the match down.
Terminate == Stop /\ UNCHANGED <<hostUserID, sessions, accepted>>

-----------------------------------------------------------------------------
(* Everything else is the round protocol's; its messages are taken from     *)
(* users with a seat.                                                       *)

SeatedMessage(u) ==
  /\ u \in playerList
  /\ StartGame(u) \/ RollDice(u) \/ SubmitMiniGameData(u) \/ RoundReady(u)
  /\ UNCHANGED hostUserID

Signal ==
  /\ SignalTrigger \/ \E r \in CallbackResults : SignalResults(r)
  /\ UNCHANGED hostUserID

MatchNext ==
  \/ \E u \in Users :
       \/ JoinAttempt(u) \/ Rejoin(u) \/ TakeSeat(u) \/ TurnedAway(u)
       \/ LeaveAndStop(u) \/ LeaveSeat(u) \/ Disconnect(u) \/ LeaveUnseated(u)
       \/ Kick(u)
       \/ SeatedMessage(u) /\ UNCHANGED matchVars
  \/ Terminate
  \/ (Signal \/ MatchLoop \/ Ended) /\ UNCHANGED matchVars

\* The server's ticks and timers, as in RoundFlow.
MatchFairness ==
  /\ WF_allVars(MatchLoop /\ UNCHANGED matchVars)
  /\ WF_allVars(AutoRoll /\ UNCHANGED matchVars)
  /\ WF_allVars(OnlineTimeout /\ OnlineResults(TRUE) /\ UNCHANGED matchVars)

MatchSpec == MatchOpen /\ [][MatchNext]_allVars /\ MatchFairness

-----------------------------------------------------------------------------
(* Invariants *)

\* Every variable holds a value of its kind, and only people with a seat are on
\* the list of the disconnected.
MatchTypeOK ==
  /\ playerList \subseteq Users
  /\ disconnected \subseteq playerList
  /\ sessions \in [Users -> 0..MaxSessions]
  /\ accepted \subseteq Users

\* The handler's list of seats and the game's turn order are kept apart and
\* changed by different calls; as long as the match runs they name the same
\* people.
SeatsAgree == running => playerList = Competitors

\* Two users may be let in for the same last seat; only one of them gets it.
NeverOverfull == Cardinality(playerList) <= MaxPlayers

\* A waiting room that was opened by a host has its host, connected: nobody
\* waits for a start that cannot come.
HostHoldsTheRoom ==
  running /\ Waiting /\ hostUserID # NoPlayer =>
    hostUserID \in playerList \ disconnected

\* A match does not go on when nobody is connected.
NobodyLeftBehind == running => playerList \ disconnected # {}

\* The handler takes a user for disconnected exactly when no session of his is
\* in the match.  (presence.go: "IsPlayerConnected returns whether a player is
\* currently connected.")
ConnectedIsKnown ==
  running => \A u \in playerList : u \in disconnected <=> sessions[u] = 0

-----------------------------------------------------------------------------
(* Action properties *)

\* Once the game has begun a seat and the place in the turn order that goes
\* with it are lost by nobody: players come back to what they left.
SeatsAreKept ==
  [][running' /\ ~Waiting =>
       playerList \subseteq playerList' /\ ToSet(players) \subseteq ToSet(players')]_allVars

=============================================================================
