-------------------------------- MODULE Room --------------------------------
(***************************************************************************)
(* What the rooms of the mini-game server have in common                   *)
(* (minigame-server/src/rooms): a room is created by the first client that *)
(* joins with the list of its players, keeps playing by its timers whoever *)
(* stays, and reports one ranking to Nakama before it closes.              *)
(*                                                                         *)
(* A timer is named by the phase in which it is set.  It keeps running,    *)
(* whatever the phase, until it is cleared: a room can only clear the one  *)
(* its reference points at.  That a timer expires is a step of the module  *)
(* of the game, guarded by what the code asks and no more.  An interval    *)
(* ticks on when it has expired; a time-out is gone, which is the same     *)
(* where the function it calls clears the reference to it.                 *)
(*                                                                         *)
(* Tokens and secrets are left out: a client in the room is one that       *)
(* onAuth has let in.                                                      *)
(***************************************************************************)
EXTENDS Integers, FiniteSets

CONSTANTS
  Players,        \* options.players, the list the first client brings
  NoResult,
  SafetyTimeout   \* TRUE where config.maxGameDuration is positive

ASSUME RoomAssumption ==
  IsFiniteSet(Players) /\ Players # {} /\ SafetyTimeout \in BOOLEAN

VARIABLES
  phase,      \* state.phase; "unborn" before the first client
  present,    \* the players who have a client in the room
  ready,      \* isReady, where rules have to be confirmed
  round,      \* state.round, in the games that have rounds
  choice,     \* the choices of the round, 0 for none
  result,     \* the ranking reported, when resultSent is set
  callback,   \* the report: "none", "sent", then "taken" or "lost", and "closed"
              \* once the room is gone
  timers,     \* the timers that run, by the phase in which they were set
  timerRef    \* roundTimerRef or timerRef: the one that can be cleared, or "none"

clock == <<timers, timerRef>>
room == <<phase, present, ready, round, choice, result, callback, clock>>

RoomInit ==
  /\ phase = "unborn" /\ present = {} /\ ready = {}
  /\ round = 0 /\ choice = [p \in Players |-> 0]
  /\ result = NoResult /\ callback = "none"
  /\ timers = {} /\ timerRef = "none"

InPlay == phase \notin {"unborn", "finished"}

\* Mutant of Cleared: the reference is overwritten and the timer runs on.
NotCleared(running) == running

\* clearRoundTimer, clearTimer.
Cleared(running) == running \ {timerRef}

\* A phase starts: the last timer is cleared and its own is set.
Enter(new, running) ==
  /\ phase' = new
  /\ timers' = Cleared(running) \cup {new} /\ timerRef' = new

\* onCreate, by the first client.
Create(p, first) ==
  /\ phase = "unborn"
  /\ Enter(first, timers) /\ present' = {p}

\* onAuth turns away whoever is not on the list; joining and leaving change
\* nothing in the game, and autoDispose is off.
Join(p) ==
  /\ phase # "unborn" /\ callback # "closed"
  /\ p \in Players \ present
  /\ present' = present \cup {p}
  /\ UNCHANGED <<phase, ready, round, choice, result, callback, clock>>

Leave(p) ==
  /\ p \in present
  /\ present' = present \ {p}
  /\ UNCHANGED <<phase, ready, round, choice, result, callback, clock>>

\* Players share a rank when neither is ahead of the other, and the ranks after
\* them are skipped; ahead[p] are the players ahead of p.
Ranks(ahead) == [p \in Players |-> 1 + Cardinality(ahead[p])]

\* finishGame, once: a second call returns at once.
Finish(ranks) ==
  /\ result = NoResult
  /\ phase' = "finished" /\ result' = ranks /\ callback' = "sent"
  /\ timers' = Cleared(timers) /\ timerRef' = "none"

\* Mutant of Disconnect: a room whose report was lost stays open.
DisconnectWhenTaken ==
  /\ callback = "taken"
  /\ callback' = "closed" /\ present' = {}
  /\ UNCHANGED <<phase, ready, round, choice, result, clock>>

\* sendResultToNakama does not look at what became of its call: it closes the
\* room a second later and never calls again.
Answered(outcome) ==
  /\ callback = "sent"
  /\ callback' = outcome
  /\ UNCHANGED <<phase, present, ready, round, choice, result, clock>>

Disconnect ==
  /\ callback \in {"taken", "lost"}
  /\ callback' = "closed" /\ present' = {}
  /\ UNCHANGED <<phase, ready, round, choice, result, clock>>

RoomNext ==
  \/ \E p \in Players : Join(p) \/ Leave(p)
  \/ \E outcome \in {"taken", "lost"} : Answered(outcome)
  \/ Disconnect
=============================================================================
