---------------------------- MODULE RoundPromise ----------------------------
(***************************************************************************)
(* What the rounds of a match promise, whatever orders, ranks, counters    *)
(* and messages they are made of: a round opens with a mini-game or        *)
(* without; then everybody in the match has a turn of their own, one       *)
(* begun when the one before is over; the round is closed when all of them *)
(* have had it, those who joined meanwhile included; and a defeated Boss   *)
(* ends the match before anybody else has a turn.                          *)
(***************************************************************************)
EXTENDS Naturals

CONSTANTS Users, Boss, Nobody, Debug

VARIABLES
  running,  \* the match goes on
  stage,    \* the global state of the state machine
  members,  \* who is in the match, the Boss included
  served,   \* who has begun a turn in this round of turns
  awaited,  \* whose dice are waited for, or Nobody
  won,      \* the Boss is defeated
  round     \* rounds closed, and one

vars == <<running, stage, members, served, awaited, won, round>>

Init ==
  /\ running = TRUE /\ stage = "WaitingForHost"
  /\ members \subseteq Users \cup {Boss} /\ Boss \in members
  /\ served = {} /\ awaited = Nobody /\ won = FALSE /\ round = 1

Join(u) ==
  /\ running /\ u \notin members
  /\ members' = members \cup {u}
  /\ UNCHANGED <<running, stage, served, awaited, won, round>>

\* Somebody stays: when the last one leaves, the match stops.
Leave(u) ==
  /\ running /\ stage = "WaitingForHost"
  /\ u \in members /\ members # {u, Boss}
  /\ members' = members \ {u}
  /\ UNCHANGED <<running, stage, served, awaited, won, round>>

Stop ==
  /\ running /\ running' = FALSE
  /\ UNCHANGED <<stage, members, served, awaited, won, round>>

\* The Boss's dice are never waited for, nor those of a player who must skip.
Begin(p, before) ==
  /\ p \in members \ before
  /\ stage' = "TurnLoop" /\ served' = before \cup {p}
  /\ awaited' \in {p, Nobody} \ {Boss}

\* A round opens with a mini-game, or with its first turn at once.
Open ==
  \/ stage' = "RoundMiniGame" /\ served' = {} /\ awaited' = Nobody
  \/ \E p \in members : Begin(p, {})

OpenRound ==
  /\ running /\ stage \in {"WaitingForHost", "RoundEndWait"}
  /\ Open
  /\ UNCHANGED <<running, members, won, round>>

FirstTurn ==
  /\ running /\ stage = "RoundMiniGame"
  /\ \E p \in members : Begin(p, {})
  /\ UNCHANGED <<running, members, won, round>>

TurnIsOver == stage = "TurnLoop" /\ awaited = Nobody

NextTurn ==
  /\ running /\ TurnIsOver /\ ~won
  /\ \E p \in members : Begin(p, served)
  /\ UNCHANGED <<running, members, won, round>>

\* The dice of whoever is awaited are rolled, by them or for them.
Act ==
  /\ running /\ stage = "TurnLoop" /\ awaited \in Users /\ ~won
  /\ awaited' = Nobody /\ won' \in BOOLEAN
  /\ UNCHANGED <<running, stage, members, served, round>>

RoundIsOver == TurnIsOver /\ ~won /\ members \subseteq served

CloseRound ==
  /\ running /\ RoundIsOver
  /\ stage' = "RoundEndWait" /\ served' = {} /\ round' = round + 1
  /\ UNCHANGED <<running, members, awaited, won>>

\* The debug panel takes the match to another mini-game.
Recall ==
  /\ running /\ Debug /\ stage # "RoundMiniGame" /\ ~won
  /\ Open
  /\ round' = IF RoundIsOver THEN round + 1 ELSE round
  /\ UNCHANGED <<running, members, won>>

Conclude ==
  /\ running /\ TurnIsOver /\ won
  /\ running' = FALSE /\ stage' = "GameOver" /\ served' = {}
  /\ UNCHANGED <<members, awaited, won, round>>

Next ==
  \/ \E u \in Users : Join(u) \/ Leave(u)
  \/ Stop \/ OpenRound \/ FirstTurn \/ NextTurn \/ Act \/ CloseRound \/ Recall \/ Conclude

\* Turns come to their end, round by round, whatever the players do or do not.
TurnsComplete == stage = "TurnLoop" ~> stage # "TurnLoop" \/ ~running

\* A defeated Boss ends the match.
DefeatEndsMatch == won ~> ~running

Safety == Init /\ [][Next]_vars

Spec == Safety /\ TurnsComplete /\ DefeatEndsMatch
=============================================================================
