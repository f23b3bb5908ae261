---------------------------- MODULE DilemmaRace -----------------------------
(***************************************************************************)
(* DilemmaRaceRoom.ts: every round each player picks a stride; those who   *)
(* pick the same block each other, the others move.                        *)
(***************************************************************************)
EXTENDS Room

CONSTANTS
  Strides,      \* {1, 3, 5} in the code
  FinishLine,   \* 15
  RaceRounds    \* 20

ASSUME RaceAssumption ==
  /\ Strides \subseteq Nat \ {0} /\ 1 \in Strides
  /\ FinishLine \in Nat \ {0, 1} /\ RaceRounds \in Nat \ {0}

VARIABLE position   \* from 1 on

RaceStanding ==
  Ranks([p \in Players |-> {q \in Players : position[q] > position[p]}])

RaceCreate(p) ==
  /\ Create(p, "choosing") /\ round' = 1
  /\ UNCHANGED <<ready, choice, result, callback, position>>

\* Choices may be changed until the timer expires.
Pick(p, s) ==
  /\ phase = "choosing" /\ p \in present /\ position[p] < FinishLine
  /\ choice' = [choice EXCEPT ![p] = s]
  /\ UNCHANGED <<phase, present, ready, round, result, callback, clock, position>>

\* resolveRound: who has not picked takes one step.
Stride(p) == IF choice[p] = 0 THEN 1 ELSE choice[p]

Blocked(p) == \E q \in Players \ {p} : Stride(q) = Stride(p)

\* Mutant of Moved: a stride past the line is not cut off there.
MovedOn(p) == IF Blocked(p) THEN position[p] ELSE position[p] + Stride(p)

Moved(p) ==
  IF Blocked(p) THEN position[p]
  ELSE IF position[p] + Stride(p) >= FinishLine THEN FinishLine
  ELSE position[p] + Stride(p)

RaceOver(at) == (\E p \in Players : at[p] = FinishLine) \/ round >= RaceRounds

\* The pause before the next round is a timer that no reference points at.
RaceTimer ==
  LET at == [p \in Players |-> Moved(p)]
  IN /\ "choosing" \in timers /\ phase # "finished"
     /\ position' = at
     /\ \/ RaceOver(at) /\ Finish(RaceStanding')
        \/ /\ ~RaceOver(at)
           /\ phase' = "resolving"
           /\ timers' = Cleared(timers) \cup {"resolving"} /\ timerRef' = "none"
           /\ UNCHANGED <<result, callback>>
     /\ UNCHANGED <<present, ready, round, choice>>

\* Mutant of PauseTimer: the next round starts, whatever has happened in the pause.
PauseTimerUnasked ==
  /\ "resolving" \in timers
  /\ Enter("choosing", timers \ {"resolving"}) /\ round' = round + 1
  /\ choice' = [p \in Players |-> 0]
  /\ UNCHANGED <<present, ready, result, callback, position>>

\* startRound, unless the race has been finished during the pause.
PauseTimer ==
  /\ "resolving" \in timers
  /\ \/ /\ phase = "finished" /\ timers' = timers \ {"resolving"}
        /\ UNCHANGED <<phase, round, choice, timerRef>>
     \/ /\ phase # "finished"
        /\ Enter("choosing", timers \ {"resolving"}) /\ round' = round + 1
        /\ choice' = [p \in Players |-> 0]
  /\ UNCHANGED <<present, ready, result, callback, position>>

RaceForceFinish ==
  /\ SafetyTimeout /\ InPlay
  /\ Finish(RaceStanding)
  /\ UNCHANGED <<present, ready, round, choice, position>>

RaceNext ==
  \/ \E p \in Players : RaceCreate(p)
  \/ \E p \in Players, s \in Strides : Pick(p, s)
  \/ RaceTimer \/ PauseTimer \/ RaceForceFinish
=============================================================================
