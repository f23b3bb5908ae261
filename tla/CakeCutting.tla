---------------------------- MODULE CakeCutting -----------------------------
(***************************************************************************)
(* CakeCuttingRoom.ts: the players cut a cake in turn and keep its smaller *)
(* part; who cuts beside it or lets the time run out is eliminated, and    *)
(* the last one wins.                                                      *)
(*                                                                         *)
(* turnCount is only compared, as the eliminatedRound of the players: cuts *)
(* between which nobody is eliminated are not counted apart.               *)
(***************************************************************************)
EXTENDS Room, Sequences

CONSTANTS
  Order,      \* playerOrder, the players in the order of the list
  CakeSize    \* 100 in the code

ASSUME CakeAssumption ==
  /\ Order \in Seq(Players) /\ Len(Order) = Cardinality(Players)
  /\ \A p \in Players : \E i \in DOMAIN Order : Order[i] = p
  /\ CakeSize \in Nat \ {0}

VARIABLES
  cake,         \* cakeStart and cakeEnd
  alive,        \* the players whose isAlive is set
  eliminated,   \* eliminatedRound
  turnCount,
  active        \* activePlayerIndex, counted from 1

slices == <<cake, alive, eliminated, turnCount, active>>

ActivePlayer == Order[active]

\* The survivors first, then the later eliminated.
CakeStanding ==
  Ranks([p \in Players |->
           {q \in Players :
              \/ q \in alive /\ p \notin alive
              \/ q \notin alive /\ p \notin alive /\ eliminated[q] > eliminated[p]}])

CakeCreate(p) ==
  /\ Create(p, "rules")
  /\ UNCHANGED <<ready, round, choice, result, callback, slices>>

\* The index i, moved on to a player who is still in the game.
NextAlive(i, living) ==
  LET after(n) == ((i - 1 + n) % Len(Order)) + 1
      nearest  == CHOOSE n \in 0 .. Len(Order) - 1 :
                    /\ Order[after(n)] \in living
                    /\ \A m \in 0 .. n - 1 : Order[after(m)] \notin living
  IN after(nearest)

\* Mutant of StartTurn: the last survivor has to cut as well.
StartTurnForTheLast(i) ==
  \/ /\ alive' = {}
     /\ Finish(CakeStanding')
     /\ active' = i
  \/ /\ alive' # {}
     /\ Enter("playing", timers)
     /\ active' = NextAlive(i, alive')
     /\ UNCHANGED <<result, callback>>

\* startTurn finishes the game when no more than one player is left.
StartTurn(i) ==
  \/ /\ Cardinality(alive') <= 1
     /\ Finish(CakeStanding')
     /\ active' = i
  \/ /\ Cardinality(alive') > 1
     /\ Enter("playing", timers)
     /\ active' = NextAlive(i, alive')
     /\ UNCHANGED <<result, callback>>

NextTurn == StartTurn((active % Len(Order)) + 1)

StartPlaying ==
  /\ cake' = <<0, CakeSize>> /\ turnCount' = 0
  /\ alive' = Players /\ eliminated' = [p \in Players |-> 0]
  /\ StartTurn(1)

CakeConfirm(p) ==
  /\ phase = "rules" /\ p \in present
  /\ ready' = ready \cup {p}
  /\ \/ ready' = Players /\ StartPlaying
     \/ ready' # Players /\ UNCHANGED <<phase, result, callback, clock, slices>>
  /\ UNCHANGED <<present, round, choice>>

Eliminate(p, turn) ==
  /\ alive' = alive \ {p}
  /\ eliminated' = [eliminated EXCEPT ![p] = turn]

\* One more turn, which counts if somebody went out in the last that did.
Counted ==
  IF \E p \in Players \ alive : eliminated[p] = turnCount THEN turnCount + 1 ELSE turnCount

Inside(pos) == pos >= cake[1] /\ pos <= cake[2]

Smaller(pos) ==
  IF pos - cake[1] < cake[2] - pos THEN <<cake[1], pos>> ELSE <<pos, cake[2]>>

\* processCut, by the active player only.
CutCake(pos) ==
  /\ phase = "playing" /\ ActivePlayer \in present
  /\ turnCount' = Counted
  /\ \/ ~Inside(pos) /\ Eliminate(ActivePlayer, turnCount') /\ UNCHANGED cake
     \/ /\ Inside(pos) /\ cake' = Smaller(pos)
        /\ UNCHANGED <<alive, eliminated>>
  /\ Enter("resolving_cut", timers)
  /\ UNCHANGED <<present, ready, round, choice, result, callback, active>>

\* Who runs out of time is eliminated without a turn being counted.  None of the
\* timers asks for the phase.
CakeTimer ==
  /\ \/ "rules" \in timers /\ StartPlaying
     \/ /\ "playing" \in timers
        /\ Eliminate(ActivePlayer, turnCount) /\ NextTurn
        /\ UNCHANGED <<cake, turnCount>>
     \/ /\ "resolving_cut" \in timers
        /\ UNCHANGED <<cake, alive, eliminated, turnCount>>
        /\ NextTurn
  /\ UNCHANGED <<present, ready, round, choice>>

CakeForceFinish ==
  /\ SafetyTimeout /\ InPlay
  /\ Finish(CakeStanding)
  /\ UNCHANGED <<present, ready, round, choice, slices>>

\* Clients report where the knife was, on the cake or beside it.
CakeNext ==
  \/ \E p \in Players : CakeCreate(p) \/ CakeConfirm(p)
  \/ \E pos \in -1 .. CakeSize + 1 : CutCake(pos)
  \/ CakeTimer \/ CakeForceFinish
=============================================================================
