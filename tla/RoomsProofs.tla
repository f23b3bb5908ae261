----------------------------- MODULE RoomsProofs -----------------------------
(***************************************************************************)
(* Theorems about the rooms of the mini-game server, for every list of     *)
(* players and every length of the games.                                  *)
(*                                                                         *)
(* Each game has a part of the inductive invariant of its own; what they   *)
(* share is that the timer of the phase and no other runs, but for the     *)
(* pause of the race, and that a ranking depends on nothing that moves     *)
(* once the room is finished.                                              *)
(***************************************************************************)
EXTENDS Rooms, FiniteSetTheorems, Extremes, TLAPS

-----------------------------------------------------------------------------
(* Rankings *)

Rankings == [Players -> 1 .. Cardinality(Players)]

\* Nobody is ahead of himself, so the ranks are from 1 to the number of players,
\* and the first rank is of those whom nobody is ahead of.
LEMMA RanksFit ==
  ASSUME NEW ahead, \A p \in Players : ahead[p] \in SUBSET (Players \ {p})
  PROVE  /\ Ranks(ahead) \in Rankings
         /\ \A p \in Players : Ranks(ahead)[p] = 1 <=> ahead[p] = {}
<1>1. ASSUME NEW p \in Players
      PROVE  /\ 1 + Cardinality(ahead[p]) \in 1 .. Cardinality(Players)
             /\ 1 + Cardinality(ahead[p]) = 1 <=> ahead[p] = {}
  <2>1. /\ IsFiniteSet(Players \ {p})
        /\ Cardinality(Players \ {p}) = Cardinality(Players) - 1
    BY FS_RemoveElement, RoomAssumption
  <2>2. IsFiniteSet(ahead[p]) /\ Cardinality(ahead[p]) <= Cardinality(Players \ {p})
    BY <1>1, <2>1, FS_Subset
  <2>3. Cardinality(ahead[p]) \in Nat /\ Cardinality(Players) \in Nat
    BY <2>2, FS_CardinalityType, RoomAssumption
  <2>4. Cardinality(ahead[p]) = 0 <=> ahead[p] = {}
    BY <2>2, FS_EmptySet
  <2> QED
    BY <2>1, <2>2, <2>3, <2>4
<1>2. Ranks(ahead) = [p \in Players |-> 1 + Cardinality(ahead[p])]
  BY DEF Ranks
<1> QED
  BY <1>1, <1>2 DEF Rankings

\* Whoever has more is ahead, in the dilemma and in the race.
LEMMA MostFirst ==
  ASSUME NEW f \in [Players -> Int]
  PROVE  Ranks([p \in Players |-> {q \in Players : f[q] > f[p]}]) \in Rankings
<1> DEFINE ahead == [p \in Players |-> {q \in Players : f[q] > f[p]}]
<1>1. \A p \in Players : ahead[p] \in SUBSET (Players \ {p})
  OBVIOUS
<1> QED
  BY <1>1, RanksFit

\* The ranking of the typists, by what they have typed and when they finished.
LEMMA FastestFirst ==
  ASSUME NEW count \in [Players -> Int], NEW time \in [Players -> Int]
  PROVE  Ranks([p \in Players |->
           {q \in Players :
              \/ time[q] > 0 /\ ~(time[p] > 0)
              \/ time[q] > 0 /\ time[p] > 0 /\ time[q] < time[p]
              \/ ~(time[q] > 0) /\ ~(time[p] > 0) /\ count[q] > count[p]}]) \in Rankings
<1> DEFINE ahead == [p \in Players |->
           {q \in Players :
              \/ time[q] > 0 /\ ~(time[p] > 0)
              \/ time[q] > 0 /\ time[p] > 0 /\ time[q] < time[p]
              \/ ~(time[q] > 0) /\ ~(time[p] > 0) /\ count[q] > count[p]}]
<1>1. \A p \in Players : ahead[p] \in SUBSET (Players \ {p})
  <2>1. \A p \in Players : time[p] \in Int /\ count[p] \in Int
    OBVIOUS
  <2> QED
    BY <2>1
<1> HIDE DEF ahead
<1>2. Ranks(ahead) \in Rankings
  BY <1>1, RanksFit
<1> QED
  BY <1>2 DEF ahead

\* CakeStanding, of any survivors.
Survival(living, out) ==
  Ranks([p \in Players |->
           {q \in Players :
              \/ q \in living /\ p \notin living
              \/ q \notin living /\ p \notin living /\ out[q] > out[p]}])

\* While somebody is left, the survivors and nobody else are first.
LEMMA SurvivorsFirst ==
  ASSUME NEW living, living \subseteq Players, living # {}, NEW out \in [Players -> Nat]
  PROVE  /\ Survival(living, out) \in Rankings
         /\ \A p \in Players : p \in living <=> Survival(living, out)[p] = 1
<1> DEFINE ahead == [p \in Players |->
               {q \in Players :
                  \/ q \in living /\ p \notin living
                  \/ q \notin living /\ p \notin living /\ out[q] > out[p]}]
<1>1. \A p \in Players : ahead[p] \in SUBSET (Players \ {p})
  <2>1. \A p \in Players : out[p] \in Nat
    OBVIOUS
  <2> QED
    BY <2>1
<1>2. \A p \in Players : p \in living <=> ahead[p] = {}
  OBVIOUS
<1> HIDE DEF ahead
<1>3. /\ Ranks(ahead) \in Rankings
      /\ \A p \in Players : p \in living <=> Ranks(ahead)[p] = 1
  BY <1>1, <1>2, RanksFit
<1>4. Survival(living, out) = Ranks(ahead)
  BY DEF Survival, ahead
<1> QED
  BY <1>3, <1>4

-----------------------------------------------------------------------------
(* Who is ahead *)

\* Somebody has the most.
LEMMA GreatestExists ==
  ASSUME NEW f \in [Players -> Nat]
  PROVE  \E p \in Players : \A q \in Players : f[q] <= f[p]
<1> DEFINE g == [p \in Players |-> 0 - f[p]]
<1>1. \A p \in Players : f[p] \in Nat /\ g[p] = 0 - f[p]
  OBVIOUS
<1>2. g \in [Players -> Int]
  BY <1>1
<1> HIDE DEF g
<1>3. PICK p \in Players : \A q \in Players : g[p] <= g[q]
  BY <1>2, LeastExists, RoomAssumption
<1> QED
  BY <1>1, <1>3

\* The nearest player in the game is found, going around the table.
LEMMA NextIsAlive ==
  ASSUME NEW i \in 1 .. Len(Order), NEW living, living \subseteq Players, living # {}
  PROVE  /\ NextAlive(i, living) \in 1 .. Len(Order)
         /\ Order[NextAlive(i, living)] \in living
<1> DEFINE L == Len(Order)
           after(n) == ((i - 1 + n) % L) + 1
           T == {n \in 0 .. L - 1 : Order[after(n)] \in living}
<1>1. L \in Nat /\ 1 <= L /\ i \in 1 .. L
  BY CakeAssumption
<1>2. \A n \in 0 .. L - 1 : after(n) = IF i + n <= L THEN i + n ELSE i + n - L
  <2> SUFFICES ASSUME NEW n \in 0 .. L - 1
               PROVE  after(n) = IF i + n <= L THEN i + n ELSE i + n - L
    OBVIOUS
  <2> HIDE DEF L
  <2>1. CASE i + n <= L
    BY <1>1, <2>1
  <2>2. CASE i + n > L
    BY <1>1, <2>2
  <2> QED
    BY <1>1, <2>1, <2>2
<1>3. PICK k \in 1 .. L : Order[k] \in living
  BY CakeAssumption
<1>4. \E n \in 0 .. L - 1 : after(n) = k
  <2>1. CASE k >= i
    <3>1. k - i \in 0 .. L - 1 /\ i + (k - i) <= L /\ i + (k - i) = k
      BY <1>1, <2>1
    <3> QED
      BY <1>2, <3>1
  <2>2. CASE k < i
    <3>1. /\ k - i + L \in 0 .. L - 1 /\ ~(i + (k - i + L) <= L)
          /\ i + (k - i + L) - L = k
      BY <1>1, <2>2
    <3> QED
      BY <1>2, <3>1
  <2> QED
    BY <1>1, <2>1, <2>2
<1>5. T # {}
  BY <1>3, <1>4
<1> HIDE DEF after
<1>6. PICK n \in T : \A m \in T : ~(m < n)
  <2> DEFINE f == [m \in T |-> m]
  <2>1. IsFiniteSet(0 .. L - 1) /\ T \in SUBSET (0 .. L - 1)
    <3>1. 0 \in Int /\ L - 1 \in Int
      BY <1>1
    <3> QED
      BY <3>1, FS_Interval
  <2>2. IsFiniteSet(T)
    BY <2>1, FS_Subset
  <2>3. \A m \in T : m \in Int
    BY <1>1
  <2> HIDE DEF T
  <2>4. f \in [T -> Int] /\ \A m \in T : f[m] = m
    BY <2>3
  <2>5. PICK n \in T : \A m \in T : f[n] <= f[m]
    BY <1>5, <2>2, <2>4, LeastExists
  <2>6. \A m \in T : ~(m < n)
    BY <2>3, <2>4, <2>5
  <2> QED
    BY <2>6
<1>7. n \in 0 .. L - 1 /\ Order[after(n)] \in living
  BY <1>6
<1>8. \A m \in 0 .. n - 1 : Order[after(m)] \notin living
  <2> SUFFICES ASSUME NEW m \in 0 .. n - 1, Order[after(m)] \in living
               PROVE  FALSE
    OBVIOUS
  <2>1. m \in 0 .. L - 1 /\ m < n
    BY <1>1, <1>7
  <2> QED
    BY <1>6, <2>1
<1> USE DEF after
<1> DEFINE found(x) == /\ Order[after(x)] \in living
                       /\ \A m \in 0 .. x - 1 : Order[after(m)] \notin living
           nearest == CHOOSE x \in 0 .. L - 1 : found(x)
<1>9. nearest \in 0 .. L - 1 /\ found(nearest)
  BY <1>7, <1>8
<1>10. NextAlive(i, living) = after(nearest)
  BY DEF NextAlive
<1> HIDE DEF nearest
<1>11. after(nearest) \in 1 .. L
  BY <1>1, <1>2, <1>9
<1> QED
  BY <1>9, <1>10, <1>11

-----------------------------------------------------------------------------
(* The inductive invariant *)

CommonInv ==
  /\ game \in Games
  /\ present \subseteq Players /\ ready \subseteq Players
  /\ phase \in {"unborn", "rules", "countdown", "choosing", "resolving", "playing",
                "resolving_cut", "finished"}
  /\ callback \in {"none", "sent", "taken", "lost", "closed"}
  /\ round \in Nat
  /\ choice \in [Players -> Nat]
  /\ result \in Rankings \cup {NoResult}

\* The rounds of the dilemma are counted from the first on.
TrustInv ==
  /\ score \in [Players -> Int]
  /\ game = "trust_dilemma" =>
       /\ phase \in {"unborn", "rules", "choosing", "resolving", "finished"}
       /\ phase \in {"unborn", "rules"} => round = 0
       /\ round <= TrustRounds
       /\ choice \in [Players -> 0 .. 2]

\* A race that goes on has neither come to its line nor to the end of its rounds.
RaceInv ==
  /\ position \in [Players -> 1 .. FinishLine]
  /\ game = "dilemma_race" =>
       /\ phase \in {"unborn", "choosing", "resolving", "finished"}
       /\ phase = "unborn" => round = 0
       /\ round <= RaceRounds
       /\ phase = "resolving" => round < RaceRounds
       /\ phase # "finished" => \A p \in Players : position[p] < FinishLine

TypingInv ==
  /\ typed \in [Players -> 0 .. TextLength]
  /\ finishTime \in [Players -> Nat]
  /\ game = "typing_speed" =>
       phase \in {"unborn", "rules", "countdown", "playing", "finished"}

\* Somebody is left, and while they cut there are two at least.
CakeInv ==
  /\ cake \in Nat \X Nat /\ cake[1] <= cake[2] /\ cake[2] <= CakeSize
  /\ active \in 1 .. Len(Order)
  /\ alive \subseteq Players /\ alive # {}
  /\ eliminated \in [Players -> Nat]
  /\ turnCount \in Nat
  /\ game = "cake_cutting" =>
       /\ phase \in {"unborn", "rules", "playing", "resolving_cut", "finished"}
       /\ phase = "playing" => Cardinality(alive) > 1 /\ ActivePlayer \in alive

FinalStanding == phase = "finished" => result = Standing

GameInv == CommonInv /\ TrustInv /\ RaceInv /\ TypingInv /\ CakeInv /\ FinalStanding

\* While a game goes on the timer of its phase runs and no other.  No reference
\* points at the one of the race's pause, which therefore may be left when the race
\* is finished in the pause; nothing else is left by a game that is finished.
ClockInv ==
  /\ phase = "unborn" => timers = {} /\ timerRef = "none"
  /\ InPlay =>
       /\ timers = {phase}
       /\ timerRef = IF game = "dilemma_race" /\ phase = "resolving" THEN "none" ELSE phase
  /\ phase = "finished" =>
       /\ timers \subseteq {"resolving"} /\ timerRef = "none"
       /\ game # "dilemma_race" => timers = {}
  /\ result # NoResult => phase = "finished"

RoomsInv == GameInv /\ ClockInv

-----------------------------------------------------------------------------
(* The timers *)

\* A timer that expires was set in the phase the room is in, but for the one of a
\* pause in which the race was finished.
LEMMA TimerOfPhase ==
  ASSUME ClockInv, CommonInv, NEW t \in timers
  PROVE  \/ t = phase /\ InPlay
         \/ game = "dilemma_race" /\ phase = "finished" /\ t = "resolving"
BY DEF ClockInv, CommonInv, InPlay

\* Whoever enters a phase or finishes the game clears what runs.
LEMMA ClockKept ==
  ASSUME ClockInv, UNCHANGED game,
         \/ UNCHANGED <<phase, result, clock>>
         \/ InPlay /\ \E ranks \in {result'} : Finish(ranks)
         \/ /\ phase # "finished" /\ UNCHANGED result
            /\ \E new \in {phase'} :
                 /\ Enter(new, timers)
                 /\ new \notin {"unborn", "finished"}
                 /\ game = "dilemma_race" => phase = "unborn" /\ new = "choosing"
  PROVE  ClockInv'
<1>1. CASE UNCHANGED <<phase, result, clock>>
  BY <1>1 DEF ClockInv, InPlay, clock
<1>2. CASE InPlay /\ \E ranks \in {result'} : Finish(ranks)
  <2>1. /\ phase' = "finished" /\ timerRef' = "none"
        /\ timers' = timers \ {timerRef}
    BY <1>2 DEF Finish, Cleared
  <2> QED
    BY <1>2, <2>1 DEF ClockInv, InPlay
<1>3. CASE /\ phase # "finished" /\ UNCHANGED result
           /\ \E new \in {phase'} :
                /\ Enter(new, timers)
                /\ new \notin {"unborn", "finished"}
                /\ game = "dilemma_race" => phase = "unborn" /\ new = "choosing"
  <2>1. /\ timers' = (timers \ {timerRef}) \cup {phase'} /\ timerRef' = phase'
        /\ phase' \notin {"unborn", "finished"}
        /\ game = "dilemma_race" => phase = "unborn" /\ phase' = "choosing"
    BY <1>3 DEF Enter, Cleared
  <2>2. timers \ {timerRef} = {}
    BY <1>3, <2>1 DEF ClockInv, InPlay
  <2> QED
    BY <1>3, <2>1, <2>2 DEF ClockInv, InPlay
<1> QED
  BY <1>1, <1>2, <1>3

-----------------------------------------------------------------------------
(* The trust dilemma *)

\* The matrices have an entry for every number of defectors there may be.
LEMMA PayoffType ==
  ASSUME NEW f \in [Players -> {Cooperate, Compete}], NEW p \in Players
  PROVE  Payoff(f[p], Cardinality({q \in Players : f[q] = Compete})) \in Int
<1> DEFINE D == {q \in Players : f[q] = Compete}
           d == Cardinality(D)
           N == Cardinality(Players)
<1>1. IsFiniteSet(Players \ {p}) /\ Cardinality(Players \ {p}) = N - 1
  BY FS_RemoveElement, RoomAssumption
<1>2. IsFiniteSet(D) /\ d <= N
  BY FS_Subset, RoomAssumption
<1>3. N \in Nat /\ d \in Nat
  BY <1>2, FS_CardinalityType, RoomAssumption
<1>4. CASE f[p] = Compete
  <2>1. d # 0
    BY <1>2, <1>4, FS_EmptySet
  <2> HIDE DEF d, N
  <2>2. d \in 1 .. N
    BY <1>2, <1>3, <2>1
  <2>3. N = 3 => <<6, 0, 1>>[d] \in Int
    BY <2>2
  <2>4. N = 4 => <<7, 0, -1, 1>>[d] \in Int
    BY <2>2
  <2>5. Payoff(f[p], d) = CASE N = 3 -> <<6, 0, 1>>[d]
                            [] N = 4 -> <<7, 0, -1, 1>>[d]
                            [] OTHER -> 1
    BY <1>4 DEF Payoff, N
  <2> QED
    BY <2>3, <2>4, <2>5 DEF d
<1>5. CASE f[p] # Compete
  <2>1. D \in SUBSET (Players \ {p})
    BY <1>5
  <2>2. d <= N - 1
    BY <1>1, <2>1, FS_Subset
  <2> HIDE DEF d, N
  <2>3. d + 1 \in 1 .. N
    BY <1>3, <2>2
  <2>4. N = 3 => <<4, 1, 6>>[d + 1] \in Int
    BY <2>3
  <2>5. N = 4 => <<5, 2, 1, 3>>[d + 1] \in Int
    BY <2>3
  <2>6. Payoff(f[p], d) = CASE N = 3 -> <<4, 1, 6>>[d + 1]
                            [] N = 4 -> <<5, 2, 1, 3>>[d + 1]
                            [] OTHER -> 1
    BY <1>5 DEF Payoff, N
  <2> QED
    BY <2>4, <2>5, <2>6 DEF d
<1> QED
  BY <1>4, <1>5

\* A settled round has everybody's choice in it.
LEMMA SettleType ==
  ASSUME NEW chosen \in [Players -> 0 .. 2], score \in [Players -> Int], Settle(chosen)
  PROVE  /\ phase' = "resolving"
         /\ choice' \in [Players -> {Cooperate, Compete}]
         /\ score' \in [Players -> Int]
<1> DEFINE final == [p \in Players |-> IF chosen[p] = 0 THEN Cooperate ELSE chosen[p]]
           defectors == Cardinality({p \in Players : final[p] = Compete})
<1>1. final \in [Players -> {Cooperate, Compete}]
  BY DEF Cooperate, Compete
<1>2. /\ phase' = "resolving" /\ choice' = final
      /\ score' = [p \in Players |-> score[p] + Payoff(final[p], defectors)]
  BY DEF Settle, Enter
<1> HIDE DEF final
<1>3. \A p \in Players : Payoff(final[p], defectors) \in Int
  BY <1>1, PayoffType
<1> HIDE DEF defectors
<1> QED
  BY <1>1, <1>2, <1>3

LEMMA TrustSteps ==
  ASSUME GameInv, ClockInv, game = "trust_dilemma", TrustNext, UNCHANGED <<game, race, typing, slices>>
  PROVE  GameInv'
<1>1. /\ game' = "trust_dilemma" /\ game = "trust_dilemma"
      /\ UNCHANGED <<position, typed, finishTime, cake, alive, eliminated,
                     turnCount, active>>
  BY DEF race, typing, slices
<1>2. RaceInv' /\ TypingInv' /\ CakeInv'
  BY <1>1 DEF GameInv, RaceInv, TypingInv, CakeInv
<1>3. /\ score \in [Players -> Int]
      /\ phase \in {"unborn", "rules", "choosing", "resolving", "finished"}
      /\ phase \in {"unborn", "rules"} => round = 0
      /\ round \in Nat /\ round <= TrustRounds /\ TrustRounds \in Nat /\ TrustRounds >= 1
      /\ choice \in [Players -> 0 .. 2]
  BY <1>1, TrustAssumption DEF GameInv, TrustInv, CommonInv
<1>4. ASSUME NEW ranks, ranks = TrustStanding, Finish(ranks), InPlay,
             UNCHANGED <<present, ready, round, choice, score>>
      PROVE  GameInv'
  <2>1. phase' = "finished" /\ result' = TrustStanding /\ callback' = "sent"
    BY <1>4 DEF Finish
  <2>2. TrustStanding' = TrustStanding /\ TrustStanding \in Rankings
    BY <1>3, <1>4, MostFirst DEF TrustStanding
  <2>3. CommonInv'
    BY <1>1, <1>4, <2>1, <2>2 DEF GameInv, CommonInv
  <2>4. TrustInv'
    BY <1>1, <1>3, <1>4, <2>1 DEF TrustInv
  <2>5. FinalStanding'
    BY <1>1, <2>1, <2>2 DEF FinalStanding, Standing
  <2> QED
    BY <1>2, <2>3, <2>4, <2>5 DEF GameInv
<1>5. ASSUME StartTrustRound, round < TrustRounds, UNCHANGED <<present, result, callback, score>>
      PROVE  GameInv'
  <2>1. /\ phase' = "choosing" /\ round' = round + 1 /\ ready' = {}
        /\ choice' = [p \in Players |-> 0]
    BY <1>5 DEF StartTrustRound, Enter
  <2>2. CommonInv'
    BY <1>1, <1>3, <1>5, <2>1 DEF GameInv, CommonInv
  <2>3. TrustInv'
    BY <1>1, <1>3, <1>5, <2>1 DEF TrustInv
  <2>4. FinalStanding'
    BY <2>1 DEF FinalStanding
  <2> QED
    BY <1>2, <2>2, <2>3, <2>4 DEF GameInv
<1>6. ASSUME NEW chosen \in [Players -> 0 .. 2], Settle(chosen), phase = "choosing",
             UNCHANGED <<present, ready, round, result, callback>>
      PROVE  GameInv'
  <2>1. /\ phase' = "resolving" /\ score' \in [Players -> Int]
        /\ choice' \in [Players -> {Cooperate, Compete}]
    BY <1>3, <1>6, SettleType
  <2>2. choice' \in [Players -> Nat] /\ choice' \in [Players -> 0 .. 2]
    BY <2>1 DEF Cooperate, Compete
  <2>3. CommonInv'
    BY <1>1, <1>6, <2>1, <2>2 DEF GameInv, CommonInv
  <2>4. TrustInv'
    BY <1>1, <1>3, <1>6, <2>1, <2>2 DEF TrustInv
  <2>5. FinalStanding'
    BY <2>1 DEF FinalStanding
  <2> QED
    BY <1>2, <2>3, <2>4, <2>5 DEF GameInv
<1>7. ASSUME NEW p \in Players, TrustCreate(p)
      PROVE  GameInv'
  <2>1. /\ phase = "unborn" /\ phase' = "rules" /\ present' = {p}
        /\ UNCHANGED <<ready, round, choice, result, callback, score>>
    BY <1>7 DEF TrustCreate, Create, Enter
  <2>2. CommonInv' /\ FinalStanding'
    BY <1>1, <2>1 DEF GameInv, CommonInv, FinalStanding
  <2>3. TrustInv'
    BY <1>1, <1>3, <2>1 DEF TrustInv
  <2> QED
    BY <1>2, <2>2, <2>3 DEF GameInv
<1>8. ASSUME NEW p \in Players, TrustConfirm(p)
      PROVE  GameInv'
  <2>1. phase = "rules" /\ UNCHANGED <<present, result, callback, score>>
    BY <1>8 DEF TrustConfirm
  <2>2. CASE StartTrustRound
    BY <1>3, <1>5, <2>1, <2>2
  <2>3. CASE ready' = ready \cup {p} /\ UNCHANGED <<phase, round, choice>>
    <3>1. CommonInv' /\ FinalStanding'
      BY <1>1, <1>8, <2>1, <2>3 DEF GameInv, CommonInv, FinalStanding
    <3>2. TrustInv'
      BY <1>1, <1>3, <2>1, <2>3 DEF TrustInv
    <3> QED
      BY <1>2, <3>1, <3>2 DEF GameInv
  <2> QED
    BY <1>8, <2>2, <2>3 DEF TrustConfirm
<1>9. ASSUME NEW p \in Players, NEW c \in {Cooperate, Compete}, Choose(p, c)
      PROVE  GameInv'
  <2> DEFINE chosen == [choice EXCEPT ![p] = c]
  <2>1. chosen \in [Players -> 0 .. 2]
    BY <1>3 DEF Cooperate, Compete
  <2>2. phase = "choosing" /\ UNCHANGED <<present, ready, round, result, callback>>
    BY <1>9 DEF Choose
  <2>3. Settle(chosen) \/ (choice' = chosen /\ UNCHANGED <<phase, score>>)
    BY <1>9 DEF Choose
  <2> HIDE DEF chosen
  <2>4. CASE Settle(chosen)
    BY <1>6, <2>1, <2>2, <2>4
  <2>5. CASE choice' = chosen /\ UNCHANGED <<phase, score>>
    <3>1. choice' \in [Players -> Nat]
      BY <2>1, <2>5
    <3>2. CommonInv' /\ FinalStanding'
      BY <1>1, <2>2, <2>5, <3>1 DEF GameInv, CommonInv, FinalStanding
    <3>3. TrustInv'
      BY <1>1, <1>3, <2>1, <2>2, <2>5 DEF TrustInv
    <3> QED
      BY <1>2, <3>2, <3>3 DEF GameInv
  <2> QED
    BY <2>3, <2>4, <2>5
<1>10. ASSUME TrustTimer
       PROVE  GameInv'
  <2>1. \A x \in timers : x = phase /\ InPlay
    BY <1>1, TimerOfPhase DEF GameInv
  <2>2. CASE /\ timers \cap {"rules", "resolving"} # {}
             /\ StartTrustRound
             /\ UNCHANGED <<present, result, callback, score>>
    <3>1. round < TrustRounds
      BY <2>2 DEF StartTrustRound
    <3> QED
      BY <1>5, <2>2, <3>1
  <2>3. CASE /\ timers \cap {"rules", "resolving"} # {} /\ round >= TrustRounds
             /\ Finish(TrustStanding)
             /\ UNCHANGED <<present, ready, round, choice, score>>
    BY <1>4, <2>1, <2>3
  <2>4. CASE /\ "choosing" \in timers /\ Settle(choice)
             /\ UNCHANGED <<present, ready, round, result, callback>>
    BY <1>3, <1>6, <2>1, <2>4
  <2> QED
    BY <1>10, <2>2, <2>3, <2>4 DEF TrustTimer
<1>11. ASSUME TrustForceFinish
       PROVE  GameInv'
  BY <1>4, <1>11 DEF TrustForceFinish
<1> QED
  BY <1>7, <1>8, <1>9, <1>10, <1>11 DEF TrustNext

-----------------------------------------------------------------------------
(* The race *)

LEMMA RaceSteps ==
  ASSUME GameInv, ClockInv, game = "dilemma_race", RaceNext, UNCHANGED <<game, trust, typing, slices>>
  PROVE  GameInv'
<1>1. /\ game' = "dilemma_race" /\ game = "dilemma_race"
      /\ UNCHANGED <<score, typed, finishTime, cake, alive, eliminated, turnCount, active>>
  BY DEF trust, typing, slices
<1>2. TrustInv' /\ TypingInv' /\ CakeInv'
  BY <1>1 DEF GameInv, TrustInv, TypingInv, CakeInv
<1>3. /\ position \in [Players -> 1 .. FinishLine]
      /\ phase \in {"unborn", "choosing", "resolving", "finished"}
      /\ phase = "unborn" => round = 0
      /\ phase = "resolving" => round < RaceRounds
      /\ phase # "finished" => \A p \in Players : position[p] < FinishLine
      /\ round \in Nat /\ round <= RaceRounds /\ RaceRounds \in Nat /\ RaceRounds >= 1
      /\ FinishLine \in Nat
      /\ choice \in [Players -> Nat]
  BY <1>1, RaceAssumption DEF GameInv, RaceInv, CommonInv
<1>4. ASSUME NEW p \in Players, RaceCreate(p)
      PROVE  GameInv'
  <2>1. /\ phase = "unborn" /\ phase' = "choosing" /\ present' = {p} /\ round' = 1
        /\ UNCHANGED <<ready, choice, result, callback, position>>
    BY <1>4 DEF RaceCreate, Create, Enter
  <2>2. CommonInv' /\ FinalStanding'
    BY <1>1, <2>1 DEF GameInv, CommonInv, FinalStanding
  <2>3. RaceInv'
    BY <1>1, <1>3, <2>1 DEF RaceInv
  <2> QED
    BY <1>2, <2>2, <2>3 DEF GameInv
<1>5. ASSUME NEW p \in Players, NEW s \in Strides, Pick(p, s)
      PROVE  GameInv'
  <2>1. /\ phase = "choosing" /\ choice' = [choice EXCEPT ![p] = s]
        /\ UNCHANGED <<phase, present, ready, round, result, callback, position>>
    BY <1>5 DEF Pick
  <2>2. choice' \in [Players -> Nat]
    BY <1>3, <2>1, RaceAssumption
  <2>3. CommonInv' /\ FinalStanding'
    BY <1>1, <2>1, <2>2 DEF GameInv, CommonInv, FinalStanding
  <2>4. RaceInv'
    BY <1>1, <1>3, <2>1 DEF RaceInv
  <2> QED
    BY <1>2, <2>3, <2>4 DEF GameInv
<1>6. ASSUME RaceTimer
      PROVE  GameInv'
  <2> DEFINE at == [p \in Players |-> Moved(p)]
  <2>1. /\ phase = "choosing" /\ position' = at
        /\ UNCHANGED <<present, ready, round, choice>>
        /\ \/ RaceOver(at) /\ Finish(RaceStanding')
           \/ /\ ~RaceOver(at)
              /\ phase' = "resolving"
              /\ UNCHANGED <<result, callback>>
    <3>1. phase = "choosing"
      BY <1>6, TimerOfPhase DEF RaceTimer, GameInv
    <3> QED
      BY <1>6, <3>1 DEF RaceTimer
  <2>2. \A p \in Players : Moved(p) \in 1 .. FinishLine
    <3> SUFFICES ASSUME NEW p \in Players PROVE Moved(p) \in 1 .. FinishLine
      OBVIOUS
    <3>1. Stride(p) \in Nat /\ position[p] \in 1 .. FinishLine
      BY <1>3 DEF Stride
    <3> QED
      BY <1>3, <3>1 DEF Moved
  <2>3. position' \in [Players -> 1 .. FinishLine]
    BY <2>1, <2>2
  <2>4. RaceStanding' \in Rankings
    <3>1. position' \in [Players -> Int]
      BY <1>3, <2>3
    <3> QED
      BY <3>1, MostFirst DEF RaceStanding, Ranks
  <2> HIDE DEF at
  <2>5. CASE RaceOver(at) /\ Finish(RaceStanding')
    <3>1. phase' = "finished" /\ result' = RaceStanding' /\ callback' = "sent"
      BY <2>5 DEF Finish
    <3>2. CommonInv'
      BY <1>1, <2>1, <2>4, <3>1 DEF GameInv, CommonInv
    <3>3. RaceInv'
      BY <1>1, <1>3, <2>1, <2>3, <2>5, <3>1 DEF RaceInv
    <3>4. FinalStanding'
      BY <1>1, <3>1 DEF FinalStanding, Standing
    <3> QED
      BY <1>2, <3>2, <3>3, <3>4 DEF GameInv
  <2>6. CASE /\ ~RaceOver(at)
             /\ phase' = "resolving"
             /\ UNCHANGED <<result, callback>>
    <3>1. round < RaceRounds /\ \A p \in Players : position'[p] < FinishLine
      BY <1>3, <2>1, <2>3, <2>6 DEF RaceOver
    <3>2. CommonInv' /\ FinalStanding'
      BY <1>1, <2>1, <2>6 DEF GameInv, CommonInv, FinalStanding
    <3>3. RaceInv'
      BY <1>1, <1>3, <2>1, <2>3, <2>6, <3>1 DEF RaceInv
    <3> QED
      BY <1>2, <3>2, <3>3 DEF GameInv
  <2> QED
    BY <2>1, <2>5, <2>6
<1>7. ASSUME PauseTimer
      PROVE  GameInv'
  <2>1. /\ phase \in {"resolving", "finished"}
        /\ UNCHANGED <<present, ready, result, callback, position>>
    BY <1>7, TimerOfPhase DEF PauseTimer, GameInv
  <2>2. CASE phase = "finished" /\ UNCHANGED <<phase, round, choice>>
    <3>1. CommonInv'
      BY <1>1, <2>1, <2>2 DEF GameInv, CommonInv
    <3>2. RaceInv'
      BY <1>1, <1>3, <2>1, <2>2 DEF RaceInv
    <3>3. FinalStanding'
      BY <1>1, <2>1, <2>2 DEF GameInv, FinalStanding, Standing, RaceStanding
    <3> QED
      BY <1>2, <3>1, <3>2, <3>3 DEF GameInv
  <2>3. CASE /\ phase # "finished"
             /\ phase' = "choosing" /\ round' = round + 1
             /\ choice' = [p \in Players |-> 0]
    <3>1. CommonInv' /\ FinalStanding'
      BY <1>1, <1>3, <2>1, <2>3 DEF GameInv, CommonInv, FinalStanding
    <3>2. round' <= RaceRounds /\ \A p \in Players : position'[p] < FinishLine
      BY <1>3, <2>1, <2>3
    <3>3. RaceInv'
      BY <1>1, <1>3, <2>1, <2>3, <3>2 DEF RaceInv
    <3> QED
      BY <1>2, <3>1, <3>3 DEF GameInv
  <2> QED
    BY <1>7, <2>2, <2>3 DEF PauseTimer, Enter
<1>8. ASSUME RaceForceFinish
      PROVE  GameInv'
  <2>1. /\ phase' = "finished" /\ result' = RaceStanding /\ callback' = "sent"
        /\ UNCHANGED <<present, ready, round, choice, position>>
    BY <1>8 DEF RaceForceFinish, Finish
  <2>2. RaceStanding \in Rankings /\ RaceStanding' = RaceStanding
    <3>1. position \in [Players -> Int]
      BY <1>3
    <3> QED
      BY <2>1, <3>1, MostFirst DEF RaceStanding
  <2>3. CommonInv'
    BY <1>1, <2>1, <2>2 DEF GameInv, CommonInv
  <2>4. RaceInv'
    BY <1>1, <1>3, <2>1 DEF RaceInv
  <2>5. FinalStanding'
    BY <1>1, <2>1, <2>2 DEF FinalStanding, Standing
  <2> QED
    BY <1>2, <2>3, <2>4, <2>5 DEF GameInv
<1> QED
  BY <1>4, <1>5, <1>6, <1>7, <1>8 DEF RaceNext

-----------------------------------------------------------------------------
(* Typing *)

\* The time of the latest text finished is one of the players' times, or none.
LEMMA LatestType ==
  ASSUME finishTime \in [Players -> Nat]
  PROVE  Latest \in Nat
<1> DEFINE S == {finishTime[p] : p \in Players} \cup {0}
<1>1. PICK p \in Players : \A q \in Players : finishTime[q] <= finishTime[p]
  BY GreatestExists
<1>2. finishTime[p] \in S /\ S \subseteq Nat
  OBVIOUS
<1>3. Latest = CHOOSE t \in S : \A q \in Players : finishTime[q] <= t
  BY DEF Latest
<1> HIDE DEF S
<1>4. Latest \in S
  BY <1>1, <1>2, <1>3
<1> QED
  BY <1>2, <1>4

LEMMA TypingSteps ==
  ASSUME GameInv, ClockInv, game = "typing_speed", TypingNext, UNCHANGED <<game, trust, race, slices>>
  PROVE  GameInv'
<1>1. /\ game' = "typing_speed" /\ game = "typing_speed"
      /\ UNCHANGED <<score, position, cake, alive, eliminated, turnCount, active>>
  BY DEF trust, race, slices
<1>2. TrustInv' /\ RaceInv' /\ CakeInv'
  BY <1>1 DEF GameInv, TrustInv, RaceInv, CakeInv
<1>3. /\ typed \in [Players -> 0 .. TextLength] /\ finishTime \in [Players -> Nat]
      /\ phase \in {"unborn", "rules", "countdown", "playing", "finished"}
      /\ TextLength \in Nat
  BY <1>1, TypingAssumption DEF GameInv, TypingInv
<1>4. ASSUME NEW n \in [Players -> 0 .. TextLength], NEW t \in [Players -> Nat]
      PROVE  n \in [Players -> Int] /\ t \in [Players -> Int]
  BY <1>3, <1>4
<1>5. ASSUME Finish(TypingStanding), UNCHANGED <<present, ready, round, choice, typed, finishTime>>
      PROVE  GameInv'
  <2>1. phase' = "finished" /\ result' = TypingStanding /\ callback' = "sent"
    BY <1>5 DEF Finish
  <2>2. TypingStanding \in Rankings
    BY <1>3, <1>4, FastestFirst DEF TypingStanding, Completed
  <2>3. TypingStanding' = TypingStanding
    BY <1>5 DEF TypingStanding, Completed
  <2>4. CommonInv'
    BY <1>1, <1>5, <2>1, <2>2 DEF GameInv, CommonInv
  <2>5. TypingInv' /\ FinalStanding'
    BY <1>1, <1>3, <1>5, <2>1, <2>3 DEF TypingInv, FinalStanding, Standing
  <2> QED
    BY <1>2, <2>4, <2>5 DEF GameInv
<1>6. ASSUME phase' \in {"rules", "countdown", "playing"},
             UNCHANGED <<ready, round, choice, result, callback, typed, finishTime>>,
             present' \subseteq Players
      PROVE  GameInv'
  <2>1. CommonInv' /\ FinalStanding'
    BY <1>1, <1>6 DEF GameInv, CommonInv, FinalStanding
  <2>2. TypingInv'
    BY <1>3, <1>6 DEF TypingInv
  <2> QED
    BY <1>2, <2>1, <2>2 DEF GameInv
<1>7. ASSUME NEW p \in Players, TypingCreate(p)
      PROVE  GameInv'
  BY <1>6, <1>7 DEF TypingCreate, Create, Enter
<1>8. ASSUME NEW p \in Players, NEW n \in 1 .. TextLength, SubmitProgress(p, n)
      PROVE  GameInv'
  <2>1. /\ phase = "playing" /\ typed' = [typed EXCEPT ![p] = n]
        /\ \/ UNCHANGED finishTime
           \/ \E t \in {Latest, Latest + 1} \ {0} : finishTime' = [finishTime EXCEPT ![p] = t]
        /\ \/ Finish(TypingStanding')
           \/ UNCHANGED <<phase, result, callback>>
        /\ UNCHANGED <<present, ready, round, choice>>
    BY <1>8 DEF SubmitProgress
  <2>2. typed' \in [Players -> 0 .. TextLength]
    BY <1>3, <2>1
  <2>3. finishTime' \in [Players -> Nat]
    <3>1. Latest \in Nat
      BY <1>3, LatestType
    <3> QED
      BY <1>3, <2>1, <3>1
  <2>4. TypingStanding' \in Rankings
    <3>1. typed' \in [Players -> Int] /\ finishTime' \in [Players -> Int]
      BY <1>4, <2>2, <2>3
    <3> QED
      BY <3>1, FastestFirst DEF TypingStanding, Completed, Ranks
  <2>5. CASE Finish(TypingStanding')
    <3>1. phase' = "finished" /\ result' = TypingStanding' /\ callback' = "sent"
      BY <2>5 DEF Finish
    <3>2. CommonInv'
      BY <1>1, <2>1, <2>4, <3>1 DEF GameInv, CommonInv
    <3>3. TypingInv' /\ FinalStanding'
      BY <1>1, <2>2, <2>3, <3>1 DEF TypingInv, FinalStanding, Standing
    <3> QED
      BY <1>2, <3>2, <3>3 DEF GameInv
  <2>6. CASE UNCHANGED <<phase, result, callback>>
    <3>1. CommonInv' /\ FinalStanding'
      BY <1>1, <2>1, <2>6 DEF GameInv, CommonInv, FinalStanding
    <3>2. TypingInv'
      BY <1>1, <2>1, <2>2, <2>3, <2>6 DEF TypingInv
    <3> QED
      BY <1>2, <3>1, <3>2 DEF GameInv
  <2> QED
    BY <2>1, <2>5, <2>6
<1>9. ASSUME TypingTimer
      PROVE  GameInv'
  <2>1. present' \subseteq Players
    BY <1>9 DEF TypingTimer, GameInv, CommonInv
  <2> QED
    BY <1>5, <1>6, <1>9, <2>1 DEF TypingTimer, Enter
<1>10. ASSUME TypingForceFinish
       PROVE  GameInv'
  BY <1>5, <1>10 DEF TypingForceFinish
<1> QED
  BY <1>7, <1>8, <1>9, <1>10 DEF TypingNext

-----------------------------------------------------------------------------
(* The cake *)

\* A turn is started for one of two or more, or the last one has won.
LEMMA StartTurnInv ==
  ASSUME CommonInv, TrustInv', RaceInv', TypingInv',
         game' = "cake_cutting", game = "cake_cutting",
         UNCHANGED <<present, round, choice>>, ready' \subseteq Players,
         cake' \in Nat \X Nat, cake'[1] <= cake'[2], cake'[2] <= CakeSize,
         alive' \subseteq Players, alive' # {},
         eliminated' \in [Players -> Nat], turnCount' \in Nat,
         NEW i \in 1 .. Len(Order), StartTurn(i)
  PROVE  GameInv'
<1>1. CASE Cardinality(alive') <= 1 /\ Finish(CakeStanding') /\ active' = i
  <2>1. phase' = "finished" /\ result' = CakeStanding' /\ callback' = "sent"
    BY <1>1 DEF Finish
  <2>2. CakeStanding' \in Rankings
    <3>1. Survival(alive', eliminated') \in Rankings
      BY SurvivorsFirst
    <3> QED
      BY <3>1 DEF CakeStanding, Survival, Ranks
  <2>3. CommonInv'
    BY <2>1, <2>2 DEF CommonInv
  <2>4. CakeInv'
    BY <1>1, <2>1 DEF CakeInv
  <2>5. FinalStanding'
    BY <2>1 DEF FinalStanding, Standing
  <2> QED
    BY <2>3, <2>4, <2>5 DEF GameInv
<1>2. CASE /\ Cardinality(alive') > 1
           /\ phase' = "playing"
           /\ active' = NextAlive(i, alive')
           /\ UNCHANGED <<result, callback>>
  <2>1. active' \in 1 .. Len(Order) /\ Order[active'] \in alive'
    BY <1>2, NextIsAlive
  <2>2. CommonInv' /\ FinalStanding'
    BY <1>2 DEF CommonInv, FinalStanding
  <2>3. CakeInv'
    BY <1>2, <2>1 DEF CakeInv, ActivePlayer
  <2> QED
    BY <2>2, <2>3 DEF GameInv
<1> QED
  BY <1>1, <1>2 DEF StartTurn, Enter

LEMMA CakeSteps ==
  ASSUME GameInv, ClockInv, game = "cake_cutting", CakeNext, UNCHANGED <<game, trust, race, typing>>
  PROVE  GameInv'
<1>1. /\ game' = "cake_cutting" /\ game = "cake_cutting"
      /\ UNCHANGED <<score, position, typed, finishTime>>
  BY DEF trust, race, typing
<1>2. TrustInv' /\ RaceInv' /\ TypingInv'
  BY <1>1 DEF GameInv, TrustInv, RaceInv, TypingInv
<1>3. /\ cake \in Nat \X Nat /\ cake[1] <= cake[2] /\ cake[2] <= CakeSize
      /\ active \in 1 .. Len(Order)
      /\ alive \subseteq Players /\ alive # {}
      /\ eliminated \in [Players -> Nat] /\ turnCount \in Nat
      /\ phase \in {"unborn", "rules", "playing", "resolving_cut", "finished"}
      /\ phase = "playing" => Cardinality(alive) > 1 /\ ActivePlayer \in alive
  BY <1>1 DEF GameInv, CakeInv
<1>4. /\ CommonInv /\ CakeSize \in Nat
      /\ Len(Order) \in Nat /\ 1 \in 1 .. Len(Order)
      /\ (active % Len(Order)) + 1 \in 1 .. Len(Order)
  <2>1. Len(Order) \in Nat /\ Len(Order) >= 1
    BY <1>3, CakeAssumption
  <2> QED
    BY <1>3, <2>1, CakeAssumption, SMTT(30) DEF GameInv
<1>5. ASSUME UNCHANGED <<round, choice, result, callback, slices>>,
             present' \subseteq Players, ready' \subseteq Players,
             phase' \in {"rules", "playing"}, phase' = "playing" => phase = "playing"
      PROVE  GameInv'
  <2>1. CommonInv' /\ FinalStanding'
    BY <1>1, <1>5 DEF GameInv, CommonInv, FinalStanding
  <2>2. CakeInv'
    BY <1>1, <1>3, <1>5 DEF CakeInv, ActivePlayer, slices
  <2> QED
    BY <1>2, <2>1, <2>2 DEF GameInv
<1>6. ASSUME StartPlaying, UNCHANGED <<present, round, choice>>, ready' \subseteq Players
      PROVE  GameInv'
  <2>1. /\ cake' = <<0, CakeSize>> /\ turnCount' = 0
        /\ alive' = Players /\ eliminated' = [p \in Players |-> 0]
        /\ StartTurn(1)
    BY <1>6 DEF StartPlaying
  <2>2. cake' \in Nat \X Nat /\ cake'[1] <= cake'[2] /\ cake'[2] <= CakeSize
    BY <1>4, <2>1
  <2>3. eliminated' \in [Players -> Nat] /\ turnCount' \in Nat /\ alive' # {}
    BY <2>1, RoomAssumption
  <2> QED
    BY <1>1, <1>2, <1>4, <1>6, <2>1, <2>2, <2>3, StartTurnInv
<1>7. ASSUME NextTurn, UNCHANGED <<present, ready, round, choice, cake, turnCount>>,
             alive' \subseteq Players, alive' # {}, eliminated' \in [Players -> Nat]
      PROVE  GameInv'
  <2>1. StartTurn((active % Len(Order)) + 1)
    BY <1>7 DEF NextTurn
  <2>2. ready' \subseteq Players
    BY <1>4, <1>7 DEF CommonInv
  <2> QED
    BY <1>1, <1>2, <1>3, <1>4, <1>7, <2>1, <2>2, StartTurnInv
<1>8. ASSUME phase = "playing"
      PROVE  /\ alive \ {ActivePlayer} # {} /\ ActivePlayer \in Players
             /\ alive \ {ActivePlayer} \subseteq Players
  <2>1. IsFiniteSet(alive)
    BY <1>3, FS_Subset, RoomAssumption
  <2>2. Cardinality(alive \ {ActivePlayer}) = Cardinality(alive) - 1 /\ Cardinality(alive) \in Nat
    BY <1>3, <1>8, <2>1, FS_RemoveElement, FS_CardinalityType
  <2>3. alive \ {ActivePlayer} # {}
    <3>1. Cardinality(alive \ {ActivePlayer}) # 0
      BY <1>3, <1>8, <2>2
    <3> QED
      BY <3>1, FS_EmptySet
  <2> QED
    BY <1>3, <1>8, <2>3
<1>9. ASSUME NEW n \in Nat, phase = "playing", Eliminate(ActivePlayer, n)
      PROVE  alive' \subseteq Players /\ alive' # {} /\ eliminated' \in [Players -> Nat]
  <2>1. alive' = alive \ {ActivePlayer} /\ eliminated' = [eliminated EXCEPT ![ActivePlayer] = n]
    BY <1>9 DEF Eliminate
  <2> HIDE DEF ActivePlayer
  <2> QED
    BY <1>3, <1>8, <1>9, <2>1
<1>10. ASSUME NEW p \in Players, CakeCreate(p)
       PROVE  GameInv'
  <2>1. ready' \subseteq Players
    BY <1>4, <1>10 DEF CakeCreate, CommonInv
  <2> QED
    BY <1>5, <1>10, <2>1 DEF CakeCreate, Create, Enter
<1>11. ASSUME NEW p \in Players, CakeConfirm(p)
       PROVE  GameInv'
  <2>1. /\ phase = "rules" /\ ready' = ready \cup {p} /\ UNCHANGED <<present, round, choice>>
        /\ StartPlaying \/ UNCHANGED <<phase, result, callback, slices>>
    BY <1>11 DEF CakeConfirm
  <2>2. ready' \subseteq Players /\ present \subseteq Players
    BY <1>4, <2>1 DEF CommonInv
  <2> QED
    BY <1>5, <1>6, <2>1, <2>2
<1>12. ASSUME NEW pos \in -1 .. CakeSize + 1, CutCake(pos)
       PROVE  GameInv'
  <2>1. /\ phase = "playing" /\ phase' = "resolving_cut" /\ turnCount' = Counted
        /\ UNCHANGED <<present, ready, round, choice, result, callback, active>>
        /\ \/ Eliminate(ActivePlayer, turnCount') /\ UNCHANGED cake
           \/ /\ Inside(pos) /\ cake' = Smaller(pos)
              /\ UNCHANGED <<alive, eliminated>>
    BY <1>12 DEF CutCake, Enter
  <2>2. turnCount' \in Nat
    BY <1>3, <2>1 DEF Counted
  <2>3. /\ alive' \subseteq Players /\ alive' # {} /\ eliminated' \in [Players -> Nat]
        /\ cake' \in Nat \X Nat /\ cake'[1] <= cake'[2] /\ cake'[2] <= CakeSize
    <3>1. CASE Eliminate(ActivePlayer, turnCount') /\ UNCHANGED cake
      BY <1>3, <1>9, <2>1, <2>2, <3>1
    <3>2. CASE /\ Inside(pos) /\ cake' = Smaller(pos)
               /\ UNCHANGED <<alive, eliminated>>
      <4>1. pos \in Nat /\ cake[1] <= pos /\ pos <= cake[2]
        BY <1>3, <1>4, <3>2 DEF Inside
      <4> QED
        BY <1>3, <1>4, <3>2, <4>1 DEF Smaller
    <3> QED
      BY <2>1, <3>1, <3>2
  <2>4. CommonInv' /\ FinalStanding'
    BY <1>1, <1>4, <2>1 DEF CommonInv, FinalStanding
  <2>5. CakeInv'
    BY <1>1, <1>3, <2>1, <2>2, <2>3 DEF CakeInv
  <2> QED
    BY <1>2, <2>4, <2>5 DEF GameInv
<1>13. ASSUME CakeTimer
       PROVE  GameInv'
  <2>1. UNCHANGED <<present, ready, round, choice>> /\ ready' \subseteq Players
    BY <1>4, <1>13 DEF CakeTimer, CommonInv
  <2>2. CASE "rules" \in timers /\ StartPlaying
    BY <1>6, <2>1, <2>2
  <2>3. CASE /\ "playing" \in timers
             /\ Eliminate(ActivePlayer, turnCount) /\ NextTurn
             /\ UNCHANGED <<cake, turnCount>>
    <3>1. phase = "playing"
      BY <1>1, <1>4, <2>3, TimerOfPhase
    <3>2. alive' \subseteq Players /\ alive' # {} /\ eliminated' \in [Players -> Nat]
      BY <1>3, <1>9, <2>3, <3>1
    <3> QED
      BY <1>7, <2>1, <2>3, <3>2
  <2>4. CASE /\ "resolving_cut" \in timers
             /\ UNCHANGED <<cake, alive, eliminated, turnCount>>
             /\ NextTurn
    BY <1>3, <1>7, <2>1, <2>4
  <2> QED
    BY <1>13, <2>2, <2>3, <2>4 DEF CakeTimer
<1>14. ASSUME CakeForceFinish
       PROVE  GameInv'
  <2>1. /\ phase' = "finished" /\ result' = CakeStanding /\ callback' = "sent"
        /\ UNCHANGED <<present, ready, round, choice, slices>>
    BY <1>14 DEF CakeForceFinish, Finish
  <2>2. CakeStanding \in Rankings
    <3>1. Survival(alive, eliminated) \in Rankings
      BY <1>3, SurvivorsFirst
    <3> QED
      BY <3>1 DEF CakeStanding, Survival
  <2>3. CakeStanding' = CakeStanding
    BY <2>1 DEF CakeStanding, slices
  <2>4. CommonInv'
    BY <1>1, <1>4, <2>1, <2>2 DEF CommonInv
  <2>5. CakeInv'
    BY <1>1, <1>3, <2>1 DEF CakeInv, slices
  <2>6. FinalStanding'
    BY <1>1, <2>1, <2>3 DEF FinalStanding, Standing
  <2> QED
    BY <1>2, <2>4, <2>5, <2>6 DEF GameInv
<1> QED
  BY <1>10, <1>11, <1>12, <1>13, <1>14 DEF CakeNext

-----------------------------------------------------------------------------
(* The timers of the games *)

LEMMA TrustClock ==
  ASSUME GameInv, ClockInv, UNCHANGED game, game = "trust_dilemma", TrustNext
  PROVE  ClockInv'
<1>1. CommonInv /\ \A x \in timers : x = phase /\ InPlay
  BY TimerOfPhase DEF GameInv
<1>2. ASSUME StartTrustRound, UNCHANGED result
      PROVE  ClockInv'
  BY <1>2, ClockKept DEF StartTrustRound, Enter
<1>3. ASSUME NEW chosen, Settle(chosen), UNCHANGED result
      PROVE  ClockInv'
  BY <1>3, ClockKept DEF Settle, Enter
<1>4. ASSUME Finish(TrustStanding), InPlay
      PROVE  ClockInv'
  BY <1>4, ClockKept DEF Finish
<1>5. ASSUME NEW p \in Players, TrustCreate(p)
      PROVE  ClockInv'
  BY <1>5, ClockKept DEF TrustCreate, Create, Enter
<1>6. ASSUME NEW p \in Players, TrustConfirm(p)
      PROVE  ClockInv'
  <2>1. CASE UNCHANGED <<phase, result, clock>>
    BY <2>1, ClockKept
  <2> QED
    BY <1>2, <1>6, <2>1 DEF TrustConfirm
<1>7. ASSUME NEW p \in Players, NEW c \in {Cooperate, Compete}, Choose(p, c)
      PROVE  ClockInv'
  <2>1. CASE UNCHANGED <<phase, result, clock>>
    BY <2>1, ClockKept
  <2> QED
    BY <1>3, <1>7, <2>1 DEF Choose
<1>8. ASSUME TrustTimer
      PROVE  ClockInv'
  BY <1>1, <1>2, <1>3, <1>4, <1>8 DEF TrustTimer
<1>9. ASSUME TrustForceFinish
      PROVE  ClockInv'
  BY <1>4, <1>9 DEF TrustForceFinish
<1> QED
  BY <1>5, <1>6, <1>7, <1>8, <1>9 DEF TrustNext

\* The pause sets a timer and forgets it; its expiry is what clears it.
LEMMA RaceClock ==
  ASSUME GameInv, ClockInv, UNCHANGED game, game = "dilemma_race", RaceNext
  PROVE  ClockInv'
<1>1. ASSUME NEW ranks, Finish(ranks), InPlay
      PROVE  ClockInv'
  BY <1>1, ClockKept DEF Finish
<1>2. ASSUME NEW p \in Players, RaceCreate(p)
      PROVE  ClockInv'
  BY <1>2, ClockKept DEF RaceCreate, Create, Enter
<1>3. ASSUME NEW p \in Players, NEW s \in Strides, Pick(p, s)
      PROVE  ClockInv'
  BY <1>3, ClockKept DEF Pick
<1>4. ASSUME RaceTimer
      PROVE  ClockInv'
  <2>1. phase = "choosing" /\ InPlay
    BY <1>4, TimerOfPhase DEF RaceTimer, GameInv
  <2>2. CASE Finish(RaceStanding')
    BY <1>1, <2>1, <2>2
  <2>3. CASE /\ phase' = "resolving" /\ UNCHANGED result
             /\ timers' = Cleared(timers) \cup {"resolving"} /\ timerRef' = "none"
    <3>1. timers = {"choosing"} /\ timerRef = "choosing"
      BY <2>1 DEF ClockInv
    <3> QED
      BY <2>1, <2>3, <3>1 DEF ClockInv, InPlay, Cleared
  <2> QED
    BY <1>4, <2>2, <2>3 DEF RaceTimer
<1>5. ASSUME PauseTimer
      PROVE  ClockInv'
  <2>1. "resolving" \in timers /\ UNCHANGED result
    BY <1>5 DEF PauseTimer
  <2>2. CASE /\ phase = "finished" /\ timers' = timers \ {"resolving"}
             /\ UNCHANGED <<phase, round, choice, timerRef>>
    BY <2>1, <2>2 DEF ClockInv, InPlay
  <2>3. CASE phase # "finished" /\ Enter("choosing", timers \ {"resolving"})
    <3>1. timers = {"resolving"}
      BY <2>1, <2>3 DEF ClockInv, InPlay
    <3>2. phase' = "choosing" /\ timers' = {"choosing"} /\ timerRef' = "choosing"
      BY <2>3, <3>1 DEF Enter, Cleared
    <3> QED
      BY <2>1, <2>3, <3>2 DEF ClockInv, InPlay
  <2> QED
    BY <1>5, <2>2, <2>3 DEF PauseTimer
<1>6. ASSUME RaceForceFinish
      PROVE  ClockInv'
  BY <1>1, <1>6 DEF RaceForceFinish
<1> QED
  BY <1>2, <1>3, <1>4, <1>5, <1>6 DEF RaceNext

LEMMA TypingClock ==
  ASSUME GameInv, ClockInv, UNCHANGED game, game = "typing_speed", TypingNext
  PROVE  ClockInv'
<1>1. CommonInv /\ \A x \in timers : x = phase /\ InPlay
  BY TimerOfPhase DEF GameInv
<1>2. ASSUME NEW ranks, Finish(ranks), InPlay
      PROVE  ClockInv'
  BY <1>2, ClockKept DEF Finish
<1>3. ASSUME NEW p \in Players, TypingCreate(p)
      PROVE  ClockInv'
  BY <1>3, ClockKept DEF TypingCreate, Create, Enter
<1>4. ASSUME NEW p \in Players, NEW n \in 1 .. TextLength, SubmitProgress(p, n)
      PROVE  ClockInv'
  <2>1. InPlay
    BY <1>4 DEF SubmitProgress, InPlay
  <2>2. CASE UNCHANGED <<phase, result, clock>>
    BY <2>2, ClockKept
  <2> QED
    BY <1>2, <1>4, <2>1, <2>2 DEF SubmitProgress
<1>5. ASSUME TypingTimer
      PROVE  ClockInv'
  <2>1. InPlay
    BY <1>1, <1>5 DEF TypingTimer
  <2>2. CASE Enter("countdown", timers) /\ UNCHANGED result
    BY <2>1, <2>2, ClockKept DEF Enter, InPlay
  <2>3. CASE Enter("playing", timers) /\ UNCHANGED result
    BY <2>1, <2>3, ClockKept DEF Enter, InPlay
  <2> QED
    BY <1>2, <1>5, <2>1, <2>2, <2>3 DEF TypingTimer
<1>6. ASSUME TypingForceFinish
      PROVE  ClockInv'
  BY <1>2, <1>6 DEF TypingForceFinish
<1> QED
  BY <1>3, <1>4, <1>5, <1>6 DEF TypingNext

LEMMA CakeClock ==
  ASSUME GameInv, ClockInv, UNCHANGED game, game = "cake_cutting", CakeNext
  PROVE  ClockInv'
<1>1. CommonInv /\ \A x \in timers : x = phase /\ InPlay
  BY TimerOfPhase DEF GameInv
<1>2. ASSUME NEW ranks, Finish(ranks), InPlay
      PROVE  ClockInv'
  BY <1>2, ClockKept DEF Finish
<1>3. ASSUME NEW i, StartTurn(i), InPlay
      PROVE  ClockInv'
  <2>1. CASE Enter("playing", timers) /\ UNCHANGED result
    BY <1>3, <2>1, ClockKept DEF Enter, InPlay
  <2> QED
    BY <1>2, <1>3, <2>1 DEF StartTurn
<1>4. ASSUME NEW p \in Players, CakeCreate(p)
      PROVE  ClockInv'
  BY <1>4, ClockKept DEF CakeCreate, Create, Enter
<1>5. ASSUME NEW p \in Players, CakeConfirm(p)
      PROVE  ClockInv'
  <2>1. InPlay
    BY <1>5 DEF CakeConfirm, InPlay
  <2>2. CASE UNCHANGED <<phase, result, clock>>
    BY <2>2, ClockKept
  <2> QED
    BY <1>3, <1>5, <2>1, <2>2 DEF CakeConfirm, StartPlaying
<1>6. ASSUME NEW pos \in -1 .. CakeSize + 1, CutCake(pos)
      PROVE  ClockInv'
  BY <1>6, ClockKept DEF CutCake, Enter
<1>7. ASSUME CakeTimer
      PROVE  ClockInv'
  BY <1>1, <1>3, <1>7 DEF CakeTimer, StartPlaying, NextTurn
<1>8. ASSUME CakeForceFinish
      PROVE  ClockInv'
  BY <1>2, <1>8 DEF CakeForceFinish
<1> QED
  BY <1>4, <1>5, <1>6, <1>7, <1>8 DEF CakeNext

-----------------------------------------------------------------------------
(* The inductive invariant holds *)

LEMMA InitRoomsInv == Init => RoomsInv
<1> SUFFICES ASSUME Init PROVE RoomsInv
  OBVIOUS
<1>1. /\ TrustRounds \in Nat /\ RaceRounds \in Nat /\ TextLength \in Nat /\ CakeSize \in Nat
      /\ FinishLine \in Nat /\ FinishLine > 1
      /\ Players # {}
  BY RoomAssumption, TrustAssumption, RaceAssumption, TypingAssumption, CakeAssumption
<1>2. CommonInv /\ FinalStanding /\ ClockInv
  BY DEF Init, RoomInit, CommonInv, FinalStanding, ClockInv, InPlay
<1>3. TrustInv /\ RaceInv /\ TypingInv
  <2>1. /\ phase = "unborn" /\ round = 0
        /\ choice = [p \in Players |-> 0] /\ score = [p \in Players |-> 0]
        /\ position = [p \in Players |-> 1]
        /\ typed = [p \in Players |-> 0] /\ finishTime = [p \in Players |-> 0]
    BY DEF Init, RoomInit
  <2>2. TrustInv
    BY <1>1, <2>1 DEF TrustInv
  <2>3. RaceInv
    <3>1. /\ position \in [Players -> 1 .. FinishLine]
          /\ \A p \in Players : position[p] < FinishLine
      BY <1>1, <2>1
    <3>2. 0 <= RaceRounds
      BY <1>1
    <3> QED
      BY <2>1, <3>1, <3>2 DEF RaceInv
  <2>4. TypingInv
    BY <1>1, <2>1 DEF TypingInv
  <2> QED
    BY <2>2, <2>3, <2>4
<1>4. 1 \in 1 .. Len(Order)
  <2>1. PICK p \in Players : TRUE
    BY <1>1
  <2>2. Len(Order) \in Nat /\ DOMAIN Order = 1 .. Len(Order) /\ DOMAIN Order # {}
    BY <2>1, CakeAssumption
  <2> QED
    BY <2>2
<1>5. CakeInv
  BY <1>1, <1>4 DEF Init, RoomInit, CakeInv
<1> QED
  BY <1>2, <1>3, <1>5 DEF RoomsInv, GameInv

\* Joins, leaves, the answer of Nakama and the end of the room change nothing of
\* a game.
LEMMA RoomSteps ==
  ASSUME RoomsInv, RoomNext, UNCHANGED <<game, games>>
  PROVE  RoomsInv' /\ UNCHANGED <<phase, round, choice, result, games>>
<1>1. /\ UNCHANGED <<game, phase, ready, round, choice, result, clock>>
      /\ UNCHANGED <<score, position, typed, finishTime, cake, alive, eliminated,
                     turnCount, active>>
      /\ present' \subseteq Players
      /\ callback' \in {"none", "sent", "taken", "lost", "closed"}
  BY DEF RoomNext, Join, Leave, Answered, Disconnect, games, trust, race, typing, slices,
         RoomsInv, GameInv, CommonInv
<1>2. CommonInv'
  BY <1>1 DEF RoomsInv, GameInv, CommonInv
<1>3. TrustInv' /\ RaceInv' /\ TypingInv'
  BY <1>1 DEF RoomsInv, GameInv, TrustInv, RaceInv, TypingInv
<1>4. CakeInv'
  BY <1>1 DEF RoomsInv, GameInv, CakeInv, ActivePlayer
<1>5. FinalStanding'
  BY <1>1 DEF RoomsInv, GameInv, FinalStanding, Standing, TrustStanding, RaceStanding,
              TypingStanding, CakeStanding, Completed
<1>6. ClockInv'
  BY <1>1, ClockKept DEF RoomsInv
<1> QED
  BY <1>1, <1>2, <1>3, <1>4, <1>5, <1>6 DEF RoomsInv, GameInv

LEMMA StepRoomsInv == RoomsInv /\ [Next]_vars => RoomsInv'
<1> SUFFICES ASSUME RoomsInv, [Next]_vars PROVE RoomsInv'
  OBVIOUS
<1>1. CASE Play
  <2>1. GameInv'
    BY <1>1, TrustSteps, RaceSteps, TypingSteps, CakeSteps DEF Play, RoomsInv
  <2>2. ClockInv'
    BY <1>1, TrustClock, RaceClock, TypingClock, CakeClock DEF Play, RoomsInv
  <2> QED
    BY <2>1, <2>2 DEF RoomsInv
<1>2. CASE RoomNext /\ UNCHANGED <<game, games>>
  BY <1>2, RoomSteps
<1>3. CASE UNCHANGED vars
  <2>1. UNCHANGED <<game, phase, present, ready, round, choice, result, callback, clock, score,
                    position, typed, finishTime, cake, alive, eliminated, turnCount, active>>
    BY <1>3 DEF vars, room, games, trust, race, typing, slices
  <2>2. CommonInv' /\ TrustInv' /\ RaceInv' /\ TypingInv'
    BY <2>1 DEF RoomsInv, GameInv, CommonInv, TrustInv, RaceInv, TypingInv
  <2>3. CakeInv'
    BY <2>1 DEF RoomsInv, GameInv, CakeInv, ActivePlayer
  <2>4. FinalStanding'
    BY <2>1 DEF RoomsInv, GameInv, FinalStanding, Standing, TrustStanding, RaceStanding,
                TypingStanding, CakeStanding, Completed
  <2>5. ClockInv'
    BY <2>1, ClockKept DEF RoomsInv
  <2> QED
    BY <2>2, <2>3, <2>4, <2>5 DEF RoomsInv, GameInv
<1> QED
  BY <1>1, <1>2, <1>3 DEF Next, Closed

LEMMA RoomsInvAlways == Spec => []RoomsInv
<1>1. Spec => Init /\ [][Next]_vars
  BY DEF Spec
<1> QED
  BY <1>1, InitRoomsInv, StepRoomsInv, PTL

-----------------------------------------------------------------------------
(* The theorems *)

\* Every variable keeps its type; every matrix has the entry that is looked up,
\* positions stay on the track and cuts in the cake, and a ranking ranks all
\* players, from 1 to at most their number.  Beside a timer that can be cleared none
\* runs that cannot.
THEOREM RoomsAreTyped == Spec => []RoomsTypeOK
<1>1. RoomsInv => RoomsTypeOK
  <2> SUFFICES ASSUME RoomsInv PROVE RoomsTypeOK
    OBVIOUS
  <2>1. DOMAIN Order = 1 .. Len(Order)
    BY CakeAssumption
  <2>2. cake[1] \in Nat
    BY DEF RoomsInv, GameInv, CakeInv
  <2>3. timerRef # "none" => timers = {timerRef}
    BY DEF RoomsInv, GameInv, CommonInv, ClockInv, InPlay
  <2> QED
    BY <2>1, <2>2, <2>3 DEF RoomsInv, GameInv, CommonInv, TrustInv, RaceInv, TypingInv, CakeInv,
                            Rankings, RoomsTypeOK
<1> QED
  BY <1>1, RoomsInvAlways, PTL

\* A room that has reported its result stays finished, with the standing that was
\* reported: in none of the four games does a late message or a timer that was left
\* change the standing, or start the game again.
THEOREM ResultsLast == Spec => []ResultStands
<1>1. RoomsInv => ResultStands
  BY DEF RoomsInv, GameInv, ClockInv, FinalStanding, ResultStands
<1> QED
  BY <1>1, RoomsInvAlways, PTL

\* The race is finished in the round in which the line is reached, and after its
\* last round; once it is finished, by the safety time-out in a pause too, nobody
\* moves and no round starts, whatever timer still runs.
THEOREM RacesStop == Spec => RaceStopsAtTheLine
<1> DEFINE Stops ==
      game = "dilemma_race" =>
        /\ (\E p \in Players : position'[p] = FinishLine) => phase' = "finished"
        /\ round' <= RaceRounds
        /\ phase = "finished" => UNCHANGED <<phase, round, position>>
<1>1. RoomsInv /\ [Next]_vars => [Stops]_vars
  <2> SUFFICES ASSUME RoomsInv, Next, game = "dilemma_race"
               PROVE  Stops
    OBVIOUS
  <2>1. RoomsInv' /\ game' = game
    BY StepRoomsInv DEF Next, Play, Closed, vars
  <2>2. /\ (\E p \in Players : position'[p] = FinishLine) => phase' = "finished"
        /\ round' <= RaceRounds
    BY <2>1, RaceAssumption DEF RoomsInv, GameInv, RaceInv
  <2>3. ASSUME phase = "finished"
        PROVE  UNCHANGED <<phase, round, position>>
    <3>1. CASE RaceNext
      <4>1. ~InPlay /\ timers \subseteq {"resolving"}
        BY <2>3 DEF InPlay, RoomsInv, ClockInv
      <4>2. PauseTimer
        BY <2>3, <3>1, <4>1 DEF RaceNext, RaceCreate, Create, Pick, RaceTimer, RaceForceFinish
      <4> QED
        BY <2>3, <4>2 DEF PauseTimer
    <3>2. CASE RoomNext /\ UNCHANGED <<game, games>>
      BY <3>2, RoomSteps DEF games, race
    <3>3. CASE Closed
      BY <3>3 DEF Closed, vars, room, games, race
    <3> QED
      BY <3>1, <3>2, <3>3 DEF Next, Play
  <2> QED
    BY <2>2, <2>3
<1>2. Spec => [][Next]_vars
  BY DEF Spec
<1> QED
  BY <1>1, <1>2, RoomsInvAlways, PTL DEF RaceStopsAtTheLine

\* Eliminations leave a survivor, the knife goes to one of the survivors only,
\* and the survivors, be the game ended by elimination or by force, are first.
THEOREM SurvivorsWin == Spec => []LastOneWins
<1>1. RoomsInv => LastOneWins
  <2> SUFFICES ASSUME RoomsInv, game = "cake_cutting"
               PROVE  /\ alive # {}
                      /\ phase = "playing" => ActivePlayer \in alive
                      /\ phase = "finished" => \A p \in Players : p \in alive <=> result[p] = 1
    BY DEF LastOneWins
  <2>1. /\ alive # {} /\ alive \subseteq Players /\ eliminated \in [Players -> Nat]
        /\ phase = "playing" => ActivePlayer \in alive
    BY DEF RoomsInv, GameInv, CakeInv
  <2>2. phase = "finished" => result = Survival(alive, eliminated)
    BY DEF RoomsInv, GameInv, FinalStanding, Standing, CakeStanding, Survival
  <2>3. \A p \in Players : p \in alive <=> Survival(alive, eliminated)[p] = 1
    BY <2>1, SurvivorsFirst
  <2> QED
    BY <2>1, <2>2, <2>3
<1> QED
  BY <1>1, RoomsInvAlways, PTL

\* In the trust dilemma scores change when a round is settled, which is once, and
\* with everybody's choice; rounds are counted one by one up to the last, and none
\* starts while the one before it is not settled.
THEOREM RoundsAreSettled == Spec => RoundsSettledOnce
<1> DEFINE Settled ==
      game = "trust_dilemma" =>
        /\ score' # score => phase = "choosing" /\ phase' = "resolving"
        /\ (phase = "choosing" /\ phase' # "choosing") =>
             phase' = "finished" \/ \A p \in Players : choice'[p] # 0
        /\ round' # round =>
             phase # "choosing" /\ round' = round + 1 /\ round' <= TrustRounds
<1>1. RoomsInv /\ [Next]_vars => [Settled]_vars
  <2> SUFFICES ASSUME RoomsInv, Next, game = "trust_dilemma"
               PROVE  Settled
    OBVIOUS
  <2>1. CASE UNCHANGED <<phase, score, round>>
    BY <2>1
  <2>2. CASE TrustNext
    <3>1. /\ score \in [Players -> Int] /\ choice \in [Players -> 0 .. 2]
          /\ round \in Nat /\ TrustRounds \in Nat /\ TrustRounds >= 1
          /\ \A x \in timers : x = phase
      BY TimerOfPhase, TrustAssumption DEF RoomsInv, GameInv, TrustInv, CommonInv
    <3>2. ASSUME NEW chosen \in [Players -> 0 .. 2], Settle(chosen), phase = "choosing",
                 UNCHANGED round
          PROVE  Settled
      <4>1. phase' = "resolving" /\ choice' \in [Players -> {Cooperate, Compete}]
        BY <3>1, <3>2, SettleType
      <4>2. \A p \in Players : choice'[p] # 0
        BY <4>1 DEF Cooperate, Compete
      <4> QED
        BY <3>2, <4>1, <4>2
    <3>3. ASSUME StartTrustRound, phase # "choosing", UNCHANGED score
          PROVE  Settled
      BY <3>1, <3>3 DEF StartTrustRound, Enter
    <3>4. ASSUME NEW p \in Players, TrustCreate(p)
          PROVE  Settled
      BY <3>4 DEF TrustCreate, Create
    <3>5. ASSUME NEW p \in Players, TrustConfirm(p)
          PROVE  Settled
      BY <3>1, <3>3, <3>5 DEF TrustConfirm
    <3>6. ASSUME NEW p \in Players, NEW c \in {Cooperate, Compete}, Choose(p, c)
          PROVE  Settled
      <4>1. [choice EXCEPT ![p] = c] \in [Players -> 0 .. 2]
        BY <3>1 DEF Cooperate, Compete
      <4> QED
        BY <3>2, <3>6, <4>1 DEF Choose
    <3>7. ASSUME TrustTimer
          PROVE  Settled
      <4>1. CASE /\ timers \cap {"rules", "resolving"} # {}
                 /\ StartTrustRound /\ UNCHANGED score
        BY <3>1, <3>3, <4>1
      <4>2. CASE "choosing" \in timers /\ Settle(choice) /\ UNCHANGED round
        BY <3>1, <3>2, <4>2
      <4>3. CASE /\ timers \cap {"rules", "resolving"} # {}
                 /\ UNCHANGED <<round, score>>
        BY <3>1, <4>3
      <4> QED
        BY <3>7, <4>1, <4>2, <4>3 DEF TrustTimer
    <3>8. ASSUME TrustForceFinish
          PROVE  Settled
      BY <3>8 DEF TrustForceFinish, Finish
    <3> QED
      BY <2>2, <3>4, <3>5, <3>6, <3>7, <3>8 DEF TrustNext
  <2>3. CASE RoomNext /\ UNCHANGED <<game, games>>
    <3>1. UNCHANGED <<phase, score, round>>
      BY <2>3, RoomSteps DEF games, trust
    <3> QED
      BY <2>1, <3>1
  <2>4. CASE Closed
    <3>1. UNCHANGED <<phase, score, round>>
      BY <2>4 DEF Closed, vars, room, games, trust
    <3> QED
      BY <2>1, <3>1
  <2> QED
    BY <2>2, <2>3, <2>4 DEF Next, Play
<1>2. Spec => [][Next]_vars
  BY DEF Spec
<1> QED
  BY <1>1, <1>2, RoomsInvAlways, PTL DEF RoundsSettledOnce
=============================================================================
