---------------------------- MODULE TrustDilemma ----------------------------
(***************************************************************************)
(* TrustDilemmaRoom.ts: in each of a few rounds every player cooperates or *)
(* competes; a round is settled by its timer or by the last choice.        *)
(***************************************************************************)
EXTENDS Room

CONSTANT TrustRounds    \* 4 in the code
ASSUME TrustAssumption == TrustRounds \in Nat \ {0}

VARIABLE score

Cooperate == 1
Compete == 2

\* The matrices for three and for four players, by the number of defectors.
Payoff(c, defectors) ==
  CASE Cardinality(Players) = 3 ->
         IF c = Compete THEN <<6, 0, 1>>[defectors] ELSE <<4, 1, 6>>[defectors + 1]
    [] Cardinality(Players) = 4 ->
         IF c = Compete THEN <<7, 0, -1, 1>>[defectors] ELSE <<5, 2, 1, 3>>[defectors + 1]
    [] OTHER -> 1

TrustStanding ==
  Ranks([p \in Players |-> {q \in Players : score[q] > score[p]}])

\* startRound, which finishes the game instead when it is over.
StartTrustRound ==
  /\ phase # "finished" /\ round < TrustRounds
  /\ Enter("choosing", timers) /\ round' = round + 1
  /\ choice' = [p \in Players |-> 0] /\ ready' = {}

\* resolveRound: who has not chosen cooperates.
Settle(chosen) ==
  LET final     == [p \in Players |-> IF chosen[p] = 0 THEN Cooperate ELSE chosen[p]]
      defectors == Cardinality({p \in Players : final[p] = Compete})
  IN /\ phase \notin {"resolving", "finished"}
     /\ Enter("resolving", timers) /\ choice' = final
     /\ score' = [p \in Players |-> score[p] + Payoff(final[p], defectors)]

TrustCreate(p) ==
  /\ Create(p, "rules")
  /\ UNCHANGED <<ready, round, choice, result, callback, score>>

TrustConfirm(p) ==
  /\ phase = "rules" /\ p \in present
  /\ \/ ready \cup {p} = Players /\ StartTrustRound
     \/ /\ ready \cup {p} # Players
        /\ ready' = ready \cup {p}
        /\ UNCHANGED <<phase, round, choice, clock>>
  /\ UNCHANGED <<present, result, callback, score>>

\* A choice may be changed until the last player has made one.
Choose(p, c) ==
  LET chosen == [choice EXCEPT ![p] = c]
  IN /\ phase = "choosing" /\ p \in present
     /\ \/ (\A q \in Players : chosen[q] # 0) /\ Settle(chosen)
        \/ /\ \E q \in Players : chosen[q] = 0
           /\ choice' = chosen
           /\ UNCHANGED <<phase, score, clock>>
     /\ UNCHANGED <<present, ready, round, result, callback>>

\* The time for the rules and for the reveal ends with the next round, or the game.
TrustTimer ==
  \/ /\ timers \cap {"rules", "resolving"} # {}
     /\ StartTrustRound
     /\ UNCHANGED <<present, result, callback, score>>
  \/ /\ timers \cap {"rules", "resolving"} # {} /\ round >= TrustRounds
     /\ Finish(TrustStanding)
     /\ UNCHANGED <<present, ready, round, choice, score>>
  \/ /\ "choosing" \in timers /\ Settle(choice)
     /\ UNCHANGED <<present, ready, round, result, callback>>

TrustForceFinish ==
  /\ SafetyTimeout /\ InPlay
  /\ Finish(TrustStanding)
  /\ UNCHANGED <<present, ready, round, choice, score>>

TrustNext ==
  \/ \E p \in Players : TrustCreate(p) \/ TrustConfirm(p)
  \/ \E p \in Players, c \in {Cooperate, Compete} : Choose(p, c)
  \/ TrustTimer \/ TrustForceFinish
=============================================================================
