---------------------------- MODULE TurnContract ----------------------------
(***************************************************************************)
(* What the turns of a match promise, whatever happens inside one: every   *)
(* player and the Boss have one turn a round; players fall and are brought *)
(* back, in their own turn or in the Boss's; no turn leaves its player     *)
(* down; and the Boss is beaten only in the turn of a player.              *)
(***************************************************************************)
CONSTANTS Users, Boss, Nobody

VARIABLES
  acting,   \* whose turn it is, or Nobody between two turns
  played,   \* who has had a turn in this round
  down,     \* the players waiting to be brought back
  won       \* the Boss is beaten

vars == <<acting, played, down, won>>

Init == acting = Nobody /\ played = {} /\ down = {} /\ won = FALSE

Begin(p) ==
  /\ acting = Nobody /\ ~won
  /\ p \notin played
  /\ acting' = p
  /\ UNCHANGED <<played, down, won>>

Fall(u) ==
  /\ acting # Nobody
  /\ u \notin down
  /\ down' = down \cup {u}
  /\ UNCHANGED <<acting, played, won>>

Rise(u) ==
  /\ acting \in {u, Boss}
  /\ u \in down
  /\ down' = down \ {u}
  /\ UNCHANGED <<acting, played, won>>

Win ==
  /\ acting \in Users /\ ~won
  /\ won' = TRUE
  /\ UNCHANGED <<acting, played, down>>

Finish ==
  /\ acting # Nobody
  /\ acting \notin down \/ won
  /\ acting' = Nobody
  /\ LET served == played \cup {acting}
     IN played' = IF served = Users \cup {Boss} THEN {} ELSE served
  /\ UNCHANGED <<down, won>>

Next ==
  \/ \E p \in Users \cup {Boss} : Begin(p)
  \/ \E u \in Users : Fall(u) \/ Rise(u)
  \/ Win
  \/ Finish

\* Every turn comes to its end, however long the effects in it go on.
TurnsFinish == acting # Nobody ~> acting = Nobody

Spec == Init /\ [][Next]_vars /\ TurnsFinish
=============================================================================
