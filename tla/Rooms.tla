-------------------------------- MODULE Rooms --------------------------------
(***************************************************************************)
(* The mini-game server (minigame-server/src/app.ts): a room for a game of *)
(* one of the four kinds, the clients that come and go, and the report of  *)
(* its result.                                                             *)
(***************************************************************************)
EXTENDS TrustDilemma, DilemmaRace, TypingSpeed, CakeCutting

VARIABLE game   \* the name the room was asked for by

trust == score
race == position
typing == <<typed, finishTime>>
games == <<trust, race, typing, slices>>
vars == <<game, room, games>>

Games == {"trust_dilemma", "dilemma_race", "typing_speed", "cake_cutting"}

Init ==
  /\ game \in Games
  /\ RoomInit
  /\ score = [p \in Players |-> 0]
  /\ position = [p \in Players |-> 1]
  /\ typed = [p \in Players |-> 0] /\ finishTime = [p \in Players |-> 0]
  /\ cake = <<0, CakeSize>> /\ alive = Players
  /\ eliminated = [p \in Players |-> 0] /\ turnCount = 0 /\ active = 1

Play ==
  \/ game = "trust_dilemma" /\ TrustNext /\ UNCHANGED <<game, race, typing, slices>>
  \/ game = "dilemma_race" /\ RaceNext /\ UNCHANGED <<game, trust, typing, slices>>
  \/ game = "typing_speed" /\ TypingNext /\ UNCHANGED <<game, trust, race, slices>>
  \/ game = "cake_cutting" /\ CakeNext /\ UNCHANGED <<game, trust, race, typing>>

\* No timer runs in a room that is gone.
Closed == callback = "closed" /\ timers = {} /\ UNCHANGED vars

Next ==
  \/ Play
  \/ RoomNext /\ UNCHANGED <<game, games>>
  \/ Closed

\* The timers of the game that is played.
Timers ==
  /\ \/ game = "trust_dilemma" /\ TrustTimer /\ UNCHANGED <<race, typing, slices>>
     \/ game = "dilemma_race" /\ (RaceTimer \/ PauseTimer) /\ UNCHANGED <<trust, typing, slices>>
     \/ game = "typing_speed" /\ TypingTimer /\ UNCHANGED <<trust, race, slices>>
     \/ game = "cake_cutting" /\ CakeTimer /\ UNCHANGED <<trust, race, typing>>
  /\ UNCHANGED game

Answers ==
  /\ \E outcome \in {"taken", "lost"} : Answered(outcome)
  /\ UNCHANGED <<game, games>>

\* The server's clock runs and a call to Nakama is answered or fails; the
\* clients need not do anything.
Fairness ==
  /\ WF_vars(Timers)
  /\ WF_vars(Answers)
  /\ WF_vars(Disconnect /\ UNCHANGED <<game, games>>)

Spec == Init /\ [][Next]_vars /\ Fairness

------------------------------------------------------------------------------
\* Properties.

\* Every variable stays in its type; ranks, where there are some, are given to
\* all players of the list, whoever is still there.  Beside a timer that can be
\* cleared none runs that cannot.
RoomsTypeOK ==
  /\ present \subseteq Players /\ ready \subseteq Players
  /\ phase \in {"unborn", "rules", "countdown", "choosing", "resolving", "playing",
                "resolving_cut", "finished"}
  /\ callback \in {"none", "sent", "taken", "lost", "closed"}
  /\ timerRef # "none" => timers = {timerRef}
  /\ result \in [Players -> 1 .. Cardinality(Players)] \cup {NoResult}
  /\ score \in [Players -> Int]
  /\ position \in [Players -> 1 .. FinishLine]
  /\ typed \in [Players -> 0 .. TextLength]
  /\ 0 <= cake[1] /\ cake[1] <= cake[2] /\ cake[2] <= CakeSize
  /\ active \in DOMAIN Order /\ alive \subseteq Players

Standing ==
  CASE game = "trust_dilemma" -> TrustStanding
    [] game = "dilemma_race" -> RaceStanding
    [] game = "typing_speed" -> TypingStanding
    [] game = "cake_cutting" -> CakeStanding

\* A room that has reported its result stays finished, with the standing that was
\* reported, until it closes: neither a late message nor a timer that was still set
\* changes the standing or starts the game again.
ResultStands ==
  /\ result # NoResult => phase = "finished"
  /\ phase = "finished" => result = Standing

\* A round of the trust dilemma is settled once, by its timer or by its last
\* choice, with everybody's choice in it, and is never replaced by the next before
\* it is settled: no timer of an earlier phase runs on into it.
RoundsSettledOnce ==
  [][ game = "trust_dilemma" =>
        /\ score' # score => phase = "choosing" /\ phase' = "resolving"
        /\ (phase = "choosing" /\ phase' # "choosing") =>
             phase' = "finished" \/ \A p \in Players : choice'[p] # 0
        /\ round' # round =>
             phase # "choosing" /\ round' = round + 1 /\ round' <= TrustRounds ]_vars

\* The race ends in the round in which somebody reaches the line, and after its
\* last round at the latest; once it has ended, by the safety time-out too, nobody
\* moves and no round starts, though the pause's timer may still expire.
RaceStopsAtTheLine ==
  [][ game = "dilemma_race" =>
        /\ (\E p \in Players : position'[p] = FinishLine) => phase' = "finished"
        /\ round' <= RaceRounds
        /\ phase = "finished" => UNCHANGED <<phase, round, position>> ]_vars

\* Eliminations stop at the last survivor: whoever is still in the game when it is
\* finished is first and nobody else, however misses and time-outs follow each
\* other; whoever is to cut is still in the game.
LastOneWins ==
  game = "cake_cutting" =>
    /\ alive # {}
    /\ phase = "playing" => ActivePlayer \in alive
    /\ phase = "finished" => \A p \in Players : p \in alive <=> result[p] = 1

CutInside == \E pos \in 0 .. CakeSize : CutCake(pos) /\ Inside(pos)

\* By its timers alone every room closes, though all players may have left, and
\* though the report is lost; only cuts into the cake can go on for ever.
RoomsClose ==
  (phase # "unborn" ~> callback = "closed") \/ []<><<CutInside>>_vars
==============================================================================
