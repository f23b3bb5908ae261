----------------------------- MODULE TurnProofs -----------------------------
(***************************************************************************)
(* Theorems about the turns of a match, for any number of players, any     *)
(* course, pools and dice: the properties that the runs of MCTurn check on *)
(* small instances.  They follow from one inductive invariant, TurnInv,    *)
(* and from what the execution of a single action does (EffectsProofs);    *)
(* that effects come to an end follows from a second one, FuelInv, which   *)
(* weighs what is queued and holds it against what a state may spend.      *)
(***************************************************************************)
EXTENDS EffectsProofs

States ==
  {"Rest", "Upkeep", "Main", "Moving", "Checkpoint", "Landed", "Draw", "BossBattle", "End"}

Steps ==
  {"enter", "poisoned", "suffer", "done", "consume", "claim", "rolled", "set_off", "fell",
   "walked", "checkpoint", "fallen", "struck", "cast", "settle", "expire"}

TurnState ==
  [who : All \cup {Nobody}, state : States, step : Steps, steps : Int, draw : DrawTypes,
   drawn : Events \cup Skills \cup {"none"}, used : Items \cup {"none"}, uses : Nat,
   expiring : SUBSET Buffs, prey : SUBSET All]

\* The steps of each state.
Stage(state, step) ==
  \/ state = "Rest" /\ step = "enter"
  \/ state = "Upkeep" /\ step \in {"enter", "poisoned", "suffer", "done"}
  \/ state = "Main" /\ step \in {"enter", "consume", "claim", "rolled"}
  \/ /\ state = "Moving"
     /\ step \in {"enter", "set_off", "fell", "walked", "checkpoint", "fallen"}
  \/ state = "Checkpoint" /\ step \in {"enter", "done"}
  \/ state \in {"Landed", "Draw"} /\ step \in {"enter", "suffer", "done"}
  \/ state = "BossBattle" /\ step \in {"enter", "struck", "cast", "done"}
  \/ state = "End" /\ step \in {"enter", "settle", "expire"}

\* Which step belongs to which state, and who goes through it.
TurnOK ==
  /\ turn \in TurnState
  /\ Stage(turn.state, turn.step)
  /\ Resting <=> Me = Nobody
  /\ Resting => ~draining
  /\ Me = Boss => turn.state \in {"Rest", "Upkeep", "BossBattle", "End"}
  /\ Me = Boss /\ turn.state = "Upkeep" => turn.step = "enter"
  /\ Me = Boss => turn.step # "settle"
  /\ turn.step = "suffer" => turn.drawn \in Events
  /\ turn.step = "cast" => turn.drawn \in Skills /\ Me = Boss /\ turn.prey \subseteq Users

CourseOK ==
  /\ acted \subseteq All /\ round \in Nat
  /\ charge \in [Users -> 0 .. 1] /\ parity \in [Users -> 0 .. 1]
  /\ broken \subseteq {c \in Cells : IsFragile(c)}
  /\ beaten \in BOOLEAN
  /\ beaten => \/ turn.state \in {"Rest", "End"}
               \/ turn.state = "BossBattle" /\ turn.step = "done"

\* An action that was intercepted leaves what it derived in the queue, which
\* nobody then processes: blows against the Boss only.
LeftoversOK ==
  ~draining /\ queue # <<>> =>
    /\ turn.state = "BossBattle" /\ turn.step \in {"struck", "done"} /\ Me \in Users
    /\ \A x \in ToSet(queue) : x.do = "BossDamage"

Expiring(u) == Me = u /\ turn.state = "End" /\ turn.step = "expire"

DeathsOK ==
  /\ \A x \in ToSet(queue) : x.do = "Death" => player[x.to].dead
  /\ \A u \in Users : player[u].dead /\ ~Has(u, "death_mark") =>
       Expiring(u) \/ \E x \in ToSet(queue) : x.do = "Death" /\ x.to = u

DurationsOK ==
  \A u \in Users :
     IF Expiring(u)
       THEN /\ Expired(buffs[u]) \subseteq turn.expiring
            /\ "death_mark" \notin turn.expiring
            /\ ~Has(u, "death_mark")
            /\ \A x \in ToSet(queue) : x.do = "ModifyLP"
       ELSE Expired(buffs[u]) = {}

PlacesOK ==
  /\ \A p \in All : IsFragile(Here(p)) => Here(p) \in broken
  /\ \A x \in ToSet(queue) : x.do = "Teleport" /\ IsFragile(x.n) => x.n \in broken

RobbersOK ==
  \A x \in ToSet(queue) :
     /\ x.src = "rob_luck" =>
          \E v \in All : Has(v, "rob_luck") /\ buffs[v]["rob_luck"].peer = x.to
     /\ x.do = "AddBuff" => x.of \notin {"dominance", "rob_luck"}

IsFearful(x, u) == x.do = "Damage" /\ x.src = "fearless" /\ x.to = u

FearOK ==
  /\ \A i \in DOMAIN queue : \A u \in Users : IsFearful(queue[i], u) =>
       /\ draining /\ Has(u, "fearless") /\ queue[i].n < player[u].hp /\ queue[i].pierce
       /\ IsActive(buffs[u]["fearless"])
  /\ \A i, j \in DOMAIN queue : \A u \in Users :
       IsFearful(queue[i], u) /\ IsFearful(queue[j], u) => i = j
  /\ \A u \in Users : player[u].hp = 0 => player[u].dead

TurnInv ==
  EngineOK /\ TurnOK /\ CourseOK /\ LeftoversOK /\ DeathsOK /\ DurationsOK /\ PlacesOK
    /\ RobbersOK /\ FearOK

-----------------------------------------------------------------------------
(* The execution of an action keeps the invariant *)

\* The engine executes the head of its queue, or a turn state executes an action of
\* its own while the queue is empty.
Taken(a, rest) ==
  /\ Sound(a) /\ rest \in Seq(Action)
  /\ \/ queue # <<>> /\ draining /\ a = Head(queue) /\ rest = Tail(queue)
     \/ /\ queue = <<>> /\ rest = <<>>
        /\ a.src = "none" /\ a.do # "Death"

\* How the turn allows for it: buffs are taken off and players brought back only at
\* the end of a turn or by the Boss, and nobody is sent onto a cell that holds.
InTurn(a) ==
  /\ \A u \in Users : Expiring(u)' <=> Expiring(u)
  /\ \A u \in Users : Expiring(u) =>
       /\ a.do \in {"ModifyLP", "RemoveBuff", "Respawn"}
       /\ a.do = "RemoveBuff" => a.to = u /\ turn'.expiring = turn.expiring \ {a.of}
       /\ a.do # "RemoveBuff" => turn'.expiring = turn.expiring
  /\ a.do = "RemoveBuff" /\ a.to \in Users => a.of # "death_mark"
  /\ a.do = "Respawn" => queue = <<>> /\ player[a.to].dead /\ Me \in {a.to, Boss}
  /\ a.do \in {"Move", "Teleport", "Respawn"} /\ IsFragile(a.n) => a.n \in broken'
  /\ broken \subseteq broken'

\* Whether the queue goes on after it.
Goes(a) ==
  /\ draining' \in BOOLEAN /\ count' \in Nat
  /\ draining' => queue' # <<>>
  /\ queue' # <<>> /\ (queue # <<>> \/ ~Stopped(a)) => draining'

\* Soundness is a matter of the action alone.
LEMMA SoundStays == ASSUME NEW x PROVE Sound(x)' <=> Sound(x)
  BY DEF Sound

LEMMA TakenQueue ==
  ASSUME QueueOK, NEW a, NEW rest, Taken(a, rest)
  PROVE  /\ \A x \in ToSet(rest) : x \in ToSet(queue) /\ Sound(x) /\ x.do \in Queueable
         /\ queue # <<>> => a \in ToSet(queue) /\ a.do \in Queueable
<1>1. CASE queue # <<>>
  <2>1. ToSet(queue) = {a} \cup ToSet(rest)
    BY <1>1, HeadTailSet DEF QueueOK, Taken
  <2> QED
    BY <2>1 DEF QueueOK
<1>2. CASE queue = <<>>
  BY <1>2, NoneSet DEF Taken
<1> QED
  BY <1>1, <1>2

LEMMA RunEngine ==
  ASSUME EngineOK, NEW a, NEW rest, Taken(a, rest), Outcome(a, rest), Goes(a)
  PROVE  EngineOK'
<1>1. PICK more : queue' = rest \o more /\ QueuedBy(a, more) /\ extended' \in BOOLEAN
  BY DEF Outcome, QueueStep
<1>2. /\ Effect(a, more) /\ more \in Seq(Action) /\ rest \in Seq(Action)
  BY <1>1 DEF QueuedBy, Effect, Taken
<1>3. queue' \in Seq(Action) /\ ToSet(queue') = ToSet(rest) \cup ToSet(more)
  BY <1>1, <1>2, ConcatSet
<1>4. ASSUME NEW x \in ToSet(queue') PROVE Sound(x) /\ x.do \in Queueable
  <2>1. CASE x \in ToSet(rest)
    BY <2>1, TakenQueue DEF EngineOK
  <2>2. CASE x \in ToSet(more)
    BY <1>2, <2>2 DEF Effect, Caused, Queueable
  <2> QED
    BY <1>3, <1>4, <2>1, <2>2
<1>5. QueueOK'
  BY <1>1, <1>3, <1>4, SoundStays DEF QueueOK, Goes
<1> QED
  BY <1>5 DEF EngineOK, Outcome, PlayerStep, BuffStep

\* What waits behind the executed action, old and new.
LEMMA RunQueue ==
  ASSUME QueueOK, NEW a, NEW rest, Taken(a, rest), Outcome(a, rest)
  PROVE  \A x \in ToSet(queue') : x \in ToSet(rest) \/ Caused(a, x)
<1>1. PICK more : queue' = rest \o more /\ QueuedBy(a, more)
  BY DEF Outcome, QueueStep
<1>2. /\ Effect(a, more) /\ more \in Seq(Action) /\ rest \in Seq(Action)
  BY <1>1 DEF QueuedBy, Effect, Taken
<1>3. ToSet(queue') = ToSet(rest) \cup ToSet(more)
  BY <1>1, <1>2, ConcatSet
<1> QED
  BY <1>2, <1>3 DEF Effect

\* Whose buffs may come to an end, or who loses one, only while the turn ends.
LEMMA RunDurations ==
  ASSUME EngineOK, DurationsOK, NEW a, NEW rest, Taken(a, rest), Outcome(a, rest), InTurn(a)
  PROVE  DurationsOK'
<1>1. a.to \in All /\ BuffsOK /\ BuffStep(a)
  BY DEF Taken, Sound, Action, EngineOK, Outcome
<1> SUFFICES ASSUME NEW u \in Users
    PROVE  IF Expiring(u)'
             THEN /\ Expired(buffs'[u]) \subseteq turn'.expiring
                  /\ "death_mark" \notin turn'.expiring
                  /\ "death_mark" \notin DOMAIN buffs'[u]
                  /\ \A x \in ToSet(queue') : x.do = "ModifyLP"
             ELSE Expired(buffs'[u]) = {}
  BY DEF DurationsOK, Has
<1>2. u \in All
  BY DEF All
<1>3. CASE Expiring(u)
  <2>1. /\ Expired(buffs[u]) \subseteq turn.expiring
        /\ "death_mark" \notin turn.expiring
        /\ "death_mark" \notin DOMAIN buffs[u]
        /\ \A x \in ToSet(queue) : x.do = "ModifyLP"
    BY <1>3 DEF DurationsOK, Has
  <2>2. a.do \in {"ModifyLP", "RemoveBuff", "Respawn"}
    BY <1>3 DEF InTurn
  <2>3. \A x \in ToSet(queue') : x.do = "ModifyLP"
    BY <2>1, <2>2, RunQueue, TakenQueue DEF Caused, EngineOK
  <2>4. CASE a.do = "RemoveBuff"
    <3>1. a.to = u /\ turn'.expiring = turn.expiring \ {a.of}
      BY <1>3, <2>4 DEF InTurn
    <3>2. ~Stopped(a)
      BY <2>1, <2>4, <3>1, OnlyMarkStops DEF Has, Taken
    <3>3. Lost(buffs'[u], buffs[u], a.of)
      BY <1>1, <2>4, <3>1, <3>2 DEF BuffStep
    <3>4. Expired(buffs'[u]) \subseteq Expired(buffs[u]) \ {a.of}
      BY <3>3 DEF Lost, Expired, IsActive
    <3> QED
      BY <1>3, <2>1, <2>3, <3>1, <3>3, <3>4 DEF InTurn, Lost
  <2>5. CASE a.do # "RemoveBuff"
    <3>1. turn'.expiring = turn.expiring
      BY <1>3, <2>5 DEF InTurn
    <3>2. SameBuffs(buffs'[u], buffs[u])
      BY <1>1, <1>2, <2>2, <2>5 DEF BuffStep
    <3>3. Expired(buffs'[u]) = Expired(buffs[u]) /\ DOMAIN buffs'[u] = DOMAIN buffs[u]
      BY <3>2, ExpiredSame DEF SameBuffs
    <3> QED
      BY <1>3, <2>1, <2>3, <3>1, <3>3 DEF InTurn
  <2> QED
    BY <2>4, <2>5
<1>4. CASE ~Expiring(u)
  <2>1. Expired(buffs[u]) = {} /\ ~Expiring(u)'
    BY <1>4 DEF DurationsOK, InTurn
  <2>2. \/ SameBuffs(buffs'[u], buffs[u])
        \/ \E k : Gained(buffs'[u], buffs[u], k)
        \/ \E k : Lost(buffs'[u], buffs[u], k)
    BY <1>1, <1>2 DEF BuffStep
  <2>3. Expired(buffs'[u]) = {}
    <3>1. CASE SameBuffs(buffs'[u], buffs[u])
      BY <2>1, <3>1, ExpiredSame
    <3>2. CASE \E k : Gained(buffs'[u], buffs[u], k)
      BY <2>1, <3>2 DEF Gained, Expired, IsActive
    <3>3. CASE \E k : Lost(buffs'[u], buffs[u], k)
      BY <2>1, <3>3 DEF Lost, Expired, IsActive
    <3> QED
      BY <2>2, <3>1, <3>2, <3>3
  <2> QED
    BY <2>1, <2>3
<1> QED
  BY <1>3, <1>4

\* Nobody loses the mark of the dead, nor does a death go by uncounted.
LEMMA RunDeaths ==
  ASSUME EngineOK, DeathsOK, NEW a, NEW rest, Taken(a, rest), Outcome(a, rest), InTurn(a)
  PROVE  DeathsOK'
<1>1. /\ Sound(a) /\ a.to \in All /\ PlayerStep(a) /\ BuffStep(a) /\ QueueOK
      /\ PlayersOK
  BY DEF Taken, Sound, Action, EngineOK, Outcome
<1>2. PICK more : queue' = rest \o more /\ QueuedBy(a, more)
  BY DEF Outcome, QueueStep
<1>3. /\ Effect(a, more) /\ more \in Seq(Action) /\ rest \in Seq(Action)
  BY <1>2 DEF QueuedBy, Effect, Taken
<1>4. ToSet(queue') = ToSet(rest) \cup ToSet(more)
  BY <1>2, <1>3, ConcatSet
<1>5. ASSUME NEW x \in ToSet(queue'), x.do = "Death" PROVE player'[x.to].dead
  <2>1. CASE x \in ToSet(rest)
    <3>1. x \in ToSet(queue) /\ Sound(x)
      BY <1>1, <2>1, TakenQueue
    <3>2. player[x.to].dead /\ x.to \in All /\ queue # <<>>
      BY <1>5, <3>1, NoneSet DEF DeathsOK, Sound, Action
    <3>3. a.do # "Respawn"
      BY <3>2 DEF InTurn
    <3> QED
      BY <1>1, <3>2, <3>3 DEF PlayerStep
  <2>2. CASE x \in ToSet(more)
    BY <1>2, <1>3, <1>5, <2>2 DEF QueuedBy, Effect, Caused
  <2> QED
    BY <1>4, <1>5, <2>1, <2>2
<1>6. ASSUME NEW u \in Users, player'[u].dead, ~Has(u, "death_mark")'
      PROVE  Expiring(u)' \/ \E x \in ToSet(queue') : x.do = "Death" /\ x.to = u
  <2>1. u \in All /\ u # Boss
    BY PlayerAssumption DEF All
  <2>2. CASE ~player[u].dead
    <3>1. u = a.to /\ a.do \in {"Damage", "BossDamage"}
      BY <1>1, <1>6, <2>1, <2>2 DEF PlayerStep
    <3>2. a.do = "Damage"
      BY <1>1, <2>1, <3>1 DEF Sound
    <3> QED
      BY <1>2, <1>4, <1>6, <2>2, <3>1, <3>2 DEF QueuedBy
  <2>3. CASE Has(u, "death_mark")
    <3>1. CASE u = a.to /\ ~Stopped(a) /\ a.do = "RemoveBuff"
      BY <1>1, <1>6, <2>1, <2>3, <3>1 DEF BuffStep, Lost, InTurn, Has
    <3>2. CASE u = a.to /\ ~Stopped(a) /\ a.do \in {"Death", "AddBuff"}
      BY <1>1, <1>6, <2>1, <2>3, <3>2 DEF BuffStep, Gained, Has
    <3>3. CASE u # a.to \/ Stopped(a) \/ a.do \notin {"Death", "AddBuff", "RemoveBuff"}
      BY <1>1, <1>6, <2>1, <2>3, <3>3 DEF BuffStep, SameBuffs, Has
    <3> QED
      BY <3>1, <3>2, <3>3
  <2>4. CASE player[u].dead /\ ~Has(u, "death_mark")
    <3>1. CASE Expiring(u)
      BY <3>1 DEF InTurn
    <3>2. CASE \E x \in ToSet(queue) : x.do = "Death" /\ x.to = u
      <4>1. PICK x \in ToSet(queue) : x.do = "Death" /\ x.to = u
        BY <3>2
      <4>2. queue # <<>> /\ ToSet(queue) = {a} \cup ToSet(rest)
        BY <1>1, <4>1, NoneSet, HeadTailSet DEF QueueOK, Taken
      <4>3. x # a
        <5>1. SUFFICES ASSUME x = a PROVE FALSE
          OBVIOUS
        <5>2. ~Stopped(a)
          BY <1>1, <2>4, <4>1, <5>1, OnlyMarkStops
        <5> QED
          BY <1>1, <1>6, <4>1, <5>1, <5>2 DEF BuffStep, Gained, Has
      <4> QED
        BY <1>4, <4>1, <4>2, <4>3
    <3> QED
      BY <2>1, <2>4, <3>1, <3>2 DEF DeathsOK
  <2> QED
    BY <2>2, <2>3, <2>4
<1> QED
  BY <1>5, <1>6 DEF DeathsOK

\* Whoever is moved comes to a cell that does not hold.
LEMMA RunPlaces ==
  ASSUME EngineOK, PlacesOK, NEW a, NEW rest, Taken(a, rest), Outcome(a, rest), InTurn(a)
  PROVE  PlacesOK'
<1>1. /\ Sound(a) /\ a.to \in All /\ PlayerStep(a) /\ QueueOK /\ PlayersOK
  BY DEF Taken, Sound, Action, EngineOK, Outcome
<1>2. ASSUME NEW p \in All, IsFragile(player'[p].pos) PROVE player'[p].pos \in broken'
  <2>1. CASE player'[p].pos = player[p].pos
    BY <1>2, <2>1 DEF PlacesOK, Here, InTurn
  <2>2. CASE player'[p].pos # player[p].pos
    <3>1. p = a.to /\ a.do \in {"Move", "Teleport", "Respawn"} /\ player'[p].pos = a.n
      BY <1>1, <2>2 DEF PlayerStep
    <3> QED
      BY <1>2, <3>1 DEF InTurn
  <2> QED
    BY <2>1, <2>2
<1>3. ASSUME NEW x \in ToSet(queue'), x.do = "Teleport", IsFragile(x.n) PROVE x.n \in broken'
  <2>1. x \in ToSet(rest)
    BY <1>1, <1>3, RunQueue DEF Caused
  <2>2. x \in ToSet(queue)
    BY <1>1, <2>1, TakenQueue
  <2> QED
    BY <1>3, <2>2 DEF PlacesOK, InTurn
<1> QED
  BY <1>2, <1>3 DEF PlacesOK, Here, IsFragile

\* While something is queued, whoever's luck is robbed goes on being robbed.
LEMMA RobberyStays ==
  ASSUME EngineOK, RobbersOK, NEW a, NEW rest, Taken(a, rest), Outcome(a, rest),
         InTurn(a), queue # <<>>, NEW v \in All, Has(v, "rob_luck")
  PROVE  "rob_luck" \in DOMAIN buffs'[v] /\ buffs'[v]["rob_luck"].peer = buffs[v]["rob_luck"].peer
<1>1. /\ Sound(a) /\ a.to \in All /\ BuffStep(a) /\ a \in ToSet(queue) /\ a.do \in Queueable
  BY TakenQueue DEF Taken, Sound, Action, EngineOK, Outcome
<1>2. CASE v # a.to \/ Stopped(a) \/ a.do \notin {"Death", "AddBuff", "RemoveBuff"}
  BY <1>1, <1>2 DEF BuffStep, SameBuffs, Has
<1>3. CASE v = a.to /\ ~Stopped(a) /\ a.do = "Death"
  BY <1>1, <1>3 DEF BuffStep, Gained, Has
<1>4. CASE v = a.to /\ ~Stopped(a) /\ a.do = "AddBuff" /\ a.of # "rob_luck"
  BY <1>1, <1>4 DEF BuffStep, Gained, Has
<1>5. CASE v = a.to /\ ~Stopped(a) /\ a.do = "AddBuff" /\ a.of = "rob_luck"
  BY <1>1, <1>5 DEF RobbersOK
<1>6. a.do # "RemoveBuff"
  BY <1>1 DEF Queueable
<1> QED
  BY <1>2, <1>3, <1>4, <1>5, <1>6

LEMMA RunRobbers ==
  ASSUME EngineOK, RobbersOK, NEW a, NEW rest, Taken(a, rest), Outcome(a, rest),
         InTurn(a)
  PROVE  RobbersOK'
<1>1. /\ Sound(a) /\ a.to \in All /\ BuffStep(a) /\ QueueOK
  BY DEF Taken, Sound, Action, EngineOK, Outcome
<1>2. ASSUME NEW x \in ToSet(queue'), x.src = "rob_luck"
      PROVE  \E v \in All : "rob_luck" \in DOMAIN buffs'[v] /\ buffs'[v]["rob_luck"].peer = x.to
  <2>1. CASE x \in ToSet(rest)
    <3>1. x \in ToSet(queue) /\ queue # <<>>
      BY <1>1, <2>1, TakenQueue, NoneSet
    <3>2. PICK v \in All : Has(v, "rob_luck") /\ buffs[v]["rob_luck"].peer = x.to
      BY <1>2, <3>1 DEF RobbersOK
    <3> QED
      BY <3>1, <3>2, RobberyStays
  <2>2. CASE Caused(a, x)
    <3>1. a.do \in Shareable
      BY <1>2, <2>2 DEF Caused
    <3>2. PICK v \in All : Has(v, "rob_luck") /\ buffs[v]["rob_luck"].peer = x.to
      BY <1>2, <2>2 DEF Caused
    <3>3. SameBuffs(buffs'[v], buffs[v])
      BY <1>1, <3>1 DEF BuffStep, Shareable
    <3> QED
      BY <3>2, <3>3 DEF SameBuffs, Has
  <2> QED
    BY <1>1, <1>2, <2>1, <2>2, RunQueue
<1>3. ASSUME NEW x \in ToSet(queue'), x.do = "AddBuff"
      PROVE  x.of \notin {"dominance", "rob_luck"}
  <2>1. CASE x \in ToSet(rest)
    BY <1>1, <1>3, <2>1, TakenQueue DEF RobbersOK
  <2>2. CASE Caused(a, x)
    BY <1>3, <2>2, DrawableAssumption DEF Caused
  <2> QED
    BY <1>1, <1>3, <2>1, <2>2, RunQueue
<1> QED
  BY <1>2, <1>3 DEF RobbersOK, Has

\* The loss that comes with being fearless is that of a player who bears it, leaves it
\* a hit point, and waits only once.
LEMMA RunFear ==
  ASSUME EngineOK, FearOK, NEW a, NEW rest, Taken(a, rest), Outcome(a, rest), Goes(a),
         a.do = "RemoveBuff" => queue = <<>>
  PROVE  FearOK'
<1>1. /\ Sound(a) /\ a.to \in All /\ PlayerStep(a) /\ BuffStep(a) /\ QueueOK
      /\ PlayersOK /\ PlayersOK'
  BY DEF Taken, Sound, Action, EngineOK, Outcome, PlayerStep
<1>2. PICK more : queue' = rest \o more /\ QueuedBy(a, more)
  BY DEF Outcome, QueueStep
<1>3. /\ Effect(a, more) /\ more \in Seq(Action) /\ rest \in Seq(Action)
  BY <1>2 DEF QueuedBy, Effect, Taken
<1> DEFINE m == Len(rest)
           n == Len(more)
<1>4. /\ m \in Nat /\ n \in Nat /\ DOMAIN queue' = 1 .. m + n
      /\ \A i \in 1 .. m + n : queue'[i] = IF i <= m THEN rest[i] ELSE more[i - m]
  BY <1>2, <1>3, ConcatProperties, LenProperties
<1>5. ASSUME NEW i \in 1 .. m
      PROVE  /\ queue # <<>> /\ i + 1 \in DOMAIN queue /\ rest[i] = queue[i + 1]
             /\ 1 \in DOMAIN queue /\ a = queue[1]
  <2>1. queue # <<>> /\ a = Head(queue) /\ rest = Tail(queue)
    BY <1>5 DEF Taken
  <2>2. /\ Head(queue) = queue[1] /\ Len(Tail(queue)) = Len(queue) - 1
        /\ Len(queue) \in Nat /\ DOMAIN queue = 1 .. Len(queue)
        /\ \A j \in 1 .. Len(Tail(queue)) : Tail(queue)[j] = queue[j + 1]
    BY <1>1, <2>1, HeadTailProperties, LenProperties DEF QueueOK
  <2> QED
    BY <2>1, <2>2
<1>6. ASSUME NEW j \in 1 .. n, more[j].src = "fearless"
      PROVE  /\ n = 1 /\ ~Stopped(a) /\ player' = player
             /\ a.do = "AddBuff" /\ a.of = "fearless" /\ ~Extends(a)
             /\ more[j].to = a.to /\ more[j].pierce /\ more[j].n = player[a.to].hp - 1
  <2>1. more[j] \in ToSet(more)
    BY <1>3, <1>6, LenProperties DEF ToSet
  <2> QED
    BY <1>2, <1>3, <1>6, <2>1 DEF QueuedBy, Effect, Caused
<1> HIDE DEF m, n
\* Those that waited before.
<1>7. ASSUME NEW i \in 1 .. m, NEW u \in Users, IsFearful(rest[i], u)
      PROVE  /\ draining' /\ "fearless" \in DOMAIN buffs'[u] /\ rest[i].n < player'[u].hp
             /\ rest[i].pierce /\ IsActive(buffs'[u]["fearless"])
             /\ Has(u, "fearless") /\ IsActive(buffs[u]["fearless"])
  <2>1. /\ queue # <<>> /\ i + 1 \in DOMAIN queue /\ rest[i] = queue[i + 1]
        /\ 1 \in DOMAIN queue /\ a = queue[1] /\ 1 # i + 1 /\ a.do \in Queueable
    BY <1>1, <1>5, TakenQueue
  <2>2. /\ Has(u, "fearless") /\ rest[i].n < player[u].hp /\ rest[i].pierce
        /\ IsActive(buffs[u]["fearless"])
    BY <1>7, <2>1 DEF FearOK
  <2>3. ~IsFearful(a, u)
    BY <1>7, <2>1 DEF FearOK
  <2>4. u \in All /\ u # Boss
    BY PlayerAssumption DEF All
  <2>5. player'[u].hp >= player[u].hp
    <3>1. player'[u].hp \in Nat /\ player[u].hp \in Nat
      BY <1>1, <2>4 DEF PlayersOK, PlayerState
    <3>2. CASE u # a.to \/ Stopped(a)
      BY <1>1, <2>4, <3>1, <3>2 DEF PlayerStep
    <3>3. CASE u = a.to /\ ~Stopped(a)
      <4>1. a.do # "Damage"
        BY <1>1, <2>2, <2>3, <3>3, FearlessStops DEF FearlessBlocks, IsFearful
      <4>2. a.do \notin {"BossDamage", "Respawn"}
        BY <1>1, <2>1, <2>4, <3>3 DEF Sound, Queueable
      <4> QED
        BY <1>1, <3>1, <3>3, <4>1, <4>2 DEF PlayerStep
    <3> QED
      BY <3>2, <3>3
  <2>6. "fearless" \in DOMAIN buffs'[u] /\ IsActive(buffs'[u]["fearless"])
    <3>1. CASE u # a.to \/ Stopped(a) \/ a.do \notin {"Death", "AddBuff", "RemoveBuff"}
      BY <1>1, <2>2, <2>4, <3>1 DEF BuffStep, SameBuffs, Has, IsActive
    <3>2. CASE u = a.to /\ ~Stopped(a) /\ a.do \in {"Death", "AddBuff"}
      <4>1. PICK k : Gained(buffs'[u], buffs[u], k)
        BY <1>1, <3>2 DEF BuffStep
      <4>2. CASE k = "fearless"
        BY <4>1, <4>2 DEF Gained
      <4>3. CASE k # "fearless"
        BY <2>2, <4>1, <4>3 DEF Gained, Has, IsActive
      <4> QED
        BY <4>2, <4>3
    <3>3. a.do # "RemoveBuff"
      BY <2>1 DEF Queueable
    <3> QED
      BY <3>1, <3>2, <3>3
  <2>7. draining'
    <3>1. 1 \in DOMAIN queue'
      BY <1>4, <1>7
    <3>2. queue' # <<>>
      BY <3>1
    <3> QED
      BY <2>1, <3>2 DEF Goes
  <2>8. rest[i].n \in Int /\ player[u].hp \in Nat /\ player'[u].hp \in Nat
    <3>1. queue[i + 1] \in Action
      BY <1>1, <2>1 DEF QueueOK
    <3>2. player[u] \in PlayerState /\ player'[u] \in PlayerState
      BY <1>1, <2>4 DEF PlayersOK
    <3> QED
      BY <2>1, <3>1, <3>2 DEF Action, PlayerState
  <2> QED
    BY <2>2, <2>5, <2>6, <2>7, <2>8
\* The one that is queued now.
<1>8. ASSUME NEW j \in 1 .. n, NEW u \in Users, IsFearful(more[j], u)
      PROVE  /\ draining' /\ "fearless" \in DOMAIN buffs'[u] /\ more[j].n < player'[u].hp
             /\ more[j].pierce /\ IsActive(buffs'[u]["fearless"])
             /\ n = 1 /\ u = a.to /\ a.do = "AddBuff" /\ a.of = "fearless" /\ ~Extends(a)
  <2>1. /\ n = 1 /\ ~Stopped(a) /\ player' = player
        /\ a.do = "AddBuff" /\ a.of = "fearless" /\ ~Extends(a)
        /\ u = a.to /\ more[j].pierce /\ more[j].n = player[a.to].hp - 1
    BY <1>6, <1>8 DEF IsFearful
  <2>2. Gained(buffs'[u], buffs[u], "fearless")
    BY <1>1, <2>1 DEF BuffStep
  <2>3. player[u].hp \in Nat
    BY <1>1, <2>1 DEF PlayersOK, PlayerState
  <2>4. draining'
    <3>1. 1 \in DOMAIN queue'
      BY <1>4, <2>1
    <3>2. queue' # <<>>
      BY <3>1
    <3> QED
      BY <2>1, <3>2 DEF Goes
  <2> QED
    BY <2>1, <2>2, <2>3, <2>4 DEF Gained
\* Each action of the new queue is one of these.
<1>9. ASSUME NEW i \in 1 .. m + n
      PROVE  \/ i \in 1 .. m /\ queue'[i] = rest[i]
             \/ i - m \in 1 .. n /\ queue'[i] = more[i - m]
  BY <1>4
<1>10. ASSUME NEW i \in DOMAIN queue', NEW u \in Users, IsFearful(queue'[i], u)
       PROVE  /\ draining' /\ "fearless" \in DOMAIN buffs'[u] /\ queue'[i].n < player'[u].hp
              /\ queue'[i].pierce /\ IsActive(buffs'[u]["fearless"])
  BY <1>4, <1>7, <1>8, <1>9, <1>10
<1>11. ASSUME NEW i \in DOMAIN queue', NEW j \in DOMAIN queue', NEW u \in Users,
              IsFearful(queue'[i], u), IsFearful(queue'[j], u)
       PROVE  i = j
  <2>1. i \in 1 .. m + n /\ j \in 1 .. m + n
    BY <1>4, <1>11
  <2>2. CASE i \in 1 .. m /\ queue'[i] = rest[i] /\ j \in 1 .. m /\ queue'[j] = rest[j]
    <3>1. /\ i + 1 \in DOMAIN queue /\ rest[i] = queue[i + 1]
          /\ j + 1 \in DOMAIN queue /\ rest[j] = queue[j + 1]
      BY <1>5, <2>2
    <3>2. i + 1 = j + 1
      BY <1>11, <2>2, <3>1 DEF FearOK
    <3> QED
      BY <2>2, <3>2
  <2>3. CASE /\ i - m \in 1 .. n /\ queue'[i] = more[i - m]
             /\ j - m \in 1 .. n /\ queue'[j] = more[j - m]
    <3>1. n = 1
      BY <1>8, <1>11, <2>3
    <3> QED
      BY <1>4, <2>1, <2>3, <3>1
  <2>4. ASSUME NEW k \in 1 .. m, NEW l \in 1 .. n, IsFearful(rest[k], u), IsFearful(more[l], u)
        PROVE  FALSE
    BY <1>7, <1>8, <2>4 DEF Extends
  <2> QED
    BY <1>9, <1>11, <2>1, <2>2, <2>3, <2>4
<1>12. ASSUME NEW u \in Users, player'[u].hp = 0 PROVE player'[u].dead
  <2>1. u \in All
    BY DEF All
  <2>2. player[u].hp = 0 => player[u].dead
    BY DEF FearOK
  <2>3. CASE u # a.to \/ Stopped(a)
    BY <1>1, <1>12, <2>1, <2>2, <2>3 DEF PlayerStep
  <2>4. CASE u = a.to /\ ~Stopped(a)
    <3>1. a.do # "Respawn"
      BY <1>1, <1>12, <2>4 DEF PlayerStep
    <3> QED
      BY <1>1, <1>12, <2>2, <2>4, <3>1 DEF PlayerStep
  <2> QED
    BY <2>3, <2>4
<1> QED
  BY <1>10, <1>11, <1>12 DEF FearOK, IsFearful, Has, IsActive

\* The parts of the invariant that are about the engine.
EngineInv ==
  EngineOK /\ DeathsOK /\ DurationsOK /\ PlacesOK /\ RobbersOK /\ FearOK

LEMMA RunKeeps ==
  ASSUME EngineInv, NEW a, NEW rest, Taken(a, rest), Run(a, rest), InTurn(a), Goes(a)
  PROVE  EngineInv' /\ Outcome(a, rest)
<1>1. Outcome(a, rest)
  BY RunOK DEF EngineInv, EngineOK, QueueOK, Taken
<1>2. a.do = "RemoveBuff" => queue = <<>>
  BY TakenQueue DEF EngineInv, EngineOK, Queueable
<1> QED
  BY <1>1, <1>2, RunEngine, RunDurations, RunDeaths, RunPlaces, RunRobbers, RunFear DEF EngineInv

-----------------------------------------------------------------------------
(* Between two executions *)

\* The buffs of all are the same kinds, with the same time left.
SameTimes ==
  /\ BuffsOK'
  /\ \A p \in All : /\ DOMAIN buffs'[p] = DOMAIN buffs[p]
                    /\ \A k \in DOMAIN buffs[p] : buffs'[p][k].left = buffs[p][k].left

LEMMA SameExpired ==
  ASSUME SameTimes, NEW p \in All PROVE Expired(buffs'[p]) = Expired(buffs[p])
  BY DEF SameTimes, Expired, IsActive

\* A step of the turn at which nothing is executed: the players stay as they are, and
\* either the queue and the buffs too, or what the turn asks for is queued.
Pause ==
  /\ ~draining
  /\ player' = player /\ broken' = broken
  /\ draining' \in BOOLEAN /\ count' \in Nat /\ extended' \in BOOLEAN
  /\ draining' => queue' # <<>>
  /\ \A u \in Users : ~Expiring(u) /\ ~Expiring(u)'
  /\ SameTimes
  /\ Wish(queue') \/ (queue' = queue /\ buffs' = buffs)

LEMMA PauseKeeps ==
  ASSUME EngineInv, LeftoversOK, Pause
  PROVE  EngineInv'
<1>1. PlayersOK /\ BuffsOK /\ QueueOK
  BY DEF EngineInv, EngineOK
<1>2. PlayersOK'
  BY <1>1 DEF Pause, PlayersOK, MaxHPOf
<1>3. \A x \in ToSet(queue) : x.do = "BossDamage"
  <2>1. CASE queue = <<>>
    BY <2>1, NoneSet
  <2>2. CASE queue # <<>>
    BY <2>2 DEF LeftoversOK, Pause
  <2> QED
    BY <2>1, <2>2
<1>4. /\ queue' \in Seq(Action)
      /\ \A x \in ToSet(queue') : Wanted(x) \/ (x.do = "BossDamage" /\ x \in ToSet(queue) /\ buffs' = buffs)
  BY <1>1, <1>3 DEF Pause, Wish, QueueOK
<1>5. QueueOK'
  <2>1. \A x \in ToSet(queue') : Sound(x) /\ x.do \in Queueable
    BY <1>1, <1>4 DEF Wanted, QueueOK
  <2> QED
    BY <1>4, <2>1, SoundStays DEF QueueOK, Pause
<1>6. EngineOK'
  BY <1>2, <1>5 DEF EngineOK, Pause, SameTimes
<1>7. \A u \in Users : Expired(buffs'[u]) = {} /\ ~Expiring(u)'
  BY SameExpired DEF EngineInv, DurationsOK, Pause, All
<1>8. DurationsOK'
  BY <1>7 DEF DurationsOK
<1>9. DeathsOK'
  <2>1. \A x \in ToSet(queue') : x.do # "Death"
    BY <1>4 DEF Wanted
  <2>2. ASSUME NEW u \in Users PROVE player[u].dead => Has(u, "death_mark")
    BY <1>3 DEF EngineInv, DeathsOK, Pause
  <2>3. \A u \in Users : player'[u].dead => "death_mark" \in DOMAIN buffs'[u]
    BY <2>2 DEF Pause, SameTimes, Has, All
  <2> QED
    BY <2>1, <2>3 DEF DeathsOK, Has
<1>10. PlacesOK'
  <2>1. ASSUME NEW x \in ToSet(queue'), x.do = "Teleport", IsFragile(x.n) PROVE x.n \in broken
    BY <1>4, <2>1 DEF Wanted, EngineInv, PlacesOK, Here
  <2> QED
    BY <2>1 DEF EngineInv, PlacesOK, Pause, Here, IsFragile
<1>11. RobbersOK'
  <2>1. ASSUME NEW x \in ToSet(queue'), x.src = "rob_luck"
        PROVE  \E v \in All : Has(v, "rob_luck")' /\ buffs'[v]["rob_luck"].peer = x.to
    BY <1>4, <2>1 DEF Wanted, EngineInv, RobbersOK, Has
  <2>2. ASSUME NEW x \in ToSet(queue'), x.do = "AddBuff"
        PROVE  x.of \notin {"dominance", "rob_luck"}
    BY <1>4, <2>2 DEF Wanted
  <2> QED
    BY <2>1, <2>2 DEF RobbersOK
<1>12. FearOK'
  <2>1. \A i \in DOMAIN queue' : queue'[i] \in ToSet(queue')
    BY <1>4, LenProperties DEF ToSet
  <2>2. \A i \in DOMAIN queue' : \A u \in Users : ~IsFearful(queue'[i], u)
    BY <1>4, <2>1 DEF Wanted, IsFearful
  <2> QED
    BY <2>2 DEF EngineInv, FearOK, Pause, IsFearful
<1> QED
  BY <1>6, <1>8, <1>9, <1>10, <1>11, <1>12 DEF EngineInv

-----------------------------------------------------------------------------
(* The record of the turn, field by field *)

\* What the invariant says nothing of but its type.
Alike(h, r) ==
  /\ h \in TurnState /\ h.who = r.who /\ h.state = r.state /\ h.step = r.step
  /\ h.drawn = r.drawn /\ h.prey = r.prey /\ h.expiring = r.expiring

LEMMA OtherField ==
  ASSUME NEW r \in TurnState, NEW h,
         \/ \E n \in Int : h = [r EXCEPT !.steps = n]
         \/ \E d \in DrawTypes : h = [r EXCEPT !.draw = d]
         \/ \E i \in Items \cup {"none"} : h = [r EXCEPT !.used = i]
         \/ \E n \in Nat : h = [r EXCEPT !.uses = n]
  PROVE  Alike(h, r)
  BY DEF TurnState, Alike

LEMMA StepField ==
  ASSUME NEW r \in TurnState, NEW s \in Steps, NEW h, h = [r EXCEPT !.step = s]
  PROVE  /\ h \in TurnState /\ h.who = r.who /\ h.state = r.state /\ h.step = s
         /\ h.drawn = r.drawn /\ h.prey = r.prey /\ h.expiring = r.expiring
         /\ h.steps = r.steps /\ h.uses = r.uses
  BY DEF TurnState

LEMMA EnterIsStep == "enter" \in Steps
  BY DEF Steps

LEMMA StateField ==
  ASSUME NEW r \in TurnState, NEW s \in States, NEW h, h = [r EXCEPT !.state = s]
  PROVE  /\ h \in TurnState /\ h.who = r.who /\ h.state = s /\ h.step = r.step
         /\ h.drawn = r.drawn /\ h.prey = r.prey /\ h.expiring = r.expiring
  BY DEF TurnState

LEMMA DrawnField ==
  ASSUME NEW r \in TurnState, NEW d \in Events \cup Skills, NEW h, h = [r EXCEPT !.drawn = d]
  PROVE  /\ h \in TurnState /\ h.who = r.who /\ h.state = r.state /\ h.step = r.step
         /\ h.drawn = d /\ h.prey = r.prey /\ h.expiring = r.expiring
  BY DEF TurnState

LEMMA PreyField ==
  ASSUME NEW r \in TurnState, NEW T \in SUBSET All, NEW h, h = [r EXCEPT !.prey = T]
  PROVE  /\ h \in TurnState /\ h.who = r.who /\ h.state = r.state /\ h.step = r.step
         /\ h.drawn = r.drawn /\ h.prey = T /\ h.expiring = r.expiring
  BY DEF TurnState

LEMMA ExpiringField ==
  ASSUME NEW r \in TurnState, NEW K \in SUBSET Buffs, NEW h, h = [r EXCEPT !.expiring = K]
  PROVE  /\ h \in TurnState /\ h.who = r.who /\ h.state = r.state /\ h.step = r.step
         /\ h.drawn = r.drawn /\ h.prey = r.prey /\ h.expiring = K
  BY DEF TurnState

LEMMA IdleOK ==
  /\ Idle \in TurnState /\ Idle.who = Nobody /\ Idle.state = "Rest" /\ Idle.step = "enter"
  BY DEF Idle, TurnState, States, Steps, DrawTypes

-----------------------------------------------------------------------------
(* What a state executes itself *)

LEMMA PlainSound ==
  ASSUME NEW do \in Kinds \ {"BossDamage", "AddBuff", "AddItem"}, NEW to \in All, NEW n \in Nat,
         NEW of \in Buffs \cup Items \cup {"none"},
         do \in {"Move", "Teleport", "Respawn"} => n \in Cells
  PROVE  LET x == Act(do, to, n, of)
         IN /\ Sound(x) /\ x.do = do /\ x.to = to /\ x.n = n /\ x.of = of /\ x.src = "none"
<1> DEFINE x == Act(do, to, n, of)
<1>1. do \in Kinds /\ n \in Int
  OBVIOUS
<1>2. x \in Action /\ x.do = do /\ x.to = to /\ x.n = n /\ x.of = of /\ x.src = "none"
  BY <1>1 DEF Act, Action, Sources
<1> HIDE DEF x
<1>3. Sound(x)
  BY <1>2 DEF Sound
<1> QED
  BY <1>2, <1>3 DEF x

\* No buff of a player is about to run out, and nobody is brought back.
Ordinary(a) ==
  /\ Sound(a) /\ a.src = "none" /\ a.do \notin {"Death", "RemoveBuff", "Respawn"}
  /\ a.do \in {"Move", "Teleport"} /\ IsFragile(a.n) => a.n \in broken'
  /\ broken \subseteq broken'
  /\ \A u \in Users : ~Expiring(u) /\ ~Expiring(u)'

\* What an intercepted action leaves in the queue is of its own kind.
LEMMA StoppedLeaves ==
  ASSUME NEW a, Outcome(a, <<>>), Stopped(a)
  PROVE  \A x \in ToSet(queue') : x.do = a.do /\ a.do \in Shareable
<1>1. PICK more : queue' = <<>> \o more /\ QueuedBy(a, more)
  BY DEF Outcome, QueueStep
<1>2. Legacy(more, a) /\ more \in Seq(Action)
  BY <1>1 DEF QueuedBy, Effect
<1>3. queue' = more
  BY <1>1, <1>2
<1> QED
  BY <1>2, <1>3 DEF Legacy, Inherits

LEMMA TopKeeps ==
  ASSUME EngineInv, queue = <<>>, NEW a, Ordinary(a), Top(a)
  PROVE  /\ EngineInv' /\ Taken(a, <<>>) /\ InTurn(a)
         /\ ~draining' => \A x \in ToSet(queue') : x.do = a.do /\ a.do \in Shareable
         /\ ~draining' /\ a.do \notin Shareable => queue' = <<>>
<1>1. Run(a, <<>>) /\ draining' = (~Stopped(a) /\ queue' # <<>>) /\ count' = count
  BY DEF Top
<1>2. Taken(a, <<>>)
  BY NoneSet DEF Taken, Ordinary
<1>3. InTurn(a)
  BY DEF InTurn, Ordinary
<1>4. Goes(a)
  BY <1>1 DEF Goes, EngineInv, EngineOK, QueueOK
<1>5. EngineInv' /\ Outcome(a, <<>>)
  BY <1>1, <1>2, <1>3, <1>4, RunKeeps
<1>6. ~draining' => \A x \in ToSet(queue') : x.do = a.do /\ a.do \in Shareable
  BY <1>1, <1>5, StoppedLeaves, NoneSet
<1>7. ASSUME ~draining', a.do \notin Shareable PROVE queue' = <<>>
  <2>1. queue' \in Seq(Action) /\ ToSet(queue') = {}
    BY <1>5, <1>6, <1>7 DEF EngineInv, EngineOK, QueueOK
  <2>2. SUFFICES ASSUME queue' # <<>> PROVE FALSE
    OBVIOUS
  <2> QED
    BY <2>1, <2>2, HeadTailSet
<1> QED
  BY <1>2, <1>3, <1>5, <1>6, <1>7

-----------------------------------------------------------------------------
(* The steps of a turn, one by one *)

\* What a step comes to: an action is executed, or the players stay as they are and
\* receive no buff.
Executes == \E a, rest : Taken(a, rest) /\ Run(a, rest) /\ InTurn(a)

Rests ==
  player' = player /\ \A p \in All : DOMAIN buffs'[p] \subseteq DOMAIN buffs[p]

Kept == TurnInv' /\ (Executes \/ Rests)

\* Whose turn it is, and that nothing is left over from an earlier execution.
LEMMA WhoActs ==
  ASSUME TurnInv
  PROVE  /\ EngineInv /\ turn \in TurnState
         /\ ~Resting => Me \in All /\ Me # Nobody
         /\ turn.state \in {"Main", "Moving", "Checkpoint", "Landed", "Draw"} =>
              Me \in Users /\ Me # Boss
         /\ turn.state \in {"Upkeep", "Main", "Moving", "Checkpoint", "Landed", "Draw"} => ~beaten
         /\ turn.state # "End" => \A u \in Users : ~Expiring(u)
         /\ ~draining /\ (turn.state # "BossBattle" \/ Me = Boss \/ turn.step \notin {"struck", "done"})
              => queue = <<>>
<1>1. EngineInv /\ TurnOK /\ CourseOK /\ LeftoversOK
  BY DEF TurnInv, EngineInv
<1>2. turn.who \in All \cup {Nobody} /\ Nobody \notin All /\ Boss \notin Users
  BY <1>1, PlayerAssumption DEF TurnOK, TurnState
<1>3. ~Resting => Me \in All /\ Me # Nobody
  BY <1>1, <1>2 DEF TurnOK, Me
<1>4. turn.state \in {"Main", "Moving", "Checkpoint", "Landed", "Draw"} =>
        Me \in Users /\ Me # Boss
  BY <1>1, <1>3 DEF TurnOK, Resting, All
<1>5. turn.state \in {"Upkeep", "Main", "Moving", "Checkpoint", "Landed", "Draw"} => ~beaten
  BY <1>1 DEF CourseOK
<1>6. turn.state # "End" => \A u \in Users : ~Expiring(u)
  BY DEF Expiring
<1>7. ~draining /\ (turn.state # "BossBattle" \/ Me = Boss \/ turn.step \notin {"struck", "done"})
         => queue = <<>>
  BY <1>1, <1>2 DEF LeftoversOK
<1> QED
  BY <1>1, <1>3, <1>4, <1>5, <1>6, <1>7 DEF TurnOK

LEMMA CourseStays ==
  ASSUME CourseOK, UNCHANGED course, beaten => turn'.state \in {"Rest", "End"}
  PROVE  CourseOK'
  BY DEF CourseOK, course, IsFragile

LEMMA TopStep ==
  ASSUME TurnInv, queue = <<>>, NEW a, Ordinary(a), a.do \notin Shareable, Top(a),
         TurnOK', CourseOK'
  PROVE  Kept
<1>1. EngineInv
  BY WhoActs
<1>2. EngineInv' /\ Taken(a, <<>>) /\ InTurn(a)
  BY <1>1, TopKeeps
<1>3. Run(a, <<>>) /\ draining' = (~Stopped(a) /\ queue' # <<>>)
  BY DEF Top
<1>4. LeftoversOK'
  BY <1>1, TopKeeps DEF LeftoversOK
<1> QED
  BY <1>2, <1>3, <1>4 DEF Kept, TurnInv, EngineInv, Executes

LEMMA PauseStep ==
  ASSUME TurnInv, Pause, TurnOK', CourseOK', LeftoversOK'
  PROVE  Kept
<1>1. EngineInv' /\ (Wish(queue') \/ queue' = queue)
  BY PauseKeeps DEF TurnInv, EngineInv, Pause
<1> QED
  BY <1>1 DEF Kept, TurnInv, EngineInv, Rests, Pause, SameTimes

\* No turn ends before or after the step.
NotExpiring == \A u \in Users : ~Expiring(u) /\ ~Expiring(u)'

LEMMA SameBuffsTimes ==
  ASSUME TurnInv, buffs' = buffs PROVE SameTimes
<1>1. BuffsOK
  BY DEF TurnInv, EngineOK
<1>2. BuffsOK'
  BY <1>1 DEF BuffsOK, HeldOK
<1> QED
  BY <1>2 DEF SameTimes

LEMMA StayPause ==
  ASSUME TurnInv, ~draining, UNCHANGED engine, broken' = broken, NotExpiring
  PROVE  Pause
<1>1. SameTimes
  BY SameBuffsTimes DEF engine
<1>2. draining \in BOOLEAN /\ count \in Nat /\ extended \in BOOLEAN
  BY DEF TurnInv, EngineOK, QueueOK
<1> QED
  BY <1>1, <1>2 DEF engine, Pause, NotExpiring

LEMMA ClearPause ==
  ASSUME TurnInv, ~draining, Clear, broken' = broken, NotExpiring
  PROVE  Pause /\ queue' = <<>> /\ LeftoversOK'
<1>1. SameTimes
  BY SameBuffsTimes DEF Clear
<1>2. Wish(queue') /\ LeftoversOK'
  BY WishNone DEF Clear, LeftoversOK
<1> QED
  BY <1>1, <1>2 DEF Clear, Pause, NotExpiring

LEMMA PushPause ==
  ASSUME TurnInv, ~draining, queue = <<>>, NEW next, Wish(next), Push(next), SameTimes,
         broken' = broken, NotExpiring
  PROVE  Pause /\ LeftoversOK'
<1>1. queue' = next
  BY DEF Push, Wish
<1>2. count \in Nat /\ extended \in BOOLEAN
  BY DEF TurnInv, EngineOK, QueueOK
<1>3. draining' = (queue' # <<>>) /\ player' = player /\ count' = count /\ extended' = extended
  BY DEF Push
<1>4. LeftoversOK'
  BY <1>3 DEF LeftoversOK
<1> QED
  BY <1>1, <1>2, <1>3, <1>4 DEF Pause, NotExpiring

LEMMA QuietPause ==
  ASSUME TurnInv, ~draining, queue = <<>>, SameTimes, NotExpiring,
         UNCHANGED <<player, queue, draining, count, extended, course>>
  PROVE  Pause /\ LeftoversOK'
<1>1. Wish(queue')
  BY WishNone
<1>2. draining \in BOOLEAN /\ count \in Nat /\ extended \in BOOLEAN
  BY DEF TurnInv, EngineOK, QueueOK
<1>3. LeftoversOK'
  BY DEF LeftoversOK
<1>4. player' = player /\ broken' = broken /\ draining' = draining /\ count' = count /\ extended' = extended
  BY DEF course
<1> QED
  BY <1>1, <1>2, <1>3, <1>4 DEF Pause, NotExpiring

\* Somebody's turn begins.
LEMMA BeginKeeps == ASSUME TurnInv, NEW p \in All, Begin(p) PROVE Kept
<1> DEFINE h == [Idle EXCEPT !.who = p]
<1>1. /\ Resting /\ ~beaten /\ p \notin acted /\ turn' = [Idle EXCEPT !.who = p, !.state = "Upkeep"]
      /\ UNCHANGED <<engine, course>>
  BY DEF Begin, Over
<1>2. h \in TurnState /\ h.who = p /\ h.step = "enter"
  BY IdleOK DEF TurnState
<1>3. turn' = [h EXCEPT !.state = "Upkeep"]
  BY <1>1
<1> HIDE DEF h
<1>4. turn' \in TurnState /\ turn'.who = p /\ turn'.state = "Upkeep" /\ turn'.step = "enter"
  BY <1>2, <1>3, StateField DEF States
<1>5. p # Nobody
  BY PlayerAssumption
<1>6. TurnOK'
  BY <1>4, <1>5 DEF TurnOK, Stage, Resting, Me
<1>7. CourseOK'
  BY <1>1, CourseStays DEF TurnInv
<1>8. queue = <<>> /\ ~draining
  BY <1>1, WhoActs DEF Resting, TurnInv, TurnOK
<1>9. LeftoversOK'
  BY <1>1, <1>8 DEF LeftoversOK, engine
<1>10. Pause
  <2>1. NotExpiring
    BY <1>1, <1>4 DEF NotExpiring, Expiring, Resting
  <2> QED
    BY <1>1, <1>8, <2>1, StayPause DEF course
<1> QED
  BY <1>6, <1>7, <1>9, <1>10, PauseStep

\* The turn goes on to its next state.
LEMMA GoKeeps ==
  ASSUME TurnInv, ~draining, ~Resting, turn.state # "End", NEW s \in States \ {"Rest"}, Go(s),
         Me = Boss => s \in {"BossBattle", "End"}, beaten => s = "End"
  PROVE  Kept
<1> DEFINE h == [turn EXCEPT !.state = s]
<1>1. turn \in TurnState /\ Me \in All /\ Me # Nobody /\ \A u \in Users : ~Expiring(u)
  BY WhoActs
<1>2. h \in TurnState /\ h.who = Me /\ h.state = s
  BY <1>1, StateField DEF Me
<1>3. turn' = [h EXCEPT !.step = "enter"] /\ Clear /\ UNCHANGED course
  BY DEF Go
<1> HIDE DEF h
<1>4. /\ turn' \in TurnState /\ turn'.who = Me /\ turn'.state = s
      /\ turn'.step = "enter"
  BY <1>2, <1>3, EnterIsStep, StepField
<1>5. TurnOK'
  BY <1>1, <1>4 DEF TurnOK, Stage, States, Resting, Me
<1>6. CourseOK'
  BY <1>3, <1>4, CourseStays DEF TurnInv
<1>7. NotExpiring
  BY <1>1, <1>4 DEF NotExpiring, Expiring
<1> QED
  BY <1>3, <1>5, <1>6, <1>7, ClearPause, PauseStep DEF course

LEMMA LeavesKeep ==
  ASSUME TurnInv, LeaveUpkeep \/ LeaveMoving \/ LeaveCheckpoint \/ LeaveDraw \/ LeaveBattle
  PROVE  Kept
<1>1. /\ turn.state \in {"Upkeep", "Main", "Moving", "Checkpoint", "Landed", "Draw"} => ~beaten
      /\ turn.state \in {"Main", "Moving", "Checkpoint", "Landed", "Draw"} => Me # Boss
  BY WhoActs
<1>2. CASE LeaveUpkeep
  <2>1. CASE At("Upkeep", "enter") /\ Me = Boss /\ Go("BossBattle")
    BY <1>1, <2>1, GoKeeps DEF At, Resting, States
  <2>2. CASE At("Upkeep", "done") /\ Go("Main")
    <3>1. Me # Boss
      BY <2>2 DEF At, TurnInv, TurnOK
    <3> QED
      BY <1>1, <2>2, <3>1, GoKeeps DEF At, Resting, States
  <2> QED
    BY <1>2, <2>1, <2>2 DEF LeaveUpkeep
<1>3. CASE LeaveMoving
  <2>1. At("Moving", turn.step) /\ \E s \in {"Landed", "Checkpoint", "End"} : Go(s)
    BY <1>3 DEF LeaveMoving, At
  <2> QED
    BY <1>1, <2>1, GoKeeps DEF At, Resting, States
<1>4. CASE LeaveCheckpoint
  BY <1>1, <1>4, GoKeeps DEF LeaveCheckpoint, At, Resting, States
<1>5. CASE LeaveDraw
  BY <1>1, <1>5, GoKeeps DEF LeaveDraw, At, Resting, States
<1>6. CASE LeaveBattle
  BY <1>6, GoKeeps DEF LeaveBattle, At, Resting, States
<1> QED
  BY <1>2, <1>3, <1>4, <1>5, <1>6

\* A player whose dice are thrown sets off, or fights where the Boss is.
LEMMA LeaveMainKeeps == ASSUME TurnInv, LeaveMain PROVE Kept
<1> DEFINE s == IF OnBossCell(Me) THEN "BossBattle" ELSE "Moving"
           h1 == [turn EXCEPT !.state = s]
           h2 == [h1 EXCEPT !.step = "enter"]
<1>1. /\ turn \in TurnState /\ Me \in Users /\ Me # Boss /\ Me # Nobody /\ ~beaten
      /\ ~draining /\ \A u \in Users : ~Expiring(u)
  BY WhoActs, PlayerAssumption DEF LeaveMain, At, All
<1>2. /\ turn' = [turn EXCEPT !.state = s, !.step = "enter", !.uses = 0] /\ Clear
      /\ UNCHANGED course
  BY DEF LeaveMain
<1>3. s \in {"BossBattle", "Moving"}
  OBVIOUS
<1> HIDE DEF s
<1>4. h1 \in TurnState /\ h1.who = Me /\ h1.state = s
  BY <1>1, <1>3, StateField DEF Me, States
<1>5. turn' = [h2 EXCEPT !.uses = 0]
  BY <1>2
<1> HIDE DEF h1
<1>6. h2 \in TurnState /\ h2.who = Me /\ h2.state = s /\ h2.step = "enter"
  BY <1>4, EnterIsStep, StepField
<1> HIDE DEF h2
<1>7. /\ turn' \in TurnState /\ turn'.who = Me /\ turn'.state = s
      /\ turn'.step = "enter"
  BY <1>5, <1>6, OtherField DEF Alike
<1>8. TurnOK'
  BY <1>1, <1>3, <1>7 DEF TurnOK, Stage, Resting, Me
<1>9. CourseOK'
  BY <1>1, <1>2, CourseStays DEF TurnInv
<1>10. NotExpiring
  BY <1>1, <1>7 DEF NotExpiring, Expiring
<1> QED
  BY <1>1, <1>2, <1>8, <1>9, <1>10, ClearPause, PauseStep DEF course

LEMMA LeaveLandedKeeps == ASSUME TurnInv, LeaveLanded PROVE Kept
<1>1. /\ turn \in TurnState /\ Me \in Users /\ Me # Boss /\ Me # Nobody /\ ~beaten
      /\ ~draining /\ \A u \in Users : ~Expiring(u)
  BY WhoActs, PlayerAssumption DEF LeaveLanded, At, All
<1>2. CASE At("Landed", "done") /\ Go("End")
  BY <1>1, <1>2, GoKeeps DEF At, Resting, States
<1>3. CASE ~(At("Landed", "done") /\ Go("End"))
  <2> DEFINE s == IF Draws(Me) THEN "Draw" ELSE "End"
             h == [turn EXCEPT !.state = s]
             d == Course[Here(Me)].draw
  <2>1. /\ turn' = [turn EXCEPT !.state = s, !.draw = d] /\ Clear
        /\ UNCHANGED course /\ turn.step = "enter"
    BY <1>3 DEF LeaveLanded, At
  <2>2. s \in {"Draw", "End"}
    OBVIOUS
  <2>3. d \in DrawTypes
    <3>1. Here(Me) \in Cells
      BY <1>1 DEF TurnInv, EngineOK, PlayersOK, PlayerState, Here, All
    <3> QED
      BY <3>1, CourseAssumption
  <2> HIDE DEF s, d
  <2>4. h \in TurnState /\ h.who = Me /\ h.state = s /\ h.step = "enter"
    BY <1>1, <2>1, <2>2, StateField DEF Me, States
  <2>5. turn' = [h EXCEPT !.draw = d]
    BY <2>1
  <2> HIDE DEF h
  <2>6. /\ turn' \in TurnState /\ turn'.who = Me /\ turn'.state = s
        /\ turn'.step = "enter"
    BY <2>3, <2>4, <2>5, OtherField DEF Alike
  <2>7. TurnOK'
    BY <1>1, <2>2, <2>6 DEF TurnOK, Stage, Resting, Me
  <2>8. CourseOK'
    BY <1>1, <2>1, CourseStays DEF TurnInv
  <2>9. NotExpiring
    BY <1>1, <2>6 DEF NotExpiring, Expiring
  <2> QED
    BY <1>1, <2>1, <2>7, <2>8, <2>9, ClearPause, PauseStep DEF course
<1> QED
  BY <1>2, <1>3

\* A reward is drawn, or there is none.
LEMMA RewardKeeps == ASSUME TurnInv, NEW r \in DrawTypes, Reward(r) PROVE Kept
<1> DEFINE s == IF r = "none" THEN "End" ELSE "Draw"
           h1 == [turn EXCEPT !.state = s]
           h2 == [h1 EXCEPT !.step = "enter"]
<1>1. /\ turn \in TurnState /\ Me \in Users /\ Me # Boss /\ Me # Nobody /\ ~beaten
      /\ ~draining /\ \A u \in Users : ~Expiring(u)
  BY WhoActs, PlayerAssumption DEF Reward, At, All, TurnInv, CourseOK
<1>2. /\ turn' = [turn EXCEPT !.state = s, !.step = "enter", !.draw = r] /\ Clear
      /\ UNCHANGED course
  BY DEF Reward
<1>3. s \in {"Draw", "End"}
  OBVIOUS
<1> HIDE DEF s
<1>4. h1 \in TurnState /\ h1.who = Me /\ h1.state = s
  BY <1>1, <1>3, StateField DEF Me, States
<1>5. turn' = [h2 EXCEPT !.draw = r]
  BY <1>2
<1> HIDE DEF h1
<1>6. h2 \in TurnState /\ h2.who = Me /\ h2.state = s /\ h2.step = "enter"
  BY <1>4, EnterIsStep, StepField
<1> HIDE DEF h2
<1>7. /\ turn' \in TurnState /\ turn'.who = Me /\ turn'.state = s
      /\ turn'.step = "enter"
  BY <1>5, <1>6, OtherField DEF Alike
<1>8. TurnOK'
  BY <1>1, <1>3, <1>7 DEF TurnOK, Stage, Resting, Me
<1>9. CourseOK'
  BY <1>1, <1>2, CourseStays DEF TurnInv
<1>10. NotExpiring
  BY <1>1, <1>7 DEF NotExpiring, Expiring
<1> QED
  BY <1>1, <1>2, <1>8, <1>9, <1>10, ClearPause, PauseStep DEF course

\* A state goes on to its next step.
LEMMA ThenKeeps ==
  ASSUME TurnInv, ~Resting, NEW s \in Steps \ {"suffer", "cast"}, Stage(turn.state, s),
         Me = Boss => turn.state # "Upkeep" /\ s # "settle", NEW h, Alike(h, turn) \/ h = turn,
         turn' = [h EXCEPT !.step = s]
  PROVE  /\ TurnOK' /\ turn'.who = turn.who /\ turn'.state = turn.state /\ turn'.step = s
         /\ turn'.prey = turn.prey /\ turn'.drawn = turn.drawn /\ turn'.expiring = turn.expiring
<1>1. TurnOK /\ turn \in TurnState
  BY DEF TurnInv, TurnOK
<1>2. /\ h \in TurnState /\ h.who = turn.who /\ h.state = turn.state
      /\ h.drawn = turn.drawn /\ h.prey = turn.prey /\ h.expiring = turn.expiring
  BY <1>1 DEF Alike
<1>3. /\ turn' \in TurnState /\ turn'.who = turn.who /\ turn'.state = turn.state /\ turn'.step = s
      /\ turn'.prey = turn.prey /\ turn'.drawn = turn.drawn /\ turn'.expiring = turn.expiring
  BY <1>2, StepField
<1>4. TurnOK'
  BY <1>1, <1>3 DEF TurnOK, Resting, Me
<1> QED
  BY <1>3, <1>4

\* The buffs of the one whose turn it is are other than before, but not their times.
LEMMA OwnBuffs ==
  ASSUME TurnInv, Me \in All, NEW held, SameBuffs(held, buffs[Me]) \/
           (/\ HeldOK(held) /\ DOMAIN held = DOMAIN buffs[Me]
            /\ \A k \in DOMAIN held : held[k].left = buffs[Me][k].left),
         buffs' = [buffs EXCEPT ![Me] = held]
  PROVE  SameTimes
<1>1. BuffsOK
  BY DEF TurnInv, EngineOK
<1>2. /\ HeldOK(held) /\ DOMAIN held = DOMAIN buffs[Me]
      /\ \A k \in DOMAIN buffs[Me] : held[k].left = buffs[Me][k].left
  BY DEF SameBuffs
<1>3. /\ buffs' = [p \in All |-> buffs'[p]] /\ buffs'[Me] = held
      /\ \A p \in All : p # Me => buffs'[p] = buffs[p]
  BY <1>1 DEF BuffsOK
<1>4. BuffsOK'
  BY <1>1, <1>2, <1>3 DEF BuffsOK, HeldOK
<1> QED
  BY <1>2, <1>3, <1>4 DEF SameTimes

\* A turn counter goes on or starts again.
LEMMA BeatOK ==
  ASSUME NEW b \in BuffState, NEW n \in Nat, NEW h, h = [b EXCEPT !.beat = n]
  PROVE  h \in BuffState /\ h.left = b.left
  BY DEF BuffState

LEMMA RekindledOK ==
  ASSUME NEW p, NEW held, HeldOK(held)
  PROVE  LET h == Rekindled(p, held)
         IN /\ HeldOK(h) /\ DOMAIN h = DOMAIN held
            /\ \A k \in DOMAIN held : h[k].left = held[k].left
<1> DEFINE h == Rekindled(p, held)
<1>1. DOMAIN h = DOMAIN held /\ h = [k \in DOMAIN h |-> h[k]]
  BY DEF Rekindled
<1>2. ASSUME NEW k \in DOMAIN held PROVE h[k] \in BuffState /\ h[k].left = held[k].left
  <2>1. held[k] \in BuffState /\ held[k].beat \in Nat
    BY DEF HeldOK, BuffState
  <2>2. CASE k = "fire"
    <3> DEFINE n == IF Kindled(p) THEN 0 ELSE held[k].beat + 1
    <3>1. h[k] = [held[k] EXCEPT !.beat = n]
      BY <2>2 DEF Rekindled
    <3>2. n \in Nat
      BY <2>1
    <3> HIDE DEF n, h
    <3> QED
      BY <2>1, <3>1, <3>2, BeatOK
  <2>3. CASE k # "fire"
    BY <2>1, <2>3 DEF Rekindled
  <2> QED
    BY <2>2, <2>3
<1> QED
  BY <1>1, <1>2 DEF HeldOK

LEMMA BeatenOK ==
  ASSUME NEW held, HeldOK(held)
  PROVE  LET h == Beaten(held)
         IN /\ HeldOK(h) /\ DOMAIN h = DOMAIN held
            /\ \A k \in DOMAIN held : h[k].left = held[k].left
<1> DEFINE h == Beaten(held)
<1>1. DOMAIN h = DOMAIN held /\ h = [k \in DOMAIN h |-> h[k]]
  BY DEF Beaten
<1>2. ASSUME NEW k \in DOMAIN held PROVE h[k] \in BuffState /\ h[k].left = held[k].left
  <2>1. held[k] \in BuffState /\ held[k].beat \in Nat
    BY DEF HeldOK, BuffState
  <2>2. CASE k \in {"corrupt", "rain"}
    <3> DEFINE n == IF Beats(held, k) THEN 0 ELSE held[k].beat + 1
               r == [held[k] EXCEPT !.ripe = TRUE]
    <3>1. h[k] = [r EXCEPT !.beat = n]
      BY <2>2 DEF Beaten
    <3>2. n \in Nat
      BY <2>1
    <3>3. r \in BuffState /\ r.left = held[k].left
      BY <2>1 DEF BuffState
    <3> HIDE DEF n, h, r
    <3> QED
      BY <3>1, <3>2, <3>3, BeatOK
  <2>3. CASE k \notin {"corrupt", "rain"}
    BY <2>1, <2>3 DEF Beaten
  <2> QED
    BY <2>2, <2>3
<1> QED
  BY <1>1, <1>2 DEF HeldOK

\* A step of a state at which nothing ends and the course stays as it is.
LEMMA SameState ==
  ASSUME TurnInv, turn.state # "End" \/ turn.step # "expire", turn'.state = turn.state,
         turn'.state # "End" \/ turn'.step # "expire"
  PROVE  NotExpiring
  BY DEF NotExpiring, Expiring

LEMMA UpkeepKeeps == ASSUME TurnInv, Upkeep PROVE Kept
<1> DEFINE held == Rekindled(Me, Ripen(buffs[Me], Buffs))
           next == IF Kindled(Me) THEN <<ModifyLP(Me, 1)>> ELSE <<>>
           s == IF Has(Me, "poison") THEN "poisoned" ELSE "done"
<1>1. /\ turn.state = "Upkeep" /\ turn.step = "enter" /\ ~draining /\ Me \in Users
      /\ buffs' = [buffs EXCEPT ![Me] = held] /\ Push(next) /\ UNCHANGED course
      /\ turn' = [turn EXCEPT !.step = s]
  BY DEF Upkeep, At, Then
<1>2. Me \in All /\ Me # Boss /\ ~beaten /\ queue = <<>> /\ ~Resting /\ turn \in TurnState
  BY <1>1, WhoActs, PlayerAssumption DEF All, Resting
<1>3. HeldOK(buffs[Me])
  BY <1>2 DEF TurnInv, EngineOK, BuffsOK
<1>4. SameBuffs(Ripen(buffs[Me], Buffs), buffs[Me])
  BY <1>3, RipenSame
<1>5. /\ HeldOK(held) /\ DOMAIN held = DOMAIN buffs[Me]
      /\ \A k \in DOMAIN held : held[k].left = buffs[Me][k].left
  BY <1>4, RekindledOK DEF SameBuffs
<1>6. Wish(next)
  <2>1. Wanted(ModifyLP(Me, 1))
    BY <1>2, ActWanted DEF ModifyLP
  <2> QED
    BY <2>1, WishOne, WishNone
<1>7. s \in Steps \ {"suffer", "cast"} /\ Stage(turn.state, s)
  BY <1>1 DEF Steps, Stage
<1> HIDE DEF held, next, s
<1>8. TurnOK' /\ turn'.state = turn.state
  BY <1>1, <1>2, <1>7, ThenKeeps
<1>9. SameTimes
  BY <1>1, <1>2, <1>5, OwnBuffs
<1>10. CourseOK'
  BY <1>1, <1>2, CourseStays DEF TurnInv
<1>11. NotExpiring
  BY <1>1, <1>8, SameState
<1> QED
  BY <1>1, <1>2, <1>6, <1>8, <1>9, <1>10, <1>11, PushPause, PauseStep DEF course

LEMMA SufferKeeps == ASSUME TurnInv, SufferEvent PROVE Kept
<1>1. /\ turn.step = "suffer" /\ ~draining /\ buffs' = buffs /\ UNCHANGED course
      /\ turn' = [turn EXCEPT !.step = "done"]
  BY DEF SufferEvent, Then
<1>2. turn.state \in {"Upkeep", "Landed", "Draw"} /\ turn.drawn \in Events /\ ~Resting
  BY <1>1 DEF TurnInv, TurnOK, Stage, Resting
<1>3. /\ Me \in All /\ Me # Boss /\ ~beaten /\ queue = <<>> /\ turn \in TurnState
  BY <1>1, <1>2, WhoActs DEF TurnInv, TurnOK
<1>4. PICK next \in EventEffects(turn.drawn, Me) : Push(next)
  BY DEF SufferEvent
<1>5. Wish(next)
  BY <1>2, <1>3, EventEffectsOK DEF TurnInv, EngineOK, All
<1>6. "done" \in Steps \ {"suffer", "cast"} /\ Stage(turn.state, "done")
  BY <1>2 DEF Steps, Stage
<1>7. TurnOK' /\ turn'.state = turn.state
  BY <1>1, <1>2, <1>3, <1>6, ThenKeeps
<1>8. CourseOK'
  BY <1>1, <1>3, CourseStays DEF TurnInv
<1>9. NotExpiring
  BY <1>2, <1>7, SameState
<1> QED
  BY <1>1, <1>3, <1>4, <1>5, <1>7, <1>8, <1>9, SameBuffsTimes, PushPause, PauseStep DEF course

LEMMA UseItemKeeps ==
  ASSUME TurnInv, NEW i \in Items, NEW t \in All \cup {Nobody}, UseItem(i, t) PROVE Kept
<1> DEFINE next == ItemEffect(i, Me, t)
           h1 == [turn EXCEPT !.used = i]
           h2 == [h1 EXCEPT !.uses = turn.uses + 1]
<1>1. /\ turn.state = "Main" /\ turn.step = "enter" /\ ~draining /\ Push(next)
      /\ t = Nobody => i \notin NeedsTarget
      /\ turn' = [turn EXCEPT !.step = "consume", !.used = i, !.uses = turn.uses + 1]
      /\ buffs' = buffs /\ UNCHANGED course
  BY DEF UseItem, At
<1>2. Me \in Users /\ Me # Boss /\ ~beaten /\ queue = <<>> /\ ~Resting /\ turn \in TurnState
  BY <1>1, WhoActs DEF Resting
<1>3. Wish(next)
  BY <1>1, <1>2, ItemEffectOK DEF TurnInv, EngineOK
<1>4. Alike(h2, turn)
  <2>1. Alike(h1, turn)
    BY <1>2, OtherField
  <2>2. turn.uses + 1 \in Nat
    BY <1>2 DEF TurnState
  <2> HIDE DEF h1
  <2>3. Alike(h2, h1)
    BY <2>1, <2>2, OtherField DEF Alike
  <2> QED
    BY <2>1, <2>3 DEF Alike
<1>5. turn' = [h2 EXCEPT !.step = "consume"]
  BY <1>1, <1>2 DEF TurnState
<1>6. "consume" \in Steps \ {"suffer", "cast"} /\ Stage(turn.state, "consume")
  BY <1>1 DEF Steps, Stage
<1> HIDE DEF h2
<1>7. TurnOK' /\ turn'.state = turn.state
  BY <1>1, <1>2, <1>4, <1>5, <1>6, ThenKeeps
<1>8. CourseOK'
  BY <1>1, <1>2, CourseStays DEF TurnInv
<1>9. NotExpiring
  BY <1>1, <1>7, SameState
<1> QED
  BY <1>1, <1>2, <1>3, <1>7, <1>8, <1>9, SameBuffsTimes, PushPause, PauseStep DEF course

\* The luck of the target is another's: the buff points at somebody else now.
LEMMA PointedOK ==
  ASSUME NEW held, HeldOK(held), "rob_luck" \in DOMAIN held, NEW q \in All,
         NEW h, h = [held EXCEPT !["rob_luck"].peer = q]
  PROVE  /\ HeldOK(h) /\ DOMAIN h = DOMAIN held
         /\ \A k \in DOMAIN held : h[k].left = held[k].left
<1> DEFINE b == [held["rob_luck"] EXCEPT !.peer = q]
<1>1. h = [held EXCEPT !["rob_luck"] = b]
  OBVIOUS
<1>2. held["rob_luck"] \in BuffState
  BY DEF HeldOK
<1>3. b \in BuffState /\ b.left = held["rob_luck"].left
  BY <1>2 DEF BuffState
<1> HIDE DEF b
<1>4. /\ DOMAIN h = DOMAIN held /\ h["rob_luck"] = b /\ h = [k \in DOMAIN h |-> h[k]]
      /\ \A k \in DOMAIN held : k # "rob_luck" => h[k] = held[k]
  BY <1>1 DEF HeldOK
<1>5. \A k \in DOMAIN held : h[k] \in BuffState /\ h[k].left = held[k].left
  BY <1>3, <1>4 DEF HeldOK
<1> QED
  BY <1>4, <1>5 DEF HeldOK

LEMMA ClaimKeeps == ASSUME TurnInv, Claim PROVE Kept
<1> DEFINE h == [turn EXCEPT !.step = "enter"]
<1>1. /\ turn.state = "Main" /\ turn.step = "claim" /\ ~draining
      /\ buffs' = [p \in All |->
                     IF p \in turn.prey /\ Has(p, "rob_luck")
                       THEN [buffs[p] EXCEPT !["rob_luck"].peer = Me] ELSE buffs[p]]
      /\ turn' = [turn EXCEPT !.step = "enter", !.prey = {}]
      /\ UNCHANGED <<player, queue, draining, count, extended, course>>
  BY DEF Claim, At
<1>2. /\ Me \in Users /\ Me # Boss /\ Me # Nobody /\ Me \in All /\ ~beaten /\ queue = <<>>
      /\ turn \in TurnState /\ ~Resting
  BY <1>1, WhoActs DEF All, Resting
<1>3. h \in TurnState /\ h.who = Me /\ h.state = "Main" /\ h.step = "enter"
  BY <1>1, <1>2, EnterIsStep, StepField DEF Me
<1>4. turn' = [h EXCEPT !.prey = {}]
  BY <1>1
<1> HIDE DEF h
<1>5. turn' \in TurnState /\ turn'.who = Me /\ turn'.state = "Main" /\ turn'.step = "enter"
  BY <1>3, <1>4, PreyField
<1>6. TurnOK'
  BY <1>2, <1>5 DEF TurnOK, Stage, Resting, Me
<1>7. ASSUME NEW p \in All
      PROVE  /\ HeldOK(buffs'[p]) /\ DOMAIN buffs'[p] = DOMAIN buffs[p]
             /\ \A k \in DOMAIN buffs[p] : buffs'[p][k].left = buffs[p][k].left
  <2>1. HeldOK(buffs[p])
    BY DEF TurnInv, EngineOK, BuffsOK
  <2>2. CASE p \in turn.prey /\ Has(p, "rob_luck")
    <3>1. buffs'[p] = [buffs[p] EXCEPT !["rob_luck"].peer = Me]
      BY <1>1, <2>2
    <3> QED
      BY <1>2, <2>1, <2>2, <3>1, PointedOK DEF Has
  <2>3. CASE ~(p \in turn.prey /\ Has(p, "rob_luck"))
    BY <1>1, <2>1, <2>3
  <2> QED
    BY <2>2, <2>3
<1>8. BuffsOK'
  BY <1>1, <1>7 DEF BuffsOK, HeldOK
<1>9. SameTimes
  BY <1>7, <1>8 DEF SameTimes
<1>10. CourseOK'
  BY <1>1, <1>2, CourseStays DEF TurnInv
<1>11. NotExpiring
  BY <1>1, <1>5, SameState
<1>12. Pause /\ LeftoversOK'
  BY <1>1, <1>2, <1>9, <1>11, QuietPause
<1> QED
  BY <1>6, <1>10, <1>12, PauseStep

LEMMA PreMoveKeeps == ASSUME TurnInv, PreMove PROVE Kept
<1> DEFINE n == Reversed(turn.steps)
           h == [turn EXCEPT !.steps = n]
<1>1. /\ turn.state = "Moving" /\ turn.step = "enter" /\ ~draining
      /\ buffs' = [buffs EXCEPT ![Me] = Ripen(buffs[Me], {"lost"})]
      /\ turn' = [turn EXCEPT !.step = "set_off", !.steps = n]
      /\ UNCHANGED <<player, queue, draining, count, extended, course>>
  BY DEF PreMove, At
<1>2. /\ Me \in All /\ Me # Boss /\ ~beaten /\ queue = <<>> /\ turn \in TurnState /\ ~Resting
  BY <1>1, WhoActs DEF All, Resting
<1>3. n \in Int
  BY <1>2 DEF TurnState, Reversed
<1> HIDE DEF n
<1>4. Alike(h, turn)
  BY <1>2, <1>3, OtherField
<1>5. turn' = [h EXCEPT !.step = "set_off"]
  BY <1>1, <1>2 DEF TurnState
<1>6. "set_off" \in Steps \ {"suffer", "cast"} /\ Stage(turn.state, "set_off")
  BY <1>1 DEF Steps, Stage
<1> HIDE DEF h
<1>7. TurnOK' /\ turn'.state = turn.state
  <2>1. ~Resting /\ Me # Boss
    BY <1>2
  <2> QED
    BY <1>4, <1>5, <1>6, <2>1, ThenKeeps
<1>8. SameBuffs(Ripen(buffs[Me], {"lost"}), buffs[Me])
  BY <1>2, RipenSame DEF TurnInv, EngineOK, BuffsOK
<1>9. SameTimes
  BY <1>1, <1>2, <1>8, OwnBuffs
<1>10. CourseOK'
  BY <1>1, <1>2, CourseStays DEF TurnInv
<1>11. NotExpiring
  BY <1>1, <1>7, SameState
<1>12. Pause /\ LeftoversOK'
  BY <1>1, <1>2, <1>9, <1>11, QuietPause
<1> QED
  BY <1>7, <1>10, <1>12, PauseStep

\* The Boss has fallen.
LEMMA VictoryKeeps == ASSUME TurnInv, Victory PROVE Kept
<1>1. /\ turn.state = "BossBattle" /\ turn.step = "struck" /\ ~draining /\ Me \in Users
      /\ beaten' = TRUE /\ turn' = [turn EXCEPT !.step = "done"]
      /\ UNCHANGED <<engine, acted, round, charge, parity, broken>>
  BY DEF Victory, At, Then
<1>2. Me # Boss /\ ~Resting
  BY <1>1, PlayerAssumption DEF Resting
<1>3. "done" \in Steps \ {"suffer", "cast"} /\ Stage(turn.state, "done")
  BY <1>1 DEF Steps, Stage
<1>4. TurnOK' /\ turn'.state = turn.state /\ turn'.step = "done" /\ turn'.who = turn.who
  BY <1>1, <1>2, <1>3, ThenKeeps
<1>5. CourseOK'
  BY <1>1, <1>4 DEF TurnInv, CourseOK, IsFragile
<1>6. LeftoversOK'
  BY <1>1, <1>4 DEF TurnInv, LeftoversOK, engine, Me
<1>7. NotExpiring
  BY <1>1, <1>4, SameState
<1> QED
  BY <1>1, <1>4, <1>5, <1>6, <1>7, StayPause, PauseStep

LEMMA SkillKeeps == ASSUME TurnInv, SkillStrikes PROVE Kept
<1>1. /\ turn.state = "BossBattle" /\ turn.step = "cast" /\ ~draining
      /\ turn' = [turn EXCEPT !.step = "struck"] /\ buffs' = buffs /\ UNCHANGED course
  BY DEF SkillStrikes, At, Then
<1>2. /\ turn.drawn \in Skills /\ Me = Boss /\ turn.prey \in SUBSET Users /\ ~beaten
      /\ queue = <<>> /\ ~Resting
  BY <1>1, WhoActs DEF TurnInv, TurnOK, CourseOK, Resting
<1>3. PICK next \in SkillEffects(turn.drawn, turn.prey) : Push(next)
  BY DEF SkillStrikes
<1>4. Wish(next)
  BY <1>2, SkillEffectsOK
<1>5. "struck" \in Steps \ {"suffer", "cast"} /\ Stage(turn.state, "struck")
  BY <1>1 DEF Steps, Stage
<1>6. TurnOK' /\ turn'.state = turn.state
  BY <1>1, <1>2, <1>5, ThenKeeps
<1>7. CourseOK'
  BY <1>1, <1>2, CourseStays DEF TurnInv
<1>8. NotExpiring
  BY <1>1, <1>6, SameState
<1> QED
  BY <1>1, <1>2, <1>3, <1>4, <1>6, <1>7, <1>8, SameBuffsTimes, PushPause, PauseStep DEF course

\* At the end of a turn corruption hurts and sweet rain heals.
LEMMA DuesWanted ==
  ASSUME NEW p \in All, NEW o \in SetToSeqs(Dues(p)) PROVE Wish(o)
<1> DEFINE D == Dues(p)
           N == Cardinality(D)
<1>1. D \subseteq {Damage(p, 1), Heal(p, 1)}
  BY DEF Dues
<1>2. \A x \in D : Wanted(x)
  BY <1>1, ActWanted DEF Damage, Heal
<1>3. IsFiniteSet(D)
  <2>1. IsFiniteSet({} \cup {Damage(p, 1)})
    BY FS_EmptySet, FS_AddElement
  <2>2. IsFiniteSet(({} \cup {Damage(p, 1)}) \cup {Heal(p, 1)})
    BY <2>1, FS_AddElement
  <2>3. D \subseteq ({} \cup {Damage(p, 1)}) \cup {Heal(p, 1)}
    BY <1>1
  <2> HIDE DEF D
  <2> QED
    BY <2>2, <2>3, FS_Subset
<1>4. o \in [1 .. N -> D]
  BY DEF SetToSeqs
<1> HIDE DEF D
<1>5. N \in Nat
  BY <1>3, FS_CardinalityType
<1> HIDE DEF N
<1>6. o \in Seq(D)
  BY <1>4, <1>5
<1>7. ToSet(o) \subseteq D
  BY <1>4 DEF ToSet
<1>8. \A x \in D : x \in Action
  BY <1>2 DEF Wanted, Sound
<1>9. o \in Seq(Action)
  BY <1>4, <1>5, <1>8, IsASeq
<1> QED
  BY <1>2, <1>7, <1>9 DEF Wish

LEMMA AfterTurnKeeps == ASSUME TurnInv, AfterTurn PROVE Kept
<1>1. /\ turn.state = "End" /\ turn.step = "enter" /\ ~draining /\ Me \in Users /\ ~beaten
      /\ buffs' = [buffs EXCEPT ![Me] = Beaten(buffs[Me])] /\ UNCHANGED course
      /\ turn' = [turn EXCEPT !.step = "settle"]
  BY DEF AfterTurn, At, Then
<1>2. Me # Boss /\ ~Resting /\ Me \in All /\ queue = <<>>
  BY <1>1, PlayerAssumption, WhoActs DEF Resting, All
<1>3. PICK next \in SetToSeqs(Dues(Me)) : Push(next)
  BY DEF AfterTurn
<1>4. Wish(next)
  BY <1>2, <1>3, DuesWanted
<1>5. "settle" \in Steps \ {"suffer", "cast"} /\ Stage(turn.state, "settle")
  BY <1>1 DEF Steps, Stage
<1>6. TurnOK' /\ turn'.state = turn.state /\ turn'.step = "settle"
  BY <1>1, <1>2, <1>5, ThenKeeps
<1>7. /\ HeldOK(Beaten(buffs[Me])) /\ DOMAIN Beaten(buffs[Me]) = DOMAIN buffs[Me]
      /\ \A k \in DOMAIN buffs[Me] : Beaten(buffs[Me])[k].left = buffs[Me][k].left
  BY <1>2, BeatenOK DEF TurnInv, EngineOK, BuffsOK
<1>8. SameTimes
  BY <1>1, <1>2, <1>7, OwnBuffs
<1>9. CourseOK'
  BY <1>1, CourseStays DEF TurnInv
<1>10. NotExpiring
  BY <1>1, <1>6, SameState
<1> QED
  BY <1>1, <1>2, <1>3, <1>4, <1>6, <1>8, <1>9, <1>10, PushPause, PauseStep DEF course

-----------------------------------------------------------------------------
(* Moves along the course *)

LEMMA CellsAreNat == Cells \subseteq Nat /\ 0 \in Cells /\ Length - 1 \in Cells
  BY LengthAssumption DEF Cells

\* A move ends on the course, in the direction of its steps.
LEMMA GoalOK ==
  ASSUME NEW start \in Cells, NEW steps \in Int
  PROVE  /\ Goal(start, steps) \in Cells
         /\ steps > 0 => Goal(start, steps) >= start
         /\ steps <= 0 => Goal(start, steps) <= start
  BY LengthAssumption DEF Goal, Cells

\* The way from a cell to another: one cell after the other.
LEMMA CellwayOK ==
  ASSUME NEW start \in Cells, NEW goal \in Cells
  PROVE  LET way == Cellway(start, goal)
         IN /\ way \in Seq(Cells) /\ Len(way) >= 1 /\ way[1] = start
            /\ way[Len(way)] = goal
            /\ start <= goal => \A i \in 1 .. Len(way) : way[i] = start + i - 1
            /\ goal <= start => \A i \in 1 .. Len(way) : way[i] = start - i + 1
<1> DEFINE way == Cellway(start, goal)
<1>1. start \in Nat /\ goal \in Nat /\ Length \in Nat /\ start <= Length - 1 /\ goal <= Length - 1
  BY LengthAssumption DEF Cells
<1>2. CASE start <= goal
  <2> DEFINE n == goal - start + 1
  <2>1. n \in Nat /\ n >= 1 /\ way = [i \in 1 .. n |-> start + i - 1]
    BY <1>1, <1>2 DEF Cellway
  <2>2. \A i \in 1 .. n : start + i - 1 \in Cells
    BY <1>1, <1>2 DEF Cells
  <2> HIDE DEF way
  <2>3. way \in Seq(Cells) /\ Len(way) = n
    BY <2>1, <2>2, IsASeq
  <2>4. \A i \in 1 .. n : way[i] = start + i - 1
    BY <2>1
  <2>5. way[1] = start /\ way[n] = goal
    <3>1. 1 \in 1 .. n /\ n \in 1 .. n
      BY <2>1
    <3> QED
      BY <1>1, <2>4, <3>1
  <2>6. goal <= start => start = goal /\ n = 1
    BY <1>1, <1>2
  <2>7. goal <= start => \A i \in 1 .. n : way[i] = start - i + 1
    BY <1>1, <2>5, <2>6
  <2> HIDE DEF n
  <2> QED
    BY <1>2, <2>1, <2>3, <2>4, <2>5, <2>7 DEF way
<1>3. CASE ~(start <= goal)
  <2> DEFINE n == start - goal + 1
  <2>1. n \in Nat /\ n >= 1 /\ way = [i \in 1 .. n |-> start - i + 1]
    BY <1>1, <1>3 DEF Cellway
  <2>2. \A i \in 1 .. n : start - i + 1 \in Cells
    BY <1>1, <1>3 DEF Cells
  <2> HIDE DEF way
  <2>3. way \in Seq(Cells) /\ Len(way) = n
    BY <2>1, <2>2, IsASeq
  <2>4. \A i \in 1 .. n : way[i] = start - i + 1
    BY <2>1
  <2>5. way[1] = start /\ way[n] = goal
    <3>1. 1 \in 1 .. n /\ n \in 1 .. n
      BY <2>1
    <3> QED
      BY <1>1, <2>4, <3>1
  <2>6. start <= goal => FALSE
    BY <1>1, <1>3
  <2> HIDE DEF n
  <2> QED
    BY <1>3, <2>1, <2>3, <2>4, <2>5, <2>6 DEF way
<1> QED
  BY <1>2, <1>3

\* The path taken: the way, or the way but for its last cell.
LEMMA PathOK ==
  ASSUME NEW start \in Cells, NEW steps \in Int, NEW holes
  PROVE  LET route == CalculatePath(start, steps, holes)
         IN /\ route.path \in Seq(Cells) /\ Len(route.path) >= 1 /\ route.path[1] = start
            /\ route.target = route.path[Len(route.path)]
            /\ route.original = start + steps
            /\ route.breaks = {c \in ToSet(route.path) : IsFragile(c)}
            /\ steps > 0 => \A i \in 1 .. Len(route.path) : route.path[i] = start + i - 1
            /\ steps <= 0 => \A i \in 1 .. Len(route.path) : route.path[i] <= start
<1> DEFINE goal == Goal(start, steps)
           way == Cellway(start, goal)
           hole == IsFragile(goal) /\ goal \in holes
           path == IF hole /\ Len(way) > 1 THEN Front(way) ELSE way
           route == CalculatePath(start, steps, holes)
<1>1. /\ goal \in Cells
      /\ steps > 0 => goal >= start
      /\ steps <= 0 => goal <= start
  BY GoalOK
<1>2. /\ way \in Seq(Cells) /\ Len(way) >= 1 /\ way[1] = start
      /\ start <= goal => \A i \in 1 .. Len(way) : way[i] = start + i - 1
      /\ goal <= start => \A i \in 1 .. Len(way) : way[i] = start - i + 1
  BY <1>1, CellwayOK
<1>3. /\ route.path = path /\ route.target = Last(path) /\ route.original = start + steps
      /\ route.breaks = {c \in ToSet(path) : IsFragile(c)}
  BY DEF CalculatePath
<1>4. start \in Nat /\ goal \in Nat
  BY <1>1, CellsAreNat
<1> HIDE DEF way, goal, hole
<1>5. /\ path \in Seq(Cells) /\ Len(path) >= 1 /\ path[1] = start
      /\ \A i \in 1 .. Len(path) : i \in 1 .. Len(way) /\ path[i] = way[i]
  <2>1. CASE hole /\ Len(way) > 1
    <3>1. way # <<>> /\ path = Front(way)
      BY <1>2, <2>1
    <3>2. /\ path \in Seq(Cells) /\ Len(path) = Len(way) - 1
          /\ \A i \in 1 .. Len(way) - 1 : path[i] = way[i]
      <4> DEFINE l == Len(way)
      <4>1. path = SubSeq(way, 1, l - 1)
        BY <3>1 DEF Front
      <4>2. l \in Nat /\ l > 1 /\ \A i \in 1 .. l : way[i] \in Cells
        BY <1>2, <2>1, LenProperties
      <4>3. l - 1 \in Int /\ 1 \in Int /\ \A i \in 1 .. l - 1 : way[i] \in Cells
        BY <4>2
      <4> HIDE DEF path, l
      <4>4. /\ path \in Seq(Cells)
            /\ Len(path) = IF 1 <= l - 1 THEN l - 1 - 1 + 1 ELSE 0
            /\ \A i \in 1 .. l - 1 - 1 + 1 : path[i] = way[1 + i - 1]
        BY <1>2, <4>1, <4>3, SubSeqProperties
      <4>5. Len(path) = l - 1
        BY <4>2, <4>4
      <4>6. \A i \in 1 .. l - 1 : path[i] = way[i]
        BY <4>2, <4>4
      <4> QED
        BY <4>4, <4>5, <4>6 DEF l
    <3> HIDE DEF path
    <3>3. Len(way) \in Nat
      BY <1>2, LenProperties
    <3> QED
      BY <1>2, <2>1, <3>2, <3>3
  <2>2. CASE ~(hole /\ Len(way) > 1)
    BY <1>2, <2>2, LenProperties
  <2> QED
    BY <2>1, <2>2
<1> HIDE DEF path, route
<1>6. Last(path) = path[Len(path)]
  BY DEF Last
<1>7. ASSUME steps > 0, NEW i \in 1 .. Len(path) PROVE path[i] = start + i - 1
  BY <1>1, <1>2, <1>4, <1>5, <1>7
<1>8. ASSUME steps <= 0, NEW i \in 1 .. Len(path) PROVE path[i] <= start
  <2>1. path[i] = start - i + 1 /\ i \in Nat /\ i >= 1
    BY <1>1, <1>2, <1>4, <1>5, <1>8
  <2> QED
    BY <1>4, <2>1
<1> QED
  BY <1>3, <1>5, <1>6, <1>7, <1>8 DEF route

\* A player is brought back to a cell before, which holds: a checkpoint or the start.
LEMMA LastCheckpointOK ==
  ASSUME NEW c \in Cells
  PROVE  GetLastCheckpoint(c) \in Cells /\ ~IsFragile(GetLastCheckpoint(c))
<1> DEFINE before == {d \in 0 .. (c - 1) : IsCheckpoint(d)} \cup {0}
           last == CHOOSE d \in before : \A e \in before : e <= d
<1>1. c \in Nat /\ c <= Length - 1
  BY LengthAssumption DEF Cells
<1>2. before \in SUBSET (0 .. c) /\ before # {} /\ 0 \in Int /\ c \in Int
  BY <1>1
<1>3. GetLastCheckpoint(c) = last
  BY DEF GetLastCheckpoint
<1>4. \A d \in before : IsCheckpoint(d) \/ d = 0
  OBVIOUS
<1> HIDE DEF before
<1>5. \E d \in before : \A e \in before : e <= d
  BY ONLY <1>2, ExtremesExist
<1>6. last \in before
  BY <1>5
<1> HIDE DEF last
<1>7. last \in Cells
  <2>1. last \in 0 .. c /\ Length \in Int
    BY <1>2, <1>6, LengthAssumption
  <2> QED
    BY <1>1, <2>1 DEF Cells
<1>8. ~IsFragile(last)
  BY <1>4, <1>6, EndsAssumption DEF IsFragile, IsCheckpoint
<1> QED
  BY <1>3, <1>7, <1>8

\* The first checkpoint of a path that has one.
LEMMA FirstCheckpointOK ==
  ASSUME NEW path \in Seq(Cells), CheckpointsIn(path) # {}
  PROVE  \E i \in 2 .. Len(path) :
           /\ FirstCheckpoint(path) = path[i] /\ IsCheckpoint(path[i])
           /\ \A j \in 2 .. Len(path) : IsCheckpoint(path[j]) => i <= j
<1> DEFINE S == CheckpointsIn(path)
           i == CHOOSE x \in S : \A y \in S : x <= y
           n == Len(path)
<1>1. S \in SUBSET (2 .. n) /\ S # {} /\ 2 \in Int
  BY DEF CheckpointsIn
<1>2. n \in Int
  BY LenProperties
<1>3. \A j \in 2 .. n : IsCheckpoint(path[j]) <=> j \in S
  BY DEF CheckpointsIn
<1>4. FirstCheckpoint(path) = path[i]
  BY DEF FirstCheckpoint
<1> HIDE DEF S, n
<1>5. \E x \in S : \A y \in S : x <= y
  BY ONLY <1>1, <1>2, ExtremesExist
<1>6. i \in S /\ \A y \in S : i <= y
  BY <1>5
<1> HIDE DEF i
<1> QED
  BY <1>1, <1>3, <1>4, <1>6 DEF n

\* Where a walk comes to: on no cell that still holds and gives way, and never past a
\* checkpoint but on to it.
OnTo(s) ==
  /\ turn' \in TurnState /\ turn'.who = turn.who /\ turn'.state = turn.state /\ turn'.step = s
  /\ turn'.prey = turn.prey /\ turn'.drawn = turn.drawn /\ turn'.expiring = turn.expiring

WalkEnds(c) ==
  \/ OnTo("fell")
  \/ OnTo("walked") /\ \A d \in Here(Me) + 1 .. c : ~IsCheckpoint(d)
  \/ /\ OnTo("checkpoint") /\ IsCheckpoint(c) /\ c > Here(Me)
     /\ \A d \in Here(Me) + 1 .. c - 1 : ~IsCheckpoint(d)

WalksTo(c) ==
  /\ Top(Act("Move", Me, c, "none"))
  /\ IsFragile(c) => c \in Route.breaks
  /\ WalkEnds(c)

LEMMA WalkOK ==
  ASSUME TurnInv, Me \in All, turn.steps \in Int, Walk
  PROVE  \E c \in Cells : WalksTo(c)
<1> DEFINE start == Here(Me)
           path == Route.path
           l == Len(path)
<1>1. start \in Cells
  BY DEF TurnInv, EngineOK, PlayersOK, PlayerState, Here
<1>2. /\ path \in Seq(Cells) /\ l >= 1 /\ path[1] = start
      /\ Route.target = path[l] /\ Route.original = start + turn.steps
      /\ Route.breaks = {c \in ToSet(path) : IsFragile(c)}
      /\ turn.steps > 0 => \A i \in 1 .. l : path[i] = start + i - 1
      /\ turn.steps <= 0 => \A i \in 1 .. l : path[i] <= start
  BY <1>1, PathOK DEF Route
<1>3. /\ StopsShort <=> turn.steps > 0 /\ CheckpointsIn(path) # {}
  BY DEF StopsShort
<1>4. start \in Nat /\ Cells \subseteq Nat /\ l \in Nat
  BY <1>1, <1>2, CellsAreNat, LenProperties
<1>5. \A i \in 1 .. l : path[i] \in Cells /\ path[i] \in ToSet(path)
  BY <1>2, LenProperties DEF ToSet
<1> HIDE DEF start, path, l
<1>6. CASE Route.fell \/ ~StopsShort
  <2> DEFINE s == IF Route.fell THEN "fell" ELSE "walked"
  <2>1. Top(Act("Move", Me, Route.target, "none")) /\ OnTo(s)
    <3>1. Top(Act("Move", Me, Route.target, "none")) /\ turn' = [turn EXCEPT !.step = s]
      BY <1>6 DEF Walk, Then
    <3>2. turn \in TurnState /\ s \in Steps
      BY DEF TurnInv, TurnOK, Steps
    <3> HIDE DEF s
    <3> QED
      BY <3>1, <3>2, StepField DEF OnTo
  <2>2. Route.target \in Cells /\ (IsFragile(Route.target) => Route.target \in Route.breaks)
    BY <1>2, <1>4, <1>5
  <2>3. ASSUME ~Route.fell, NEW d \in start + 1 .. Route.target PROVE ~IsCheckpoint(d)
    <3>1. ~StopsShort
      BY <1>6, <2>3
    <3>2. turn.steps > 0
      <4>1. SUFFICES ASSUME turn.steps <= 0 PROVE FALSE
        OBVIOUS
      <4>2. path[l] <= start /\ path[l] \in Nat
        <5>1. l \in 1 .. l
          BY <1>2, <1>4
        <5> QED
          BY <1>2, <1>4, <1>5, <4>1, <5>1
      <4>3. d \in Int /\ start + 1 <= d /\ d <= path[l]
        BY <1>2, <1>4, <2>3, <4>2
      <4> QED
        BY <1>4, <4>2, <4>3
    <3>3. path[l] = start + l - 1
      BY <1>2, <1>4, <3>2, SMTT(30)
    <3>4. d - start + 1 \in 2 .. l /\ path[d - start + 1] = d
      <4>1. d \in Int /\ d >= start + 1 /\ d <= start + l - 1
        BY <1>2, <1>4, <2>3, <3>3
      <4>2. d - start + 1 \in 2 .. l /\ d - start + 1 \in 1 .. l
        BY <1>4, <4>1
      <4> QED
        BY <1>2, <1>4, <3>2, <4>1, <4>2
    <3>5. CheckpointsIn(path) = {}
      BY <1>3, <3>1, <3>2
    <3> QED
      BY <3>4, <3>5 DEF CheckpointsIn, l
  <2>4. WalkEnds(Route.target)
    <3>1. CASE Route.fell
      BY <2>1, <3>1 DEF WalkEnds
    <3>2. CASE ~Route.fell
      BY <2>1, <2>3, <3>2 DEF start, WalkEnds
    <3> QED
      BY <3>1, <3>2
  <2> QED
    BY <2>1, <2>2, <2>4 DEF WalksTo
<1>7. CASE ~(Route.fell \/ ~StopsShort)
  <2> DEFINE c == FirstCheckpoint(path)
  <2>1. /\ Top(Act("Move", Me, c, "none"))
        /\ turn' = [turn EXCEPT !.step = "checkpoint", !.steps = Route.original - c]
    BY <1>7 DEF Walk, path
  <2>2. turn.steps > 0
    BY <1>3, <1>7
  <2>3. PICK i \in 2 .. l :
          /\ c = path[i] /\ IsCheckpoint(path[i])
          /\ \A j \in 2 .. l : IsCheckpoint(path[j]) => i <= j
    BY <1>2, <1>3, <1>7, FirstCheckpointOK DEF l
  <2> HIDE DEF c
  <2>4. c \in Cells /\ ~IsFragile(c)
    BY <1>4, <1>5, <2>3 DEF IsFragile, IsCheckpoint
  <2>5. Route.original - c \in Int
    BY <1>2, <1>4, <2>4
  <2>6. ASSUME NEW d \in start + 1 .. c - 1 PROVE ~IsCheckpoint(d)
    <3>1. c = start + i - 1 /\ i \in Nat /\ i <= l
      BY <1>2, <1>4, <2>2, <2>3
    <3>2. d \in Int /\ d >= start + 1 /\ d <= start + i - 2
      BY <1>4, <2>4, <2>6, <3>1
    <3>3. d - start + 1 \in 2 .. l /\ d - start + 1 \in 1 .. l /\ ~(i <= d - start + 1)
      BY <1>4, <3>1, <3>2
    <3>4. path[d - start + 1] = d
      BY <1>2, <1>4, <2>2, <3>2, <3>3
    <3> QED
      BY <2>3, <3>3, <3>4
  <2>7. OnTo("checkpoint")
    <3> DEFINE h == [turn EXCEPT !.step = "checkpoint"]
               n == Route.original - c
    <3>1. turn \in TurnState /\ "checkpoint" \in Steps
      BY DEF TurnInv, TurnOK, Steps
    <3>2. turn' = [h EXCEPT !.steps = n]
      BY <2>1
    <3> HIDE DEF n
    <3>3. /\ h \in TurnState /\ h.who = turn.who /\ h.state = turn.state /\ h.step = "checkpoint"
          /\ h.drawn = turn.drawn /\ h.prey = turn.prey /\ h.expiring = turn.expiring
      BY <3>1, StepField
    <3> HIDE DEF h
    <3>4. Alike(turn', h)
      BY <2>5, <3>2, <3>3, OtherField DEF n
    <3> QED
      BY <3>3, <3>4 DEF OnTo, Alike
  <2>8. WalkEnds(c)
    <3>1. c = start + i - 1 /\ i >= 2
      BY <1>2, <1>4, <2>2, <2>3
    <3>2. IsCheckpoint(c) /\ c > start
      BY <1>4, <2>3, <3>1
    <3> QED
      BY <2>6, <2>7, <3>2 DEF start, WalkEnds
  <2> QED
    BY <2>1, <2>4, <2>8 DEF WalksTo
<1> QED
  BY <1>6, <1>7

LEMMA OntoOK ==
  ASSUME TurnInv, ~Resting, NEW s \in Steps \ {"suffer", "cast"}, Stage(turn.state, s),
         Me # Boss, OnTo(s)
  PROVE  TurnOK'
<1>1. TurnOK
  BY DEF TurnInv
<1> QED
  BY <1>1 DEF TurnOK, OnTo, Resting, Me

LEMMA SetOffKeeps == ASSUME TurnInv, SetOff PROVE Kept
<1>1. /\ turn.state = "Moving" /\ turn.step = "set_off" /\ ~draining /\ Walk
      /\ broken' = broken \cup Route.breaks /\ UNCHANGED <<acted, round, charge, parity, beaten>>
  BY DEF SetOff, At
<1>2. /\ Me \in All /\ Me # Boss /\ ~beaten /\ queue = <<>> /\ turn \in TurnState /\ ~Resting
      /\ turn.steps \in Int
  BY <1>1, WhoActs DEF All, Resting, TurnState
<1>3. PICK c \in Cells : WalksTo(c)
  BY <1>1, <1>2, WalkOK
<1> DEFINE a == Act("Move", Me, c, "none")
<1>4. Sound(a) /\ a.do = "Move" /\ a.n = c /\ a.src = "none"
  <2>1. "Move" \in Kinds \ {"BossDamage", "AddBuff", "AddItem"} /\ c \in Nat
    BY CellsAreNat DEF Kinds
  <2> QED
    BY <1>2, <2>1, PlainSound
<1>5. Top(a) /\ (IsFragile(c) => c \in broken') /\ WalkEnds(c)
  BY <1>1, <1>3 DEF WalksTo
<1> HIDE DEF a
<1>6. PICK s \in {"fell", "walked", "checkpoint"} : OnTo(s)
  BY <1>5 DEF WalkEnds
<1>7. TurnOK' /\ turn'.state = "Moving"
  <2>1. s \in Steps \ {"suffer", "cast"} /\ Stage(turn.state, s)
    BY <1>1 DEF Steps, Stage
  <2> QED
    BY <1>1, <1>2, <1>6, <2>1, OntoOK DEF OnTo
<1>8. NotExpiring
  BY <1>1, <1>7, SameState
<1>9. Ordinary(a)
  BY <1>1, <1>4, <1>5, <1>8 DEF Ordinary, NotExpiring
<1>10. Route.breaks \subseteq {d \in Cells : IsFragile(d)}
  <2>1. Here(Me) \in Cells
    BY <1>2 DEF TurnInv, EngineOK, PlayersOK, PlayerState, Here
  <2>2. Route.path \in Seq(Cells) /\ Route.breaks = {d \in ToSet(Route.path) : IsFragile(d)}
    BY <1>2, <2>1, PathOK DEF Route
  <2>3. ToSet(Route.path) \subseteq Cells
    <3> DEFINE path == Route.path
    <3>1. path \in Seq(Cells)
      BY <2>2
    <3> HIDE DEF path
    <3>2. ToSet(path) \subseteq Cells
      BY <3>1 DEF ToSet
    <3> QED
      BY <3>2 DEF path
  <2> QED
    BY <2>2, <2>3
<1>11. CourseOK'
  <2>1. CourseOK
    BY DEF TurnInv
  <2>2. broken' \subseteq {d \in Cells : IsFragile(d)}
    BY <1>1, <1>10, <2>1 DEF CourseOK
  <2> QED
    BY <1>1, <1>2, <2>1, <2>2 DEF CourseOK, IsFragile
<1>12. a.do \notin Shareable
  BY <1>4 DEF Shareable
<1> QED
  BY <1>2, <1>5, <1>7, <1>9, <1>11, <1>12, TopStep

\* A state executes an action that neither moves nor ends anything.
Mild == Kinds \ {"BossDamage", "AddBuff", "AddItem", "Damage", "Heal", "ModifyLP", "Death",
                 "RemoveBuff", "Respawn", "Move", "Teleport"}

LEMMA MildKeeps ==
  ASSUME TurnInv, queue = <<>>, ~beaten, NotExpiring, NEW do \in Mild, NEW to \in All,
         NEW n \in Nat, NEW of \in Items \cup {"none"},
         Top(Act(do, to, n, of)), UNCHANGED course, TurnOK'
  PROVE  Kept
<1> DEFINE a == Act(do, to, n, of)
<1>1. Sound(a) /\ a.do = do /\ a.to = to /\ a.src = "none"
  <2>1. /\ do \in Kinds \ {"BossDamage", "AddBuff", "AddItem"}
        /\ do \notin {"Move", "Teleport", "Respawn"} /\ of \in Buffs \cup Items \cup {"none"}
    BY DEF Mild
  <2> QED
    BY <2>1, PlainSound
<1> HIDE DEF a
<1>2. Ordinary(a)
  BY <1>1 DEF Ordinary, NotExpiring, Mild, course
<1>3. CourseOK'
  BY CourseStays DEF TurnInv
<1>4. a.do \notin Shareable
  BY <1>1 DEF Shareable, Mild
<1> QED
  BY <1>2, <1>3, <1>4, TopStep DEF a

\* An event is drawn, to be suffered next.
LEMMA SufferNext ==
  ASSUME TurnInv, turn.state \in {"Upkeep", "Landed", "Draw"}, Me # Boss, NEW e \in Events,
         Drawn(e)
  PROVE  TurnOK' /\ turn'.state = turn.state
<1> DEFINE h == [turn EXCEPT !.step = "suffer"]
<1>1. TurnOK /\ turn \in TurnState /\ "suffer" \in Steps
  BY DEF TurnInv, TurnOK, Steps
<1>2. turn' = [h EXCEPT !.drawn = e]
  BY DEF Drawn
<1>3. h \in TurnState /\ h.who = turn.who /\ h.state = turn.state /\ h.step = "suffer"
  BY <1>1, StepField
<1> HIDE DEF h
<1>4. /\ turn' \in TurnState /\ turn'.who = turn.who /\ turn'.state = turn.state
      /\ turn'.step = "suffer" /\ turn'.drawn = e
  BY <1>2, <1>3, DrawnField
<1> QED
  BY <1>1, <1>4 DEF TurnOK, Stage, Resting, Me

LEMMA DrawEventKeeps ==
  ASSUME TurnInv, ~draining, turn.state \in {"Upkeep", "Draw"}, Me # Boss, UNCHANGED course,
         NEW pool \in SUBSET Events, DrawEvent(pool)
  PROVE  Kept
<1> DEFINE a == Act("DrawEvent", Me, 0, "none")
<1>1. Me \in All /\ ~beaten /\ queue = <<>> /\ ~Resting /\ turn \in TurnState
  BY WhoActs DEF Resting
<1>2. Top(a) /\ (Then("done") \/ \E e \in pool : Drawn(e))
  BY DEF DrawEvent
<1> HIDE DEF a
<1>3. TurnOK' /\ turn'.state = turn.state
  <2>1. CASE Then("done")
    <3>1. turn' = [turn EXCEPT !.step = "done"] /\ "done" \in Steps \ {"suffer", "cast"}
          /\ Stage(turn.state, "done")
      BY <2>1 DEF Then, Steps, Stage
    <3> QED
      BY <1>1, <3>1, ThenKeeps
  <2>2. CASE \E e \in pool : Drawn(e)
    BY <2>2, SufferNext
  <2> QED
    BY <1>2, <2>1, <2>2
<1>4. NotExpiring
  BY <1>3, SameState
<1>5. "DrawEvent" \in Mild /\ 0 \in Nat
  BY DEF Mild, Kinds
<1> QED
  BY <1>1, <1>2, <1>3, <1>4, <1>5, MildKeeps DEF a

LEMMA DrawKeeps ==
  ASSUME TurnInv, ~draining, turn.state \in {"Checkpoint", "Draw"}, UNCHANGED course,
         NEW what \in {"DrawItem", "DrawBuff"}, Draw(what)
  PROVE  Kept
<1> DEFINE a == Act(what, Me, 0, "none")
<1>1. /\ Me \in Users /\ Me \in All /\ Me # Boss /\ ~beaten /\ queue = <<>> /\ ~Resting
      /\ turn \in TurnState
  BY WhoActs DEF Resting, All
<1>2. Top(a) /\ turn' = [turn EXCEPT !.step = "done"]
  BY DEF Draw, Then
<1> HIDE DEF a
<1>3. "done" \in Steps \ {"suffer", "cast"} /\ Stage(turn.state, "done")
  BY DEF Steps, Stage
<1>4. TurnOK' /\ turn'.state = turn.state
  BY <1>1, <1>2, <1>3, ThenKeeps
<1>5. NotExpiring
  BY <1>4, SameState
<1>6. what \in Mild /\ 0 \in Nat
  BY DEF Mild, Kinds, Queueable
<1> QED
  BY <1>1, <1>2, <1>4, <1>5, <1>6, MildKeeps DEF a

LEMMA DrawingKeeps ==
  ASSUME TurnInv, PoisonDraw \/ Treasure \/ DrawSomething PROVE Kept
<1>1. EventPool \subseteq Events /\ BadDraws \subseteq Events
  BY TurnPoolAssumption DEF BadDraws
<1>2. CASE PoisonDraw
  <2>1. Me # Boss
    BY <1>2 DEF PoisonDraw, At, TurnInv, TurnOK
  <2> QED
    BY <1>1, <1>2, <2>1, DrawEventKeeps DEF PoisonDraw, At
<1>3. CASE Treasure
  BY <1>3, DrawKeeps DEF Treasure, At
<1>4. CASE DrawSomething
  <2>1. Me # Boss
    BY <1>4, WhoActs DEF DrawSomething, At
  <2>2. CASE DrawEvent(EventPool)
    BY <1>1, <1>4, <2>1, <2>2, DrawEventKeeps DEF DrawSomething, At
  <2>3. CASE Draw("DrawItem") \/ Draw("DrawBuff")
    BY <1>4, <2>3, DrawKeeps DEF DrawSomething, At
  <2> QED
    BY <1>4, <2>2, <2>3 DEF DrawSomething
<1> QED
  BY <1>2, <1>3, <1>4

\* A player lands where an event is.
LEMMA LandKeeps == ASSUME TurnInv, Land PROVE Kept
<1> DEFINE a == Act("DrawEvent", Me, 0, "none")
           e == Course[Here(Me)].event
<1>1. /\ turn.state = "Landed" /\ ~draining /\ Top(a) /\ UNCHANGED course
      /\ Course[Here(Me)].type = "event" /\ Drawn(e)
  BY DEF Land, At
<1>2. Me \in All /\ Me # Boss /\ ~beaten /\ queue = <<>>
  BY <1>1, WhoActs DEF All
<1>3. e \in Events
  <2>1. Here(Me) \in Cells
    BY <1>2 DEF TurnInv, EngineOK, PlayersOK, PlayerState, Here
  <2> QED
    BY <1>1, <2>1, EventCellAssumption
<1> HIDE DEF a, e
<1>4. TurnOK' /\ turn'.state = turn.state
  BY <1>1, <1>2, <1>3, SufferNext
<1>5. NotExpiring
  BY <1>1, <1>4, SameState
<1>6. "DrawEvent" \in Mild /\ 0 \in Nat
  BY DEF Mild, Kinds
<1> QED
  BY <1>1, <1>2, <1>4, <1>5, <1>6, MildKeeps DEF a

\* The item used is consumed.
LEMMA ConsumeKeeps == ASSUME TurnInv, Consume PROVE Kept
<1> DEFINE a == Act("RemoveItem", Me, 0, turn.used)
           h == [turn EXCEPT !.used = "none"]
<1>1. /\ turn.state = "Main" /\ turn.step = "consume" /\ ~draining /\ Top(a) /\ UNCHANGED course
      /\ turn' = [turn EXCEPT !.step = "enter", !.used = "none"]
  BY DEF Consume, At
<1>2. /\ Me \in All /\ Me # Boss /\ ~beaten /\ queue = <<>> /\ ~Resting /\ turn \in TurnState
      /\ turn.used \in Items \cup {"none"}
  BY <1>1, WhoActs DEF All, Resting, TurnState
<1> HIDE DEF a
<1>3. Alike(h, turn) /\ turn' = [h EXCEPT !.step = "enter"]
  <2>1. Alike(h, turn)
    BY <1>2, OtherField
  <2> QED
    BY <1>1, <2>1
<1> HIDE DEF h
<1>4. "enter" \in Steps \ {"suffer", "cast"} /\ Stage(turn.state, "enter")
  BY <1>1 DEF Steps, Stage
<1>5. TurnOK' /\ turn'.state = turn.state
  BY <1>2, <1>3, <1>4, ThenKeeps
<1>6. NotExpiring
  BY <1>1, <1>5, SameState
<1>7. "RemoveItem" \in Mild /\ 0 \in Nat
  BY DEF Mild, Kinds, Queueable
<1> QED
  BY <1>1, <1>2, <1>5, <1>6, <1>7, MildKeeps DEF a

\* The dice are thrown.
LEMMA RollKeeps == ASSUME TurnInv, NEW n \in DiceFaces, Roll(n) PROVE Kept
<1> DEFINE a == Act("RollDice", Me, 0, "none")
           h1 == [turn EXCEPT !.steps = n]
           h2 == [h1 EXCEPT !.step = "rolled"]
<1>1. /\ turn.state = "Main" /\ ~draining /\ Top(a) /\ UNCHANGED course
      /\ turn' = [turn EXCEPT !.step = "rolled", !.steps = n, !.prey = {}]
  BY DEF Roll, At
<1>2. Me \in All /\ Me # Boss /\ Me # Nobody /\ ~beaten /\ queue = <<>> /\ turn \in TurnState
  BY <1>1, WhoActs DEF All, Resting
<1> HIDE DEF a
<1>3. Alike(h1, turn) /\ turn' = [h2 EXCEPT !.prey = {}]
  <2>1. n \in Int
    BY TurnPoolAssumption
  <2>2. Alike(h1, turn)
    BY <1>2, <2>1, OtherField
  <2> QED
    BY <1>1, <2>2
<1> HIDE DEF h1
<1>4. h2 \in TurnState /\ h2.who = Me /\ h2.state = "Main" /\ h2.step = "rolled"
  BY <1>1, <1>3, StepField DEF Alike, Steps, Me
<1> HIDE DEF h2
<1>5. turn' \in TurnState /\ turn'.who = Me /\ turn'.state = "Main" /\ turn'.step = "rolled"
  BY <1>3, <1>4, PreyField
<1>6. TurnOK'
  BY <1>2, <1>5 DEF TurnOK, Stage, Resting, Me
<1>7. NotExpiring
  BY <1>1, <1>5, SameState
<1>8. "RollDice" \in Mild /\ 0 \in Nat
  BY DEF Mild, Kinds
<1> QED
  BY <1>1, <1>2, <1>6, <1>7, <1>8, MildKeeps DEF a

\* A player falls through the cell it came to.
LEMMA FallKeeps == ASSUME TurnInv, FallDown PROVE Kept
<1> DEFINE a == Act("FellDown", Me, 1, "none")
<1>1. /\ turn.state = "Moving" /\ ~draining /\ Top(a) /\ UNCHANGED course
      /\ turn' = [turn EXCEPT !.step = "fallen"]
  BY DEF FallDown, At, Then
<1>2. Me \in All /\ Me # Boss /\ ~beaten /\ queue = <<>> /\ ~Resting /\ turn \in TurnState
  BY <1>1, WhoActs DEF All, Resting
<1> HIDE DEF a
<1>3. "fallen" \in Steps \ {"suffer", "cast"} /\ Stage(turn.state, "fallen")
  BY <1>1 DEF Steps, Stage
<1>4. TurnOK' /\ turn'.state = turn.state
  BY <1>1, <1>2, <1>3, ThenKeeps
<1>5. NotExpiring
  BY <1>1, <1>4, SameState
<1>6. "FellDown" \in Mild /\ 1 \in Nat
  BY DEF Mild, Kinds
<1> QED
  BY <1>1, <1>2, <1>4, <1>5, <1>6, MildKeeps DEF a

\* The Boss strikes somebody, or casts a skill against all within reach.
LEMMA BossHitsKeeps ==
  ASSUME TurnInv, NEW u \in Users, NEW n \in {1, 2}, BossHits(u, n) PROVE Kept
<1> DEFINE a == Act("BossAttack", u, n, "none")
           h == [turn EXCEPT !.step = "struck"]
<1>1. /\ turn.state = "BossBattle" /\ turn.step = "enter" /\ ~draining /\ Me = Boss /\ Top(a)
      /\ UNCHANGED course /\ turn' = [turn EXCEPT !.step = "struck", !.prey = {u}]
  BY DEF BossHits, MayFight, At
<1>2. /\ ~beaten /\ queue = <<>> /\ turn \in TurnState /\ u \in All /\ Boss # Nobody
  BY <1>1, WhoActs, PlayerAssumption DEF TurnInv, CourseOK, All
<1> HIDE DEF a
<1>3. h \in TurnState /\ h.who = Boss /\ h.state = "BossBattle" /\ h.step = "struck"
  BY <1>1, <1>2, StepField DEF Steps, Me
<1>4. turn' = [h EXCEPT !.prey = {u}] /\ {u} \in SUBSET All
  BY <1>1, <1>2
<1> HIDE DEF h
<1>5. /\ turn' \in TurnState /\ turn'.who = Boss /\ turn'.state = "BossBattle"
      /\ turn'.step = "struck"
  BY ONLY <1>3, <1>4, PreyField
<1>6. TurnOK'
  BY <1>2, <1>5 DEF TurnOK, Stage, Resting, Me
<1>7. NotExpiring
  BY <1>1, <1>5, SameState
<1>8. "BossAttack" \in Mild /\ n \in Nat
  BY DEF Mild, Kinds
<1> QED
  BY <1>1, <1>2, <1>6, <1>7, <1>8, MildKeeps DEF a

LEMMA BossCastsKeeps == ASSUME TurnInv, NEW s \in SkillPool, BossCasts(s) PROVE Kept
<1> DEFINE a == Act("BossSkill", Boss, 0, "none")
           h1 == [turn EXCEPT !.step = "cast"]
           h2 == [h1 EXCEPT !.drawn = s]
<1>1. /\ turn.state = "BossBattle" /\ turn.step = "enter" /\ ~draining /\ Me = Boss /\ Top(a)
      /\ UNCHANGED course
      /\ turn' = [turn EXCEPT !.step = "cast", !.drawn = s, !.prey = InReach]
  BY DEF BossCasts, MayFight, At
<1>2. /\ ~beaten /\ queue = <<>> /\ turn \in TurnState /\ Boss \in All /\ Boss # Nobody
  BY <1>1, WhoActs, PlayerAssumption DEF TurnInv, CourseOK, All
<1>3. s \in Skills /\ InReach \in SUBSET Users /\ Users \subseteq All
  BY TurnPoolAssumption DEF InReach, All
<1> HIDE DEF a
<1>4. h1 \in TurnState /\ h1.who = Boss /\ h1.state = "BossBattle" /\ h1.step = "cast"
  BY <1>1, <1>2, StepField DEF Steps, Me
<1>5. turn' = [h2 EXCEPT !.prey = InReach]
  BY <1>1
<1> HIDE DEF h1
<1>6. /\ h2 \in TurnState /\ h2.who = Boss /\ h2.state = "BossBattle" /\ h2.step = "cast"
      /\ h2.drawn = s
  BY <1>3, <1>4, DrawnField
<1> HIDE DEF h2
<1>7. /\ turn' \in TurnState /\ turn'.who = Boss /\ turn'.state = "BossBattle"
      /\ turn'.step = "cast" /\ turn'.drawn = s /\ turn'.prey = InReach
  BY <1>3, <1>5, <1>6, PreyField
<1>8. TurnOK'
  BY <1>2, <1>3, <1>7 DEF TurnOK, Stage, Resting, Me
<1>9. NotExpiring
  BY <1>1, <1>7, SameState
<1>10. "BossSkill" \in Mild /\ 0 \in Nat
  BY DEF Mild, Kinds
<1> QED
  BY <1>1, <1>2, <1>8, <1>9, <1>10, MildKeeps DEF a

\* A player uses the skill of its faction: somebody is given a buff.
LEMMA UseSkillKeeps == ASSUME TurnInv, NEW t \in All, UseSkill(t) PROVE Kept
<1> DEFINE k == CASE Faction[Me] = "QingLong" -> "dominance"
                  [] Faction[Me] = "BaiHu" -> "rob_luck"
                  [] Faction[Me] = "XuanWu" -> "suppress"
           a == AddBuff(t, k)
           s == IF Faction[Me] = "BaiHu" THEN "claim" ELSE turn.step
           h == [turn EXCEPT !.step = s]
<1>1. /\ turn.state = "Main" /\ turn.step = "enter" /\ ~draining /\ Top(a)
      /\ Faction[Me] # "ZhuQue"
      /\ charge' = [charge EXCEPT ![Me] = 0] /\ parity' = [parity EXCEPT ![Me] = 0]
      /\ turn' = [turn EXCEPT !.step = s, !.prey = {t}]
      /\ UNCHANGED <<acted, round, broken, beaten>>
  BY DEF UseSkill, At
<1>2. /\ Me \in Users /\ Me # Boss /\ Me # Nobody /\ ~beaten /\ queue = <<>>
      /\ turn \in TurnState /\ EngineInv
  BY <1>1, WhoActs, PlayerAssumption DEF All
<1>3. k \in Buffs
  <2>1. Faction[Me] \in {"QingLong", "BaiHu", "XuanWu"}
    BY <1>1, <1>2, FactionAssumption DEF Factions
  <2> QED
    BY <2>1 DEF Buffs
<1> HIDE DEF k
<1>4. /\ Sound(a) /\ a.do = "AddBuff" /\ a.src = "none"
  <2>1. "AddBuff" \in Kinds /\ 0 \in Int /\ k \in Buffs \cup Items \cup {"none"}
    BY <1>3 DEF Kinds, Queueable
  <2>2. /\ a \in Action /\ a.do = "AddBuff" /\ a.of = k /\ a.src = "none" /\ a.from = Nobody
    BY <2>1 DEF AddBuff, Act, Action, Sources
  <2> QED
    BY <1>3, <2>2 DEF Sound
<1> HIDE DEF a
<1>5. s \in {"enter", "claim"} /\ s \in Steps
  BY <1>1 DEF Steps
<1> HIDE DEF s
<1>6. h \in TurnState /\ h.who = Me /\ h.state = "Main" /\ h.step = s
  BY <1>1, <1>2, <1>5, StepField DEF Me
<1>7. turn' = [h EXCEPT !.prey = {t}]
  BY <1>1
<1> HIDE DEF h
<1>8. turn' \in TurnState /\ turn'.who = Me /\ turn'.state = "Main" /\ turn'.step = s
  BY <1>6, <1>7, PreyField
<1>9. TurnOK'
  BY <1>2, <1>5, <1>8 DEF TurnOK, Stage, Resting, Me
<1>10. NotExpiring
  BY <1>1, <1>8, SameState
<1>11. CourseOK'
  BY <1>1, <1>2 DEF TurnInv, CourseOK, IsFragile
<1>12. Ordinary(a)
  BY <1>1, <1>4, <1>10 DEF Ordinary, NotExpiring
<1>13. a.do \notin Shareable
  BY <1>4 DEF Shareable
<1> QED
  BY <1>1, <1>2, <1>9, <1>11, <1>12, <1>13, TopStep

\* A player strikes the Boss; an intercepted blow may leave others behind.
LEMMA StrikeKeeps == ASSUME TurnInv, NEW crit \in BOOLEAN, Strike(crit) PROVE Kept
<1> DEFINE n == IF crit THEN 2 * Blow ELSE Blow
           a == BossDamage(Me, n)
<1>1. /\ turn.state = "BossBattle" /\ turn.step = "enter" /\ ~draining /\ Me \in Users /\ Top(a)
      /\ UNCHANGED course /\ turn' = [turn EXCEPT !.step = "struck"]
  BY DEF Strike, At, Then
<1>2. /\ ~beaten /\ queue = <<>> /\ turn \in TurnState /\ EngineInv /\ ~Resting /\ Me # Boss
      /\ Me \in All /\ Boss \in All
  BY <1>1, WhoActs, PlayerAssumption DEF TurnInv, CourseOK, All, Resting
<1>3. n \in Int /\ n >= 0
  BY <1>2 DEF TurnState, Blow
<1> HIDE DEF n
<1>4. Sound(a) /\ a.do = "BossDamage" /\ a.src = "none"
  <2> DEFINE x == Act("BossDamage", Boss, n, "none")
  <2>1. "BossDamage" \in Kinds /\ "none" \in Buffs \cup Items \cup {"none"}
    BY DEF Kinds, Queueable
  <2>2. /\ x \in Action /\ x.do = "BossDamage" /\ x.to = Boss /\ x.n = n /\ x.src = "none"
    BY <1>2, <1>3, <2>1 DEF Act, Action, Sources
  <2>3. a = [x EXCEPT !.from = Me]
    BY DEF BossDamage
  <2> HIDE DEF x, a
  <2>4. /\ a \in Action /\ a.do = "BossDamage" /\ a.to = Boss /\ a.n = n /\ a.src = "none"
        /\ a.from = Me
    BY <1>2, <2>2, <2>3 DEF Action
  <2> QED
    BY <1>2, <1>3, <2>4 DEF Sound
<1> HIDE DEF a
<1>5. "struck" \in Steps \ {"suffer", "cast"} /\ Stage(turn.state, "struck")
  BY <1>1 DEF Steps, Stage
<1>6. /\ TurnOK' /\ turn'.state = turn.state /\ turn'.step = "struck" /\ turn'.who = turn.who
  BY <1>1, <1>2, <1>5, ThenKeeps
<1>7. CourseOK'
  BY <1>1, <1>2, CourseStays DEF TurnInv
<1>8. NotExpiring
  BY <1>1, <1>6, SameState
<1>9. Ordinary(a)
  BY <1>1, <1>4, <1>8 DEF Ordinary, NotExpiring, course
<1>10. /\ EngineInv' /\ Taken(a, <<>>) /\ InTurn(a)
       /\ ~draining' => \A x \in ToSet(queue') : x.do = a.do
  BY <1>1, <1>2, <1>9, TopKeeps
<1>11. LeftoversOK'
  BY <1>1, <1>4, <1>6, <1>10 DEF LeftoversOK, Me
<1>12. Executes
  <2>1. Run(a, <<>>)
    BY <1>1, <1>2 DEF Top
  <2> QED
    BY <1>10, <2>1 DEF Executes
<1> QED
  BY <1>6, <1>7, <1>10, <1>11, <1>12 DEF Kept, TurnInv, EngineInv

-----------------------------------------------------------------------------
(* The end of a turn, and who is brought back *)

\* A buff is taken off, or somebody is brought back.
LEMMA EndStep ==
  ASSUME TurnInv, queue = <<>>, NEW a, Sound(a), a.src = "none",
         a.do \in {"RemoveBuff", "Respawn"}, InTurn(a), Top(a), TurnOK', CourseOK'
  PROVE  Kept
<1>1. /\ Run(a, <<>>) /\ draining' = (~Stopped(a) /\ queue' # <<>>) /\ count' = count
      /\ EngineInv
  BY WhoActs DEF Top
<1>2. Taken(a, <<>>)
  BY NoneSet DEF Taken
<1>3. Goes(a)
  BY <1>1 DEF Goes, EngineInv, EngineOK, QueueOK
<1>4. EngineInv' /\ Outcome(a, <<>>)
  BY <1>1, <1>2, <1>3, RunKeeps
<1>5. a.do \notin Shareable
  BY DEF Shareable
<1>6. ASSUME ~draining' PROVE queue' = <<>>
  <2>1. queue' \in Seq(Action)
    BY <1>4 DEF EngineInv, EngineOK, QueueOK
  <2>2. SUFFICES ASSUME queue' # <<>> PROVE FALSE
    OBVIOUS
  <2>3. ToSet(queue') = {}
    BY <1>1, <1>4, <1>5, <1>6, <2>2, StoppedLeaves
  <2>4. ToSet(queue') = {Head(queue')} \cup ToSet(Tail(queue'))
    BY <2>1, <2>2, HeadTailSet
  <2> QED
    BY <2>3, <2>4
<1>7. LeftoversOK'
  BY <1>6 DEF LeftoversOK
<1> QED
  BY <1>1, <1>2, <1>4, <1>7 DEF Kept, TurnInv, EngineInv, Executes

LEMMA RespawnSound ==
  ASSUME NEW u \in All, NEW c \in Cells
  PROVE  LET x == Act("Respawn", u, c, "none")
         IN /\ Sound(x) /\ x.do = "Respawn" /\ x.to = u /\ x.n = c /\ x.src = "none"
<1>1. /\ "Respawn" \in Kinds \ {"BossDamage", "AddBuff", "AddItem"} /\ c \in Nat
      /\ "none" \in Buffs \cup Items \cup {"none"}
  BY CellsAreNat DEF Kinds
<1> QED
  BY <1>1, PlainSound

\* Somebody is brought back to its last checkpoint.
LEMMA RespawnKeeps ==
  ASSUME TurnInv, ~draining, queue = <<>>, NEW u \in Users, player[u].dead, Me \in {u, Boss},
         Top(Act("Respawn", u, GetLastCheckpoint(Here(u)), "none")), UNCHANGED <<turn, course>>
  PROVE  Kept
<1> DEFINE c == GetLastCheckpoint(Here(u))
           a == Act("Respawn", u, c, "none")
<1>1. u \in All
  BY DEF All
<1>2. c \in Cells /\ ~IsFragile(c)
  <2>1. Here(u) \in Cells
    BY <1>1 DEF TurnInv, EngineOK, PlayersOK, PlayerState, Here
  <2> QED
    BY <2>1, LastCheckpointOK
<1> HIDE DEF c
<1>3. Sound(a) /\ a.do = "Respawn" /\ a.to = u /\ a.n = c /\ a.src = "none"
  BY <1>1, <1>2, RespawnSound
<1>4. Top(a)
  BY DEF c
<1> HIDE DEF a
<1>5. InTurn(a)
  BY <1>2, <1>3 DEF InTurn, Expiring, Me, course
<1>6. TurnOK'
  <2>1. TurnOK
    BY DEF TurnInv
  <2>2. ~Resting
    BY <2>1, PlayerAssumption DEF TurnOK, All
  <2> QED
    BY <2>1, <2>2 DEF TurnOK, Resting, Me
<1>7. CourseOK'
  BY DEF TurnInv, CourseOK, course, IsFragile
<1> QED
  BY <1>3, <1>4, <1>5, <1>6, <1>7, EndStep

LEMMA RevivingKeeps ==
  ASSUME TurnInv, (\E u \in Users : Revive(u)) \/ TurnEndRespawn PROVE Kept
<1>1. CASE \E u \in Users : Revive(u)
  <2>1. PICK u \in Users : Revive(u)
    BY <1>1
  <2>2. /\ ~draining /\ Me = Boss /\ player[u].dead /\ queue = <<>>
        /\ Top(Act("Respawn", u, GetLastCheckpoint(Here(u)), "none"))
        /\ UNCHANGED <<turn, course>>
    BY <2>1, WhoActs DEF Revive, At, Slain
  <2> QED
    BY <2>2, RespawnKeeps
<1>2. CASE TurnEndRespawn
  <2>1. /\ ~draining /\ Me \in Users /\ player[Me].dead /\ queue = <<>>
        /\ Top(Act("Respawn", Me, GetLastCheckpoint(Here(Me)), "none"))
        /\ UNCHANGED <<turn, course>>
    BY <1>2, WhoActs DEF TurnEndRespawn, At
  <2> QED
    BY <2>1, RespawnKeeps
<1> QED
  BY <1>1, <1>2

\* What has run out is taken off, one buff after the other.
LEMMA ExpireKeeps == ASSUME TurnInv, NEW k \in Buffs, Expire(k) PROVE Kept
<1> DEFINE a == RemoveBuff(Me, k)
           K == turn.expiring \ {k}
<1>1. /\ turn.state = "End" /\ turn.step = "expire" /\ ~draining /\ k \in turn.expiring /\ Top(a)
      /\ UNCHANGED course /\ turn' = [turn EXCEPT !.expiring = K]
  BY DEF Expire, At
<1>2. /\ Me \in All /\ queue = <<>> /\ turn \in TurnState /\ TurnOK /\ ~Resting
  BY <1>1, WhoActs DEF Resting, TurnInv
<1>3. /\ Sound(a) /\ a.do = "RemoveBuff" /\ a.to = Me /\ a.of = k /\ a.src = "none"
  <2>1. "RemoveBuff" \in Kinds
    BY DEF Kinds
  <2>2. /\ a \in Action /\ a.do = "RemoveBuff" /\ a.to = Me /\ a.of = k /\ a.src = "none"
    BY <1>2, <2>1 DEF RemoveBuff, Act, Action, Sources
  <2> QED
    BY <2>2 DEF Sound
<1> HIDE DEF a
<1>4. K \in SUBSET Buffs
  BY <1>2 DEF TurnState
<1> HIDE DEF K
<1>5. /\ turn' \in TurnState /\ turn'.who = turn.who /\ turn'.state = turn.state
      /\ turn'.step = turn.step /\ turn'.drawn = turn.drawn /\ turn'.prey = turn.prey
      /\ turn'.expiring = K
  <2>1. turn \in TurnState /\ turn' = [turn EXCEPT !.expiring = K]
    BY <1>1, <1>2
  <2> QED
    BY ONLY <1>4, <2>1, ExpiringField
<1>6. TurnOK'
  BY <1>2, <1>5 DEF TurnOK, Resting, Me
<1>7. CourseOK'
  BY <1>1, <1>5, CourseStays DEF TurnInv
<1>8. InTurn(a)
  <2>1. \A u \in Users : Expiring(u)' <=> Expiring(u)
    BY <1>5 DEF Expiring, Me
  <2>2. ASSUME NEW u \in Users, Expiring(u)
        PROVE  a.to = u /\ "death_mark" \notin turn.expiring
    BY <1>3, <2>2 DEF Expiring, TurnInv, DurationsOK
  <2>3. a.to \in Users => Expiring(a.to)
    BY <1>1, <1>3 DEF Expiring
  <2> QED
    BY <1>1, <1>3, <1>5, <2>1, <2>2, <2>3 DEF InTurn, K, course
<1> QED
  BY <1>1, <1>2, <1>3, <1>6, <1>7, <1>8, EndStep

LEMMA TickedOK ==
  ASSUME NEW held, HeldOK(held)
  PROVE  HeldOK(Ticked(held)) /\ DOMAIN Ticked(held) = DOMAIN held
<1> DEFINE h == Ticked(held)
<1>1. DOMAIN h = DOMAIN held /\ h = [k \in DOMAIN h |-> h[k]]
  BY DEF Ticked
<1>2. ASSUME NEW k \in DOMAIN held PROVE h[k] \in BuffState
  <2> DEFINE n == IF held[k].left > 0 /\ held[k].ripe THEN held[k].left - 1 ELSE held[k].left
  <2>1. held[k] \in BuffState
    BY DEF HeldOK
  <2>2. h[k] = [held[k] EXCEPT !.left = n]
    BY DEF Ticked
  <2>3. n \in Nat \cup {-1}
    BY <2>1 DEF BuffState
  <2> HIDE DEF n, h
  <2> QED
    BY <2>1, <2>2, <2>3 DEF BuffState
<1> QED
  BY <1>1, <1>2 DEF HeldOK

\* The mark is taken off, the buffs count down, and what has run out is to go.
LEMMA SettleKeeps == ASSUME TurnInv, Settle PROVE Kept
<1> DEFINE held == Unmarked(buffs[Me])
           K == Expired(buffs'[Me])
           h == [turn EXCEPT !.step = "expire"]
<1>1. /\ turn.state = "End" /\ turn.step \in {"enter", "settle"} /\ ~draining
      /\ Me # Boss => turn.step = "settle"
      /\ buffs' = [buffs EXCEPT ![Me] = Ticked(held)]
      /\ turn' = [turn EXCEPT !.step = "expire", !.expiring = K]
      /\ UNCHANGED <<player, queue, draining, count, extended, course>>
  BY DEF Settle, At
<1>2. /\ Me \in All /\ Me # Nobody /\ queue = <<>> /\ turn \in TurnState /\ TurnOK /\ ~Resting
      /\ EngineInv
  BY <1>1, WhoActs DEF Resting, TurnInv
<1>3. /\ HeldOK(held) /\ DOMAIN held \subseteq DOMAIN buffs[Me]
      /\ Me \in Users => "death_mark" \notin DOMAIN held
  <2>1. HeldOK(buffs[Me])
    BY <1>2 DEF EngineInv, EngineOK, BuffsOK
  <2>2. CASE Me \in Users
    <3>1. held = Without(buffs[Me], "death_mark")
      BY <2>2 DEF Unmarked
    <3> DEFINE b == buffs[Me]
               m == "death_mark"
    <3>2. held = Without(b, m) /\ HeldOK(b)
      BY <2>1, <3>1
    <3> HIDE DEF held, b, m
    <3>3. HeldOK(held) /\ DOMAIN held = DOMAIN b \ {m}
      BY ONLY <3>2, WithoutOK
    <3> QED
      BY <3>3 DEF b, m
  <2>3. CASE Me \notin Users
    BY <2>1, <2>3 DEF Unmarked
  <2> QED
    BY <2>2, <2>3
<1> HIDE DEF held
<1>4. /\ buffs'[Me] = Ticked(held) /\ \A p \in All : p # Me => buffs'[p] = buffs[p]
      /\ buffs' = [p \in All |-> buffs'[p]]
  BY <1>1, <1>2 DEF EngineInv, EngineOK, BuffsOK
<1>5. HeldOK(buffs'[Me]) /\ DOMAIN buffs'[Me] = DOMAIN held
  BY <1>3, <1>4, TickedOK
<1>6. K \in SUBSET Buffs /\ "death_mark" \in K => "death_mark" \in DOMAIN held
  BY <1>5 DEF Expired, HeldOK
<1>7. /\ turn' \in TurnState /\ turn'.who = turn.who /\ turn'.state = "End"
      /\ turn'.step = "expire" /\ turn'.expiring = K
  <2>1. turn' = [h EXCEPT !.expiring = K] /\ K \in SUBSET Buffs
    <3>1. K \in SUBSET Buffs
      BY <1>5 DEF Expired, HeldOK
    <3> QED
      BY <1>1, <3>1
  <2> HIDE DEF K
  <2>2. h \in TurnState /\ h.who = turn.who /\ h.state = "End" /\ h.step = "expire"
    BY <1>1, <1>2, StepField DEF Steps
  <2> HIDE DEF h
  <2> QED
    BY <2>1, <2>2, ExpiringField
<1> HIDE DEF h
<1>8. TurnOK'
  BY <1>1, <1>2, <1>7 DEF TurnOK, Stage, Resting, Me
<1>9. CourseOK'
  BY <1>1, <1>7, CourseStays DEF TurnInv
<1>10. \A u \in Users : ~Expiring(u) /\ (Expiring(u)' <=> u = Me)
  BY <1>1, <1>7 DEF Expiring, Me
<1>11. EngineOK'
  <2>1. BuffsOK'
    BY <1>2, <1>4, <1>5 DEF EngineInv, EngineOK, BuffsOK, HeldOK
  <2>2. PlayersOK'
    BY <1>1, <1>2 DEF EngineInv, EngineOK, PlayersOK, MaxHPOf
  <2>3. QueueOK'
    BY <1>1, <1>2, NoneSet DEF EngineInv, EngineOK, QueueOK
  <2> QED
    BY <2>1, <2>2, <2>3 DEF EngineOK
<1>12. DeathsOK'
  <2>1. ASSUME NEW u \in Users, player[u].dead, u # Me PROVE "death_mark" \in DOMAIN buffs[u]
    BY <1>2, <1>10, <2>1, NoneSet DEF EngineInv, DeathsOK, Has
  <2>2. \A u \in Users : player'[u].dead /\ "death_mark" \notin DOMAIN buffs'[u] => Expiring(u)'
    BY <1>1, <1>4, <1>10, <2>1 DEF All
  <2> QED
    BY <1>1, <1>2, <2>2, NoneSet DEF DeathsOK, Has
<1>13. DurationsOK'
  <2>1. ASSUME NEW u \in Users, u # Me PROVE Expired(buffs'[u]) = {}
    BY <1>2, <1>4, <1>10, <2>1 DEF EngineInv, DurationsOK, All
  <2>2. Me \in Users => "death_mark" \notin DOMAIN buffs'[Me] /\ "death_mark" \notin K
    BY <1>3, <1>5 DEF Expired
  <2>3. ToSet(queue') = {}
    BY <1>1, <1>2, NoneSet
  <2> HIDE DEF K
  <2>4. Expired(buffs'[Me]) = K
    BY DEF K
  <2>5. ASSUME NEW u \in Users
        PROVE  IF Expiring(u)'
                 THEN /\ Expired(buffs'[u]) \subseteq turn'.expiring
                      /\ "death_mark" \notin turn'.expiring
                      /\ "death_mark" \notin DOMAIN buffs'[u]
                      /\ \A x \in ToSet(queue') : x.do = "ModifyLP"
                 ELSE Expired(buffs'[u]) = {}
    BY <1>7, <1>10, <2>1, <2>2, <2>3, <2>4
  <2> QED
    BY <2>5 DEF DurationsOK, Has
<1>14. PlacesOK' /\ RobbersOK' /\ FearOK' /\ LeftoversOK'
  <2>1. ToSet(queue') = {} /\ DOMAIN queue' = {}
    BY <1>1, <1>2, NoneSet
  <2>2. PlacesOK'
    BY <1>1, <1>2, <2>1 DEF EngineInv, PlacesOK, Here, IsFragile, course
  <2>3. RobbersOK'
    BY <2>1 DEF RobbersOK
  <2>4. FearOK'
    BY <1>1, <1>2, <2>1 DEF EngineInv, FearOK
  <2>5. LeftoversOK'
    BY <1>1, <1>2 DEF LeftoversOK
  <2> QED
    BY <2>2, <2>3, <2>4, <2>5
<1>15. Rests
  BY <1>1, <1>3, <1>4, <1>5 DEF Rests
<1> QED
  BY <1>8, <1>9, <1>11, <1>12, <1>13, <1>14, <1>15 DEF Kept, TurnInv

\* The turn is over.
LEMMA RestKeeps == ASSUME TurnInv, Rest PROVE Kept
<1>1. /\ Settled /\ turn' = Idle /\ Clear
      /\ acted' = IF HaveActed = All THEN {} ELSE HaveActed
      /\ round' = IF HaveActed = All THEN round + 1 ELSE round
      /\ UNCHANGED <<broken, beaten>>
  BY DEF Rest
<1>2. /\ turn.state = "End" /\ ~draining
      /\ Me \in Users => ~player[Me].dead \/ turn.step # "expire"
      /\ turn.step = "expire" => turn.expiring = {}
  BY <1>1, PlayerAssumption DEF Settled, At
<1>3. /\ Me \in All /\ Me # Nobody /\ queue = <<>> /\ turn \in TurnState /\ TurnOK /\ CourseOK
      /\ EngineInv
  BY <1>2, WhoActs DEF Resting, TurnInv
<1>4. player' = player /\ buffs' = buffs /\ queue' = <<>> /\ draining' = FALSE
  BY <1>1 DEF Clear
<1>5. TurnOK'
  BY <1>1, <1>4, IdleOK DEF TurnOK, Stage, Resting, Me
<1>6. charge' \in [Users -> 0 .. 1] /\ parity' \in [Users -> 0 .. 1]
  <2>1. CASE Charges(Me)
    <3> DEFINE p == 1 - parity[Me]
               c == IF parity[Me] = 1 THEN 1 ELSE charge[Me]
    <3>1. parity' = [parity EXCEPT ![Me] = p] /\ charge' = [charge EXCEPT ![Me] = c]
      BY <2>1 DEF Rest
    <3>2. Me \in Users /\ parity[Me] \in 0 .. 1 /\ charge[Me] \in 0 .. 1
      BY <1>3, <2>1 DEF Charges, CourseOK
    <3>3. p \in 0 .. 1 /\ c \in 0 .. 1
      BY <3>2
    <3> HIDE DEF p, c
    <3> QED
      BY <1>3, <3>1, <3>3 DEF CourseOK
  <2>2. CASE ~Charges(Me)
    BY <1>3, <2>2 DEF Rest, CourseOK
  <2> QED
    BY <2>1, <2>2
<1>7. CourseOK'
  <2>1. acted' \subseteq All /\ round' \in Nat
    BY <1>1, <1>3 DEF CourseOK, HaveActed
  <2>2. turn'.state = "Rest"
    BY <1>1, IdleOK
  <2> QED
    BY <1>1, <1>3, <1>6, <2>1, <2>2 DEF CourseOK, IsFragile
<1>8. \A u \in Users : ~Expiring(u)'
  BY <1>1, IdleOK DEF Expiring
<1>9. EngineOK'
  <2>1. BuffsOK'
    BY <1>3, <1>4 DEF EngineInv, EngineOK, BuffsOK, HeldOK
  <2>2. PlayersOK'
    BY <1>3, <1>4 DEF EngineInv, EngineOK, PlayersOK, MaxHPOf
  <2>3. QueueOK'
    BY <1>1, <1>4, NoneSet DEF Clear, QueueOK
  <2> QED
    BY <2>1, <2>2, <2>3 DEF EngineOK
<1>10. DeathsOK'
  <2>1. ASSUME NEW u \in Users, player[u].dead PROVE Has(u, "death_mark")
    <3>1. ~Expiring(u)
      BY <1>2, <2>1 DEF Expiring
    <3> QED
      BY <1>3, <2>1, <3>1, NoneSet DEF EngineInv, DeathsOK
  <2> QED
    BY <1>4, <2>1, NoneSet DEF DeathsOK, Has
<1>11. DurationsOK'
  <2>1. ASSUME NEW u \in Users PROVE Expired(buffs[u]) = {}
    BY <1>2, <1>3 DEF EngineInv, DurationsOK, Expiring
  <2> QED
    BY <1>4, <1>8, <2>1 DEF DurationsOK
<1>12. PlacesOK' /\ RobbersOK' /\ FearOK' /\ LeftoversOK'
  <2>1. ToSet(queue') = {} /\ DOMAIN queue' = {}
    BY <1>4, NoneSet
  <2>2. PlacesOK'
    BY <1>1, <1>3, <1>4, <2>1 DEF EngineInv, PlacesOK, Here, IsFragile
  <2>3. RobbersOK'
    BY <2>1 DEF RobbersOK
  <2>4. FearOK'
    BY <1>3, <1>4, <2>1 DEF EngineInv, FearOK
  <2>5. LeftoversOK'
    BY <1>4 DEF LeftoversOK
  <2> QED
    BY <2>2, <2>3, <2>4, <2>5
<1>13. Rests
  BY <1>4 DEF Rests
<1> QED
  BY <1>5, <1>7, <1>9, <1>10, <1>11, <1>12, <1>13 DEF Kept, TurnInv

\* The next action of the queue is executed.
LEMMA DrainKeeps == ASSUME TurnInv, Drain PROVE Kept
<1> DEFINE a == Head(queue)
           rest == Tail(queue)
<1>1. /\ draining /\ Run(a, rest) /\ draining' = (queue' # <<>>) /\ count' = count + 1
      /\ UNCHANGED <<turn, course>>
  BY DEF Drain, DrainOne
<1>2. EngineInv /\ TurnOK /\ CourseOK /\ QueueOK /\ queue # <<>>
  BY <1>1 DEF TurnInv, EngineInv, EngineOK, QueueOK
<1>3. a \in ToSet(queue) /\ rest \in Seq(Action) /\ Sound(a) /\ a.do \in Queueable
  BY <1>2, HeadTailSet DEF QueueOK
<1>4. Taken(a, rest)
  BY <1>1, <1>2, <1>3 DEF Taken
<1> HIDE DEF a, rest
<1>5. InTurn(a)
  <2>1. \A u \in Users : Expiring(u)' <=> Expiring(u)
    BY <1>1 DEF Expiring, Me
  <2>2. \A u \in Users : Expiring(u) => a.do = "ModifyLP"
    BY <1>2, <1>3 DEF EngineInv, DurationsOK
  <2>3. a.do = "Teleport" /\ IsFragile(a.n) => a.n \in broken
    BY <1>2, <1>3 DEF EngineInv, PlacesOK
  <2>4. a.do \notin {"RemoveBuff", "Respawn", "Move"}
    BY <1>3 DEF Queueable
  <2> QED
    BY <1>1, <2>1, <2>2, <2>3, <2>4 DEF InTurn, course
<1>6. Goes(a)
  <2>1. count' \in Nat
    BY <1>1, <1>2 DEF QueueOK
  <2>2. draining' \in BOOLEAN /\ (draining' <=> queue' # <<>>)
    BY <1>1
  <2> QED
    BY <2>1, <2>2 DEF Goes
<1>7. EngineInv'
  BY <1>1, <1>2, <1>4, <1>5, <1>6, RunKeeps
<1>8. TurnOK' /\ LeftoversOK' /\ CourseOK'
  <2>1. TurnOK'
    BY <1>1, <1>2 DEF TurnOK, Resting, Me
  <2>2. LeftoversOK'
    BY <1>1 DEF LeftoversOK
  <2>3. CourseOK'
    BY <1>1, <1>2 DEF CourseOK, course, IsFragile
  <2> QED
    BY <2>1, <2>2, <2>3
<1> QED
  BY <1>1, <1>4, <1>5, <1>7, <1>8 DEF Kept, TurnInv, EngineInv, Executes

-----------------------------------------------------------------------------
(* All steps, and the beginning *)

LEMMA StutterKeeps == ASSUME TurnInv, UNCHANGED vars PROVE Kept
<1>1. /\ UNCHANGED engine /\ turn' = turn /\ UNCHANGED course
      /\ EngineOK /\ TurnOK /\ CourseOK /\ LeftoversOK /\ DeathsOK /\ DurationsOK /\ PlacesOK
      /\ RobbersOK /\ FearOK
  BY DEF vars, TurnInv
<1>2. player' = player /\ buffs' = buffs /\ queue' = queue /\ draining' = draining
      /\ count' = count /\ extended' = extended
  BY <1>1 DEF engine
<1>3. EngineOK'
  <2>1. BuffsOK'
    BY <1>1, <1>2 DEF EngineOK, BuffsOK, HeldOK
  <2>2. PlayersOK'
    BY <1>1, <1>2 DEF EngineOK, PlayersOK, MaxHPOf
  <2>3. QueueOK'
    BY <1>1, <1>2, SoundStays DEF EngineOK, QueueOK
  <2> QED
    BY <2>1, <2>2, <2>3 DEF EngineOK
<1>4. TurnOK' /\ CourseOK' /\ LeftoversOK'
  <2>1. TurnOK'
    BY <1>1, <1>2 DEF TurnOK, Resting, Me
  <2>2. CourseOK'
    BY <1>1 DEF CourseOK, course, IsFragile
  <2>3. LeftoversOK'
    BY <1>1, <1>2 DEF LeftoversOK, Me
  <2> QED
    BY <2>1, <2>2, <2>3
<1>5. \A u \in Users : Expiring(u)' <=> Expiring(u)
  BY <1>1 DEF Expiring, Me
<1>6. DeathsOK'
  BY <1>1, <1>2, <1>5 DEF DeathsOK, Has
<1>7. DurationsOK'
  BY <1>1, <1>2, <1>5 DEF DurationsOK, Has
<1>8. PlacesOK' /\ RobbersOK'
  BY <1>1, <1>2 DEF PlacesOK, RobbersOK, Here, Has, IsFragile, course
<1>9. FearOK'
  BY <1>1, <1>2 DEF FearOK, Has, IsFearful, IsActive
<1>10. Rests
  BY <1>2 DEF Rests
<1> QED
  BY <1>3, <1>4, <1>6, <1>7, <1>8, <1>9, <1>10 DEF Kept, TurnInv

LEMMA StepKeeps == ASSUME TurnInv, [Next]_vars PROVE Kept
<1>1. CASE Decide
  BY <1>1, UseItemKeeps, UseSkillKeeps DEF Decide
<1>2. CASE Finished \/ UNCHANGED vars
  BY <1>2, StutterKeeps DEF Finished
<1>3. CASE Drain \/ \E p \in All : Begin(p)
  BY <1>3, DrainKeeps, BeginKeeps
<1>4. CASE Upkeep \/ PoisonDraw \/ SufferEvent \/ Consume \/ Claim
  BY <1>4, UpkeepKeeps, DrawingKeeps, SufferKeeps, ConsumeKeeps, ClaimKeeps
<1>5. CASE LeaveUpkeep \/ LeaveMain \/ LeaveMoving \/ LeaveCheckpoint \/ LeaveLanded \/ LeaveDraw
           \/ LeaveBattle
  BY <1>5, LeavesKeep, LeaveMainKeeps, LeaveLandedKeeps
<1>6. CASE (\E n \in DiceFaces : Roll(n)) \/ PreMove \/ SetOff \/ FallDown
  BY <1>6, RollKeeps, PreMoveKeeps, SetOffKeeps, FallKeeps
<1>7. CASE Treasure \/ Land \/ DrawSomething
  BY <1>7, DrawingKeeps, LandKeeps
<1>8. CASE \/ \E crit \in BOOLEAN : Strike(crit)
           \/ Victory
           \/ \E r \in DrawTypes : Reward(r)
  BY <1>8, StrikeKeeps, VictoryKeeps, RewardKeeps
<1>9. CASE \/ \E u \in Users, n \in {1, 2} : BossHits(u, n)
           \/ \E s \in SkillPool : BossCasts(s)
           \/ SkillStrikes
  BY <1>9, BossHitsKeeps, BossCastsKeeps, SkillKeeps
<1>10. CASE (\E u \in Users : Revive(u)) \/ TurnEndRespawn
  BY <1>10, RevivingKeeps
<1>11. CASE AfterTurn \/ Settle \/ (\E k \in Buffs : Expire(k)) \/ Rest
  BY <1>11, AfterTurnKeeps, SettleKeeps, ExpireKeeps, RestKeeps
<1> QED
  BY <1>1, <1>2, <1>3, <1>4, <1>5, <1>6, <1>7, <1>8, <1>9, <1>10, <1>11 DEF Next, Proceed

LEMMA InitOK == ASSUME Init PROVE TurnInv
<1> DEFINE start == [p \in All |-> IF p = Boss THEN Length - 1 ELSE 0]
           birds == {u \in Users : Faction[u] = "ZhuQue"}
<1>1. /\ player = [p \in All |-> Newcomer(p, start[p])]
      /\ buffs = [p \in All |-> [k \in IF p \in birds THEN {"fire"} ELSE {} |->
                                   NewBuff(k, Nobody)]]
      /\ queue = <<>> /\ draining = FALSE /\ count = 0 /\ extended = FALSE
      /\ turn = Idle /\ acted = {} /\ round = 1 /\ broken = {} /\ beaten = FALSE
      /\ charge = [u \in Users |-> 0] /\ parity = [u \in Users |-> 0]
  BY DEF Init, EngineInit
<1>2. \A p \in All : start[p] \in Cells /\ Course[start[p]].type # "fragile"
  BY CellsAreNat, EndsAssumption
<1>3. ASSUME NEW p \in All
      PROVE  /\ player[p] \in PlayerState /\ player[p].hp <= MaxHPOf(p) /\ ~player[p].dead
             /\ player[p].hp > 0 /\ player[p].pos = start[p]
  <2>1. player[p] = Newcomer(p, start[p]) /\ start[p] \in Cells
    BY <1>1, <1>2
  <2> HIDE DEF start
  <2>2. <<>> \in Seq(Items)
    BY NoneSet
  <2>3. InitLP \in 0 .. MaxLP /\ InitHP \in Nat /\ BossHP \in Nat /\ InitHP > 0 /\ BossHP > 0
        /\ InitHP <= MaxHP
    BY StatAssumption
  <2> QED
    BY <2>1, <2>2, <2>3 DEF Newcomer, PlayerState, MaxHPOf
<1>4. ASSUME NEW p \in All PROVE HeldOK(buffs[p]) /\ Expired(buffs[p]) = {}
  <2> DEFINE D == IF p \in birds THEN {"fire"} ELSE {}
  <2>1. buffs[p] = [k \in D |-> NewBuff(k, Nobody)]
    BY <1>1
  <2>2. D \subseteq Buffs
    BY DEF Buffs
  <2> HIDE DEF D
  <2>3. \A k \in D : NewBuff(k, Nobody) \in BuffState /\ IsActive(NewBuff(k, Nobody))
    BY <2>2, NewBuffOK
  <2> QED
    BY <2>1, <2>2, <2>3 DEF HeldOK, Expired
<1> HIDE DEF start
<1>5. EngineOK
  <2>1. BuffsOK
    BY <1>1, <1>4 DEF BuffsOK
  <2>2. PlayersOK
    BY <1>1, <1>3 DEF PlayersOK
  <2>3. QueueOK
    BY <1>1, NoneSet DEF QueueOK
  <2> QED
    BY <2>1, <2>2, <2>3 DEF EngineOK
<1>6. TurnOK
  BY <1>1, IdleOK DEF TurnOK, Stage, Resting, Me
<1>7. CourseOK
  <2>1. round \in Nat /\ acted \subseteq All /\ broken \subseteq {c \in Cells : IsFragile(c)}
    BY <1>1
  <2>2. charge \in [Users -> 0 .. 1] /\ parity \in [Users -> 0 .. 1]
    BY <1>1
  <2> QED
    BY <1>1, <2>1, <2>2 DEF CourseOK
<1>8. ToSet(queue) = {} /\ DOMAIN queue = {}
  BY <1>1, NoneSet
<1>9. LeftoversOK /\ RobbersOK
  BY <1>1, <1>8 DEF LeftoversOK, RobbersOK
<1>10. DeathsOK /\ FearOK
  BY <1>3, <1>8 DEF DeathsOK, FearOK, All
<1>11. DurationsOK
  BY <1>1, <1>4, IdleOK DEF DurationsOK, Expiring, All
<1>12. PlacesOK
  BY <1>2, <1>3, <1>8 DEF PlacesOK, Here, IsFragile
<1> QED
  BY <1>5, <1>6, <1>7, <1>9, <1>10, <1>11, <1>12 DEF TurnInv

\* The invariant that all the properties rest on.
THEOREM Inductive == Spec => []TurnInv
<1>1. Init => TurnInv
  BY InitOK
<1>2. TurnInv /\ [Next]_vars => TurnInv'
  BY StepKeeps DEF Kept
<1> QED
  BY <1>1, <1>2, PTL DEF Spec

-----------------------------------------------------------------------------
(* What holds of every state *)

\* Every variable stays in its type, whatever is executed: hit points, luck and
\* positions never leave their bounds.
THEOREM TurnIsTyped == Spec => []TurnTypeOK
<1>1. TurnInv => TurnTypeOK
  <2> SUFFICES ASSUME TurnInv PROVE TurnTypeOK
    OBVIOUS
  <2>1. EngineOK /\ TurnOK /\ CourseOK
    BY DEF TurnInv
  <2>2. ASSUME NEW p \in All
        PROVE  /\ player[p].hp \in 0 .. MaxHPOf(p) /\ player[p].lp \in 0 .. MaxLP
               /\ player[p].pos \in Cells /\ ToSet(player[p].bag) \subseteq Items
               /\ DOMAIN buffs[p] \subseteq Buffs
               /\ \A k \in DOMAIN buffs[p] : buffs[p][k].peer \in All \cup {Nobody}
    <3>1. player[p] \in PlayerState /\ player[p].hp <= MaxHPOf(p) /\ HeldOK(buffs[p])
      BY <2>1 DEF EngineOK, PlayersOK, BuffsOK
    <3>2. player[p].hp \in 0 .. MaxHPOf(p)
      BY <3>1, MaxIsNat DEF PlayerState
    <3>3. ToSet(player[p].bag) \subseteq Items
      BY <3>1 DEF PlayerState, ToSet
    <3>4. \A k \in DOMAIN buffs[p] : buffs[p][k].peer \in All \cup {Nobody}
      BY <3>1 DEF HeldOK, BuffState
    <3> QED
      BY <3>1, <3>2, <3>3, <3>4 DEF PlayerState, HeldOK
  <2>3. \A i \in DOMAIN queue : queue[i].src \in Sources /\ queue[i].to \in All
    <3>1. \A i \in DOMAIN queue : queue[i] \in Action
      BY <2>1 DEF EngineOK, QueueOK
    <3> QED
      BY <3>1 DEF Action
  <2>4. turn.who \in All \cup {Nobody} /\ turn.draw \in DrawTypes
    BY <2>1 DEF TurnOK, TurnState
  <2>5. \A u \in Users : charge[u] \in 0 .. 1 /\ parity[u] \in 0 .. 1
    BY <2>1 DEF CourseOK
  <2> QED
    BY <2>1, <2>2, <2>3, <2>4, <2>5 DEF TurnTypeOK, CourseOK
<1> QED
  BY <1>1, Inductive, PTL

\* Between two turns nothing is queued and no turn ends.
LEMMA RestingOK ==
  ASSUME TurnInv, Resting
  PROVE  ToSet(queue) = {} /\ \A u \in Users : ~Expiring(u)
<1>1. queue = <<>>
  BY DEF TurnInv, TurnOK, LeftoversOK, Resting
<1> QED
  BY <1>1, NoneSet DEF Expiring, Resting

\* Between two turns whoever is dead bears the mark: no death goes by unmarked, and no
\* mark is taken off before its bearer is brought back.
THEOREM DeadBearTheMark == Spec => []DeadAreMarked
<1>1. TurnInv => DeadAreMarked
  BY RestingOK DEF TurnInv, DeathsOK, DeadAreMarked
<1> QED
  BY <1>1, Inductive, PTL

\* Between two turns nobody has a buff whose time is over.
THEOREM BuffsRunOut == Spec => []ExpiredBuffsGo
<1>1. TurnInv => ExpiredBuffsGo
  BY RestingOK DEF TurnInv, DurationsOK, ExpiredBuffsGo
<1> QED
  BY <1>1, Inductive, PTL

\* Nobody stands on a fragile cell that still holds, not even in the middle of a turn.
THEOREM NobodyHovers == Spec => []StandingOnBroken
<1>1. TurnInv => StandingOnBroken
  BY DEF TurnInv, PlacesOK, StandingOnBroken, All
<1> QED
  BY <1>1, Inductive, PTL

-----------------------------------------------------------------------------
(* What no step does *)

LEMMA ExecutedOK ==
  ASSUME TurnInv, NEW a, NEW rest, Taken(a, rest), Run(a, rest)
  PROVE  /\ Sound(a) /\ a.to \in All /\ PlayerStep(a) /\ BuffStep(a)
         /\ a.do = "Death" \/ a.src # "none" => a \in ToSet(queue) /\ queue # <<>> /\ a = Head(queue)
<1>1. PlayersOK /\ BuffsOK /\ QueueOK
  BY DEF TurnInv, EngineOK
<1>2. Outcome(a, rest)
  BY <1>1, RunOK DEF Taken, QueueOK
<1>3. a.do = "Death" \/ a.src # "none" => a \in ToSet(queue) /\ queue # <<>> /\ a = Head(queue)
  BY <1>1, TakenQueue DEF Taken
<1> QED
  BY <1>2, <1>3 DEF Outcome, Taken, Sound, Action

\* A dead player who bears the mark is left alone until it is brought back.
THEOREM DeadLeftAlone == Spec => TheDeadAreLeftAlone
<1> DEFINE Alone == \A u \in Users :
                      (player[u].dead /\ Has(u, "death_mark") /\ ~Revived(u)) =>
                        player'[u] = player[u] /\ DOMAIN buffs'[u] \subseteq DOMAIN buffs[u]
<1>1. TurnInv /\ [Next]_vars => Alone
  <2> SUFFICES ASSUME TurnInv, [Next]_vars, NEW u \in Users, player[u].dead,
                      Has(u, "death_mark"), ~Revived(u)
               PROVE  player'[u] = player[u] /\ DOMAIN buffs'[u] \subseteq DOMAIN buffs[u]
    OBVIOUS
  <2>1. u \in All
    BY DEF All
  <2>2. CASE Rests
    BY <2>1, <2>2 DEF Rests
  <2>3. CASE Executes
    <3>1. PICK a, rest : Taken(a, rest) /\ Run(a, rest) /\ InTurn(a)
      BY <2>3 DEF Executes
    <3>2. Sound(a) /\ a.to \in All /\ PlayerStep(a) /\ BuffStep(a)
      BY <3>1, ExecutedOK
    <3>3. CASE a.to # u \/ Stopped(a)
      BY <2>1, <3>2, <3>3 DEF PlayerStep, BuffStep, SameBuffs
    <3>4. CASE a.to = u /\ ~Stopped(a)
      <4>1. a.do = "Respawn" \/ (a.do = "RemoveBuff" /\ a.of = "death_mark")
        BY <3>2, <3>4, MarkStops DEF DeathMarkBlocks
      <4>2. a.do # "Respawn"
        BY <3>2, <3>4 DEF PlayerStep, Revived
      <4> QED
        BY <3>1, <3>4, <4>1, <4>2 DEF InTurn
    <3> QED
      BY <3>3, <3>4
  <2> QED
    BY <2>2, <2>3, StepKeeps DEF Kept
<1> QED
  BY <1>1, Inductive, PTL DEF Spec, TheDeadAreLeftAlone

\* A death is counted once, however many fatal effects were queued.
THEOREM DeathsCounted == Spec => DeathCountedOnce
<1> DEFINE Once == \A u \in All :
                     player'[u].deaths # player[u].deaths =>
                       /\ player'[u].deaths = player[u].deaths + 1
                       /\ player[u].dead /\ ~Has(u, "death_mark")
<1>1. TurnInv /\ [Next]_vars => Once
  <2> SUFFICES ASSUME TurnInv, [Next]_vars, NEW u \in All,
                      player'[u].deaths # player[u].deaths
               PROVE  /\ player'[u].deaths = player[u].deaths + 1
                      /\ player[u].dead /\ ~Has(u, "death_mark")
    OBVIOUS
  <2>1. Executes
    BY StepKeeps DEF Kept, Rests
  <2>2. PICK a, rest : Taken(a, rest) /\ Run(a, rest) /\ InTurn(a)
    BY <2>1 DEF Executes
  <2>3. /\ Sound(a) /\ a.to \in All /\ PlayerStep(a)
        /\ a.do = "Death" => a \in ToSet(queue)
    BY <2>2, ExecutedOK
  <2>4. /\ u = a.to /\ ~Stopped(a) /\ a.do = "Death"
        /\ player'[u].deaths = player[u].deaths + 1
    BY <2>3 DEF PlayerStep
  <2>5. player[u].dead
    BY <2>3, <2>4 DEF TurnInv, DeathsOK
  <2>6. ~Has(u, "death_mark")
    BY <2>3, <2>4, MarkStops DEF DeathMarkBlocks
  <2> QED
    BY <2>4, <2>5, <2>6
<1> QED
  BY <1>1, Inductive, PTL DEF Spec, DeathCountedOnce

\* Whoever is fearless survives every step.
THEOREM FearlessLive == Spec => FearlessSurvive
<1> DEFINE Lives == \A u \in Users :
                      (Has(u, "fearless") /\ ~player[u].dead) => ~player'[u].dead
<1>1. TurnInv /\ [Next]_vars => Lives
  <2> SUFFICES ASSUME TurnInv, [Next]_vars, NEW u \in Users, Has(u, "fearless"),
                      ~player[u].dead, player'[u].dead
               PROVE  FALSE
    OBVIOUS
  <2>1. Executes
    BY StepKeeps DEF Kept, Rests
  <2>2. PICK a, rest : Taken(a, rest) /\ Run(a, rest) /\ InTurn(a)
    BY <2>1 DEF Executes
  <2>3. /\ Sound(a) /\ a.to \in All /\ PlayerStep(a)
        /\ a.src # "none" => queue # <<>> /\ a = Head(queue)
    BY <2>2, ExecutedOK
  <2>4. u \in All /\ u # Boss
    BY PlayerAssumption DEF All
  <2>5. u = a.to /\ ~Stopped(a) /\ a.do \in {"Damage", "BossDamage"} /\ player'[u].hp = 0
    BY <2>3, <2>4 DEF PlayerStep
  <2>6. a.do = "Damage"
    BY <2>3, <2>4, <2>5 DEF Sound
  <2>7. a.src = "fearless"
    BY <2>3, <2>5, <2>6, FearlessStops DEF FearlessBlocks
  <2>8. 1 \in DOMAIN queue /\ a = queue[1]
    <3>1. queue \in Seq(Action) /\ queue # <<>> /\ a = Head(queue)
      BY <2>3, <2>7 DEF TurnInv, EngineOK, QueueOK
    <3> QED
      BY <3>1, HeadTailProperties, LenProperties, EmptySeq
  <2>9. a.n < player[u].hp /\ a.pierce
    BY <2>5, <2>6, <2>7, <2>8 DEF TurnInv, FearOK, IsFearful
  <2> QED
    BY <2>3, <2>5, <2>6, <2>9 DEF PlayerStep
<1> QED
  BY <1>1, Inductive, PTL DEF Spec, FearlessSurvive

\* Whose luck is robbed, and who robs nobody, gains nothing.
THEOREM RobbedGain == Spec => RobbedGainNothing
<1> DEFINE Nothing == \A u \in Users :
              (RobbedBy(u) # {} /\ \A v \in All : u \notin RobbedBy(v)) =>
                 /\ player'[u].lp <= player[u].lp
                 /\ player'[u].hp <= player[u].hp \/ Revived(u)
                 /\ Len(player'[u].bag) <= Len(player[u].bag)
<1>1. TurnInv /\ [Next]_vars => Nothing
  <2> SUFFICES ASSUME TurnInv, [Next]_vars, NEW u \in Users, RobbedBy(u) # {},
                      \A v \in All : u \notin RobbedBy(v)
               PROVE  /\ player'[u].lp <= player[u].lp
                      /\ player'[u].hp <= player[u].hp \/ Revived(u)
                      /\ Len(player'[u].bag) <= Len(player[u].bag)
    OBVIOUS
  <2>1. u \in All /\ TurnInv' /\ (Executes \/ Rests)
    BY StepKeeps DEF Kept, All
  <2>2. player[u] \in PlayerState /\ player'[u] \in PlayerState
    BY <2>1 DEF TurnInv, EngineOK, PlayersOK
  <2>3. /\ player[u].lp \in Int /\ player'[u].lp \in Int
        /\ player[u].hp \in Int /\ player'[u].hp \in Int
        /\ Len(player[u].bag) \in Int /\ Len(player'[u].bag) \in Int
    BY <2>2, StatAssumption, LenProperties DEF PlayerState
  <2>4. /\ Has(u, "rob_luck") /\ buffs[u]["rob_luck"].peer \notin {u, Nobody}
    BY DEF RobbedBy
  <2>5. CASE Rests
    BY <2>1, <2>3, <2>5 DEF Rests
  <2>6. CASE Executes
    <3>1. PICK a, rest : Taken(a, rest) /\ Run(a, rest) /\ InTurn(a)
      BY <2>6 DEF Executes
    <3>2. /\ Sound(a) /\ a.to \in All /\ PlayerStep(a)
          /\ a.src # "none" => a \in ToSet(queue)
      BY <3>1, ExecutedOK
    <3>3. CASE a.to # u \/ Stopped(a)
      <4>1. player'[u] = player[u]
        BY <2>1, <3>2, <3>3 DEF PlayerStep
      <4> QED
        BY <2>3, <4>1
    <3>4. CASE a.to = u /\ ~Stopped(a)
      <4>1. ~(Gains(a) \/ a.do = "AddItem")
        <5>1. SUFFICES ASSUME Gains(a) \/ a.do = "AddItem" PROVE FALSE
          OBVIOUS
        <5>2. a.src = "rob_luck"
          BY <2>4, <3>2, <3>4, <5>1, RobberyStops DEF RobLuckTakes
        <5>3. PICK v \in All : Has(v, "rob_luck") /\ buffs[v]["rob_luck"].peer = u
          BY <3>2, <3>4, <5>2 DEF TurnInv, RobbersOK
        <5>4. u \in RobbedBy(v)
          BY <2>1, <2>4, <5>3, PlayerAssumption DEF RobbedBy
        <5> QED
          BY <5>4
      <4>2. a.do = "Respawn" => Revived(u)
        BY <3>1, <3>2, <3>4 DEF InTurn, PlayerStep, Revived
      <4> QED
        BY <2>3, <3>2, <3>4, <4>1, <4>2 DEF PlayerStep, Gains
    <3> QED
      BY <3>3, <3>4
  <2> QED
    BY <2>1, <2>5, <2>6
<1> QED
  BY <1>1, Inductive, PTL DEF Spec, RobbedGainNothing

\* Only setting off follows the step at which a player sets off.
LEMMA OnlySetOff ==
  ASSUME [Next]_vars, At("Moving", "set_off")
  PROVE  SetOff \/ UNCHANGED vars
<1>1. turn.state = "Moving" /\ turn.step = "set_off" /\ ~draining
  BY DEF At
<1>2. ~(\E p \in All : Begin(p)) /\ ~Drain /\ ~Rest /\ ~SufferEvent
  BY <1>1 DEF Begin, Resting, Drain, DrainOne, Rest, Settled, At, SufferEvent
<1>3. ~Decide
  BY <1>1 DEF Decide, UseItem, UseSkill, At
<1>4. ~Upkeep /\ ~PoisonDraw /\ ~LeaveUpkeep /\ ~Consume /\ ~Claim
      /\ ~(\E n \in DiceFaces : Roll(n)) /\ ~LeaveMain
  BY <1>1 DEF Upkeep, PoisonDraw, LeaveUpkeep, Consume, Claim, Roll, LeaveMain, At
<1>5. ~PreMove /\ ~FallDown /\ ~LeaveMoving /\ ~Treasure /\ ~LeaveCheckpoint /\ ~Land
      /\ ~LeaveLanded /\ ~DrawSomething /\ ~LeaveDraw
  BY <1>1 DEF PreMove, FallDown, LeaveMoving, Treasure, LeaveCheckpoint, Land, LeaveLanded,
              DrawSomething, LeaveDraw, At
<1>6. ~(\E crit \in BOOLEAN : Strike(crit)) /\ ~Victory /\ ~(\E r \in DrawTypes : Reward(r))
      /\ ~(\E u \in Users, n \in {1, 2} : BossHits(u, n))
      /\ ~(\E s \in SkillPool : BossCasts(s)) /\ ~SkillStrikes
      /\ ~(\E u \in Users : Revive(u)) /\ ~LeaveBattle
  BY <1>1 DEF Strike, Victory, Reward, BossHits, BossCasts, SkillStrikes, Revive, LeaveBattle,
              MayFight, At
<1>7. ~AfterTurn /\ ~Settle /\ ~(\E k \in Buffs : Expire(k)) /\ ~TurnEndRespawn
  BY <1>1 DEF AfterTurn, Settle, Expire, TurnEndRespawn, At
<1> QED
  BY <1>2, <1>3, <1>4, <1>5, <1>6, <1>7 DEF Next, Proceed, Finished

\* A walk passes no checkpoint by, and gives a treasure only where it has just come
\* to one, unless the mark of a death kept its player where they were.
THEOREM CheckpointsServed == Spec => EveryCheckpointServed
<1> DEFINE Served ==
       (At("Moving", "set_off") /\ turn'.step # "fell") =>
         /\ \A c \in Here(Me) + 1 .. player'[Me].pos - 1 : ~IsCheckpoint(c)
         /\ (player'[Me].pos > Here(Me) /\ IsCheckpoint(player'[Me].pos))
              => turn'.step = "checkpoint"
         /\ (turn'.step = "checkpoint" /\ ~Has(Me, "death_mark"))
              => player'[Me].pos > Here(Me) /\ IsCheckpoint(player'[Me].pos)
<1>1. TurnInv /\ [Next]_vars => Served
  <2> SUFFICES ASSUME TurnInv, [Next]_vars, At("Moving", "set_off"), turn'.step # "fell"
               PROVE  /\ \A c \in Here(Me) + 1 .. player'[Me].pos - 1 : ~IsCheckpoint(c)
                      /\ (player'[Me].pos > Here(Me) /\ IsCheckpoint(player'[Me].pos))
                           => turn'.step = "checkpoint"
                      /\ (turn'.step = "checkpoint" /\ ~Has(Me, "death_mark"))
                           => player'[Me].pos > Here(Me) /\ IsCheckpoint(player'[Me].pos)
    OBVIOUS
  <2>1. Me \in All /\ turn.steps \in Int /\ EngineInv /\ queue = <<>>
    BY WhoActs DEF At, All, TurnInv, TurnOK, TurnState
  <2>2. Here(Me) \in Nat
    BY <2>1, CellsAreNat DEF EngineInv, EngineOK, PlayersOK, PlayerState, Here
  <2>3. CASE UNCHANGED vars
    <3>1. player'[Me].pos = Here(Me) /\ turn'.step = "set_off"
      BY <2>3 DEF vars, engine, Here, At
    <3> QED
      BY <2>2, <3>1
  <2>4. CASE SetOff
    <3>1. PICK c \in Cells : WalksTo(c)
      BY <2>1, <2>4, WalkOK DEF SetOff
    <3> DEFINE a == Act("Move", Me, c, "none")
    <3>2. Sound(a) /\ a.do = "Move" /\ a.to = Me /\ a.n = c
      <4>1. "Move" \in Kinds \ {"BossDamage", "AddBuff", "AddItem"} /\ c \in Nat
        BY CellsAreNat DEF Kinds
      <4> QED
        BY <2>1, <4>1, PlainSound
    <3>3. Run(a, <<>>)
      BY <2>1, <3>1 DEF WalksTo, Top
    <3> HIDE DEF a
    <3>4. PlayerStep(a)
      BY <2>1, <3>2, <3>3, NoneSet, RunOK DEF EngineInv, EngineOK, QueueOK, Outcome
    <3>5. player'[Me].pos = c \/ player'[Me].pos = Here(Me)
      BY <3>2, <3>4 DEF PlayerStep, Here
    <3>6. ~Has(Me, "death_mark") => player'[Me].pos = c
      BY <3>2, <3>4, OnlyMarkStops DEF PlayerStep
    <3>7. WalkEnds(c) /\ c \in Nat
      BY <3>1, CellsAreNat DEF WalksTo
    <3>8. CASE OnTo("walked") /\ \A d \in Here(Me) + 1 .. c : ~IsCheckpoint(d)
      <4>1. turn'.step = "walked"
        BY <3>8 DEF OnTo
      <4> QED
        BY <2>2, <3>5, <3>7, <3>8, <4>1
    <3>9. CASE /\ OnTo("checkpoint") /\ IsCheckpoint(c) /\ c > Here(Me)
               /\ \A d \in Here(Me) + 1 .. c - 1 : ~IsCheckpoint(d)
      <4>1. turn'.step = "checkpoint"
        BY <3>9 DEF OnTo
      <4> QED
        BY <2>2, <3>5, <3>6, <3>7, <3>9, <4>1
    <3> QED
      BY <3>7, <3>8, <3>9 DEF WalkEnds, OnTo
  <2> QED
    BY <2>3, <2>4, OnlySetOff
<1> QED
  BY <1>1, Inductive, PTL DEF Spec, EveryCheckpointServed

-----------------------------------------------------------------------------
(* The contract *)

Same == turn'.who = turn.who /\ acted' = acted /\ beaten' = beaten

\* The course of the round goes on only at the beginning and the end of a turn.
LEMMA CourseGoesOn ==
  ASSUME TurnInv, [Next]_vars
  PROVE  \/ \E p \in All : Begin(p)
         \/ Victory \/ Rest \/ UNCHANGED vars
         \/ Same /\ ~Resting
<1>1. /\ turn \in TurnState /\ DOMAIN turn = DOMAIN Idle
      /\ draining => ~Resting
  BY DEF TurnInv, TurnOK, TurnState, Idle
<1>2. "who" \in DOMAIN turn
  BY DEF TurnInv, TurnOK, TurnState
<1> HIDE DEF Same
<1>3. CASE Decide
  <2>1. ASSUME NEW i \in Items, NEW t \in All \cup {Nobody}, UseItem(i, t) PROVE Same /\ ~Resting
    BY <1>2, <2>1 DEF UseItem, At, Same, Resting, course
  <2>2. ASSUME NEW t \in All, UseSkill(t) PROVE Same /\ ~Resting
    BY <1>2, <2>2 DEF UseSkill, At, Same, Resting
  <2> QED
    BY <1>3, <2>1, <2>2 DEF Decide
<1>4. CASE Drain \/ Upkeep \/ SufferEvent \/ Consume \/ Claim
  <2>1. CASE Drain
    <3>1. draining /\ UNCHANGED <<turn, course>>
      BY <2>1 DEF Drain, DrainOne
    <3> QED
      BY <1>1, <3>1 DEF Same, course
  <2>2. CASE Upkeep
    <3>1. At("Upkeep", "enter") /\ Then(IF Has(Me, "poison") THEN "poisoned" ELSE "done")
          /\ UNCHANGED course
      BY <2>2 DEF Upkeep
    <3> QED
      BY <1>2, <3>1 DEF At, Then, Same, Resting, course
  <2>3. CASE SufferEvent
    <3>1. turn.step = "suffer" /\ Then("done") /\ UNCHANGED course
      BY <2>3 DEF SufferEvent
    <3>2. ~Resting
      BY <3>1 DEF Resting, TurnInv, TurnOK, Stage
    <3> QED
      BY <1>2, <3>1, <3>2 DEF Then, Same, course
  <2>4. CASE Consume
    <3>1. /\ At("Main", "consume") /\ UNCHANGED course
          /\ turn' = [turn EXCEPT !.step = "enter", !.used = "none"]
      BY <2>4 DEF Consume
    <3> QED
      BY <1>2, <3>1 DEF At, Same, Resting, course
  <2>5. CASE Claim
    <3>1. /\ At("Main", "claim") /\ UNCHANGED course
          /\ turn' = [turn EXCEPT !.step = "enter", !.prey = {}]
      BY <2>5 DEF Claim
    <3> QED
      BY <1>2, <3>1 DEF At, Same, Resting, course
  <2> QED
    BY <1>4, <2>1, <2>2, <2>3, <2>4, <2>5
<1>5. CASE PoisonDraw \/ DrawSomething
  <2>1. /\ ~Resting /\ UNCHANGED course
        /\ Then("done") \/ \E e \in Events : Drawn(e)
    BY <1>5, TurnPoolAssumption
       DEF PoisonDraw, DrawSomething, DrawEvent, Draw, At, Resting, BadDraws
  <2>2. CASE Then("done")
    BY <1>2, <2>1, <2>2 DEF Then, Same, course
  <2>3. ASSUME NEW e \in Events, Drawn(e) PROVE turn'.who = turn.who
    BY <1>2, <2>3 DEF Drawn
  <2> QED
    BY <2>1, <2>2, <2>3 DEF Same, course
<1>6. CASE LeaveUpkeep \/ LeaveMain \/ LeaveMoving \/ LeaveCheckpoint \/ LeaveDraw \/ LeaveBattle
  BY <1>2, <1>6 DEF LeaveUpkeep, LeaveMain, LeaveMoving, LeaveCheckpoint, LeaveDraw, LeaveBattle,
                    Go, At, Same, Resting, course
<1>7. CASE LeaveLanded \/ Land \/ Treasure
  BY <1>2, <1>7 DEF LeaveLanded, Land, Treasure, Draw, Drawn, Then, Go, At, Same, Resting, course
<1>8. CASE \E n \in DiceFaces : Roll(n)
  <2>1. PICK n \in DiceFaces : Roll(n)
    BY <1>8
  <2> QED
    BY <1>2, <2>1 DEF Roll, At, Same, Resting, course
<1>9. CASE PreMove \/ SetOff \/ FallDown
  <2>1. SetOff => turn'.who = turn.who
    BY <1>2 DEF SetOff, Walk, Then
  <2> QED
    BY <1>2, <1>9, <2>1 DEF PreMove, SetOff, FallDown, Then, At, Same, Resting, course
<1>10. CASE \E crit \in BOOLEAN : Strike(crit)
  BY <1>2, <1>10 DEF Strike, Then, At, Same, Resting, course
<1>11. CASE \E r \in DrawTypes : Reward(r)
  <2>1. PICK r \in DrawTypes : Reward(r)
    BY <1>11
  <2> QED
    BY <1>2, <2>1 DEF Reward, At, Same, Resting, course
<1>12. CASE \E u \in Users, n \in {1, 2} : BossHits(u, n)
  <2>1. PICK u \in Users, n \in {1, 2} : BossHits(u, n)
    BY <1>12
  <2> QED
    BY <1>2, <2>1 DEF BossHits, MayFight, At, Same, Resting, course
<1>13. CASE \E s \in SkillPool : BossCasts(s)
  <2>1. PICK s \in SkillPool : BossCasts(s)
    BY <1>13
  <2> QED
    BY <1>2, <2>1 DEF BossCasts, MayFight, At, Same, Resting, course
<1>14. CASE SkillStrikes \/ (\E u \in Users : Revive(u)) \/ TurnEndRespawn
  BY <1>2, <1>14 DEF SkillStrikes, Revive, TurnEndRespawn, Then, At, Same, Resting, course
<1>15. CASE AfterTurn \/ Settle
  BY <1>2, <1>15 DEF AfterTurn, Settle, Then, At, Same, Resting, course
<1>16. CASE \E k \in Buffs : Expire(k)
  <2>1. PICK k \in Buffs : Expire(k)
    BY <1>16
  <2> QED
    BY <1>2, <2>1 DEF Expire, At, Same, Resting, course
<1> QED
  BY <1>3, <1>4, <1>5, <1>6, <1>7, <1>8, <1>9, <1>10, <1>11, <1>12, <1>13, <1>14, <1>15, <1>16
     DEF Next, Proceed, Finished

Down == {u \in Users : player[u].dead}

\* At most one player falls or is brought back at a time, who is brought back in its own
\* turn or in that of the Boss.
LEMMA FallOrRise ==
  ASSUME TurnInv, Executes \/ Rests
  PROVE  \/ Down' = Down
         \/ \E u \in Users : u \notin Down /\ Down' = Down \cup {u}
         \/ \E u \in Users : u \in Down /\ Down' = Down \ {u} /\ Me \in {u, Boss}
<1>1. CASE Rests
  BY <1>1 DEF Rests, Down
<1>2. CASE Executes
  <2>1. PICK a, rest : Taken(a, rest) /\ Run(a, rest) /\ InTurn(a)
    BY <1>2 DEF Executes
  <2>2. Sound(a) /\ a.to \in All /\ PlayerStep(a)
    BY <2>1, ExecutedOK
  <2>3. \A u \in Users : u # a.to => (u \in Down' <=> u \in Down)
    BY <2>2 DEF PlayerStep, Down, All
  <2>4. CASE a.to \in Users /\ a.to \in Down' /\ a.to \notin Down
    <3>1. Down' = Down \cup {a.to}
      BY <2>3, <2>4 DEF Down
    <3> QED
      BY <2>4, <3>1
  <2>5. CASE a.to \in Users /\ a.to \notin Down' /\ a.to \in Down
    <3>1. Down' = Down \ {a.to}
      BY <2>3, <2>5 DEF Down
    <3>2. a.do = "Respawn"
      BY <2>2, <2>5 DEF PlayerStep, Down
    <3>3. Me \in {a.to, Boss}
      BY <2>1, <3>2 DEF InTurn
    <3> QED
      BY <2>5, <3>1, <3>3
  <2>6. CASE a.to \notin Users \/ (a.to \in Down' <=> a.to \in Down)
    <3>1. Down' = Down
      BY <2>3, <2>6 DEF Down
    <3> QED
      BY <3>1
  <2> QED
    BY <2>4, <2>5, <2>6
<1> QED
  BY <1>1, <1>2

\* The turns keep the contract, but for its liveness: each player and the Boss have
\* one turn a round, players are brought back in their own turn or in the Boss's, no turn
\* leaves its player down, and the Boss is beaten in the turn of a player.
THEOREM TurnsKeepContract == Spec => Contract!Init /\ [][Contract!Next]_(Contract!vars)
<1>1. Init => Contract!Init
  <2> SUFFICES ASSUME Init PROVE Contract!Init
    OBVIOUS
  <2>1. turn = Idle /\ acted = {} /\ beaten = FALSE
    BY DEF Init
  <2>2. \A u \in Users : ~player[u].dead
    BY DEF Init, EngineInit, Newcomer, All
  <2> QED
    BY <2>1, <2>2, IdleOK DEF Contract!Init
<1>2. TurnInv /\ [Next]_vars => [Contract!Next]_(Contract!vars)
  <2> SUFFICES ASSUME TurnInv, [Next]_vars PROVE Contract!Next \/ UNCHANGED Contract!vars
    OBVIOUS
  <2>1. TurnOK /\ CourseOK /\ EngineInv
    BY DEF TurnInv, EngineInv
  <2>2. CASE \E p \in All : Begin(p)
    <3>1. PICK p \in All : Begin(p)
      BY <2>2
    <3>2. /\ turn.who = Nobody /\ ~beaten /\ p \notin acted
          /\ player' = player /\ acted' = acted /\ beaten' = beaten
      BY <2>1, <3>1 DEF Begin, Over, TurnOK, Me, engine, course
    <3>3. turn'.who = p
      BY <3>1, IdleOK DEF Begin, TurnState
    <3>4. Contract!Begin(p)
      BY <3>2, <3>3 DEF Contract!Begin
    <3> QED
      BY <3>4 DEF Contract!Next, All
  <2>3. CASE Victory
    <3>1. /\ Me \in Users /\ ~beaten /\ beaten' = TRUE /\ acted' = acted /\ player' = player
          /\ turn' = [turn EXCEPT !.step = "done"]
      BY <2>1, <2>3 DEF Victory, At, Then, CourseOK, engine
    <3>2. turn'.who = turn.who
      BY <2>1, <3>1 DEF TurnOK, TurnState
    <3>3. Contract!Win
      BY <3>1, <3>2 DEF Contract!Win, Me
    <3> QED
      BY <3>3 DEF Contract!Next
  <2>4. CASE Rest
    <3>1. /\ Settled /\ turn' = Idle /\ player' = player /\ beaten' = beaten
          /\ acted' = IF acted \cup {Me} = Users \cup {Boss} THEN {} ELSE acted \cup {Me}
      BY <2>4 DEF Rest, Clear, HaveActed, All
    <3>2. turn'.who = Nobody
      BY <3>1, IdleOK
    <3>3. Me # Nobody
      BY <2>1, <3>1 DEF Settled, At, TurnOK, Resting
    <3>4. Me \notin {u \in Users : player[u].dead} \/ beaten
      BY <3>1, PlayerAssumption DEF Settled
    <3>5. Contract!Finish
      BY <3>1, <3>2, <3>3, <3>4 DEF Contract!Finish, Me
    <3> QED
      BY <3>5 DEF Contract!Next
  <2>5. CASE UNCHANGED vars
    BY <2>5 DEF vars, engine, course, Contract!vars
  <2>6. CASE Same /\ ~Resting
    <3>1. \/ Down' = Down
          \/ \E u \in Users : u \notin Down /\ Down' = Down \cup {u}
          \/ \E u \in Users : u \in Down /\ Down' = Down \ {u} /\ Me \in {u, Boss}
      BY StepKeeps, FallOrRise DEF Kept
    <3>2. Me # Nobody
      BY <2>1, <2>6 DEF TurnOK
    <3>3. CASE Down' = Down
      BY <2>6, <3>3 DEF Same, Down, Contract!vars
    <3>4. CASE \E u \in Users : u \notin Down /\ Down' = Down \cup {u}
      BY <2>6, <3>2, <3>4 DEF Same, Down, Me, Contract!Next, Contract!Fall
    <3>5. CASE \E u \in Users : u \in Down /\ Down' = Down \ {u} /\ Me \in {u, Boss}
      BY <2>6, <3>2, <3>5 DEF Same, Down, Me, Contract!Next, Contract!Rise
    <3> QED
      BY <3>1, <3>3, <3>4, <3>5
  <2> QED
    BY <2>2, <2>3, <2>4, <2>5, <2>6, CourseGoesOn
<1> QED
  BY <1>1, <1>2, Inductive, PTL DEF Spec
-----------------------------------------------------------------------------
(* What a state may spend *)

\* So many executions at most are done and still to be done in a state of the turn,
\* at each of its steps.
Allowance(t) ==
  CASE t.state = "Upkeep" -> IF t.step = "enter" THEN 0 ELSE IF t.step = "done" THEN 20 ELSE 9
    [] t.state = "Main" -> 10 * t.uses
    [] t.state = "Moving" -> IF t.step = "fallen" THEN 4 ELSE 0
    [] t.state = "Checkpoint" -> IF t.step = "done" THEN 9 ELSE 0
    [] t.state \in {"Landed", "Draw"} -> IF t.step = "done" THEN 11 ELSE 0
    [] t.state = "BossBattle" ->
         IF t.step \in {"struck", "done"} THEN 9 + 4 * Cardinality(Users) ELSE 0
    [] t.state = "End" ->
         IF t.step = "enter" THEN 0 ELSE IF t.step = "settle" THEN 18
         ELSE 29 - (IF "curse" \in t.expiring THEN 9 ELSE 0)
                 - (IF "divine" \in t.expiring THEN 2 ELSE 0)
    [] OTHER -> 0

\* Skills give their buffs to whom they may, and what was executed in this state and
\* what is queued still can lead to stay within what the state may spend.
FuelInv ==
  /\ SkillBuffsOK
  /\ turn.step = "claim" => turn.who \in Of("BaiHu")
  /\ count + Fuel(queue) <= Allowance(turn)

LEMMA UsersCounted == Cardinality(Users) \in Nat
  BY PlayerAssumption, FS_CardinalityType

LEMMA AllowanceIsNat == ASSUME NEW t \in TurnState PROVE Allowance(t) \in Nat
<1>1. t.uses \in Nat
  BY DEF TurnState
<1> QED
  BY <1>1, UsersCounted DEF Allowance

LEMMA FuelNow ==
  ASSUME TurnInv, FuelInv
  PROVE  /\ count \in Nat /\ Fuel(queue) \in Nat /\ count <= Allowance(turn)
         /\ Allowance(turn) \in Nat /\ turn \in TurnState /\ EngineInv
         /\ PlayersOK /\ BuffsOK /\ QueueOK
<1>1. /\ count \in Nat /\ queue \in Seq(Action) /\ turn \in TurnState /\ EngineInv
      /\ PlayersOK /\ BuffsOK /\ QueueOK
  BY WhoActs DEF TurnInv, EngineOK, QueueOK
<1>2. Fuel(queue) \in Nat
  BY <1>1, TokensFinite, LenProperties
<1>3. Allowance(turn) \in Nat
  BY <1>1, AllowanceIsNat
<1> QED
  BY <1>1, <1>2, <1>3 DEF FuelInv

\* The buffs of the skills are given by the skills, and where they are prolonged the
\* luck goes on to whom it went.
LEMMA RunSkillBuffs ==
  ASSUME PlayersOK, BuffsOK, extended \in BOOLEAN, SkillBuffsOK, NEW a, Sound(a),
         NEW rest \in Seq(Action), Run(a, rest),
         a.do = "AddBuff" /\ a.of = "dominance" => a.to \in Of("QingLong")
  PROVE  SkillBuffsOK'
<1>1. BuffStep(a)
  BY RunOK DEF Outcome
<1>2. a.to \in All /\ (a.do = "AddBuff" /\ a.of = "rob_luck" => a.from = Nobody)
  BY DEF Sound, Action, Links
<1>3. ASSUME NEW p \in All
      PROVE  /\ "dominance" \in DOMAIN buffs'[p] => p \in Of("QingLong")
             /\ "rob_luck" \in DOMAIN buffs'[p] =>
                  buffs'[p]["rob_luck"].peer \in Of("BaiHu") \cup {Nobody}
  <2>1. /\ "dominance" \in DOMAIN buffs[p] => p \in Of("QingLong")
        /\ "rob_luck" \in DOMAIN buffs[p] =>
             buffs[p]["rob_luck"].peer \in Of("BaiHu") \cup {Nobody}
    BY DEF SkillBuffsOK, Has
  <2>2. CASE SameBuffs(buffs'[p], buffs[p])
    BY <2>1, <2>2 DEF SameBuffs
  <2>3. CASE p = a.to /\ ~Stopped(a) /\ a.do = "Death"
    BY <1>1, <2>1, <2>3 DEF BuffStep, Gained
  <2>4. CASE p = a.to /\ ~Stopped(a) /\ a.do = "RemoveBuff"
    BY <1>1, <2>1, <2>4 DEF BuffStep, Lost
  <2>5. CASE p = a.to /\ ~Stopped(a) /\ a.do = "AddBuff"
    <3>1. Gained(buffs'[p], buffs[p], a.of)
      BY <1>1, <2>5 DEF BuffStep
    <3>2. "dominance" \in DOMAIN buffs'[p] => p \in Of("QingLong")
      BY <2>1, <2>5, <3>1 DEF Gained
    <3>3. CASE a.of # "rob_luck"
      BY <2>1, <3>1, <3>2, <3>3 DEF Gained
    <3>4. CASE a.of = "rob_luck"
      <4>1. buffs'[p][a.of].peer = IF Extends(a) THEN buffs[p][a.of].peer ELSE Nobody
        BY <1>1, <1>2, <2>5, <3>4 DEF BuffStep
      <4>2. Extends(a) => a.of \in DOMAIN buffs[p]
        BY <2>5 DEF Extends, Has
      <4> QED
        BY <2>1, <3>2, <3>4, <4>1, <4>2
    <3> QED
      BY <3>3, <3>4
  <2>6. p # a.to \/ Stopped(a) \/ a.do \notin {"Death", "AddBuff", "RemoveBuff"} =>
          SameBuffs(buffs'[p], buffs[p])
    BY <1>1 DEF BuffStep
  <2> QED
    BY <2>2, <2>3, <2>4, <2>5, <2>6
<1> QED
  BY <1>3 DEF SkillBuffsOK, Has

\* Whose luck is robbed, and who does things twice, stays the same.
SamePeers ==
  \A p \in All : /\ DOMAIN buffs'[p] \subseteq DOMAIN buffs[p]
                 /\ \A k \in DOMAIN buffs'[p] : buffs'[p][k].peer = buffs[p][k].peer

LEMMA SkillBuffsStay == ASSUME SkillBuffsOK, SamePeers PROVE SkillBuffsOK'
  BY DEF SkillBuffsOK, SamePeers, Has

\* What is robbed goes to one who robs.
LEMMA QueuedRightful ==
  ASSUME TurnInv, SkillBuffsOK, NEW x \in ToSet(queue) PROVE Rightful(x)
<1>1. Sound(x) /\ x.to \in All
  BY DEF TurnInv, EngineOK, QueueOK, Sound, Action
<1>2. ASSUME x.src = "rob_luck" PROVE x.to \in Of("BaiHu")
  <2>1. PICK v \in All : Has(v, "rob_luck") /\ buffs[v]["rob_luck"].peer = x.to
    BY <1>2 DEF TurnInv, RobbersOK
  <2>2. x.to \in Of("BaiHu") \cup {Nobody}
    BY <2>1 DEF SkillBuffsOK
  <2> QED
    BY <1>1, <2>2, PlayerAssumption
<1> QED
  BY <1>2 DEF Rightful

-----------------------------------------------------------------------------
(* The four ways in which a step changes what is spent *)

LEMMA TopBudget ==
  ASSUME TurnInv, FuelInv, queue = <<>>, NEW a, Sound(a), a.src = "none", Top(a),
         a.do = "AddBuff" /\ a.of = "dominance" => a.to \in Of("QingLong"),
         turn'.step = "claim" => turn'.who \in Of("BaiHu"),
         NEW w \in Nat, Weight(a) = w, Allowance(turn') \in Nat,
         Allowance(turn) + w <= Allowance(turn') + 1
  PROVE  FuelInv'
<1>1. Run(a, <<>>) /\ count' = count
  BY DEF Top
<1>2. <<>> \in Seq(Action) /\ Fuel(<<>>) = 0
  BY NoneSet, FuelNone
<1>3. Rightful(a)
  BY DEF Rightful
<1>4. SkillBuffsOK'
  BY <1>1, <1>2, FuelNow, RunSkillBuffs DEF FuelInv, QueueOK
<1>5. queue' \in Seq(Action) /\ Fuel(queue') + 1 <= Fuel(<<>>) + Weight(a)
  BY <1>1, <1>2, <1>3, FuelNow, RunBurns DEF FuelInv
<1>6. Fuel(queue') \in Nat
  BY <1>5, TokensFinite, LenProperties
<1>7. count' + Fuel(queue') <= Allowance(turn')
  BY <1>1, <1>2, <1>5, <1>6, FuelNow
<1> QED
  BY <1>4, <1>7 DEF FuelInv

LEMMA PushBudget ==
  ASSUME TurnInv, FuelInv, queue = <<>>, NEW next \in Seq(Action), Push(next), SamePeers,
         turn'.step # "claim", Allowance(turn') \in Nat,
         Allowance(turn) + Fuel(next) <= Allowance(turn')
  PROVE  FuelInv'
<1>1. queue' = next /\ count' = count
  BY DEF Push
<1>2. SkillBuffsOK'
  BY SkillBuffsStay DEF FuelInv
<1>3. Fuel(next) \in Nat
  BY TokensFinite, LenProperties
<1>4. count' + Fuel(queue') <= Allowance(turn')
  BY <1>1, <1>3, FuelNow
<1> QED
  BY <1>2, <1>4 DEF FuelInv

LEMMA QuietBudget ==
  ASSUME TurnInv, FuelInv, UNCHANGED <<queue, count>>, SkillBuffsOK',
         turn'.step = "claim" => turn'.who \in Of("BaiHu"), Allowance(turn') \in Nat,
         Allowance(turn) <= Allowance(turn')
  PROVE  FuelInv'
<1>1. count' + Fuel(queue') <= Allowance(turn')
  BY FuelNow DEF FuelInv
<1> QED
  BY <1>1 DEF FuelInv

LEMMA ClearBudget ==
  ASSUME FuelInv, Clear, turn'.step = "enter", Allowance(turn') \in Nat
  PROVE  FuelInv'
<1>1. SkillBuffsOK'
  BY DEF FuelInv, SkillBuffsOK, Clear, Has
<1>2. count' = 0 /\ Fuel(queue') = 0
  BY FuelNone DEF Clear
<1> QED
  BY <1>1, <1>2 DEF FuelInv

\* ProcessQueue takes the next action.
LEMMA DrainBudget ==
  ASSUME TurnInv, FuelInv, Drain
  PROVE  FuelInv' /\ Fuel(queue') < Fuel(queue)
<1> DEFINE a == Head(queue)
           rest == Tail(queue)
<1>1. /\ draining /\ Run(a, rest) /\ count' = count + 1 /\ turn' = turn
  BY DEF Drain, DrainOne
<1>2. queue # <<>> /\ queue \in Seq(Action)
  BY <1>1 DEF TurnInv, EngineOK, QueueOK
<1>3. a \in ToSet(queue)
  BY <1>2, HeadTailSet
<1>4. Sound(a) /\ Rightful(a) /\ a.do # "RemoveBuff"
  BY <1>3, QueuedRightful DEF FuelInv, TurnInv, EngineOK, QueueOK, Queueable
<1>5. rest \in Seq(Action) /\ Fuel(queue) = Weight(a) + Fuel(rest)
  BY <1>2, <1>4, FuelHead
<1>6. a.do = "AddBuff" => a.of # "dominance"
  BY <1>3 DEF TurnInv, RobbersOK
<1> HIDE DEF a, rest
<1>7. SkillBuffsOK'
  BY <1>1, <1>4, <1>5, <1>6, FuelNow, RunSkillBuffs DEF FuelInv, QueueOK
<1>8. queue' \in Seq(Action) /\ Fuel(queue') + 1 <= Fuel(rest) + Weight(a)
  BY <1>1, <1>4, <1>5, FuelNow, RunBurns DEF FuelInv
<1>9. Fuel(queue') \in Nat
  BY <1>8, TokensFinite, LenProperties
<1>10. Fuel(rest) \in Nat /\ Weight(a) \in Nat
  <2>1. Fuel(rest) \in Nat
    BY <1>5, TokensFinite, LenProperties
  <2>2. Weight(a) \in 1 .. 11
    BY <1>4, WeightIs
  <2> QED
    BY <2>1, <2>2
<1>11. Fuel(queue') < Fuel(queue)
  BY <1>5, <1>8, <1>9, <1>10
<1>12. count' + Fuel(queue') <= Allowance(turn')
  BY <1>1, <1>9, <1>11, FuelNow DEF FuelInv
<1>13. turn'.step = "claim" => turn'.who \in Of("BaiHu")
  BY <1>1 DEF FuelInv
<1> QED
  BY <1>7, <1>11, <1>12, <1>13 DEF FuelInv
-----------------------------------------------------------------------------
(* What events, items, skills and the end of a turn may ask for *)

LEMMA FuelTwo ==
  ASSUME NEW x, Sound(x), NEW y, Sound(y) PROVE Fuel(<<x, y>>) = Weight(x) + Weight(y)
<1>1. /\ Fuel(<<x>>) = Weight(x) /\ <<x>> \in Seq(Action)
      /\ Fuel(<<y>>) = Weight(y) /\ <<y>> \in Seq(Action)
  BY FuelOne
<1>2. <<x, y>> = <<x>> \o <<y>>
  OBVIOUS
<1> QED
  BY <1>1, <1>2, FuelBoth

LEMMA SinglePrice ==
  ASSUME NEW x, Wish(<<x>>)
  PROVE  /\ Sound(x) /\ x.src = "none"
         /\ Fuel(<<x>>) = Weight(x) /\ Weight(x) \in 1 .. 11
<1>1. x \in ToSet(<<x>>)
  BY DEF ToSet
<1>2. Sound(x) /\ x.src = "none"
  BY <1>1 DEF Wish, Wanted
<1> QED
  BY <1>2, FuelOne, WeightIs

LEMMA PairPrice ==
  ASSUME NEW x, NEW y, Wish(<<x, y>>)
  PROVE  /\ Sound(x) /\ Sound(y) /\ x.src = "none" /\ y.src = "none"
         /\ Fuel(<<x, y>>) = Weight(x) + Weight(y)
<1>1. x \in ToSet(<<x, y>>) /\ y \in ToSet(<<x, y>>)
  <2>1. 1 \in DOMAIN <<x, y>> /\ 2 \in DOMAIN <<x, y>>
    OBVIOUS
  <2>2. <<x, y>>[1] = x /\ <<x, y>>[2] = y
    OBVIOUS
  <2> QED
    BY <2>1, <2>2 DEF ToSet
<1>2. Sound(x) /\ Sound(y) /\ x.src = "none" /\ y.src = "none"
  BY <1>1 DEF Wish, Wanted
<1> QED
  BY <1>2, FuelTwo

LEMMA EventPrice ==
  ASSUME PlayersOK, NEW e \in Events, NEW p \in Users, NEW next \in EventEffects(e, p)
  PROVE  next \in Seq(Action) /\ Fuel(next) <= 11
<1>1. Wish(next) /\ next \in Seq(Action)
  BY EventEffectsOK DEF Wish
<1>2. CASE e = "exchange" /\ next # <<>>
  <2>1. next \in Swaps(p)
    BY <1>2 DEF EventEffects
  <2>2. PICK q \in SwapPartners(p) :
          next = <<Act("Teleport", p, player[q].pos, "none"),
                   Act("Teleport", q, player[p].pos, "none")>>
    BY <2>1 DEF Swaps
  <2> DEFINE x == Act("Teleport", p, player[q].pos, "none")
             y == Act("Teleport", q, player[p].pos, "none")
  <2>3. x.do = "Teleport" /\ y.do = "Teleport" /\ next = <<x, y>>
    BY <2>2 DEF Act
  <2> HIDE DEF x, y
  <2>4. Sound(x) /\ Sound(y) /\ Fuel(next) = Weight(x) + Weight(y)
    BY <1>1, <2>3, PairPrice
  <2>5. Weight(x) = 1 /\ Weight(y) = 1
    BY <2>3, <2>4, WeightIs DEF IsGain, Gains
  <2> QED
    BY <1>1, <2>4, <2>5
<1>3. CASE next = <<>>
  BY <1>1, <1>3, FuelNone
<1>4. CASE e # "exchange" /\ next # <<>>
  <2>1. PICK x : next = <<x>>
    <3>1. CASE e \in {"herb", "lucky_bubble", "relic", "divine_bless", "hidden_buff", "taste_test"}
      BY <3>1 DEF EventEffects
    <3>2. CASE e \in {"mosquito", "ghost_hit", "dog_poop", "skull_gaze", "lost_way"}
      BY <3>2 DEF EventEffects
    <3>3. CASE e = "wind_gust"
      BY <1>4, <3>3 DEF EventEffects
    <3>4. CASE e = "thunder"
      BY <1>4, <3>4 DEF EventEffects
    <3> QED
      BY <1>4, <3>1, <3>2, <3>3, <3>4 DEF Events
  <2> QED
    BY <1>1, <2>1, SinglePrice
<1> QED
  BY <1>2, <1>3, <1>4

LEMMA BuffPrice ==
  ASSUME NEW x, Sound(x), x.do = "AddBuff" PROVE Weight(x) = BuffWeight[x.of] /\ Weight(x) \in 1 .. 10
<1>1. Weight(x) = BuffWeight[x.of] /\ x.of \in Buffs
  BY WeightIs DEF Sound
<1> QED
  BY <1>1 DEF BuffWeight

LEMMA ItemPrice ==
  ASSUME PlayersOK, NEW i \in Items, NEW p \in Users, NEW t \in All \cup {Nobody},
         t = Nobody => i \notin NeedsTarget
  PROVE  LET next == ItemEffect(i, p, t)
         IN next \in Seq(Action) /\ Fuel(next) <= 10
<1> DEFINE next == ItemEffect(i, p, t)
<1>1. Wish(next) /\ next \in Seq(Action)
  BY ItemEffectOK DEF Wish
<1>2. p \in All /\ p # Nobody /\ player[p].hp \in Nat
  BY PlayerAssumption DEF All, PlayersOK, PlayerState
<1>3. CASE i \in DOMAIN GivenBuff
  <2>1. PICK q \in All : next = <<AddBuff(q, GivenBuff[i])>>
    <3>1. i \notin {"any_door", "dice_upgrade", "magic_flute", "cupid_arrow", "crimson_blade"}
      BY <1>3 DEF GivenBuff
    <3>2. next = <<AddBuff(IF t = Nobody THEN p ELSE t, GivenBuff[i])>>
      BY <1>3, <3>1 DEF ItemEffect
    <3> QED
      BY <1>2, <3>2
  <2> DEFINE x == AddBuff(q, GivenBuff[i])
  <2>2. next = <<x>> /\ x.do = "AddBuff"
    BY <2>1 DEF AddBuff, Act
  <2> HIDE DEF x, next
  <2>3. Sound(x) /\ Fuel(next) = Weight(x)
    BY <1>1, <2>2, SinglePrice
  <2>4. Weight(x) \in 1 .. 10
    BY <2>2, <2>3, BuffPrice
  <2> QED
    BY <1>1, <2>3, <2>4 DEF next
<1>4. CASE i = "any_door" \/ i = "dice_upgrade"
  <2>1. next = <<>> \/ \E x : next = <<x>> /\ x.do \in {"Teleport", "DiceUpgrade"}
    BY <1>4 DEF ItemEffect, GivenBuff, Act
  <2> HIDE DEF next
  <2>2. ASSUME NEW x, next = <<x>>, x.do \in {"Teleport", "DiceUpgrade"} PROVE Fuel(next) = 1
    BY <1>1, <2>2, SinglePrice, WeightIs DEF IsGain, Gains
  <2> QED
    BY <1>1, <2>1, <2>2, FuelNone DEF next
<1>5. CASE i \in {"magic_flute", "cupid_arrow"}
  <2>1. PICK k \in Links : next = <<LinkBuff(p, k, t), LinkBuff(t, k, p)>>
    BY <1>5 DEF ItemEffect, GivenBuff, Links
  <2> DEFINE x == LinkBuff(p, k, t)
             y == LinkBuff(t, k, p)
  <2>2. x.do = "AddBuff" /\ x.of = k /\ y.do = "AddBuff" /\ y.of = k /\ next = <<x, y>>
    BY <2>1 DEF LinkBuff, AddBuff, Act
  <2> HIDE DEF x, y, next
  <2>3. Sound(x) /\ Sound(y) /\ Fuel(next) = Weight(x) + Weight(y)
    BY <1>1, <2>2, PairPrice
  <2>4. Weight(x) = 1 /\ Weight(y) = 1
    BY <2>2, <2>3, BuffPrice DEF BuffWeight, Links, Buffs
  <2> QED
    BY <1>1, <2>3, <2>4 DEF next
<1>6. CASE i = "crimson_blade"
  <2> DEFINE n == player[p].hp \div 2
             x == Piercing(p, n)
             y == DamageFrom(t, n, p)
  <2>1. next = <<>> \/ next = <<x, y>>
    BY <1>6 DEF ItemEffect, GivenBuff
  <2>2. /\ x.do = "Damage" /\ x.from = Nobody /\ x.marks = {}
        /\ y.do = "Damage" /\ y.from = p /\ y.marks = {}
    BY DEF Piercing, DamageFrom, Damage, Act
  <2> HIDE DEF x, y, next
  <2>3. ASSUME next = <<x, y>> PROVE Fuel(next) = 10
    <3>1. Sound(x) /\ Sound(y) /\ Fuel(next) = Weight(x) + Weight(y)
      BY <1>1, <2>3, PairPrice
    <3>2. Weight(x) = 4 /\ Weight(y) = 6
      BY <1>2, <2>2, <3>1, WeightIs DEF LossWeight
    <3> QED
      BY <3>1, <3>2
  <2> QED
    BY <1>1, <2>1, <2>3, FuelNone DEF next
<1>7. Items = {"any_door", "dice_upgrade", "magic_flute", "cupid_arrow", "crimson_blade"}
                \cup DOMAIN GivenBuff
  BY DEF Items, GivenBuff
<1> QED
  BY <1>3, <1>4, <1>5, <1>6, <1>7

\* The same is done to each of several players.
LEMMA EachPrice ==
  ASSUME NEW prey \in SUBSET Users, NEW o \in SetToSeqs(prey), NEW s,
         DOMAIN s = DOMAIN o, Wish(s), \A i \in DOMAIN o : Weight(s[i]) \in 1 .. 4
  PROVE  Fuel(s) <= 4 * Cardinality(Users)
<1> DEFINE N == Cardinality(prey)
<1>1. N \in Nat /\ N <= Cardinality(Users)
  BY PlayerAssumption, FS_Subset, FS_CardinalityType
<1>2. o \in [1 .. N -> prey]
  BY DEF SetToSeqs
<1> HIDE DEF N
<1>3. s \in Seq(Action) /\ DOMAIN s = 1 .. N
  BY <1>2 DEF Wish
<1>4. Len(s) = N
  BY <1>1, <1>3, LenProperties
<1>5. Fuel(s) <= Len(s) * 4
  <2>1. Len(s) \in Nat /\ \A i \in 1 .. Len(s) : Weight(s[i]) \in 1 .. 4
    BY <1>1, <1>2, <1>4
  <2>2. 4 \in 1 .. 11
    OBVIOUS
  <2> QED
    BY <2>1, <2>2, FuelEach
<1>6. Fuel(s) \in Nat
  BY <1>1, <1>4, TokensFinite
<1> QED
  BY <1>1, <1>4, <1>5, <1>6, UsersCounted

LEMMA SkillPrice ==
  ASSUME NEW s \in Skills, NEW prey \in SUBSET Users, NEW next \in SkillEffects(s, prey)
  PROVE  next \in Seq(Action) /\ Fuel(next) <= 9 + 4 * Cardinality(Users)
<1>1. Wish(next) /\ next \in Seq(Action)
  BY SkillEffectsOK DEF Wish
<1>2. CASE s \in {"thunder", "curse"}
  <2>1. PICK o \in SetToSeqs(prey) :
          next = [i \in DOMAIN o |-> IF s = "thunder" THEN Damage(o[i], 3)
                                     ELSE AddBuff(o[i], "curse")]
    <3>1. CASE s = "thunder"
      BY <3>1 DEF SkillEffects
    <3>2. CASE s = "curse"
      BY <3>2 DEF SkillEffects
    <3> QED
      BY <1>2, <3>1, <3>2
  <2>2. DOMAIN next = DOMAIN o
    BY <2>1
  <2>3. ASSUME NEW i \in DOMAIN o PROVE Weight(next[i]) \in 1 .. 4
    <3>1. next[i] \in ToSet(next)
      BY <2>2 DEF ToSet
    <3>2. Sound(next[i])
      BY <1>1, <3>1 DEF Wish, Wanted
    <3>3. CASE s = "thunder"
      <4>1. next[i].do = "Damage" /\ next[i].from = Nobody /\ next[i].marks = {}
        BY <2>1, <3>3 DEF Damage, Act
      <4> QED
        BY <3>2, <4>1, WeightIs DEF LossWeight
    <3>4. CASE s = "curse"
      <4>1. next[i].do = "AddBuff" /\ next[i].of = "curse"
        BY <2>1, <3>4 DEF AddBuff, Act
      <4>2. Weight(next[i]) = BuffWeight["curse"]
        BY <3>2, <4>1, BuffPrice
      <4>3. "curse" \in Buffs
        BY DEF Buffs
      <4> QED
        BY <4>2, <4>3 DEF BuffWeight
    <3> QED
      BY <1>2, <3>3, <3>4
  <2>4. Fuel(next) <= 4 * Cardinality(Users)
    BY <1>1, <2>2, <2>3, EachPrice
  <2>5. Fuel(next) \in Nat
    BY <1>1, TokensFinite, LenProperties
  <2> QED
    BY <1>1, <2>4, <2>5, UsersCounted
<1>3. CASE s \in {"rest", "thorns"}
  <2>1. next = <<>> \/ \E x : next = <<x>> /\ x.do \in {"Heal", "AddBuff"}
                              /\ x.of \in {"none", "thorns"} /\ x.marks = {}
    BY <1>3 DEF SkillEffects, Heal, AddBuff, Act
  <2>2. ASSUME NEW x, next = <<x>>, x.do \in {"Heal", "AddBuff"},
               x.of \in {"none", "thorns"}, x.marks = {}
        PROVE  Fuel(next) <= 9
    <3>1. Sound(x) /\ x.src = "none" /\ Fuel(next) = Weight(x)
      BY <1>1, <2>2, SinglePrice
    <3>2. CASE x.do = "Heal"
      BY <2>2, <3>1, <3>2, WeightIs DEF GainWeight, IsGain, Gains
    <3>3. CASE x.do = "AddBuff"
      <4>1. x.of = "thorns" /\ "thorns" \in Buffs
        BY <2>2, <3>1, <3>3 DEF Sound, Buffs
      <4>2. Weight(x) = BuffWeight["thorns"]
        BY <3>1, <3>3, <4>1, BuffPrice
      <4>3. BuffWeight["thorns"] = 1
        BY <4>1 DEF BuffWeight
      <4> QED
        BY <3>1, <4>2, <4>3
    <3> QED
      BY <2>2, <3>2, <3>3
  <2>3. Fuel(next) <= 9 /\ Fuel(next) \in Nat
    BY <1>1, <2>1, <2>2, FuelNone, TokensFinite, LenProperties
  <2> QED
    BY <1>1, <2>3, UsersCounted
<1> QED
  BY <1>2, <1>3 DEF Skills

LEMMA DuesPrice ==
  ASSUME NEW p \in All, NEW o \in SetToSeqs(Dues(p))
  PROVE  o \in Seq(Action) /\ Fuel(o) <= 18
<1> DEFINE D == Dues(p)
           N == Cardinality(D)
           x == Damage(p, 1)
           y == Heal(p, 1)
<1>1. Wish(o) /\ o \in Seq(Action)
  BY DuesWanted DEF Wish
<1>2. D \subseteq {x, y} /\ o \in [1 .. N -> D]
  BY DEF Dues, SetToSeqs
<1>3. /\ x.do = "Damage" /\ x.src = "none" /\ x.marks = {} /\ x.from = Nobody
      /\ y.do = "Heal" /\ y.src = "none" /\ y.marks = {}
  BY DEF Damage, Heal, Act
<1> HIDE DEF x, y, D
<1>4. IsFiniteSet(D) /\ N \in Nat /\ N <= 2
  <2> DEFINE X == {x}
             Y == X \cup {y}
  <2>1. IsFiniteSet(X) /\ Cardinality(X) = 1
    BY FS_Singleton
  <2>2. D \subseteq Y
    BY <1>2
  <2> HIDE DEF X
  <2>3. /\ IsFiniteSet(Y)
        /\ Cardinality(Y) = IF y \in X THEN Cardinality(X) ELSE Cardinality(X) + 1
    BY <2>1, FS_AddElement
  <2>4. Cardinality(Y) <= 2
    BY <2>1, <2>3
  <2> HIDE DEF Y
  <2> QED
    BY <2>2, <2>3, <2>4, FS_Subset, FS_CardinalityType
<1> HIDE DEF N
<1>5. Len(o) = N /\ DOMAIN o = 1 .. N
  BY <1>1, <1>2, <1>4, LenProperties
<1>6. ASSUME NEW i \in 1 .. Len(o) PROVE Weight(o[i]) \in 1 .. 9
  <2>1. o[i] \in ToSet(o) /\ o[i] \in {x, y}
    BY <1>2, <1>5 DEF ToSet
  <2>2. Sound(o[i])
    BY <1>1, <2>1 DEF Wish, Wanted
  <2>3. CASE o[i] = x
    BY <1>3, <2>2, <2>3, WeightIs DEF LossWeight
  <2>4. CASE o[i] = y
    BY <1>3, <2>2, <2>4, WeightIs DEF GainWeight, IsGain, Gains
  <2> QED
    BY <2>1, <2>3, <2>4
<1>7. Fuel(o) <= Len(o) * 9 /\ Fuel(o) \in Nat
  BY <1>4, <1>5, <1>6, FuelEach, TokensFinite, SMTT(30)
<1> QED
  BY <1>1, <1>4, <1>5, <1>7
-----------------------------------------------------------------------------
(* Every step stays within what the state may spend *)

LEMMA NextAllowance ==
  ASSUME TurnInv' PROVE Allowance(turn') \in Nat /\ turn' \in TurnState
<1>1. turn' \in TurnState
  BY DEF TurnInv, TurnOK
<1> QED
  BY <1>1, AllowanceIsNat

\* What the states execute themselves costs.
Prices ==
  [DrawItem |-> 10, DrawBuff |-> 11, FellDown |-> 5, BossAttack |-> 5, DrawEvent |-> 1,
   RemoveItem |-> 1, RollDice |-> 1, Move |-> 1, BossSkill |-> 1, Respawn |-> 1]

LEMMA PlainBudget ==
  ASSUME TurnInv, FuelInv, TurnInv', queue = <<>>, NEW do \in DOMAIN Prices, NEW to \in All,
         NEW n \in Nat, NEW of \in Buffs \cup Items \cup {"none"},
         do \in {"Move", "Respawn"} => n \in Cells,
         Top(Act(do, to, n, of)), turn'.step # "claim",
         Allowance(turn) + Prices[do] <= Allowance(turn') + 1
  PROVE  FuelInv'
<1> DEFINE a == Act(do, to, n, of)
<1>1. do \in Kinds \ {"BossDamage", "AddBuff", "AddItem"}
  BY DEF Prices, Kinds, Queueable
<1>2. do # "Teleport"
  BY DEF Prices
<1>3. Sound(a) /\ a.do = do /\ a.src = "none"
  BY <1>1, <1>2, PlainSound
<1>4. Top(a)
  OBVIOUS
<1> HIDE DEF a
<1>5. Weight(a) = Prices[do]
  BY <1>3, WeightIs DEF Prices, IsGain, Gains
<1>6. Prices[do] \in Nat
  BY DEF Prices
<1>7. a.do # "AddBuff"
  BY <1>1, <1>3
<1> DEFINE w == Prices[do]
<1>8. w \in Nat /\ Weight(a) = w /\ Allowance(turn) + w <= Allowance(turn') + 1
  BY <1>5, <1>6
<1> HIDE DEF w
<1> QED
  BY <1>3, <1>4, <1>7, <1>8, NextAllowance, TopBudget

LEMMA BeginFuel ==
  ASSUME TurnInv, FuelInv, TurnInv', NEW p \in All, Begin(p) PROVE FuelInv'
<1>1. /\ turn.state = "Rest" /\ turn' = [Idle EXCEPT !.who = p, !.state = "Upkeep"]
      /\ UNCHANGED engine
  BY DEF Begin, Resting
<1>2. turn'.step = "enter"
  BY <1>1 DEF Idle
<1>3. Allowance(turn) = 0
  BY <1>1 DEF Allowance
<1>4. SkillBuffsOK'
  BY <1>1 DEF FuelInv, SkillBuffsOK, Has, engine
<1> QED
  BY <1>1, <1>2, <1>3, <1>4, NextAllowance, QuietBudget DEF engine

LEMMA GoFuel ==
  ASSUME TurnInv, FuelInv, TurnInv', NEW s, Go(s) PROVE FuelInv'
<1>1. turn' = [turn EXCEPT !.state = s, !.step = "enter"] /\ Clear /\ turn \in TurnState
  BY FuelNow DEF Go
<1>2. turn'.step = "enter"
  BY <1>1 DEF TurnState
<1> QED
  BY <1>1, <1>2, NextAllowance, ClearBudget

LEMMA LeavesFuel ==
  ASSUME TurnInv, FuelInv, TurnInv',
         \/ LeaveUpkeep \/ LeaveMain \/ LeaveMoving \/ LeaveCheckpoint \/ LeaveLanded
         \/ LeaveDraw \/ LeaveBattle \/ (\E r \in DrawTypes : Reward(r)) \/ Rest
  PROVE  FuelInv'
<1>1. (\E s : Go(s)) \/ LeaveMain \/ LeaveLanded \/ (\E r \in DrawTypes : Reward(r)) \/ Rest
  BY DEF LeaveUpkeep, LeaveMoving, LeaveCheckpoint, LeaveDraw, LeaveBattle
<1>2. turn \in TurnState
  BY FuelNow
<1>3. CASE \E s : Go(s)
  BY <1>3, GoFuel
<1>4. CASE LeaveMain
  <2>1. Clear /\ turn'.step = "enter"
    BY <1>2, <1>4 DEF LeaveMain, TurnState
  <2> QED
    BY <2>1, NextAllowance, ClearBudget
<1>5. CASE LeaveLanded
  <2>1. (\E s : Go(s)) \/ (Clear /\ turn'.step = "enter")
    BY <1>2, <1>5 DEF LeaveLanded, TurnState, At
  <2> QED
    BY <2>1, GoFuel, NextAllowance, ClearBudget
<1>6. CASE \E r \in DrawTypes : Reward(r)
  <2>1. Clear /\ turn'.step = "enter"
    BY <1>2, <1>6 DEF Reward, TurnState
  <2> QED
    BY <2>1, NextAllowance, ClearBudget
<1>7. CASE Rest
  <2>1. Clear /\ turn'.step = "enter"
    BY <1>7 DEF Rest, Idle
  <2> QED
    BY <2>1, NextAllowance, ClearBudget
<1> QED
  BY <1>1, <1>3, <1>4, <1>5, <1>6, <1>7

\* Buffs ripen and count, but nobody's luck goes elsewhere by it.
LEMMA OwnPeers ==
  ASSUME TurnInv, NEW held, buffs' = [buffs EXCEPT ![Me] = held],
         DOMAIN held \subseteq DOMAIN buffs[Me],
         \A k \in DOMAIN held : held[k].peer = buffs[Me][k].peer
  PROVE  SamePeers
<1>1. buffs = [p \in All |-> buffs[p]]
  BY DEF TurnInv, EngineOK, BuffsOK
<1>2. ASSUME NEW p \in All PROVE buffs'[p] = IF p = Me THEN held ELSE buffs[p]
  BY <1>1
<1> QED
  BY <1>2 DEF SamePeers

LEMMA BuffsSame == ASSUME buffs' = buffs PROVE SamePeers
  BY DEF SamePeers

\* The state stays, its step is another.
LEMMA ThenIs ==
  ASSUME TurnInv, NEW s \in Steps, Then(s)
  PROVE  turn'.state = turn.state /\ turn'.step = s /\ turn'.uses = turn.uses
<1>1. turn \in TurnState
  BY WhoActs
<1> QED
  BY <1>1, StepField DEF Then

LEMMA UpkeepFuel == ASSUME TurnInv, FuelInv, TurnInv', Upkeep PROVE FuelInv'
<1> DEFINE held == Rekindled(Me, Ripen(buffs[Me], Buffs))
           next == IF Kindled(Me) THEN <<ModifyLP(Me, 1)>> ELSE <<>>
           s == IF Has(Me, "poison") THEN "poisoned" ELSE "done"
<1>1. /\ turn.state = "Upkeep" /\ turn.step = "enter" /\ ~draining /\ Me \in Users
      /\ buffs' = [buffs EXCEPT ![Me] = held] /\ Push(next) /\ Then(s)
  BY DEF Upkeep, At
<1>2. Me \in All /\ queue = <<>>
  BY <1>1, WhoActs DEF All
<1>3. HeldOK(buffs[Me])
  BY <1>2 DEF TurnInv, EngineOK, BuffsOK
<1>4. SameBuffs(Ripen(buffs[Me], Buffs), buffs[Me])
  BY <1>3, RipenSame
<1>5. /\ DOMAIN held = DOMAIN buffs[Me]
      /\ \A k \in DOMAIN held : held[k].peer = buffs[Me][k].peer
  <2> DEFINE r == Ripen(buffs[Me], Buffs)
  <2>1. held = Rekindled(Me, r) /\ SameBuffs(r, buffs[Me])
    BY <1>4
  <2> HIDE DEF r, held
  <2>2. HeldOK(r) /\ DOMAIN r = DOMAIN buffs[Me]
    BY <2>1 DEF SameBuffs
  <2>3. DOMAIN held = DOMAIN r
    BY <2>1 DEF Rekindled
  <2>4. ASSUME NEW k \in DOMAIN r PROVE held[k].peer = r[k].peer
    <3>1. r[k] \in BuffState
      BY <2>2 DEF HeldOK
    <3> QED
      BY <2>1, <3>1 DEF Rekindled, BuffState
  <2> QED
    BY <2>1, <2>2, <2>3, <2>4 DEF SameBuffs
<1>6. Wish(next)
  <2>1. Wanted(ModifyLP(Me, 1))
    BY <1>2, ActWanted DEF ModifyLP
  <2> QED
    BY <2>1, WishOne, WishNone
<1>7. next \in Seq(Action) /\ Fuel(next) <= 9
  <2>1. CASE next = <<>>
    BY <1>6, <2>1, FuelNone DEF Wish
  <2>2. CASE next = <<ModifyLP(Me, 1)>>
    <3> DEFINE x == ModifyLP(Me, 1)
    <3>1. x.do = "ModifyLP" /\ x.n = 1 /\ x.src = "none" /\ x.marks = {} /\ next = <<x>>
      BY <2>2 DEF ModifyLP, Act
    <3> HIDE DEF x, next
    <3>2. Sound(x) /\ Fuel(next) = Weight(x)
      BY <1>6, <3>1, SinglePrice
    <3>3. Weight(x) = 9
      BY <3>1, <3>2, WeightIs DEF IsGain, Gains, GainWeight
    <3> QED
      BY <1>6, <3>2, <3>3 DEF Wish
  <2> QED
    BY <2>1, <2>2
<1>8. s \in {"poisoned", "done"} /\ s \in Steps
  BY DEF Steps
<1> HIDE DEF held, next, s
<1>9. turn'.state = "Upkeep" /\ turn'.step \in {"poisoned", "done"}
  BY <1>1, <1>8, ThenIs
<1>10. SamePeers
  BY <1>1, <1>5, OwnPeers
<1>11. Fuel(next) \in Nat
  BY <1>7, TokensFinite, LenProperties
<1>12. Allowance(turn) + Fuel(next) <= Allowance(turn')
  BY <1>1, <1>7, <1>9, <1>11 DEF Allowance
<1> QED
  BY <1>1, <1>2, <1>7, <1>9, <1>10, <1>12, NextAllowance, PushBudget

LEMMA SufferFuel == ASSUME TurnInv, FuelInv, TurnInv', SufferEvent PROVE FuelInv'
<1>1. turn.step = "suffer" /\ ~draining /\ buffs' = buffs /\ Then("done")
  BY DEF SufferEvent
<1>2. turn.state \in {"Upkeep", "Landed", "Draw"} /\ turn.drawn \in Events
  BY <1>1 DEF TurnInv, TurnOK, Stage
<1>3. Me \in Users /\ queue = <<>> /\ PlayersOK
  <2>1. Me \in All /\ Me # Boss /\ queue = <<>>
    BY <1>1, <1>2, WhoActs DEF TurnInv, TurnOK, Resting
  <2> QED
    BY <2>1 DEF All, TurnInv, EngineOK
<1>4. PICK next \in EventEffects(turn.drawn, Me) : Push(next)
  BY DEF SufferEvent
<1>5. next \in Seq(Action) /\ Fuel(next) <= 11
  BY <1>2, <1>3, EventPrice
<1>6. turn'.state = turn.state /\ turn'.step = "done"
  BY <1>1, ThenIs DEF Steps
<1>7. Fuel(next) \in Nat
  BY <1>5, TokensFinite, LenProperties
<1>8. Allowance(turn) + Fuel(next) <= Allowance(turn')
  BY <1>1, <1>2, <1>5, <1>6, <1>7 DEF Allowance
<1> QED
  BY <1>1, <1>3, <1>4, <1>5, <1>6, <1>8, BuffsSame, NextAllowance, PushBudget

LEMMA UseItemFuel ==
  ASSUME TurnInv, FuelInv, TurnInv', NEW i \in Items, NEW t \in All \cup {Nobody}, UseItem(i, t)
  PROVE  FuelInv'
<1> DEFINE next == ItemEffect(i, Me, t)
<1>1. /\ turn.state = "Main" /\ turn.step = "enter" /\ ~draining /\ Push(next)
      /\ t = Nobody => i \notin NeedsTarget
      /\ turn' = [turn EXCEPT !.step = "consume", !.used = i, !.uses = @ + 1]
      /\ buffs' = buffs
  BY DEF UseItem, At
<1>2. Me \in Users /\ queue = <<>> /\ turn \in TurnState /\ PlayersOK
  BY <1>1, WhoActs DEF TurnInv, EngineOK
<1>3. next \in Seq(Action) /\ Fuel(next) <= 10
  BY <1>1, <1>2, ItemPrice
<1>4. /\ turn'.state = "Main" /\ turn'.step = "consume" /\ turn'.uses = turn.uses + 1
      /\ turn.uses \in Nat
  BY <1>1, <1>2 DEF TurnState
<1> HIDE DEF next
<1>5. Fuel(next) \in Nat
  BY <1>3, TokensFinite, LenProperties
<1>6. Allowance(turn) + Fuel(next) <= Allowance(turn')
  <2>1. Allowance(turn) = 10 * turn.uses /\ Allowance(turn') = 10 * turn'.uses
    BY <1>1, <1>4 DEF Allowance
  <2> QED
    BY <1>3, <1>4, <1>5, <2>1
<1> QED
  BY <1>1, <1>2, <1>3, <1>4, <1>6, BuffsSame, NextAllowance, PushBudget

LEMMA UseSkillFuel ==
  ASSUME TurnInv, FuelInv, TurnInv', NEW t \in All, UseSkill(t) PROVE FuelInv'
<1> DEFINE k == CASE Faction[Me] = "QingLong" -> "dominance"
                  [] Faction[Me] = "BaiHu" -> "rob_luck"
                  [] Faction[Me] = "XuanWu" -> "suppress"
           a == AddBuff(t, k)
<1>1. /\ turn.state = "Main" /\ turn.step = "enter" /\ ~draining /\ Top(a)
      /\ Faction[Me] # "ZhuQue"
      /\ Faction[Me] # "BaiHu" => t = Me
      /\ turn' = [turn EXCEPT !.step = IF Faction[Me] = "BaiHu" THEN "claim" ELSE @, !.prey = {t}]
  BY DEF UseSkill, At
<1>2. Me \in Users /\ queue = <<>> /\ turn \in TurnState
  BY <1>1, WhoActs
<1>3. /\ k \in Buffs /\ k \in {"dominance", "rob_luck", "suppress"}
      /\ k = "dominance" => Faction[Me] = "QingLong"
  <2>1. Faction[Me] \in {"QingLong", "BaiHu", "XuanWu"}
    BY <1>1, <1>2, FactionAssumption DEF Factions
  <2> QED
    BY <2>1 DEF Buffs
<1> HIDE DEF k
<1>4. Sound(a) /\ a.do = "AddBuff" /\ a.src = "none" /\ a.of = k /\ a.to = t
  <2>1. "AddBuff" \in Kinds /\ 0 \in Int /\ k \in Buffs \cup Items \cup {"none"}
    BY <1>3 DEF Kinds, Queueable
  <2>2. /\ a \in Action /\ a.do = "AddBuff" /\ a.of = k /\ a.src = "none" /\ a.from = Nobody
        /\ a.to = t
    BY <2>1 DEF AddBuff, Act, Action, Sources
  <2> QED
    BY <1>3, <2>2 DEF Sound
<1> HIDE DEF a
<1>5. Weight(a) = 1
  <2>1. Weight(a) = BuffWeight[k]
    BY <1>4, BuffPrice
  <2>2. BuffWeight[k] = 1
    BY <1>3 DEF BuffWeight
  <2> QED
    BY <2>1, <2>2
<1>6. a.do = "AddBuff" /\ a.of = "dominance" => a.to \in Of("QingLong")
  BY <1>1, <1>2, <1>3, <1>4 DEF Of
<1>7. /\ turn'.state = "Main" /\ turn'.uses = turn.uses /\ turn'.who = Me
      /\ turn'.step = "claim" => Faction[Me] = "BaiHu"
  BY <1>1, <1>2 DEF TurnState, Me
<1>8. turn'.step = "claim" => turn'.who \in Of("BaiHu")
  BY <1>2, <1>7 DEF Of
<1>9. Allowance(turn) = Allowance(turn')
  BY <1>1, <1>7 DEF Allowance
<1>10. Allowance(turn) + 1 <= Allowance(turn') + 1
  BY <1>9, FuelNow
<1> QED
  BY <1>1, <1>2, <1>4, <1>5, <1>6, <1>8, <1>10, NextAllowance, TopBudget

LEMMA ClaimFuel == ASSUME TurnInv, FuelInv, TurnInv', Claim PROVE FuelInv'
<1>1. /\ turn.state = "Main" /\ turn.step = "claim"
      /\ buffs' = [p \in All |->
                     IF p \in turn.prey /\ Has(p, "rob_luck")
                       THEN [buffs[p] EXCEPT !["rob_luck"].peer = Me] ELSE buffs[p]]
      /\ turn' = [turn EXCEPT !.step = "enter", !.prey = {}]
      /\ UNCHANGED <<queue, count>>
  BY DEF Claim, At
<1>2. Me \in Of("BaiHu") /\ turn \in TurnState /\ BuffsOK
  BY <1>1, FuelNow DEF FuelInv, Me
<1>3. turn'.state = "Main" /\ turn'.step = "enter" /\ turn'.uses = turn.uses
  BY <1>1, <1>2 DEF TurnState
<1>4. ASSUME NEW p \in All
      PROVE  /\ "dominance" \in DOMAIN buffs'[p] => p \in Of("QingLong")
             /\ "rob_luck" \in DOMAIN buffs'[p] =>
                  buffs'[p]["rob_luck"].peer \in Of("BaiHu") \cup {Nobody}
  <2>1. /\ "dominance" \in DOMAIN buffs[p] => p \in Of("QingLong")
        /\ "rob_luck" \in DOMAIN buffs[p] =>
             buffs[p]["rob_luck"].peer \in Of("BaiHu") \cup {Nobody}
    BY DEF FuelInv, SkillBuffsOK, Has
  <2>2. CASE p \in turn.prey /\ "rob_luck" \in DOMAIN buffs[p]
    <3>1. buffs[p]["rob_luck"] \in BuffState
      BY <1>2, <2>2, HeldBuff
    <3>2. buffs'[p] = [buffs[p] EXCEPT !["rob_luck"].peer = Me]
      BY <1>1, <2>2 DEF Has
    <3>3. DOMAIN buffs'[p] = DOMAIN buffs[p] /\ buffs'[p]["rob_luck"].peer = Me
      BY <2>2, <3>1, <3>2 DEF BuffState
    <3> QED
      BY <1>2, <2>1, <3>3
  <2>3. CASE ~(p \in turn.prey /\ "rob_luck" \in DOMAIN buffs[p])
    BY <1>1, <2>1, <2>3 DEF Has
  <2> QED
    BY <2>2, <2>3
<1>5. SkillBuffsOK'
  BY <1>4 DEF SkillBuffsOK, Has
<1>6. Allowance(turn) = Allowance(turn')
  BY <1>1, <1>3 DEF Allowance
<1> QED
  BY <1>1, <1>3, <1>5, <1>6, FuelNow, NextAllowance, QuietBudget

\* Steps of the turn that execute an action of their own.
LEMMA MainFuel ==
  ASSUME TurnInv, FuelInv, TurnInv', Consume \/ \E n \in DiceFaces : Roll(n)
  PROVE  FuelInv'
<1>1. /\ turn.state = "Main" /\ ~draining
      /\ turn'.state = "Main" /\ turn'.uses = turn.uses /\ turn'.step # "claim"
      /\ \/ Top(Act("RemoveItem", Me, 0, turn.used))
         \/ Top(Act("RollDice", Me, 0, "none"))
  <2>1. turn \in TurnState
    BY FuelNow
  <2>2. CASE Consume
    BY <2>1, <2>2 DEF Consume, At, TurnState
  <2>3. CASE \E n \in DiceFaces : Roll(n)
    BY <2>1, <2>3 DEF Roll, At, TurnState
  <2> QED
    BY <2>2, <2>3
<1>2. Me \in All /\ queue = <<>> /\ turn.used \in Items \cup {"none"}
  BY <1>1, WhoActs DEF All, TurnState
<1>3. Allowance(turn) = Allowance(turn')
  BY <1>1 DEF Allowance
<1>4. Allowance(turn) + 1 <= Allowance(turn') + 1
  BY <1>3, FuelNow
<1>5. /\ "RemoveItem" \in DOMAIN Prices /\ Prices["RemoveItem"] = 1
      /\ "RollDice" \in DOMAIN Prices /\ Prices["RollDice"] = 1
  BY DEF Prices
<1>6. turn.used \in Buffs \cup Items \cup {"none"} /\ 0 \in Nat
  BY <1>2
<1> QED
  BY <1>1, <1>2, <1>4, <1>5, <1>6, PlainBudget

LEMMA PreMoveFuel == ASSUME TurnInv, FuelInv, TurnInv', PreMove PROVE FuelInv'
<1>1. /\ turn.state = "Moving" /\ turn.step = "enter" /\ UNCHANGED <<queue, count>>
      /\ buffs' = [buffs EXCEPT ![Me] = Ripen(buffs[Me], {"lost"})]
      /\ turn' = [turn EXCEPT !.step = "set_off", !.steps = Reversed(@)]
  BY DEF PreMove, At
<1>2. turn \in TurnState /\ Me \in All
  BY <1>1, WhoActs DEF All
<1>3. turn'.state = "Moving" /\ turn'.step = "set_off"
  BY <1>1, <1>2 DEF TurnState
<1>4. SameBuffs(Ripen(buffs[Me], {"lost"}), buffs[Me])
  BY <1>2, RipenSame DEF TurnInv, EngineOK, BuffsOK
<1> DEFINE held == Ripen(buffs[Me], {"lost"})
<1>5. /\ buffs' = [buffs EXCEPT ![Me] = held] /\ DOMAIN held = DOMAIN buffs[Me]
      /\ \A k \in DOMAIN held : held[k].peer = buffs[Me][k].peer
  BY <1>1, <1>4 DEF SameBuffs
<1> HIDE DEF held
<1>6. SamePeers
  BY <1>5, OwnPeers
<1>7. SkillBuffsOK'
  BY <1>6, SkillBuffsStay DEF FuelInv
<1>8. Allowance(turn) = 0
  BY <1>1 DEF Allowance
<1> QED
  BY <1>1, <1>3, <1>7, <1>8, NextAllowance, QuietBudget

LEMMA SetOffFuel == ASSUME TurnInv, FuelInv, TurnInv', SetOff PROVE FuelInv'
<1>1. turn.state = "Moving" /\ turn.step = "set_off" /\ ~draining /\ Walk
  BY DEF SetOff, At
<1>2. turn \in TurnState /\ Me \in All /\ queue = <<>>
  BY <1>1, WhoActs DEF All
<1>3. PICK c \in Cells : WalksTo(c)
  BY <1>1, <1>2, WalkOK DEF TurnState
<1>4. /\ Top(Act("Move", Me, c, "none")) /\ turn'.state = "Moving"
      /\ turn'.step \in {"fell", "walked", "checkpoint"}
  BY <1>1, <1>3 DEF WalksTo, WalkEnds, OnTo
<1>5. c \in Nat
  BY <1>3, CellsAreNat
<1>6. Allowance(turn) = 0 /\ Allowance(turn') = 0
  BY <1>1, <1>4 DEF Allowance
<1>7. "Move" \in DOMAIN Prices /\ Prices["Move"] = 1
  BY DEF Prices
<1> QED
  BY <1>2, <1>3, <1>4, <1>5, <1>6, <1>7, PlainBudget

LEMMA FallFuel == ASSUME TurnInv, FuelInv, TurnInv', FallDown PROVE FuelInv'
<1>1. /\ turn.state = "Moving" /\ turn.step = "fell" /\ ~draining
      /\ Top(Act("FellDown", Me, 1, "none")) /\ Then("fallen")
  BY DEF FallDown, At
<1>2. Me \in All /\ queue = <<>>
  BY <1>1, WhoActs DEF All
<1>3. turn'.state = "Moving" /\ turn'.step = "fallen"
  BY <1>1, ThenIs DEF Steps
<1>4. Allowance(turn) = 0 /\ Allowance(turn') = 4
  BY <1>1, <1>3 DEF Allowance
<1>5. "FellDown" \in DOMAIN Prices /\ Prices["FellDown"] = 5
  BY DEF Prices
<1> QED
  BY <1>1, <1>2, <1>3, <1>4, <1>5, PlainBudget

LEMMA DrawEventFuel ==
  ASSUME TurnInv, FuelInv, TurnInv', Me \in All, queue = <<>>,
         NEW pool \in SUBSET Events, DrawEvent(pool),
         \/ turn.state = "Upkeep" /\ turn.step = "poisoned"
         \/ turn.state = "Draw" /\ turn.step = "enter"
  PROVE  FuelInv'
<1>1. turn \in TurnState
  BY FuelNow
<1>2. /\ Top(Act("DrawEvent", Me, 0, "none"))
      /\ turn'.state = turn.state /\ turn'.step \in {"suffer", "done"}
  BY <1>1 DEF DrawEvent, Drawn, Then, TurnState
<1>3. Allowance(turn) \in Nat /\ Allowance(turn) <= Allowance(turn')
  BY <1>2 DEF Allowance
<1>4. "DrawEvent" \in DOMAIN Prices /\ Prices["DrawEvent"] = 1
  BY DEF Prices
<1>5. Allowance(turn) + Prices["DrawEvent"] <= Allowance(turn') + 1
  BY <1>3, <1>4, NextAllowance
<1> QED
  BY <1>2, <1>4, <1>5, PlainBudget

LEMMA DrawFuel ==
  ASSUME TurnInv, FuelInv, TurnInv', Me \in All, queue = <<>>, turn.step = "enter",
         NEW what, Draw(what),
         \/ turn.state = "Checkpoint" /\ what = "DrawItem"
         \/ turn.state = "Draw" /\ what \in {"DrawItem", "DrawBuff"}
  PROVE  FuelInv'
<1>1. Top(Act(what, Me, 0, "none")) /\ turn'.state = turn.state /\ turn'.step = "done"
  BY ThenIs DEF Draw, Steps
<1>2. Allowance(turn) = 0 /\ what \in DOMAIN Prices /\ Prices[what] <= Allowance(turn') + 1
  BY <1>1 DEF Allowance, Prices
<1>3. Prices[what] \in Nat
  BY <1>2 DEF Prices
<1>4. Allowance(turn) + Prices[what] <= Allowance(turn') + 1
  BY <1>2, <1>3
<1>5. what \notin {"Move", "Respawn"}
  OBVIOUS
<1> QED
  BY <1>1, <1>2, <1>4, <1>5, PlainBudget

LEMMA DrawingFuel ==
  ASSUME TurnInv, FuelInv, TurnInv', PoisonDraw \/ Treasure \/ DrawSomething
  PROVE  FuelInv'
<1>1. /\ turn.state \in {"Upkeep", "Checkpoint", "Draw"} /\ ~draining
      /\ turn.state = "Upkeep" => turn.step = "poisoned"
  BY DEF PoisonDraw, Treasure, DrawSomething, At
<1>2. Me \in All /\ queue = <<>>
  BY <1>1, WhoActs DEF Resting
<1>3. CASE PoisonDraw
  <2>1. BadDraws \in SUBSET Events
    BY TurnPoolAssumption DEF BadDraws
  <2> QED
    BY <1>2, <1>3, <2>1, DrawEventFuel DEF PoisonDraw, At
<1>4. CASE Treasure
  BY <1>2, <1>4, DrawFuel DEF Treasure, At
<1>5. CASE DrawSomething
  <2>1. turn.state = "Draw" /\ turn.step = "enter"
    BY <1>5 DEF DrawSomething, At
  <2>2. CASE DrawEvent(EventPool)
    BY <1>2, <2>1, <2>2, DrawEventFuel, TurnPoolAssumption
  <2>3. CASE Draw("DrawItem") \/ Draw("DrawBuff")
    BY <1>2, <2>1, <2>3, DrawFuel
  <2> QED
    BY <1>5, <2>2, <2>3 DEF DrawSomething
<1> QED
  BY <1>3, <1>4, <1>5

LEMMA LandFuel == ASSUME TurnInv, FuelInv, TurnInv', Land PROVE FuelInv'
<1>1. /\ turn.state = "Landed" /\ turn.step = "enter" /\ ~draining
      /\ Top(Act("DrawEvent", Me, 0, "none")) /\ Drawn(Course[Here(Me)].event)
  BY DEF Land, At
<1>2. Me \in All /\ queue = <<>> /\ turn \in TurnState
  BY <1>1, WhoActs DEF All
<1>3. turn'.state = "Landed" /\ turn'.step = "suffer"
  BY <1>1, <1>2 DEF Drawn, TurnState
<1>4. Allowance(turn) = 0 /\ Allowance(turn') = 0
  BY <1>1, <1>3 DEF Allowance
<1>5. "DrawEvent" \in DOMAIN Prices /\ Prices["DrawEvent"] = 1
  BY DEF Prices
<1> QED
  BY <1>1, <1>2, <1>3, <1>4, <1>5, PlainBudget

LEMMA StrikeFuel ==
  ASSUME TurnInv, FuelInv, TurnInv', NEW crit \in BOOLEAN, Strike(crit) PROVE FuelInv'
<1> DEFINE n == IF crit THEN 2 * Blow ELSE Blow
           a == BossDamage(Me, n)
<1>1. /\ turn.state = "BossBattle" /\ turn.step = "enter" /\ ~draining /\ Me \in Users /\ Top(a)
      /\ Then("struck")
  BY DEF Strike, At
<1>2. /\ queue = <<>> /\ turn \in TurnState /\ Me \in All /\ Boss \in All
  BY <1>1, WhoActs DEF All
<1>3. n \in Int /\ n >= 0
  BY <1>2 DEF TurnState, Blow
<1> HIDE DEF n
<1>4. Sound(a) /\ a.do = "BossDamage" /\ a.src = "none"
  <2> DEFINE x == Act("BossDamage", Boss, n, "none")
  <2>1. "BossDamage" \in Kinds /\ "none" \in Buffs \cup Items \cup {"none"}
    BY DEF Kinds, Queueable
  <2>2. /\ x \in Action /\ x.do = "BossDamage" /\ x.to = Boss /\ x.n = n /\ x.src = "none"
    BY <1>2, <1>3, <2>1 DEF Act, Action, Sources
  <2>3. a = [x EXCEPT !.from = Me]
    BY DEF BossDamage
  <2> HIDE DEF x, a
  <2>4. /\ a \in Action /\ a.do = "BossDamage" /\ a.to = Boss /\ a.n = n /\ a.src = "none"
        /\ a.from = Me
    BY <1>2, <2>2, <2>3 DEF Action
  <2> QED
    BY <1>2, <1>3, <2>4 DEF Sound
<1> HIDE DEF a
<1>5. Weight(a) = 10
  BY <1>4, WeightIs
<1>6. turn'.state = "BossBattle" /\ turn'.step = "struck"
  BY <1>1, ThenIs DEF Steps
<1>7. Allowance(turn) = 0 /\ Allowance(turn') = 9 + 4 * Cardinality(Users)
  BY <1>1, <1>6 DEF Allowance
<1>8. Allowance(turn) + 10 <= Allowance(turn') + 1
  BY <1>7, UsersCounted
<1> QED
  BY <1>1, <1>2, <1>4, <1>5, <1>6, <1>8, NextAllowance, TopBudget

LEMMA VictoryFuel == ASSUME TurnInv, FuelInv, TurnInv', Victory PROVE FuelInv'
<1>1. /\ turn.state = "BossBattle" /\ turn.step = "struck" /\ Then("done") /\ UNCHANGED engine
  BY DEF Victory, At
<1>2. turn'.state = "BossBattle" /\ turn'.step = "done"
  BY <1>1, ThenIs DEF Steps
<1>3. Allowance(turn) = Allowance(turn')
  BY <1>1, <1>2 DEF Allowance
<1>4. SkillBuffsOK'
  BY <1>1 DEF FuelInv, SkillBuffsOK, Has, engine
<1> QED
  BY <1>1, <1>2, <1>3, <1>4, FuelNow, NextAllowance, QuietBudget DEF engine

\* The Boss's blow and its skill.
LEMMA BossFuel ==
  ASSUME TurnInv, FuelInv, TurnInv',
         \/ \E u \in Users, n \in {1, 2} : BossHits(u, n)
         \/ \E s \in SkillPool : BossCasts(s)
  PROVE  FuelInv'
<1>1. turn.state = "BossBattle" /\ turn.step = "enter" /\ Me = Boss /\ ~draining
  BY DEF BossHits, BossCasts, MayFight, At
<1>2. queue = <<>> /\ turn \in TurnState /\ Boss \in All
  BY <1>1, WhoActs DEF All
<1>3. Allowance(turn) = 0
  BY <1>1 DEF Allowance
<1>4. CASE \E u \in Users, n \in {1, 2} : BossHits(u, n)
  <2>1. PICK u \in Users, n \in {1, 2} : BossHits(u, n)
    BY <1>4
  <2>2. /\ u \in All /\ n \in Nat /\ Top(Act("BossAttack", u, n, "none"))
        /\ turn'.state = "BossBattle" /\ turn'.step = "struck"
    <3>1. /\ Top(Act("BossAttack", u, n, "none"))
          /\ turn' = [turn EXCEPT !.step = "struck", !.prey = {u}]
      BY <2>1 DEF BossHits
    <3>2. u \in All /\ n \in Nat
      BY DEF All
    <3>3. turn'.state = "BossBattle" /\ turn'.step = "struck"
      BY <1>1, <1>2, <3>1 DEF TurnState
    <3> QED
      BY <3>1, <3>2, <3>3
  <2>3. "BossAttack" \in DOMAIN Prices /\ Prices["BossAttack"] = 5
    BY DEF Prices
  <2>4. Allowance(turn') = 9 + 4 * Cardinality(Users)
    BY <2>2 DEF Allowance
  <2>5. Allowance(turn) + Prices["BossAttack"] <= Allowance(turn') + 1
    BY <1>3, <2>3, <2>4, UsersCounted
  <2> QED
    BY <1>2, <2>2, <2>3, <2>5, PlainBudget
<1>5. CASE \E s \in SkillPool : BossCasts(s)
  <2>1. PICK s \in SkillPool : BossCasts(s)
    BY <1>5
  <2>2. /\ Top(Act("BossSkill", Boss, 0, "none"))
        /\ turn'.state = "BossBattle" /\ turn'.step = "cast"
    BY <1>1, <1>2, <2>1 DEF BossCasts, TurnState
  <2>3. "BossSkill" \in DOMAIN Prices /\ Prices["BossSkill"] = 1
    BY DEF Prices
  <2>4. Allowance(turn) + Prices["BossSkill"] <= Allowance(turn') + 1
    BY <1>3, <2>2, <2>3 DEF Allowance
  <2> QED
    BY <1>2, <2>2, <2>3, <2>4, PlainBudget
<1> QED
  BY <1>4, <1>5

LEMMA SkillFuel == ASSUME TurnInv, FuelInv, TurnInv', SkillStrikes PROVE FuelInv'
<1>1. /\ turn.state = "BossBattle" /\ turn.step = "cast" /\ ~draining /\ Then("struck")
      /\ buffs' = buffs
  BY DEF SkillStrikes, At
<1>2. turn.drawn \in Skills /\ Me = Boss /\ turn.prey \in SUBSET Users /\ queue = <<>>
  BY <1>1, WhoActs DEF TurnInv, TurnOK
<1>3. PICK next \in SkillEffects(turn.drawn, turn.prey) : Push(next)
  BY DEF SkillStrikes
<1>4. next \in Seq(Action) /\ Fuel(next) <= 9 + 4 * Cardinality(Users)
  BY <1>2, SkillPrice
<1>5. turn'.state = "BossBattle" /\ turn'.step = "struck"
  BY <1>1, ThenIs DEF Steps
<1>6. Allowance(turn) = 0 /\ Allowance(turn') = 9 + 4 * Cardinality(Users)
  BY <1>1, <1>5 DEF Allowance
<1>7. Fuel(next) \in Nat
  BY <1>4, TokensFinite, LenProperties
<1>8. Allowance(turn) + Fuel(next) <= Allowance(turn')
  BY <1>4, <1>6, <1>7
<1> QED
  BY <1>1, <1>2, <1>3, <1>4, <1>5, <1>8, BuffsSame, NextAllowance, PushBudget

\* Somebody is brought back.
LEMMA RespawnFuel ==
  ASSUME TurnInv, FuelInv, TurnInv', (\E u \in Users : Revive(u)) \/ TurnEndRespawn
  PROVE  FuelInv'
<1>1. PICK u \in Users : /\ Top(Act("Respawn", u, GetLastCheckpoint(Here(u)), "none"))
                         /\ turn' = turn /\ ~draining
                         /\ \/ turn.state = "BossBattle" /\ turn.step = "struck" /\ Me = Boss
                            \/ turn.state = "End" /\ turn.step = "expire"
  BY DEF Revive, TurnEndRespawn, At
<1> DEFINE c == GetLastCheckpoint(Here(u))
<1>2. u \in All /\ queue = <<>>
  BY <1>1, WhoActs DEF All
<1>3. c \in Cells /\ c \in Nat
  <2>1. Here(u) \in Cells
    BY <1>2 DEF TurnInv, EngineOK, PlayersOK, PlayerState, Here
  <2> QED
    BY <2>1, LastCheckpointOK, CellsAreNat
<1>4. turn'.step # "claim" /\ Allowance(turn') = Allowance(turn)
  BY <1>1
<1>5. "Respawn" \in DOMAIN Prices /\ Prices["Respawn"] = 1
  BY DEF Prices
<1>6. Allowance(turn) + Prices["Respawn"] <= Allowance(turn') + 1
  BY <1>4, <1>5, FuelNow
<1>7. Top(Act("Respawn", u, c, "none"))
  BY <1>1
<1> HIDE DEF c
<1> QED
  BY <1>2, <1>3, <1>4, <1>5, <1>6, <1>7, PlainBudget

-----------------------------------------------------------------------------
(* The end of a turn *)

LEMMA AfterTurnFuel == ASSUME TurnInv, FuelInv, TurnInv', AfterTurn PROVE FuelInv'
<1> DEFINE held == Beaten(buffs[Me])
<1>1. /\ turn.state = "End" /\ turn.step = "enter" /\ ~draining /\ Me \in Users
      /\ buffs' = [buffs EXCEPT ![Me] = held] /\ Then("settle")
  BY DEF AfterTurn, At
<1>2. Me \in All /\ queue = <<>> /\ HeldOK(buffs[Me])
  BY <1>1, WhoActs DEF All, TurnInv, EngineOK, BuffsOK
<1>3. PICK next \in SetToSeqs(Dues(Me)) : Push(next)
  BY DEF AfterTurn
<1>4. next \in Seq(Action) /\ Fuel(next) <= 18
  BY <1>2, DuesPrice
<1>5. turn'.state = "End" /\ turn'.step = "settle"
  BY <1>1, ThenIs DEF Steps
<1>6. /\ DOMAIN held = DOMAIN buffs[Me]
      /\ \A k \in DOMAIN held : held[k].peer = buffs[Me][k].peer
  <2>1. DOMAIN held = DOMAIN buffs[Me]
    BY DEF Beaten
  <2>2. ASSUME NEW k \in DOMAIN buffs[Me] PROVE held[k].peer = buffs[Me][k].peer
    <3>1. buffs[Me][k] \in BuffState
      BY <1>2 DEF HeldOK
    <3> QED
      BY <3>1 DEF Beaten, BuffState
  <2> QED
    BY <2>1, <2>2
<1> HIDE DEF held
<1>7. SamePeers
  BY <1>1, <1>6, OwnPeers
<1>8. Allowance(turn) = 0 /\ Allowance(turn') = 18 /\ Fuel(next) \in Nat
  BY <1>1, <1>4, <1>5, TokensFinite, LenProperties DEF Allowance
<1>9. Allowance(turn) + Fuel(next) <= Allowance(turn')
  BY <1>4, <1>8
<1> QED
  BY <1>2, <1>3, <1>4, <1>5, <1>7, <1>9, NextAllowance, PushBudget

LEMMA SettleFuel == ASSUME TurnInv, FuelInv, TurnInv', Settle PROVE FuelInv'
<1> DEFINE kept == Unmarked(buffs[Me])
           held == Ticked(kept)
<1>1. /\ turn.state = "End" /\ turn.step \in {"enter", "settle"} /\ ~draining
      /\ buffs' = [buffs EXCEPT ![Me] = held]
      /\ turn' = [turn EXCEPT !.step = "expire", !.expiring = Expired(buffs'[Me])]
      /\ UNCHANGED <<queue, count>>
  BY DEF Settle, At
<1>2. Me \in All /\ turn \in TurnState /\ HeldOK(buffs[Me])
  BY <1>1, WhoActs DEF Resting, TurnInv, EngineOK, BuffsOK
<1>3. turn'.state = "End" /\ turn'.step = "expire"
  BY <1>1, <1>2 DEF TurnState
<1>4. /\ DOMAIN kept \subseteq DOMAIN buffs[Me]
      /\ \A k \in DOMAIN kept : kept[k] = buffs[Me][k]
  BY DEF Unmarked, Without
<1> HIDE DEF kept
<1>5. /\ DOMAIN held = DOMAIN kept
      /\ \A k \in DOMAIN held : held[k].peer = kept[k].peer
  <2>1. DOMAIN held = DOMAIN kept
    BY DEF Ticked
  <2>2. ASSUME NEW k \in DOMAIN kept PROVE held[k].peer = kept[k].peer
    <3>1. kept[k] \in BuffState
      BY <1>2, <1>4 DEF HeldOK
    <3> QED
      BY <3>1 DEF Ticked, BuffState
  <2> QED
    BY <2>1, <2>2
<1> HIDE DEF held
<1>6. SamePeers
  <2>1. /\ DOMAIN held \subseteq DOMAIN buffs[Me]
        /\ \A k \in DOMAIN held : held[k].peer = buffs[Me][k].peer
    BY <1>4, <1>5
  <2> QED
    BY <1>1, <2>1, OwnPeers
<1>7. SkillBuffsOK'
  BY <1>6, SkillBuffsStay DEF FuelInv
<1>8. Allowance(turn) <= 18 /\ Allowance(turn) \in Nat
  BY <1>1 DEF Allowance
<1>9. Allowance(turn') >= 18
  BY <1>3 DEF Allowance
<1>10. Allowance(turn) <= Allowance(turn')
  BY <1>8, <1>9, NextAllowance
<1> QED
  BY <1>1, <1>3, <1>7, <1>10, NextAllowance, QuietBudget

LEMMA ExpireFuel ==
  ASSUME TurnInv, FuelInv, TurnInv', NEW k \in Buffs, Expire(k) PROVE FuelInv'
<1> DEFINE a == RemoveBuff(Me, k)
<1>1. /\ turn.state = "End" /\ turn.step = "expire" /\ ~draining /\ k \in turn.expiring /\ Top(a)
      /\ turn' = [turn EXCEPT !.expiring = turn.expiring \ {k}]
  BY DEF Expire, At
<1>2. Me \in All /\ queue = <<>> /\ turn \in TurnState
  BY <1>1, WhoActs DEF Resting
<1>3. /\ Sound(a) /\ a.do = "RemoveBuff" /\ a.of = k /\ a.src = "none"
  <2>1. "RemoveBuff" \in Kinds
    BY DEF Kinds
  <2>2. /\ a \in Action /\ a.do = "RemoveBuff" /\ a.to = Me /\ a.of = k /\ a.src = "none"
    BY <1>2, <2>1 DEF RemoveBuff, Act, Action, Sources
  <2> QED
    BY <2>2 DEF Sound
<1> HIDE DEF a
<1>4. Weight(a) = IF k = "curse" THEN 10 ELSE IF k = "divine" THEN 3 ELSE 1
  BY <1>3, WeightIs
<1>5. /\ turn'.state = "End" /\ turn'.step = "expire"
      /\ turn'.expiring = turn.expiring \ {k}
  BY <1>1, <1>2 DEF TurnState
<1>6. /\ Allowance(turn) = 29 - (IF "curse" \in turn.expiring THEN 9 ELSE 0)
                              - (IF "divine" \in turn.expiring THEN 2 ELSE 0)
      /\ Allowance(turn') = 29 - (IF "curse" \in turn.expiring \ {k} THEN 9 ELSE 0)
                               - (IF "divine" \in turn.expiring \ {k} THEN 2 ELSE 0)
  BY <1>1, <1>5 DEF Allowance
<1>7. Allowance(turn) + Weight(a) <= Allowance(turn') + 1
  <2>1. CASE k = "curse"
    BY <1>1, <1>4, <1>6, <2>1
  <2>2. CASE k = "divine"
    BY <1>1, <1>4, <1>6, <2>2
  <2>3. CASE k \notin {"curse", "divine"}
    BY <1>1, <1>4, <1>6, <2>3
  <2> QED
    BY <2>1, <2>2, <2>3
<1>8. Weight(a) \in Nat
  BY <1>4
<1> QED
  BY <1>1, <1>2, <1>3, <1>5, <1>7, <1>8, NextAllowance, TopBudget
-----------------------------------------------------------------------------
(* What is executed comes to its end *)

LEMMA FuelStutters == ASSUME TurnInv, FuelInv, TurnInv', UNCHANGED vars PROVE FuelInv'
<1>1. UNCHANGED engine /\ turn' = turn
  BY DEF vars
<1>2. SkillBuffsOK'
  BY <1>1 DEF FuelInv, SkillBuffsOK, Has, engine
<1> QED
  BY <1>1, <1>2, FuelNow, NextAllowance, QuietBudget DEF engine, FuelInv

LEMMA FuelKept == ASSUME TurnInv, FuelInv, TurnInv', [Next]_vars PROVE FuelInv'
<1>1. CASE Decide
  BY <1>1, UseItemFuel, UseSkillFuel DEF Decide
<1>2. CASE Finished \/ UNCHANGED vars
  BY <1>2, FuelStutters DEF Finished
<1>3. CASE Drain \/ \E p \in All : Begin(p)
  BY <1>3, DrainBudget, BeginFuel
<1>4. CASE Upkeep \/ SufferEvent \/ Claim
  BY <1>4, UpkeepFuel, SufferFuel, ClaimFuel
<1>5. CASE \/ LeaveUpkeep \/ LeaveMain \/ LeaveMoving \/ LeaveCheckpoint \/ LeaveLanded
           \/ LeaveDraw \/ LeaveBattle \/ (\E r \in DrawTypes : Reward(r)) \/ Rest
  BY <1>5, LeavesFuel
<1>6. CASE Consume \/ \E n \in DiceFaces : Roll(n)
  BY <1>6, MainFuel
<1>7. CASE PreMove \/ SetOff \/ FallDown \/ Land
  BY <1>7, PreMoveFuel, SetOffFuel, FallFuel, LandFuel
<1>8. CASE PoisonDraw \/ Treasure \/ DrawSomething
  BY <1>8, DrawingFuel
<1>9. CASE (\E crit \in BOOLEAN : Strike(crit)) \/ Victory \/ SkillStrikes
  BY <1>9, StrikeFuel, VictoryFuel, SkillFuel
<1>10. CASE \/ \E u \in Users, n \in {1, 2} : BossHits(u, n)
            \/ \E s \in SkillPool : BossCasts(s)
  BY <1>10, BossFuel
<1>11. CASE (\E u \in Users : Revive(u)) \/ TurnEndRespawn
  BY <1>11, RespawnFuel
<1>12. CASE AfterTurn \/ Settle \/ \E k \in Buffs : Expire(k)
  BY <1>12, AfterTurnFuel, SettleFuel, ExpireFuel
<1> QED
  BY <1>1, <1>2, <1>3, <1>4, <1>5, <1>6, <1>7, <1>8, <1>9, <1>10, <1>11, <1>12
  DEF Next, Proceed

LEMMA FuelAtFirst == ASSUME Init PROVE FuelInv
<1>1. /\ queue = <<>> /\ count = 0 /\ turn = Idle
      /\ buffs = [p \in All |-> [k \in IF p \in {u \in Users : Faction[u] = "ZhuQue"}
                                         THEN {"fire"} ELSE {} |-> NewBuff(k, Nobody)]]
  BY DEF Init, EngineInit
<1>2. \A p \in All : ~Has(p, "dominance") /\ ~Has(p, "rob_luck")
  BY <1>1 DEF Has
<1>3. Allowance(turn) = 0 /\ turn.step = "enter"
  BY <1>1 DEF Allowance, Idle
<1>4. count + Fuel(queue) <= Allowance(turn)
  BY <1>1, <1>3, FuelNone
<1> QED
  BY <1>2, <1>3, <1>4 DEF FuelInv, SkillBuffsOK

\* What is executed in a state, and what is queued there and can still follow from it,
\* never exceeds what the state may spend: one item, one event, one blow, one skill of
\* the Boss or the buffs that run out, each with all it can lead to.
THEOREM FuelInductive == Spec => [](TurnInv /\ FuelInv)
<1>1. Init => TurnInv /\ FuelInv
  BY InitOK, FuelAtFirst
<1>2. TurnInv /\ FuelInv /\ [Next]_vars => (TurnInv /\ FuelInv)'
  <2> SUFFICES ASSUME TurnInv, FuelInv, [Next]_vars PROVE TurnInv' /\ FuelInv'
    OBVIOUS
  <2>1. TurnInv'
    BY StepKeeps DEF Kept
  <2> QED
    BY <2>1, FuelKept
<1> QED
  BY <1>1, <1>2, PTL DEF Spec

\* While ProcessQueue runs, every step takes fuel from the queue: it runs dry by itself,
\* whatever links, robbed luck, doubled effects and thorns derive from one another.
EffectsRunDry == [][draining => Fuel(queue') < Fuel(queue)]_vars

\* While the queue is processed, no state of the turn goes on.
LEMMA OnlyDrains ==
  ASSUME draining, TurnInv, [Next]_vars PROVE Drain \/ UNCHANGED vars
<1>1. turn.state # "Rest"
  BY DEF TurnInv, TurnOK, Resting
<1>2. CASE Decide
  BY <1>2 DEF Decide, UseItem, UseSkill, At
<1>3. CASE Finished \/ UNCHANGED vars
  BY <1>3 DEF Finished
<1>4. CASE \E p \in All : Begin(p)
  BY <1>1, <1>4 DEF Begin, Resting
<1>5. CASE Drain
  BY <1>5
<1>6. CASE Upkeep \/ PoisonDraw \/ SufferEvent \/ LeaveUpkeep \/ Consume \/ Claim
           \/ (\E n \in DiceFaces : Roll(n)) \/ LeaveMain
  BY <1>6 DEF Upkeep, PoisonDraw, SufferEvent, LeaveUpkeep, Consume, Claim, Roll, LeaveMain, At
<1>7. CASE PreMove \/ SetOff \/ FallDown \/ LeaveMoving \/ Treasure \/ LeaveCheckpoint \/ Land
           \/ LeaveLanded \/ DrawSomething \/ LeaveDraw
  BY <1>7 DEF PreMove, SetOff, FallDown, LeaveMoving, Treasure, LeaveCheckpoint, Land,
              LeaveLanded, DrawSomething, LeaveDraw, At
<1>8. CASE \/ \E crit \in BOOLEAN : Strike(crit)
           \/ Victory
           \/ \E r \in DrawTypes : Reward(r)
           \/ \E u \in Users, n \in {1, 2} : BossHits(u, n)
           \/ \E s \in SkillPool : BossCasts(s)
           \/ SkillStrikes
           \/ \E u \in Users : Revive(u)
           \/ LeaveBattle
  BY <1>8 DEF Strike, Victory, Reward, BossHits, BossCasts, MayFight, SkillStrikes, Revive,
              LeaveBattle, At
<1>9. CASE AfterTurn \/ Settle \/ (\E k \in Buffs : Expire(k)) \/ TurnEndRespawn \/ Rest
  BY <1>9 DEF AfterTurn, Settle, Expire, TurnEndRespawn, Rest, Settled, At
<1> QED
  BY <1>2, <1>3, <1>4, <1>5, <1>6, <1>7, <1>8, <1>9 DEF Next, Proceed

\* ProcessQueue comes to its end: each of its steps leaves less to be done.
THEOREM RunsDry == Spec => EffectsRunDry
<1>1. TurnInv /\ FuelInv /\ [Next]_vars => [draining => Fuel(queue') < Fuel(queue)]_vars
  <2> SUFFICES ASSUME TurnInv, FuelInv, [Next]_vars, draining, ~(UNCHANGED vars)
               PROVE  Fuel(queue') < Fuel(queue)
    OBVIOUS
  <2> QED
    BY OnlyDrains, DrainBudget
<1> QED
  BY <1>1, FuelInductive, PTL DEF Spec, EffectsRunDry

\* While it runs, there is something left to be executed.
LEMMA FuelLeft ==
  ASSUME TurnInv, FuelInv, draining PROVE count < Allowance(turn)
<1>1. queue # <<>> /\ queue \in Seq(Action) /\ Sound(Head(queue))
  <2>1. queue # <<>> /\ queue \in Seq(Action)
    BY DEF TurnInv, EngineOK, QueueOK
  <2>2. Head(queue) \in ToSet(queue)
    BY <2>1, HeadTailSet
  <2> QED
    BY <2>1, <2>2 DEF TurnInv, EngineOK, QueueOK
<1>2. Fuel(queue) >= 1
  BY <1>1, FuelHead
<1> QED
  BY <1>2, FuelNow DEF FuelInv

\* No state but the one in which items are used spends more than this.
LEMMA MostSpent ==
  ASSUME TurnInv, 29 <= QueueLimit, 9 + 4 * Cardinality(Users) <= QueueLimit,
         10 * turn.uses <= QueueLimit
  PROVE  Allowance(turn) <= QueueLimit
<1>1. QueueLimit \in Nat
  BY StatAssumption
<1> QED
  BY <1>1, UsersCounted DEF Allowance

\* The limit of the queue is never reached: it is beyond what an event, the end of a turn
\* (29) and a skill of the Boss against all the players can lead to, and for the items of
\* a turn, which share one context, up to a tenth of it in number.
THEOREM NeverGivesUp ==
  ASSUME 29 <= QueueLimit, 9 + 4 * Cardinality(Users) <= QueueLimit
  PROVE  Spec => [](10 * turn.uses <= QueueLimit => NeverCutOff)
<1>1. TurnInv /\ FuelInv => (10 * turn.uses <= QueueLimit => NeverCutOff)
  <2> SUFFICES ASSUME TurnInv, FuelInv, 10 * turn.uses <= QueueLimit, draining
               PROVE  count < QueueLimit
    BY DEF NeverCutOff
  <2>1. count < Allowance(turn) /\ Allowance(turn) <= QueueLimit
    BY FuelLeft, MostSpent
  <2> QED
    BY <2>1, FuelNow, StatAssumption
<1> QED
  BY <1>1, FuelInductive, PTL
=============================================================================
