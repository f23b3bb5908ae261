---------------------------- MODULE EffectsProofs ----------------------------
(***************************************************************************)
(* What the execution of one action can do, for any number of players and  *)
(* any course: lemmas about Effects, for the proofs about Turn.            *)
(***************************************************************************)
EXTENDS Turn, SequenceTheorems, Extremes, TLAPS

Links == {"sinking", "eternal"}

\* The kinds of action that a queue may hold, and those the states execute.
Queueable ==
  {"Damage", "BossDamage", "Heal", "ModifyLP", "Teleport", "Death", "AddBuff",
   "AddItem", "RemoveItem", "DrawItem", "DrawBuff", "DiceUpgrade"}

Kinds ==
  Queueable \cup {"Move", "Respawn", "RemoveBuff", "FellDown", "BossAttack",
                  "BossSkill", "RollDice", "DrawEvent"}

Action ==
  [do : Kinds, to : All, n : Int, of : Buffs \cup Items \cup {"none"}, src : Sources,
   from : All \cup {Nobody}, pierce : BOOLEAN, marks : SUBSET Links]

\* Losses are not negative, ways lead to cells, what is given exists, only links
\* point at a player, and a blow against the Boss has somebody who deals it.
Sound(a) ==
  /\ a \in Action
  /\ a.do \in {"Damage", "BossDamage", "Heal", "FellDown", "BossAttack"} => a.n >= 0
  /\ a.do \in {"Move", "Teleport", "Respawn"} => a.n \in Cells
  /\ a.do = "AddBuff" => a.of \in Buffs /\ (a.from # Nobody => a.of \in Links)
  /\ a.do = "AddItem" => a.of \in Items
  /\ a.do = "BossDamage" => a.to = Boss /\ a.from \in All

PlayerState ==
  [hp : Nat, lp : 0 .. MaxLP, dead : BOOLEAN, deaths : Nat, pos : Cells, bag : Seq(Items)]

PlayersOK ==
  /\ player \in [All -> PlayerState]
  /\ \A p \in All : player[p].hp <= MaxHPOf(p)

BuffState == [left : Nat \cup {-1}, ripe : BOOLEAN, peer : All \cup {Nobody}, beat : Nat]

\* The buffs somebody may have.
HeldOK(held) ==
  /\ held = [k \in DOMAIN held |-> held[k]]
  /\ DOMAIN held \subseteq Buffs
  /\ \A k \in DOMAIN held : held[k] \in BuffState

BuffsOK ==
  /\ buffs = [p \in All |-> buffs[p]]
  /\ \A p \in All : HeldOK(buffs[p])

QueueOK ==
  /\ queue \in Seq(Action)
  /\ \A x \in ToSet(queue) : Sound(x) /\ x.do \in Queueable
  /\ draining \in BOOLEAN /\ count \in Nat /\ extended \in BOOLEAN
  /\ draining => queue # <<>>

EngineOK == PlayersOK /\ BuffsOK /\ QueueOK

-----------------------------------------------------------------------------
(* Queues as sets of pending actions *)

LEMMA ConcatSet ==
  ASSUME NEW S, NEW s \in Seq(S), NEW t \in Seq(S)
  PROVE  s \o t \in Seq(S) /\ ToSet(s \o t) = ToSet(s) \cup ToSet(t)
<1>1. /\ s \o t \in Seq(S) /\ Len(s \o t) = Len(s) + Len(t)
      /\ \A i \in 1 .. Len(s) + Len(t) : (s \o t)[i] = IF i <= Len(s) THEN s[i] ELSE t[i - Len(s)]
  BY ConcatProperties
<1>2. ASSUME NEW x \in ToSet(s \o t) PROVE x \in ToSet(s) \cup ToSet(t)
  <2>1. PICK i \in 1 .. Len(s) + Len(t) : x = (s \o t)[i]
    BY <1>1, <1>2 DEF ToSet
  <2>2. CASE i <= Len(s)
    BY <1>1, <2>1, <2>2 DEF ToSet
  <2>3. CASE i > Len(s)
    <3>1. i - Len(s) \in 1 .. Len(t)
      BY <2>1, <2>3
    <3> QED
      BY <1>1, <2>1, <2>3, <3>1 DEF ToSet
  <2> QED
    BY <2>1, <2>2, <2>3
<1>3. ASSUME NEW x \in ToSet(s) PROVE x \in ToSet(s \o t)
  <2>1. PICK i \in 1 .. Len(s) : x = s[i]
    BY <1>3 DEF ToSet
  <2>2. i \in 1 .. Len(s) + Len(t)
    BY <2>1
  <2> QED
    BY <1>1, <2>1, <2>2 DEF ToSet
<1>4. ASSUME NEW x \in ToSet(t) PROVE x \in ToSet(s \o t)
  <2>1. PICK i \in 1 .. Len(t) : x = t[i]
    BY <1>4 DEF ToSet
  <2>2. /\ Len(s) + i \in 1 .. Len(s) + Len(t)
        /\ ~(Len(s) + i <= Len(s)) /\ (Len(s) + i) - Len(s) = i
    BY <2>1
  <2>3. x = (s \o t)[Len(s) + i]
    BY <1>1, <2>1, <2>2
  <2> QED
    BY <1>1, <2>2, <2>3 DEF ToSet
<1> QED
  BY <1>1, <1>2, <1>3, <1>4

LEMMA HeadTailSet ==
  ASSUME NEW S, NEW s \in Seq(S), s # <<>>
  PROVE  /\ Head(s) \in S /\ Tail(s) \in Seq(S)
         /\ ToSet(s) = {Head(s)} \cup ToSet(Tail(s))
<1>1. /\ Head(s) = s[1] /\ Head(s) \in S /\ Tail(s) \in Seq(S) /\ Len(Tail(s)) = Len(s) - 1
      /\ Len(s) \in Nat \ {0}
      /\ \A i \in 1 .. Len(Tail(s)) : Tail(s)[i] = s[i + 1]
  BY HeadTailProperties, LenProperties, EmptySeq
<1>2. ASSUME NEW x \in ToSet(s) PROVE x \in {Head(s)} \cup ToSet(Tail(s))
  <2>1. PICK i \in 1 .. Len(s) : x = s[i]
    BY <1>2 DEF ToSet
  <2>2. CASE i # 1
    <3>1. i - 1 \in 1 .. Len(Tail(s)) /\ (i - 1) + 1 = i
      BY <1>1, <2>1, <2>2
    <3>2. x = Tail(s)[i - 1] /\ DOMAIN Tail(s) = 1 .. Len(Tail(s))
      BY <1>1, <2>1, <3>1
    <3> QED
      BY <3>1, <3>2 DEF ToSet
  <2> QED
    BY <1>1, <2>1, <2>2
<1>3. ASSUME NEW x \in ToSet(Tail(s)) PROVE x \in ToSet(s)
  <2>1. PICK i \in 1 .. Len(Tail(s)) : x = Tail(s)[i]
    BY <1>1, <1>3 DEF ToSet
  <2>2. i + 1 \in 1 .. Len(s)
    BY <1>1, <2>1
  <2> QED
    BY <1>1, <2>1, <2>2 DEF ToSet
<1>4. Head(s) \in ToSet(s)
  BY <1>1 DEF ToSet
<1> QED
  BY <1>1, <1>2, <1>3, <1>4

LEMMA SingleSet ==
  ASSUME NEW S, NEW x \in S
  PROVE  <<x>> \in Seq(S) /\ ToSet(<<x>>) = {x} /\ <<x>> # <<>>
  BY DEF ToSet

LEMMA PairSet ==
  ASSUME NEW S, NEW x \in S, NEW y \in S
  PROVE  <<x, y>> \in Seq(S) /\ ToSet(<<x, y>>) = {x, y} /\ <<x, y>> # <<>>
  BY DEF ToSet

LEMMA NoneSet == ASSUME NEW S PROVE <<>> \in Seq(S) /\ ToSet(<<>>) = {}
  BY DEF ToSet

-----------------------------------------------------------------------------
(* The actions the code makes *)

\* The default fields of an action.
LEMMA ActSound ==
  ASSUME NEW do \in Kinds, NEW to \in All, NEW n \in Int, NEW of \in Buffs \cup Items \cup {"none"}
  PROVE  LET x == Act(do, to, n, of)
         IN /\ x \in Action
            /\ x.do = do /\ x.to = to /\ x.n = n /\ x.of = of
            /\ x.src = "none" /\ x.from = Nobody /\ x.pierce = FALSE /\ x.marks = {}
  BY DEF Act, Action, Sources

\* What a player's buffs derive from an action of one of these kinds.
Shareable == {"Damage", "BossDamage", "Heal", "ModifyLP", "AddItem"}

LEMMA DerivedSound ==
  ASSUME NEW a, Sound(a), a.do \in Shareable, NEW to \in All, NEW src \in Sources,
         NEW own \in SUBSET Links, a.do = "BossDamage" => to = Boss
  PROVE  LET x == Derived(a, to, src, own)
         IN /\ Sound(x)
            /\ x.do = a.do /\ x.to = to /\ x.src = src /\ x.n = a.n
<1> DEFINE x == Derived(a, to, src, own)
<1>1. /\ a.do \in Kinds /\ a.n \in Int /\ a.of \in Buffs \cup Items \cup {"none"}
      /\ a.marks \in SUBSET Links /\ a.from \in All \cup {Nobody}
  BY DEF Sound, Action
<1>2. Act(a.do, to, a.n, a.of) \in Action
  BY <1>1 DEF Act, Action, Sources
<1>3. /\ x \in Action /\ x.do = a.do /\ x.to = to /\ x.n = a.n /\ x.of = a.of /\ x.src = src
      /\ x.from = IF a.do = "BossDamage" THEN a.from ELSE Nobody
  BY <1>1, <1>2 DEF Derived, Act, Action
<1>4. Sound(x)
  BY <1>3 DEF Sound, Shareable
<1> QED
  BY <1>3, <1>4

\* What a player's buffs derive is of the kind of the action, and what rob_luck
\* derives goes to the one who robs.
Inherits(x, a) ==
  /\ Sound(x)
  /\ a.do \in Shareable /\ x.do = a.do
  /\ x.src \in {"rob_luck", "sinking", "eternal", "dominance"}
  /\ x.src = "rob_luck" =>
       \E v \in All : Has(v, "rob_luck") /\ buffs[v]["rob_luck"].peer = x.to

Legacy(s, a) == s \in Seq(Action) /\ \A x \in ToSet(s) : Inherits(x, a)

LEMMA HeldBuff ==
  ASSUME BuffsOK, NEW p \in All, NEW k \in DOMAIN buffs[p]
  PROVE  k \in Buffs /\ buffs[p][k] \in BuffState
  BY DEF BuffsOK, HeldOK

LEMMA LegacyOfNone == ASSUME NEW a PROVE Legacy(<<>>, a)
  BY NoneSet DEF Legacy

LEMMA LegacyOfOne == ASSUME NEW a, NEW x, Inherits(x, a) PROVE Legacy(<<x>>, a)
<1>1. x \in Action
  BY DEF Inherits, Sound
<1> QED
  BY <1>1, SingleSet DEF Legacy

LEMMA LegacyOfBoth ==
  ASSUME NEW a, NEW s, NEW t, Legacy(s, a), Legacy(t, a) PROVE Legacy(s \o t, a)
  BY ConcatSet DEF Legacy

LEMMA RedirectedOK ==
  ASSUME BuffsOK, NEW a, Sound(a), NEW p \in All PROVE Legacy(Redirected(p, a), a)
<1> DEFINE q == buffs[p]["rob_luck"].peer
           x == Derived(a, q, "rob_luck", {})
<1>1. CASE "rob_luck" \in Heard(p, a) /\ RobLuckTakes(p, a)
  <2>1. Has(p, "rob_luck") /\ q \in All
    <3>1. "rob_luck" \in DOMAIN buffs[p]
      BY <1>1 DEF Heard, Interceptors
    <3>2. buffs[p]["rob_luck"] \in BuffState
      BY <3>1, HeldBuff
    <3>3. q \in All \cup {Nobody} /\ q # Nobody
      BY <1>1, <3>2 DEF BuffState, RobLuckTakes
    <3> QED
      BY <3>1, <3>3 DEF Has
  <2>2. a.do \in {"Heal", "ModifyLP", "AddItem"}
    BY <1>1 DEF RobLuckTakes, Gains
  <2>3. Sound(x) /\ x.do = a.do /\ x.to = q /\ x.src = "rob_luck"
    BY <2>1, <2>2, DerivedSound DEF Sources, Shareable
  <2>4. Inherits(x, a)
    BY <2>1, <2>2, <2>3 DEF Inherits, Shareable
  <2> QED
    BY <1>1, <2>4, LegacyOfOne DEF Redirected
<1>2. CASE ~("rob_luck" \in Heard(p, a) /\ RobLuckTakes(p, a))
  BY <1>2, LegacyOfNone DEF Redirected
<1> QED
  BY <1>1, <1>2

LEMMA SharedOK ==
  ASSUME BuffsOK, NEW a, Sound(a), NEW p \in All, NEW k \in Links
  PROVE  Legacy(Shared(k, p, a), a)
<1> DEFINE q == buffs[p][k].peer
           x == Derived(a, q, k, {k})
<1>1. CASE Shares(k, p, a)
  <2>1. q \in All
    <3>1. k \in DOMAIN buffs[p]
      BY <1>1 DEF Heard, Interceptors, Shares
    <3>2. buffs[p][k] \in BuffState
      BY <3>1, HeldBuff
    <3> QED
      BY <1>1, <3>2 DEF BuffState, Shares
  <2>2. a.do \in {"Damage", "Heal", "ModifyLP", "AddItem"}
    BY <1>1 DEF Shares, Gains
  <2>3. Sound(x) /\ x.do = a.do /\ x.to = q /\ x.src = k
    <3>1. k \in Sources /\ {k} \in SUBSET Links
      BY DEF Sources, Links
    <3> QED
      BY <2>1, <2>2, <3>1, DerivedSound DEF Shareable
  <2>4. Inherits(x, a)
    BY <2>1, <2>2, <2>3 DEF Inherits, Shareable, Links
  <2> QED
    BY <1>1, <2>4, LegacyOfOne DEF Shared
<1>2. CASE ~Shares(k, p, a)
  BY <1>2, LegacyOfNone DEF Shared
<1> QED
  BY <1>1, <1>2

LEMMA AmplifiedOK ==
  ASSUME NEW a, Sound(a), NEW p \in All PROVE Legacy(Amplified(p, a), a)
<1> DEFINE x == Derived(a, a.to, "dominance", {})
<1>1. CASE Amplifies(p, a)
  <2>1. a.to \in All /\ (a.do = "BossDamage" => a.to = Boss)
    BY DEF Sound, Action
  <2>2. a.do \in {"BossDamage", "Heal", "ModifyLP"}
    BY <1>1 DEF Amplifies, Gains
  <2>3. Sound(x) /\ x.do = a.do /\ x.src = "dominance"
    BY <2>1, <2>2, DerivedSound DEF Sources, Shareable
  <2>4. Inherits(x, a)
    BY <2>2, <2>3 DEF Inherits, Shareable
  <2> QED
    BY <1>1, <2>4, LegacyOfOne DEF Amplified
<1>2. CASE ~Amplifies(p, a)
  BY <1>2, LegacyOfNone DEF Amplified
<1> QED
  BY <1>1, <1>2

LEMMA FromActorOK ==
  ASSUME BuffsOK, NEW a, Sound(a), NEW p \in All PROVE Legacy(FromActor(p, a), a)
<1>1. Legacy(Shared("sinking", p, a), a) /\ Legacy(Shared("eternal", p, a), a)
  BY SharedOK DEF Links
<1>2. Legacy(Redirected(p, a), a) /\ Legacy(Amplified(p, a), a)
  BY RedirectedOK, AmplifiedOK
<1>3. Legacy(Redirected(p, a) \o Shared("sinking", p, a), a)
  BY <1>1, <1>2, LegacyOfBoth
<1>4. Legacy((Redirected(p, a) \o Shared("sinking", p, a)) \o Shared("eternal", p, a), a)
  BY <1>1, <1>3, LegacyOfBoth
<1> QED
  BY <1>2, <1>4, LegacyOfBoth DEF FromActor

\* The target is asked first; whoever is asked is a player.
LEMMA AskedOK ==
  ASSUME NEW a, Sound(a)
  PROVE  LET asked == Asked(a)
         IN /\ asked \in Seq(All) /\ Len(asked) \in {1, 2} /\ asked[1] = a.to
            /\ \A i \in 1 .. Len(asked) : asked[i] \in All
            /\ ToSet(asked) \subseteq All /\ a.to \in ToSet(asked)
<1>1. a.to \in All /\ a.from \in All \cup {Nobody}
  BY DEF Sound, Action
<1>2. Asked(a) = <<a.to>> \/ (a.from \in All /\ Asked(a) = <<a.to, a.from>>)
  BY <1>1 DEF Asked, ActorPlayers
<1>3. CASE Asked(a) = <<a.to>>
  BY <1>1, <1>3, SingleSet
<1>4. CASE a.from \in All /\ Asked(a) = <<a.to, a.from>>
  BY <1>1, <1>4, PairSet
<1> QED
  BY <1>2, <1>3, <1>4

LEMMA FromActorsOK ==
  ASSUME BuffsOK, NEW a, Sound(a) PROVE Legacy(FromActors(a), a)
<1> DEFINE asked == Asked(a)
<1>1. CASE Len(asked) = 1
  <2>1. asked[1] \in All
    BY <1>1, AskedOK
  <2>2. FromActors(a) = FromActor(asked[1], a)
    BY <1>1 DEF FromActors
  <2> QED
    BY <2>1, <2>2, FromActorOK
<1>2. CASE Len(asked) # 1
  <2>1. asked[1] \in All /\ asked[2] \in All
    BY <1>2, AskedOK
  <2>2. FromActors(a) = FromActor(asked[1], a) \o FromActor(asked[2], a)
    BY <1>2 DEF FromActors
  <2>3. Legacy(FromActor(asked[1], a), a) /\ Legacy(FromActor(asked[2], a), a)
    BY <2>1, FromActorOK
  <2> QED
    BY <2>2, <2>3, LegacyOfBoth
<1> QED
  BY <1>1, <1>2

-----------------------------------------------------------------------------
(* What an execution queues *)

\* Whatever the execution of "a" queues behind what waits already.
Caused(a, x) ==
  /\ Sound(x)
  /\ x.do \in {"Damage", "BossDamage", "Heal", "ModifyLP", "AddItem", "AddBuff", "Death"}
  /\ a.do \in {"ModifyLP", "RemoveBuff", "Respawn"} => x.do = "ModifyLP"
  /\ x.do = "Death" => a.do = "Damage" /\ x.to = a.to
  /\ x.do = "AddBuff" => a.do = "DrawBuff" /\ x.of \in BuffPool
  /\ x.src = "rob_luck" =>
       /\ a.do \in Shareable
       /\ \E v \in All : Has(v, "rob_luck") /\ buffs[v]["rob_luck"].peer = x.to
  /\ x.src = "fearless" =>
       /\ a.do = "AddBuff" /\ a.of = "fearless" /\ ~Extends(a)
       /\ x.do = "Damage" /\ x.to = a.to /\ x.pierce /\ x.n = player[a.to].hp - 1

Effect(a, s) == s \in Seq(Action) /\ \A x \in ToSet(s) : Caused(a, x)

LEMMA EffectOfNone == ASSUME NEW a PROVE Effect(a, <<>>)
  BY NoneSet DEF Effect

LEMMA EffectOfOne == ASSUME NEW a, NEW x, Caused(a, x) PROVE Effect(a, <<x>>)
<1>1. x \in Action
  BY DEF Caused, Sound
<1> QED
  BY <1>1, SingleSet DEF Effect

LEMMA EffectOfBoth ==
  ASSUME NEW a, NEW s, NEW t, Effect(a, s), Effect(a, t)
  PROVE  Effect(a, s \o t) /\ ToSet(s \o t) = ToSet(s) \cup ToSet(t)
  BY ConcatSet DEF Effect

LEMMA EffectOfLegacy ==
  ASSUME NEW a, NEW s, Legacy(s, a) PROVE Effect(a, s)
<1>1. ASSUME NEW x \in ToSet(s) PROVE Caused(a, x)
  BY DEF Legacy, Inherits, Caused, Shareable
<1> QED
  BY <1>1 DEF Legacy, Effect

\* The markers are copied to a single derived action.
LEMMA MarkedOne ==
  ASSUME NEW a, Sound(a), NEW x, Caused(a, x)
  PROVE  /\ Marked(a, <<x>>) = <<[x EXCEPT !.marks = a.marks]>>
         /\ Effect(a, Marked(a, <<x>>)) /\ Len(Marked(a, <<x>>)) = 1
<1> DEFINE y == [x EXCEPT !.marks = a.marks]
<1>1. x \in Action /\ a.marks \in SUBSET Links
  BY DEF Caused, Sound, Action
<1>2. Marked(a, <<x>>) = <<y>>
  BY DEF Marked
<1>3. /\ y \in Action
      /\ y.do = x.do /\ y.to = x.to /\ y.n = x.n /\ y.of = x.of /\ y.src = x.src /\ y.from = x.from
      /\ y.pierce = x.pierce
  BY <1>1 DEF Action
<1>4. Sound(y)
  BY <1>3 DEF Caused, Sound
<1>5. Caused(a, y)
  BY <1>3, <1>4 DEF Caused
<1> QED
  BY <1>2, <1>5, EffectOfOne

LEMMA MarkedNone ==
  ASSUME NEW a
  PROVE  Marked(a, <<>>) = <<>> /\ Effect(a, Marked(a, <<>>)) /\ Len(Marked(a, <<>>)) = 0
<1>1. Marked(a, <<>>) = <<>>
  BY DEF Marked
<1> QED
  BY <1>1, EffectOfNone

\* The changes of luck that come and go with curse and divine.
LEMMA LuckCaused ==
  ASSUME NEW a, NEW p \in All, NEW n \in Int
  PROVE  Caused(a, ModifyLP(p, n))
<1>1. LET x == ModifyLP(p, n)
      IN x \in Action /\ x.do = "ModifyLP" /\ x.src = "none" /\ x.from = Nobody
  BY DEF ModifyLP, Act, Action, Sources, Kinds, Queueable
<1> QED
  BY <1>1 DEF Caused, Sound

LEMMA DamageCaused ==
  ASSUME NEW a, NEW p \in All, NEW n \in Nat, a.do \notin {"ModifyLP", "RemoveBuff", "Respawn"}
  PROVE  Caused(a, Damage(p, n)) /\ Caused(a, Piercing(p, n))
<1>1. LET x == Damage(p, n)
      IN x \in Action /\ x.do = "Damage" /\ x.src = "none" /\ x.n = n
  BY DEF Damage, Act, Action, Sources, Kinds, Queueable
<1>2. LET x == Piercing(p, n)
      IN x \in Action /\ x.do = "Damage" /\ x.src = "none" /\ x.n = n
  BY <1>1 DEF Piercing, Action
<1> QED
  BY <1>1, <1>2 DEF Caused, Sound

LEMMA BeforeTriggerOK ==
  ASSUME NEW a, Sound(a) PROVE Effect(a, Marked(a, BeforeTrigger(a)))
<1> DEFINE back == (3 * a.n + 5) \div 10
<1>1. a.to \in All /\ a.n \in Int
  BY DEF Sound, Action
<1>2. CASE BeforeTrigger(a) = <<>>
  BY <1>2, MarkedNone
<1>3. CASE a.do = "BossDamage" /\ back > 0 /\ BeforeTrigger(a) = <<Piercing(a.from, back)>>
  <2>1. a.from \in All /\ a.n >= 0
    BY <1>3 DEF Sound
  <2>2. back \in Nat
    BY <1>1, <2>1
  <2>3. Caused(a, Piercing(a.from, back))
    BY <1>3, <2>1, <2>2, DamageCaused
  <2> QED
    BY <1>3, <2>3, MarkedOne
<1>4. CASE \E n \in {1, -1} : BeforeTrigger(a) = <<ModifyLP(a.to, n)>>
  <2>1. PICK n \in {1, -1} : BeforeTrigger(a) = <<ModifyLP(a.to, n)>>
    BY <1>4
  <2>2. Caused(a, ModifyLP(a.to, n))
    BY <1>1, LuckCaused
  <2> QED
    BY <2>1, <2>2, MarkedOne
<1>5. \/ BeforeTrigger(a) = <<>>
      \/ a.do = "BossDamage" /\ back > 0 /\ BeforeTrigger(a) = <<Piercing(a.from, back)>>
      \/ \E n \in {1, -1} : BeforeTrigger(a) = <<ModifyLP(a.to, n)>>
  BY DEF BeforeTrigger
<1> QED
  BY <1>2, <1>3, <1>4, <1>5

\* Before its execution, what most actions leave behind is what others take or share.
LEMMA PreludeOK ==
  ASSUME BuffsOK, NEW a, Sound(a)
  PROVE  /\ Effect(a, Prelude(a))
         /\ Stopped(a) \/ a.do \notin {"BossDamage", "RemoveBuff"} => Legacy(Prelude(a), a)
         /\ a.do \notin Shareable \cup {"RemoveBuff"} => Prelude(a) = <<>>
<1> DEFINE t == IF Stopped(a) THEN <<>> ELSE Marked(a, BeforeTrigger(a))
<1>1. Legacy(FromActors(a), a) /\ Effect(a, FromActors(a))
  BY FromActorsOK, EffectOfLegacy
<1>2. Effect(a, t)
  BY BeforeTriggerOK, EffectOfNone
<1>3. Prelude(a) = FromActors(a) \o t
  BY DEF Prelude
<1>4. Stopped(a) \/ a.do \notin {"BossDamage", "RemoveBuff"} => Legacy(Prelude(a), a)
  <2>1. ASSUME Stopped(a) \/ a.do \notin {"BossDamage", "RemoveBuff"} PROVE t = <<>>
    <3>1. CASE Stopped(a)
      BY <3>1
    <3>2. CASE a.do \notin {"BossDamage", "RemoveBuff"}
      <4>1. BeforeTrigger(a) = <<>>
        BY <3>2 DEF BeforeTrigger
      <4> QED
        BY <4>1, MarkedNone
    <3> QED
      BY <2>1, <3>1, <3>2
  <2> HIDE DEF t
  <2> QED
    BY <1>1, <1>3, <2>1, LegacyOfNone, LegacyOfBoth
<1> HIDE DEF t
<1>5. Effect(a, Prelude(a))
  BY <1>1, <1>2, <1>3, EffectOfBoth
<1>6. ASSUME a.do \notin Shareable \cup {"RemoveBuff"}, Prelude(a) # <<>> PROVE FALSE
  <2>1. Prelude(a) \in Seq(Action) /\ \A x \in ToSet(Prelude(a)) : Inherits(x, a)
    BY <1>4, <1>6 DEF Legacy, Shareable
  <2>2. Head(Prelude(a)) \in ToSet(Prelude(a))
    BY <1>6, <2>1, HeadTailSet
  <2> QED
    BY <1>6, <2>1, <2>2 DEF Inherits
<1> QED
  BY <1>4, <1>5, <1>6

\* fearless takes what its holder has but one hit point.
LEMMA AfterTriggerOK ==
  ASSUME PlayersOK, NEW a, Sound(a), a.do = "AddBuff", ~Extends(a)
  PROVE  /\ Effect(a, Marked(a, AfterTrigger(a)))
         /\ Len(Marked(a, AfterTrigger(a))) \in {0, 1}
<1> DEFINE n == player[a.to].hp - 1
           x == [Piercing(a.to, n) EXCEPT !.src = "fearless"]
<1>1. a.to \in All /\ player[a.to].hp \in Nat
  BY DEF Sound, Action, PlayersOK, PlayerState
<1>2. CASE AfterTrigger(a) = <<>>
  BY <1>2, MarkedNone
<1>3. CASE \E m \in {1, -1} : AfterTrigger(a) = <<ModifyLP(a.to, m)>>
  <2>1. PICK m \in {1, -1} : AfterTrigger(a) = <<ModifyLP(a.to, m)>>
    BY <1>3
  <2>2. Caused(a, ModifyLP(a.to, m))
    BY <1>1, LuckCaused
  <2>3. LET s == Marked(a, <<ModifyLP(a.to, m)>>) IN Effect(a, s) /\ Len(s) = 1
    BY <2>2, MarkedOne
  <2> QED
    BY <2>1, <2>3
<1>4. CASE a.of = "fearless" /\ player[a.to].hp > 1 /\ AfterTrigger(a) = <<x>>
  <2>1. n \in Nat
    BY <1>1, <1>4
  <2>2. Damage(a.to, n) \in Action /\ Damage(a.to, n).do = "Damage"
        /\ Damage(a.to, n).to = a.to /\ Damage(a.to, n).n = n
    BY <1>1, <2>1 DEF Damage, Act, Action, Sources, Kinds, Queueable
  <2>3. /\ x \in Action /\ x.do = "Damage" /\ x.src = "fearless" /\ x.n = n /\ x.to = a.to
        /\ x.pierce = TRUE
    BY <2>2 DEF Piercing, Action, Sources
  <2>4. Caused(a, x)
    BY <1>4, <2>1, <2>3 DEF Caused, Sound
  <2> HIDE DEF x
  <2>5. LET s == Marked(a, <<x>>) IN Effect(a, s) /\ Len(s) = 1
    BY <2>4, MarkedOne
  <2> QED
    BY <1>4, <2>5
<1>5. \/ AfterTrigger(a) = <<>>
      \/ \E m \in {1, -1} : AfterTrigger(a) = <<ModifyLP(a.to, m)>>
      \/ a.of = "fearless" /\ player[a.to].hp > 1 /\ AfterTrigger(a) = <<x>>
  BY DEF AfterTrigger
<1> QED
  BY <1>2, <1>3, <1>4, <1>5

-----------------------------------------------------------------------------
(* What an execution leaves of buffs *)

\* The same buffs with the same time left, but for their ripeness.
SameBuffs(held, before) ==
  /\ HeldOK(held) /\ DOMAIN held = DOMAIN before
  /\ \A k \in DOMAIN before :
       /\ held[k].left = before[k].left /\ held[k].peer = before[k].peer
       /\ held[k].beat = before[k].beat

LEMMA RipenSame ==
  ASSUME NEW held, HeldOK(held), NEW kinds PROVE SameBuffs(Ripen(held, kinds), held)
<1> DEFINE r == Ripen(held, kinds)
<1>1. DOMAIN r = DOMAIN held /\ r = [k \in DOMAIN r |-> r[k]]
  BY DEF Ripen
<1>2. ASSUME NEW k \in DOMAIN held
      PROVE  /\ r[k] \in BuffState /\ r[k].left = held[k].left /\ r[k].peer = held[k].peer
             /\ r[k].beat = held[k].beat
  <2>1. held[k] \in BuffState
    BY DEF HeldOK
  <2>2. r[k] = [held[k] EXCEPT !.ripe = held[k].ripe \/ k \in kinds]
    BY DEF Ripen
  <2>3. (held[k].ripe \/ k \in kinds) \in BOOLEAN
    OBVIOUS
  <2> QED
    BY <2>1, <2>2, <2>3 DEF BuffState
<1> QED
  BY <1>1, <1>2 DEF SameBuffs, HeldOK

LEMMA ConsultedSame ==
  ASSUME BuffsOK, NEW a
  PROVE  /\ Consulted(a) = [p \in All |-> Consulted(a)[p]]
         /\ \A p \in All : SameBuffs(Consulted(a)[p], buffs[p])
<1>1. ASSUME NEW p \in All PROVE SameBuffs(Consulted(a)[p], buffs[p])
  <2>1. HeldOK(buffs[p])
    BY DEF BuffsOK
  <2>2. PICK kinds : Consulted(a)[p] = Ripen(buffs[p], kinds)
    BY DEF Consulted
  <2> QED
    BY <2>1, <2>2, RipenSame
<1>2. Consulted(a) = [p \in All |-> Consulted(a)[p]]
  BY DEF Consulted
<1> QED
  BY <1>1, <1>2

LEMMA NewBuffOK ==
  ASSUME NEW k \in Buffs, NEW q \in All \cup {Nobody}
  PROVE  LET b == NewBuff(k, q)
         IN b \in BuffState /\ IsActive(b) /\ b.peer = q
<1>1. Duration[k] \in {-1} \cup (Nat \ {0})
  BY DEF Duration, Buffs
<1> QED
  BY <1>1 DEF NewBuff, BuffState, IsActive

\* Somebody is given a buff, new or again.
LEMMA WithOK ==
  ASSUME NEW held, HeldOK(held), NEW k \in Buffs, NEW b \in BuffState
  PROVE  LET h == With(held, k, b)
         IN /\ HeldOK(h) /\ DOMAIN h = DOMAIN held \cup {k}
            /\ h[k] = b /\ \A j \in DOMAIN held : j # k => h[j] = held[j]
<1> DEFINE h == With(held, k, b)
<1>1. DOMAIN h = DOMAIN held \cup {k} /\ h = [j \in DOMAIN h |-> h[j]]
  BY DEF With
<1>2. h[k] = b /\ \A j \in DOMAIN held : j # k => h[j] = held[j]
  BY DEF With
<1>3. \A j \in DOMAIN held : held[j] \in BuffState
  BY DEF HeldOK
<1>4. DOMAIN held \subseteq Buffs
  BY DEF HeldOK
<1>5. \A j \in DOMAIN h : h[j] \in BuffState
  BY <1>1, <1>2, <1>3
<1> QED
  BY <1>1, <1>2, <1>4, <1>5 DEF HeldOK

LEMMA WithoutOK ==
  ASSUME NEW held, HeldOK(held), NEW k
  PROVE  LET h == Without(held, k)
         IN /\ HeldOK(h) /\ DOMAIN h = DOMAIN held \ {k}
            /\ \A j \in DOMAIN h : h[j] = held[j]
  BY DEF Without, HeldOK

LEMMA ExpiredSame ==
  ASSUME NEW held, NEW before, SameBuffs(held, before)
  PROVE  Expired(held) = Expired(before)
  BY DEF Expired, SameBuffs, IsActive

-----------------------------------------------------------------------------
(* What an execution leaves of a player *)

\* A player with other hit points.
LEMMA StatsOK ==
  ASSUME NEW r \in PlayerState, NEW m \in Nat, NEW h, h = [r EXCEPT !.hp = m]
  PROVE  /\ h \in PlayerState /\ h.hp = m /\ h.dead = r.dead
         /\ h.lp = r.lp /\ h.bag = r.bag /\ h.pos = r.pos /\ h.deaths = r.deaths
  BY DEF PlayerState

LEMMA HurtOK ==
  ASSUME PlayersOK, NEW p \in All, NEW n \in Int, n >= 0
  PROVE  LET h == Hurt(p, n)
         IN /\ h \in PlayerState /\ h.hp <= player[p].hp
            /\ h.lp = player[p].lp /\ h.bag = player[p].bag
            /\ h.pos = player[p].pos /\ h.deaths = player[p].deaths
            /\ player[p].dead => h.dead
            /\ h.dead => player[p].dead \/ h.hp = 0
            /\ h.hp = 0 => h.dead
            /\ n < player[p].hp => h.hp = player[p].hp - n /\ h.dead = player[p].dead
<1>1. player[p] \in PlayerState
  BY DEF PlayersOK
<1>2. player[p].hp \in Nat /\ player[p].dead \in BOOLEAN
  BY <1>1 DEF PlayerState
<1>3. CASE player[p].hp - n <= 0
  <2> DEFINE h == [player[p] EXCEPT !.hp = 0]
  <2>1. Hurt(p, n) = [h EXCEPT !.dead = TRUE]
    BY <1>3 DEF Hurt
  <2>2. /\ h \in PlayerState /\ h.hp = 0
        /\ h.lp = player[p].lp /\ h.bag = player[p].bag
        /\ h.pos = player[p].pos /\ h.deaths = player[p].deaths
    BY <1>1, StatsOK
  <2> HIDE DEF h, Hurt
  <2>3. /\ Hurt(p, n) \in PlayerState /\ Hurt(p, n).hp = 0 /\ Hurt(p, n).dead = TRUE
        /\ Hurt(p, n).lp = player[p].lp /\ Hurt(p, n).bag = player[p].bag
        /\ Hurt(p, n).pos = player[p].pos /\ Hurt(p, n).deaths = player[p].deaths
    BY <2>1, <2>2 DEF PlayerState
  <2> QED
    BY <1>2, <1>3, <2>3
<1>4. CASE ~(player[p].hp - n <= 0)
  <2>1. Hurt(p, n) = [player[p] EXCEPT !.hp = player[p].hp - n]
    BY <1>4 DEF Hurt
  <2>2. player[p].hp - n \in Nat /\ player[p].hp - n > 0 /\ player[p].hp - n <= player[p].hp
    BY <1>2, <1>4
  <2> HIDE DEF Hurt
  <2> QED
    BY <1>1, <1>2, <2>1, <2>2, StatsOK
<1> QED
  BY <1>3, <1>4

LEMMA MaxIsNat == \A p \in All : MaxHPOf(p) \in Nat
  BY StatAssumption DEF MaxHPOf

LEMMA HealedOK ==
  ASSUME PlayersOK, NEW p \in All, NEW n \in Int, n >= 0
  PROVE  LET h == Healed(p, n)
         IN /\ h \in PlayerState /\ h.hp <= MaxHPOf(p) /\ h.hp >= player[p].hp
            /\ h.lp = player[p].lp /\ h.bag = player[p].bag
            /\ h.pos = player[p].pos /\ h.deaths = player[p].deaths /\ h.dead = player[p].dead
            /\ n = 0 => h.hp = player[p].hp
<1>1. player[p] \in PlayerState /\ MaxHPOf(p) \in Nat /\ player[p].hp <= MaxHPOf(p)
  BY MaxIsNat DEF PlayersOK
<1>2. player[p].hp \in Nat
  BY <1>1 DEF PlayerState
<1>3. PICK m \in Nat : /\ Healed(p, n) = [player[p] EXCEPT !.hp = m]
                       /\ m <= MaxHPOf(p) /\ m >= player[p].hp
                       /\ n = 0 => m = player[p].hp
  BY <1>1, <1>2 DEF Healed
<1> HIDE DEF Healed
<1> QED
  BY <1>1, <1>3, StatsOK

LEMMA SwayedOK ==
  ASSUME PlayersOK, NEW p \in All, NEW n \in Int
  PROVE  LET h == Swayed(p, n)
         IN /\ h \in PlayerState /\ (n <= 0 => h.lp <= player[p].lp)
            /\ h.hp = player[p].hp /\ h.bag = player[p].bag
            /\ h.pos = player[p].pos /\ h.deaths = player[p].deaths /\ h.dead = player[p].dead
<1>1. player[p] \in PlayerState /\ MaxLP \in Nat
  BY StatAssumption DEF PlayersOK
<1>2. player[p].lp \in 0 .. MaxLP
  BY <1>1 DEF PlayerState
<1> DEFINE m == IF player[p].lp + n < 0 THEN 0
                ELSE IF player[p].lp + n > MaxLP THEN MaxLP ELSE player[p].lp + n
<1>3. m \in 0 .. MaxLP /\ (n <= 0 => m <= player[p].lp)
  BY <1>1, <1>2
<1>4. Swayed(p, n) = [player[p] EXCEPT !.lp = m]
  BY DEF Swayed
<1> HIDE DEF m
<1> QED
  BY <1>1, <1>3, <1>4 DEF PlayerState

LEMMA RebornOK ==
  ASSUME PlayersOK, NEW p \in All, NEW c \in Cells
  PROVE  LET h == Reborn(p, c)
         IN /\ h \in PlayerState /\ h.hp <= MaxHPOf(p) /\ h.hp > 0
            /\ h.lp = player[p].lp /\ h.bag = player[p].bag
            /\ h.pos = c /\ h.deaths = player[p].deaths /\ ~h.dead
<1> DEFINE m == IF p = Boss THEN BossHP ELSE InitHP
           h1 == [player[p] EXCEPT !.pos = c]
           h2 == [h1 EXCEPT !.dead = FALSE]
           h3 == [h2 EXCEPT !.hp = m]
<1>1. player[p] \in PlayerState
  BY DEF PlayersOK
<1>2. m \in Nat /\ m > 0 /\ m <= MaxHPOf(p)
  BY StatAssumption DEF MaxHPOf
<1>3. Reborn(p, c) = h3
  BY DEF Reborn
<1> HIDE DEF m
<1>4. /\ h1 \in PlayerState /\ h1.pos = c
      /\ h1.lp = player[p].lp /\ h1.bag = player[p].bag /\ h1.deaths = player[p].deaths
  BY <1>1 DEF PlayerState
<1> HIDE DEF h1
<1>5. /\ h2 \in PlayerState /\ h2.pos = c /\ h2.dead = FALSE
      /\ h2.lp = h1.lp /\ h2.bag = h1.bag /\ h2.deaths = h1.deaths
  BY <1>4 DEF PlayerState
<1> HIDE DEF h2
<1>6. /\ h3 \in PlayerState /\ h3.pos = c /\ h3.dead = FALSE /\ h3.hp = m
      /\ h3.lp = h2.lp /\ h3.bag = h2.bag /\ h3.deaths = h2.deaths
  BY <1>2, <1>5 DEF PlayerState
<1> HIDE DEF h3
<1> QED
  BY <1>2, <1>3, <1>4, <1>5, <1>6

\* The first of a kind is taken out of a bag, or nothing.
LEMMA RemoveFirstOK ==
  ASSUME NEW S, NEW s \in Seq(S), NEW e
  PROVE  RemoveFirst(s, e) \in Seq(S) /\ Len(RemoveFirst(s, e)) <= Len(s)
<1>1. CASE \E i \in 1 .. Len(s) : s[i] = e
  <2> DEFINE J == {i \in 1 .. Len(s) : s[i] = e}
             i == Min(J)
             s1 == SubSeq(s, 1, i - 1)
             s2 == SubSeq(s, i + 1, Len(s))
  <2>1. RemoveFirst(s, e) = s1 \o s2
    <3>1. RemoveFirst(s, e) = RemoveAt(s, SelectInSeq(s, LAMBDA v : v = e))
      BY <1>1, Zenon DEF RemoveFirst
    <3>2. SelectInSeq(s, LAMBDA v : v = e) = i
      BY <1>1, Zenon DEF SelectInSeq
    <3>3. RemoveAt(s, i) = s1 \o s2
      BY Zenon DEF RemoveAt
    <3> QED
      BY <3>1, <3>2, <3>3, Zenon
  <2>2. i \in 1 .. Len(s)
    <3>1. J \in SUBSET (1 .. Len(s)) /\ J # {} /\ 1 \in Int /\ Len(s) \in Int
      BY <1>1
    <3> HIDE DEF J, i
    <3>2. \E x \in J : \A y \in J : x <= y
      BY ONLY <3>1, ExtremesExist
    <3>3. i \in J
      BY <3>2 DEF Min, i
    <3> QED
      BY <3>1, <3>3
  <2> HIDE DEF i
  <2>3. \A j \in 1 .. Len(s) : s[j] \in S
    OBVIOUS
  <2>4. /\ s1 \in Seq(S) /\ Len(s1) = i - 1
        /\ s2 \in Seq(S) /\ Len(s2) = Len(s) - i
    <3>1. i \in Int /\ Len(s) \in Int /\ 1 <= i /\ i <= Len(s)
      BY <2>2
    <3>2. s1 \in Seq(S) /\ Len(s1) = IF 1 <= i - 1 THEN i - 1 - 1 + 1 ELSE 0
      BY <2>2, <2>3, <3>1, SubSeqProperties
    <3>3. s2 \in Seq(S) /\ Len(s2) = IF i + 1 <= Len(s) THEN Len(s) - (i + 1) + 1 ELSE 0
      BY <2>2, <2>3, <3>1, SubSeqProperties
    <3> HIDE DEF s1, s2
    <3> DEFINE l == Len(s)
               l1 == Len(s1)
               l2 == Len(s2)
    <3>4. l1 = (IF 1 <= i - 1 THEN i - 1 - 1 + 1 ELSE 0) /\ l \in Int /\ 1 <= i /\ i <= l /\ i \in Int
          /\ l2 = (IF i + 1 <= l THEN l - (i + 1) + 1 ELSE 0)
      BY <3>1, <3>2, <3>3
    <3> HIDE DEF l, l1, l2
    <3>5. l1 = i - 1 /\ l2 = l - i
      BY ONLY <3>4
    <3> QED
      BY <3>2, <3>3, <3>5 DEF l, l1, l2
  <2> HIDE DEF s1, s2
  <2>5. s1 \o s2 \in Seq(S) /\ Len(s1 \o s2) = Len(s1) + Len(s2)
    BY <2>4, ConcatProperties
  <2>6. Len(s1) + Len(s2) <= Len(s)
    BY <2>2, <2>4
  <2> QED
    BY <2>1, <2>5, <2>6
<1>2. CASE ~ \E i \in 1 .. Len(s) : s[i] = e
  <2>1. RemoveFirst(s, e) = s
    BY <1>2, Zenon DEF RemoveFirst
  <2> QED
    BY <2>1
<1> QED
  BY <1>1, <1>2

-----------------------------------------------------------------------------
(* What the execution of an action does *)

\* To a player: only to the one it is done to, and only what its kind allows.
PlayerStep(a) ==
  /\ PlayersOK'
  /\ \A p \in All : p # a.to \/ Stopped(a) => player'[p] = player[p]
  /\ LET was == player[a.to]
         now == player'[a.to]
     IN /\ now.pos # was.pos => a.do \in {"Move", "Teleport", "Respawn"} /\ now.pos = a.n
        /\ now.deaths # was.deaths => a.do = "Death" /\ now.deaths = was.deaths + 1
        /\ was.dead /\ ~now.dead => a.do = "Respawn"
        /\ now.dead /\ ~was.dead => a.do \in {"Damage", "BossDamage"}
        /\ now.hp > was.hp => a.do = "Respawn" \/ (a.do = "Heal" /\ a.n > 0)
        /\ now.hp < was.hp => a.do \in {"Damage", "BossDamage", "Respawn"}
        /\ now.lp > was.lp => a.do = "ModifyLP" /\ a.n > 0
        /\ Len(now.bag) > Len(was.bag) => a.do = "AddItem"
        /\ now.hp = 0 => now.dead \/ was.hp = 0
        /\ now.dead => was.dead \/ now.hp = 0
        /\ a.do = "Damage" /\ a.pierce /\ a.n < was.hp => now.hp > 0
        /\ a.do = "Respawn" /\ ~Stopped(a) => ~now.dead /\ now.hp > 0
        /\ a.do \in {"Move", "Teleport", "Respawn"} /\ ~Stopped(a) => now.pos = a.n

\* Somebody is given a buff, new or again; the others stay as they are.
Gained(held, before, k) ==
  /\ HeldOK(held) /\ DOMAIN held = DOMAIN before \cup {k} /\ IsActive(held[k])
  /\ \A j \in DOMAIN before \ {k} : held[j].left = before[j].left /\ held[j].peer = before[j].peer

Lost(held, before, k) ==
  /\ HeldOK(held) /\ DOMAIN held = DOMAIN before \ {k}
  /\ \A j \in DOMAIN held : held[j].left = before[j].left /\ held[j].peer = before[j].peer

\* To the buffs: they come and go only by actions that say so.
BuffStep(a) ==
  /\ BuffsOK'
  /\ \A p \in All : p # a.to \/ Stopped(a) \/ a.do \notin {"Death", "AddBuff", "RemoveBuff"} =>
       SameBuffs(buffs'[p], buffs[p])
  /\ ~Stopped(a) =>
       /\ a.do = "Death" => Gained(buffs'[a.to], buffs[a.to], "death_mark")
       /\ a.do = "AddBuff" =>
            /\ Gained(buffs'[a.to], buffs[a.to], a.of)
            /\ Extends(a) /\ a.from = Nobody => buffs'[a.to][a.of].peer = buffs[a.to][a.of].peer
            /\ ~Extends(a) => buffs'[a.to][a.of].peer = a.from
       /\ a.do = "RemoveBuff" => Lost(buffs'[a.to], buffs[a.to], a.of)

\* To the queue: "more" is what waits behind the rest.
QueuedBy(a, more) ==
  /\ Effect(a, more)
  /\ Stopped(a) => Legacy(more, a)
  /\ a.do = "Damage" /\ player'[a.to].dead /\ ~player[a.to].dead =>
       \E x \in ToSet(more) : x.do = "Death" /\ x.to = a.to
  /\ \A x \in ToSet(more) : x.do = "Death" => player'[a.to].dead
  /\ \A x \in ToSet(more) : x.src = "fearless" => Len(more) = 1 /\ ~Stopped(a) /\ player' = player

QueueStep(a, rest) ==
  /\ extended' \in BOOLEAN
  /\ \E more : queue' = rest \o more /\ QueuedBy(a, more)

Outcome(a, rest) == PlayerStep(a) /\ BuffStep(a) /\ QueueStep(a, rest)

\* Nothing happens to the players.
LEMMA PlayerStays ==
  ASSUME PlayersOK, NEW a, Sound(a), player' = player,
         Stopped(a) \/ a.do \notin {"Move", "Teleport", "Respawn"}
  PROVE  PlayerStep(a)
<1>1. PlayersOK'
  BY DEF PlayersOK
<1>2. player[a.to] \in PlayerState
  BY DEF Sound, Action, PlayersOK
<1>3. player[a.to].hp \in Nat /\ player[a.to].lp \in Nat /\ Len(player[a.to].bag) \in Nat
  BY <1>2, StatAssumption, LenProperties DEF PlayerState
<1>4. a.do = "Damage" /\ a.n < player[a.to].hp => player[a.to].hp > 0
  BY <1>3 DEF Sound, Action
<1> QED
  BY <1>1, <1>3, <1>4 DEF PlayerStep

\* One player has another state, whichever way it came about.
LEMMA PlayerChanges ==
  ASSUME PlayersOK, NEW p \in All, NEW now \in PlayerState, now.hp <= MaxHPOf(p),
         player' = [player EXCEPT ![p] = now]
  PROVE  /\ PlayersOK' /\ player'[p] = now
         /\ \A q \in All : q # p => player'[q] = player[q]
<1>1. player' \in [All -> PlayerState]
  BY DEF PlayersOK
<1>2. player'[p] = now /\ \A q \in All : q # p => player'[q] = player[q]
  BY DEF PlayersOK
<1>3. \A q \in All : player'[q].hp <= MaxHPOf(q)
  BY <1>2 DEF PlayersOK
<1>4. \A q \in All : MaxHPOf(q)' = MaxHPOf(q)
  BY DEF MaxHPOf
<1> QED
  BY <1>1, <1>2, <1>3 DEF PlayersOK

\* The buffs are only consulted.
LEMMA BuffsStay ==
  ASSUME BuffsOK, NEW a, Sound(a), buffs' = Consulted(a),
         Stopped(a) \/ a.do \notin {"Death", "AddBuff", "RemoveBuff"}
  PROVE  BuffStep(a)
<1>1. /\ buffs' = [p \in All |-> buffs'[p]]
      /\ \A p \in All : SameBuffs(buffs'[p], buffs[p])
  BY ConsultedSame
<1>2. BuffsOK'
  BY <1>1 DEF BuffsOK, SameBuffs
<1> QED
  BY <1>1, <1>2 DEF BuffStep

\* The buffs of one player change, after all were consulted.
LEMMA BuffsChange ==
  ASSUME BuffsOK, NEW a, NEW p \in All, NEW held, HeldOK(held),
         buffs' = [Consulted(a) EXCEPT ![p] = held]
  PROVE  /\ BuffsOK' /\ buffs'[p] = held
         /\ \A q \in All : q # p => SameBuffs(buffs'[q], buffs[q])
<1>1. /\ Consulted(a) = [q \in All |-> Consulted(a)[q]]
      /\ \A q \in All : SameBuffs(Consulted(a)[q], buffs[q])
  BY ConsultedSame
<1>2. /\ buffs' = [q \in All |-> buffs'[q]] /\ buffs'[p] = held
      /\ \A q \in All : q # p => buffs'[q] = Consulted(a)[q]
  BY <1>1
<1>3. \A q \in All : HeldOK(buffs'[q])
  BY <1>1, <1>2 DEF SameBuffs
<1> QED
  BY <1>1, <1>2, <1>3 DEF BuffsOK

\* What an action that passes queues: the prelude, then what it asks for itself.
LEMMA PassesOK ==
  ASSUME BuffsOK, NEW a, Sound(a), NEW rest \in Seq(Action), NEW next, Effect(a, next),
         Passes(a, rest, next), extended' \in BOOLEAN,
         a.do = "Damage" /\ player'[a.to].dead /\ ~player[a.to].dead =>
           \E x \in ToSet(next) : x.do = "Death" /\ x.to = a.to,
         \A x \in ToSet(next) : x.do = "Death" => player'[a.to].dead,
         \A x \in ToSet(next) : x.src = "fearless" => Len(next) = 1 /\ player' = player
  PROVE  QueueStep(a, rest)
<1> DEFINE pre == Prelude(a)
           more == pre \o next
<1>1. /\ Effect(a, pre)
      /\ a.do \notin {"BossDamage", "RemoveBuff"} => Legacy(pre, a)
      /\ a.do \notin Shareable \cup {"RemoveBuff"} => pre = <<>>
  BY PreludeOK
<1> HIDE DEF pre
<1>2. /\ Effect(a, more) /\ ToSet(more) = ToSet(pre) \cup ToSet(next)
      /\ pre \in Seq(Action) /\ next \in Seq(Action)
  BY <1>1, EffectOfBoth DEF Effect
<1>3. queue' = rest \o more
  <2>1. queue' = (rest \o pre) \o next
    BY DEF Passes, pre
  <2>2. pre \in Seq(Action) /\ next \in Seq(Action) /\ rest \in Seq(Action)
    BY <1>2
  <2>3. (rest \o pre) \o next = rest \o (pre \o next)
    BY ONLY <2>2, ConcatAssociative, SMTT(30)
  <2> QED
    BY <2>1, <2>3 DEF more
<1>4. ASSUME NEW x \in ToSet(pre) PROVE x.do # "Death" /\ x.src # "fearless"
  <2>1. Caused(a, x)
    BY <1>1, <1>4 DEF Effect
  <2>2. CASE x.do = "Death"
    <3>1. a.do = "Damage"
      BY <2>1, <2>2 DEF Caused
    <3>2. Inherits(x, a)
      BY <1>1, <1>4, <3>1 DEF Legacy
    <3> QED
      BY <2>2, <3>1, <3>2 DEF Inherits
  <2>3. CASE x.src = "fearless"
    <3>1. a.do = "AddBuff"
      BY <2>1, <2>3 DEF Caused
    <3>2. pre = <<>>
      BY <1>1, <3>1 DEF Shareable
    <3> QED
      BY <1>4, <3>2, NoneSet
  <2> QED
    BY <2>2, <2>3
<1>5. ASSUME NEW x \in ToSet(more), x.src = "fearless" PROVE Len(more) = 1 /\ player' = player
  <2>1. x \in ToSet(next)
    BY <1>2, <1>4, <1>5
  <2>2. Caused(a, x)
    BY <2>1 DEF Effect
  <2>3. a.do = "AddBuff"
    BY <1>5, <2>2 DEF Caused
  <2>4. pre = <<>>
    BY <1>1, <2>3 DEF Shareable
  <2>5. more = next
    BY <1>2, <2>4
  <2> QED
    BY <1>5, <2>1, <2>5
<1>6. ~Stopped(a)
  BY DEF Passes
<1>7. QueuedBy(a, more)
  BY <1>2, <1>4, <1>5, <1>6 DEF QueuedBy
<1> QED
  BY <1>3, <1>7 DEF QueueStep

\* Most actions ask for nothing more.
LEMMA NothingMore ==
  ASSUME BuffsOK, NEW a, Sound(a), NEW rest \in Seq(Action), Passes(a, rest, <<>>),
         extended' \in BOOLEAN, a.do # "Damage"
  PROVE  QueueStep(a, rest)
  BY PassesOK, EffectOfNone, NoneSet

LEMMA RefuseOK ==
  ASSUME PlayersOK, BuffsOK, extended \in BOOLEAN, NEW a, Sound(a),
         NEW rest \in Seq(Action), Refuse(a, rest)
  PROVE  Outcome(a, rest)
<1>1. Stopped(a) /\ player' = player /\ extended' = extended /\ buffs' = Consulted(a)
      /\ queue' = rest \o Prelude(a)
  BY DEF Refuse
<1>2. PlayerStep(a) /\ BuffStep(a)
  BY <1>1, PlayerStays, BuffsStay
<1>3. Legacy(Prelude(a), a) /\ Effect(a, Prelude(a))
  BY <1>1, PreludeOK
<1>4. \A x \in ToSet(Prelude(a)) : x.do # "Death" /\ x.src # "fearless"
  <2>1. ASSUME NEW x \in ToSet(Prelude(a)) PROVE x.do # "Death" /\ x.src # "fearless"
    <3>1. Inherits(x, a)
      BY <1>3, <2>1 DEF Legacy
    <3> QED
      BY <3>1 DEF Inherits, Shareable
  <2> QED
    BY <2>1
<1>5. QueuedBy(a, Prelude(a))
  BY <1>1, <1>3, <1>4 DEF QueuedBy
<1> QED
  BY <1>1, <1>2, <1>5 DEF Outcome, QueueStep

\* Golden body halves, and rounds up.
LEMMA AmountOK ==
  ASSUME NEW a, Sound(a), a.do = "Damage"
  PROVE  Amount(a) \in Nat /\ (a.pierce => Amount(a) = a.n)
<1>1. a.n \in Int /\ a.n >= 0
  BY DEF Sound, Action
<1> QED
  BY <1>1 DEF Amount

LEMMA DeathCaused ==
  ASSUME NEW a, Sound(a), a.do = "Damage"
  PROVE  /\ Death(a.to).do = "Death" /\ Death(a.to).to = a.to /\ Death(a.to).src = "none"
         /\ Caused(a, Death(a.to))
<1>1. a.to \in All
  BY DEF Sound, Action
<1>2. LET x == Death(a.to)
      IN x \in Action /\ x.do = "Death" /\ x.to = a.to /\ x.src = "none" /\ x.from = Nobody
  BY <1>1 DEF Death, Act, Action, Sources, Kinds, Queueable
<1>3. Sound(Death(a.to))
  BY <1>2 DEF Sound
<1> QED
  BY <1>2, <1>3 DEF Caused

LEMMA DamageOK ==
  ASSUME PlayersOK, BuffsOK, extended \in BOOLEAN, NEW a, Sound(a),
         NEW rest \in Seq(Action), ExecuteDamage(a, rest)
  PROVE  Outcome(a, rest)
<1> DEFINE h == Hurt(a.to, Amount(a))
           next == IF h.dead THEN <<Death(a.to)>> ELSE <<>>
<1>1. /\ a.do = "Damage" /\ Passes(a, rest, next) /\ player' = [player EXCEPT ![a.to] = h]
      /\ buffs' = Consulted(a) /\ extended' = extended
  BY DEF ExecuteDamage
<1>2. a.to \in All /\ Amount(a) \in Int /\ Amount(a) >= 0 /\ a.n \in Int
      /\ (a.pierce => Amount(a) = a.n)
  BY <1>1, AmountOK, SMTT(30) DEF Sound, Action
<1>3. /\ h \in PlayerState /\ h.hp <= player[a.to].hp
      /\ h.lp = player[a.to].lp /\ h.bag = player[a.to].bag
      /\ h.pos = player[a.to].pos /\ h.deaths = player[a.to].deaths
      /\ player[a.to].dead => h.dead
      /\ h.dead => player[a.to].dead \/ h.hp = 0
      /\ h.hp = 0 => h.dead
      /\ Amount(a) < player[a.to].hp =>
           h.hp = player[a.to].hp - Amount(a) /\ h.dead = player[a.to].dead
  BY <1>2, HurtOK
<1>4. player[a.to] \in PlayerState /\ player[a.to].hp <= MaxHPOf(a.to) /\ MaxHPOf(a.to) \in Nat
  BY <1>2, MaxIsNat DEF PlayersOK
<1>5. /\ player[a.to].hp \in Nat /\ player[a.to].lp \in Nat /\ Len(player[a.to].bag) \in Nat
      /\ h.hp \in Nat /\ h.dead \in BOOLEAN
  BY <1>3, <1>4, StatAssumption, LenProperties DEF PlayerState
<1> HIDE DEF h
<1>6. /\ PlayersOK' /\ player'[a.to] = h
      /\ \A q \in All : q # a.to => player'[q] = player[q]
  <2>1. h.hp <= MaxHPOf(a.to)
    BY <1>3, <1>4, <1>5
  <2> QED
    BY <1>1, <1>2, <1>3, <2>1, PlayerChanges
<1>7. ~Stopped(a)
  BY <1>1 DEF Passes
<1>8. PlayerStep(a)
  <2>1. a.pierce /\ a.n < player[a.to].hp => h.hp > 0
    BY <1>2, <1>3, <1>5
  <2> QED
    BY <1>1, <1>3, <1>5, <1>6, <1>7, <2>1 DEF PlayerStep
<1>9. BuffStep(a)
  BY <1>1, BuffsStay
<1>10. QueueStep(a, rest)
  <2>1. CASE h.dead
    <3>1. next = <<Death(a.to)>> /\ Caused(a, Death(a.to))
          /\ Death(a.to).do = "Death" /\ Death(a.to).to = a.to /\ Death(a.to).src = "none"
      BY <1>1, <2>1, DeathCaused
    <3>2. Effect(a, next) /\ ToSet(next) = {Death(a.to)}
      BY <3>1, EffectOfOne, SingleSet
    <3> HIDE DEF next
    <3> QED
      BY <1>1, <1>6, <2>1, <3>1, <3>2, PassesOK
  <2>2. CASE ~h.dead
    <3>1. next = <<>> /\ Effect(a, next) /\ ToSet(next) = {}
      BY <2>2, EffectOfNone, NoneSet
    <3> HIDE DEF next
    <3> QED
      BY <1>1, <1>6, <2>2, <3>1, PassesOK
  <2> QED
    BY <2>1, <2>2
<1> QED
  BY <1>8, <1>9, <1>10 DEF Outcome

\* What is common to the actions that make the player they are done to "h" and
\* change nothing else.
Makes(a, rest, h) ==
  /\ BuffStep(a) /\ QueueStep(a, rest) /\ ~Stopped(a)
  /\ PlayersOK' /\ player'[a.to] = h
  /\ \A q \in All : q # a.to => player'[q] = player[q]
  /\ player[a.to].hp \in Nat /\ player[a.to].lp \in Nat /\ Len(player[a.to].bag) \in Nat
  /\ player[a.to].dead \in BOOLEAN /\ a.n \in Int

LEMMA PlayerOnly ==
  ASSUME PlayersOK, BuffsOK, extended \in BOOLEAN, NEW a, Sound(a),
         a.do \notin {"Damage", "Death", "AddBuff", "RemoveBuff"},
         NEW rest \in Seq(Action), Passes(a, rest, <<>>), buffs' = Consulted(a),
         extended' = extended, NEW h \in PlayerState, h.hp <= MaxHPOf(a.to),
         player' = [player EXCEPT ![a.to] = h]
  PROVE  Makes(a, rest, h)
<1>1. a.to \in All /\ a.n \in Int
  BY DEF Sound, Action
<1>2. player[a.to] \in PlayerState /\ player[a.to].hp <= MaxHPOf(a.to) /\ MaxHPOf(a.to) \in Nat
  BY <1>1, MaxIsNat DEF PlayersOK
<1>3. player[a.to].hp \in Nat /\ player[a.to].lp \in Nat /\ Len(player[a.to].bag) \in Nat
      /\ player[a.to].dead \in BOOLEAN
  BY <1>2, StatAssumption, LenProperties, SMTT(30) DEF PlayerState
<1>4. /\ PlayersOK' /\ player'[a.to] = h
      /\ \A q \in All : q # a.to => player'[q] = player[q]
  BY <1>1, PlayerChanges
<1>5. BuffStep(a)
  BY BuffsStay
<1>6. QueueStep(a, rest)
  BY NothingMore
<1> QED
  BY <1>1, <1>2, <1>3, <1>4, <1>5, <1>6 DEF Passes, Makes

LEMMA BossDamageOK ==
  ASSUME PlayersOK, BuffsOK, extended \in BOOLEAN, NEW a, Sound(a),
         NEW rest \in Seq(Action), ExecuteBossDamage(a, rest)
  PROVE  Outcome(a, rest)
<1> DEFINE h == Hurt(a.to, a.n)
<1>1. /\ a.do = "BossDamage" /\ Passes(a, rest, <<>>) /\ player' = [player EXCEPT ![a.to] = h]
      /\ buffs' = Consulted(a) /\ extended' = extended
  BY DEF ExecuteBossDamage
<1>2. a.to \in All /\ a.n \in Int /\ a.n >= 0
  BY <1>1 DEF Sound, Action
<1>3. /\ h \in PlayerState /\ h.hp <= player[a.to].hp
      /\ h.lp = player[a.to].lp /\ h.bag = player[a.to].bag
      /\ h.pos = player[a.to].pos /\ h.deaths = player[a.to].deaths
      /\ player[a.to].dead => h.dead
      /\ h.dead => player[a.to].dead \/ h.hp = 0
      /\ h.hp = 0 => h.dead
  BY <1>2, HurtOK
<1> HIDE DEF h
<1>4. h.hp <= MaxHPOf(a.to)
  <2>1. player[a.to].hp \in Nat /\ player[a.to].hp <= MaxHPOf(a.to) /\ h.hp \in Nat
        /\ MaxHPOf(a.to) \in Nat
    BY <1>2, <1>3, MaxIsNat DEF PlayersOK, PlayerState
  <2> QED
    BY <1>3, <2>1
<1>5. h.hp \in Nat /\ h.dead \in BOOLEAN
  BY <1>3 DEF PlayerState
<1>8. Makes(a, rest, h)
  BY <1>1, <1>3, <1>4, <1>5, PlayerOnly
<1>9. PlayerStep(a)
  BY <1>1, <1>3, <1>4, <1>5, <1>8 DEF PlayerStep, Makes
<1> QED
  BY <1>8, <1>9 DEF Outcome, Makes

LEMMA HealOK ==
  ASSUME PlayersOK, BuffsOK, extended \in BOOLEAN, NEW a, Sound(a),
         NEW rest \in Seq(Action), ExecuteHeal(a, rest)
  PROVE  Outcome(a, rest)
<1> DEFINE h == Healed(a.to, a.n)
<1>1. /\ a.do = "Heal" /\ Passes(a, rest, <<>>) /\ player' = [player EXCEPT ![a.to] = h]
      /\ buffs' = Consulted(a) /\ extended' = extended
  BY DEF ExecuteHeal
<1>2. a.to \in All /\ a.n \in Int /\ a.n >= 0
  BY <1>1 DEF Sound, Action
<1>3. /\ h \in PlayerState /\ h.hp <= MaxHPOf(a.to) /\ h.hp >= player[a.to].hp
      /\ h.lp = player[a.to].lp /\ h.bag = player[a.to].bag
      /\ h.pos = player[a.to].pos /\ h.deaths = player[a.to].deaths /\ h.dead = player[a.to].dead
      /\ a.n = 0 => h.hp = player[a.to].hp
  BY <1>2, HealedOK
<1> HIDE DEF h
<1>4. h.hp \in Nat /\ player[a.to].hp \in Nat
  BY <1>2, <1>3 DEF PlayerState, PlayersOK
<1>5. h.hp = 0 => player[a.to].hp = 0
  BY <1>3, <1>4
<1>8. Makes(a, rest, h)
  BY <1>1, <1>2, <1>3, <1>4, <1>5, PlayerOnly
<1>9. PlayerStep(a)
  BY <1>1, <1>2, <1>3, <1>4, <1>5, <1>8 DEF PlayerStep, Makes
<1> QED
  BY <1>8, <1>9 DEF Outcome, Makes

LEMMA ModifyLPOK ==
  ASSUME PlayersOK, BuffsOK, extended \in BOOLEAN, NEW a, Sound(a),
         NEW rest \in Seq(Action), ExecuteModifyLP(a, rest)
  PROVE  Outcome(a, rest)
<1> DEFINE h == Swayed(a.to, a.n)
<1>1. /\ a.do = "ModifyLP" /\ Passes(a, rest, <<>>) /\ player' = [player EXCEPT ![a.to] = h]
      /\ buffs' = Consulted(a) /\ extended' = extended
  BY DEF ExecuteModifyLP
<1>2. a.to \in All /\ a.n \in Int
  BY DEF Sound, Action
<1>3. /\ h \in PlayerState /\ (a.n <= 0 => h.lp <= player[a.to].lp)
      /\ h.hp = player[a.to].hp /\ h.bag = player[a.to].bag
      /\ h.pos = player[a.to].pos /\ h.deaths = player[a.to].deaths /\ h.dead = player[a.to].dead
  BY <1>2, SwayedOK
<1> HIDE DEF h
<1>4. h.hp <= MaxHPOf(a.to) /\ h.lp \in Nat
  BY <1>2, <1>3, StatAssumption DEF PlayersOK, PlayerState
<1>8. Makes(a, rest, h)
  BY <1>1, <1>2, <1>3, <1>4, PlayerOnly
<1>9. PlayerStep(a)
  BY <1>1, <1>2, <1>3, <1>4, <1>8 DEF PlayerStep, Makes
<1> QED
  BY <1>8, <1>9 DEF Outcome, Makes

\* A player at another place.
LEMMA PlaceOK ==
  ASSUME NEW r \in PlayerState, NEW c \in Cells, NEW h, h = [r EXCEPT !.pos = c]
  PROVE  /\ h \in PlayerState /\ h.pos = c /\ h.hp = r.hp /\ h.dead = r.dead
         /\ h.lp = r.lp /\ h.bag = r.bag /\ h.deaths = r.deaths
  BY DEF PlayerState

LEMMA MoveOK ==
  ASSUME PlayersOK, BuffsOK, extended \in BOOLEAN, NEW a, Sound(a),
         NEW rest \in Seq(Action), ExecuteMove(a, rest) \/ ExecuteTeleport(a, rest)
  PROVE  Outcome(a, rest)
<1> DEFINE h == [player[a.to] EXCEPT !.pos = a.n]
<1>1. /\ a.do \in {"Move", "Teleport"} /\ Passes(a, rest, <<>>)
      /\ player' = [player EXCEPT ![a.to] = h]
      /\ buffs' = Consulted(a) /\ extended' = extended
  BY DEF ExecuteMove, ExecuteTeleport
<1>2. a.to \in All /\ a.n \in Cells /\ player[a.to] \in PlayerState
      /\ player[a.to].hp <= MaxHPOf(a.to)
  BY <1>1 DEF Sound, Action, PlayersOK
<1>3. /\ h \in PlayerState /\ h.pos = a.n /\ h.hp = player[a.to].hp
      /\ h.dead = player[a.to].dead
      /\ h.lp = player[a.to].lp /\ h.bag = player[a.to].bag /\ h.deaths = player[a.to].deaths
  BY <1>2, PlaceOK
<1> HIDE DEF h
<1>8. Makes(a, rest, h)
  BY <1>1, <1>2, <1>3, PlayerOnly
<1>9. PlayerStep(a)
  BY <1>1, <1>2, <1>3, <1>8 DEF PlayerStep, Makes
<1> QED
  BY <1>8, <1>9 DEF Outcome, Makes

LEMMA RespawnOK ==
  ASSUME PlayersOK, BuffsOK, extended \in BOOLEAN, NEW a, Sound(a),
         NEW rest \in Seq(Action), ExecuteRespawn(a, rest)
  PROVE  Outcome(a, rest)
<1> DEFINE h == Reborn(a.to, a.n)
<1>1. /\ a.do = "Respawn" /\ Passes(a, rest, <<>>) /\ player' = [player EXCEPT ![a.to] = h]
      /\ buffs' = Consulted(a) /\ extended' = extended
  BY DEF ExecuteRespawn
<1>2. a.to \in All /\ a.n \in Cells
  BY <1>1 DEF Sound, Action
<1>3. /\ h \in PlayerState /\ h.hp <= MaxHPOf(a.to) /\ h.hp > 0
      /\ h.lp = player[a.to].lp /\ h.bag = player[a.to].bag
      /\ h.pos = a.n /\ h.deaths = player[a.to].deaths /\ ~h.dead
  BY <1>2, RebornOK
<1> HIDE DEF h
<1>4. h.hp \in Nat /\ h.hp # 0
  BY <1>3 DEF PlayerState
<1>8. Makes(a, rest, h)
  BY <1>1, <1>2, <1>3, <1>4, PlayerOnly
<1>9. PlayerStep(a)
  BY <1>1, <1>2, <1>3, <1>4, <1>8 DEF PlayerStep, Makes
<1> QED
  BY <1>8, <1>9 DEF Outcome, Makes

LEMMA AddItemOK ==
  ASSUME PlayersOK, BuffsOK, extended \in BOOLEAN, NEW a, Sound(a),
         NEW rest \in Seq(Action), ExecuteAddItem(a, rest)
  PROVE  Outcome(a, rest)
<1> DEFINE bag == Append(player[a.to].bag, a.of)
           h == [player[a.to] EXCEPT !.bag = bag]
<1>1. /\ a.do = "AddItem" /\ Passes(a, rest, <<>>)
      /\ player' = [player EXCEPT ![a.to] = h]
      /\ buffs' = Consulted(a) /\ extended' = extended
  BY DEF ExecuteAddItem
<1>2. a.to \in All /\ a.of \in Items /\ player[a.to] \in PlayerState
      /\ player[a.to].hp <= MaxHPOf(a.to)
  BY <1>1 DEF Sound, Action, PlayersOK
<1>3. bag \in Seq(Items)
  <2>1. player[a.to].bag \in Seq(Items)
    BY <1>2 DEF PlayerState
  <2> QED
    BY <1>2, <2>1, AppendProperties
<1> HIDE DEF bag
<1>4. /\ h \in PlayerState /\ h.pos = player[a.to].pos /\ h.hp = player[a.to].hp
      /\ h.dead = player[a.to].dead
      /\ h.lp = player[a.to].lp /\ h.deaths = player[a.to].deaths
  BY <1>2, <1>3 DEF PlayerState
<1> HIDE DEF h
<1>8. Makes(a, rest, h)
  BY <1>1, <1>2, <1>4, PlayerOnly
<1>9. PlayerStep(a)
  BY <1>1, <1>2, <1>4, <1>8 DEF PlayerStep, Makes
<1> QED
  BY <1>8, <1>9 DEF Outcome, Makes

LEMMA RemoveItemOK ==
  ASSUME PlayersOK, BuffsOK, extended \in BOOLEAN, NEW a, Sound(a),
         NEW rest \in Seq(Action), ExecuteRemoveItem(a, rest)
  PROVE  Outcome(a, rest)
<1> DEFINE bag == RemoveFirst(player[a.to].bag, a.of)
           h == [player[a.to] EXCEPT !.bag = bag]
<1>1. /\ a.do = "RemoveItem" /\ Passes(a, rest, <<>>)
      /\ player' = [player EXCEPT ![a.to] = h]
      /\ buffs' = Consulted(a) /\ extended' = extended
  BY DEF ExecuteRemoveItem
<1>2. a.to \in All /\ player[a.to] \in PlayerState
      /\ player[a.to].hp <= MaxHPOf(a.to)
  BY <1>1 DEF Sound, Action, PlayersOK
<1>3. bag \in Seq(Items) /\ Len(bag) <= Len(player[a.to].bag)
  <2>1. player[a.to].bag \in Seq(Items)
    BY <1>2 DEF PlayerState
  <2> QED
    BY <1>2, <2>1, RemoveFirstOK
<1> HIDE DEF bag
<1>4. /\ h \in PlayerState /\ h.pos = player[a.to].pos /\ h.hp = player[a.to].hp
      /\ h.dead = player[a.to].dead /\ h.bag = bag
      /\ h.lp = player[a.to].lp /\ h.deaths = player[a.to].deaths
  BY <1>2, <1>3 DEF PlayerState
<1> HIDE DEF h
<1>5. Len(h.bag) \in Nat
  BY <1>3, <1>4, LenProperties
<1>8. Makes(a, rest, h)
  BY <1>1, <1>2, <1>3, <1>4, <1>5, PlayerOnly
<1>9. PlayerStep(a)
  BY <1>1, <1>2, <1>3, <1>4, <1>5, <1>8 DEF PlayerStep, Makes
<1> QED
  BY <1>8, <1>9 DEF Outcome, Makes

LEMMA DeathOK ==
  ASSUME PlayersOK, BuffsOK, extended \in BOOLEAN, NEW a, Sound(a),
         NEW rest \in Seq(Action), ExecuteDeath(a, rest)
  PROVE  Outcome(a, rest)
<1> DEFINE h == [player[a.to] EXCEPT !.deaths = @ + 1]
           was == Consulted(a)[a.to]
           held == With(was, "death_mark", NewBuff("death_mark", Nobody))
<1>1. /\ a.do = "Death" /\ Passes(a, rest, <<>>) /\ extended' = extended
      /\ player' = [player EXCEPT ![a.to] = h]
  BY DEF ExecuteDeath
<1>2. a.to \in All /\ a.n \in Int /\ player[a.to] \in PlayerState
      /\ player[a.to].hp <= MaxHPOf(a.to)
  BY DEF Sound, Action, PlayersOK
<1>3. /\ h \in PlayerState /\ h.pos = player[a.to].pos /\ h.hp = player[a.to].hp
      /\ h.dead = player[a.to].dead /\ h.lp = player[a.to].lp /\ h.bag = player[a.to].bag
      /\ h.deaths = player[a.to].deaths + 1
  BY <1>2, SMTT(30) DEF PlayerState
<1> HIDE DEF h
<1>4. /\ PlayersOK' /\ player'[a.to] = h
      /\ \A q \in All : q # a.to => player'[q] = player[q]
  BY <1>1, <1>2, <1>3, PlayerChanges
<1>5. /\ player[a.to].hp \in Nat /\ player[a.to].lp \in Nat /\ Len(player[a.to].bag) \in Nat
      /\ player[a.to].dead \in BOOLEAN
  BY <1>2, StatAssumption, LenProperties DEF PlayerState
<1>6. PlayerStep(a)
  BY <1>1, <1>3, <1>4, <1>5 DEF PlayerStep, Passes
<1>7. SameBuffs(was, buffs[a.to]) /\ buffs' = [Consulted(a) EXCEPT ![a.to] = held]
  <2>1. Consulted(a) = [p \in All |-> Consulted(a)[p]]
    BY ConsultedSame
  <2> QED
    BY <1>2, <2>1, ConsultedSame DEF ExecuteDeath
<1> HIDE DEF was
<1>8. /\ HeldOK(held) /\ DOMAIN held = DOMAIN was \cup {"death_mark"}
      /\ IsActive(held["death_mark"])
      /\ \A j \in DOMAIN was : j # "death_mark" => held[j] = was[j]
  <2>1. NewBuff("death_mark", Nobody) \in BuffState /\ IsActive(NewBuff("death_mark", Nobody))
    BY NewBuffOK DEF Buffs
  <2>2. HeldOK(was) /\ "death_mark" \in Buffs
    BY <1>7 DEF SameBuffs, Buffs
  <2> QED
    BY <2>1, <2>2, WithOK, ZenonT(40)
<1> HIDE DEF held
<1>9. /\ BuffsOK' /\ buffs'[a.to] = held
      /\ \A q \in All : q # a.to => SameBuffs(buffs'[q], buffs[q])
  BY <1>2, <1>7, <1>8, BuffsChange
<1>10. Gained(held, buffs[a.to], "death_mark")
  BY <1>7, <1>8 DEF Gained, SameBuffs
<1>11. BuffStep(a)
  BY <1>1, <1>9, <1>10 DEF BuffStep, Passes
<1>12. QueueStep(a, rest)
  BY <1>1, NothingMore
<1> QED
  BY <1>6, <1>11, <1>12 DEF Outcome

LEMMA RemoveBuffOK ==
  ASSUME PlayersOK, BuffsOK, extended \in BOOLEAN, NEW a, Sound(a),
         NEW rest \in Seq(Action), ExecuteRemoveBuff(a, rest)
  PROVE  Outcome(a, rest)
<1> DEFINE was == Consulted(a)[a.to]
           held == Without(was, a.of)
<1>1. /\ a.do = "RemoveBuff" /\ Passes(a, rest, <<>>) /\ extended' = extended
      /\ player' = player
  BY DEF ExecuteRemoveBuff
<1>2. a.to \in All
  BY DEF Sound, Action
<1>3. PlayerStep(a) /\ QueueStep(a, rest)
  BY <1>1, PlayerStays, NothingMore
<1>4. SameBuffs(was, buffs[a.to]) /\ buffs' = [Consulted(a) EXCEPT ![a.to] = held]
  <2>1. Consulted(a) = [p \in All |-> Consulted(a)[p]]
    BY ConsultedSame
  <2> QED
    BY <1>2, <2>1, ConsultedSame DEF ExecuteRemoveBuff
<1> HIDE DEF was
<1>5. /\ HeldOK(held) /\ DOMAIN held = DOMAIN was \ {a.of}
      /\ \A j \in DOMAIN held : held[j] = was[j]
  BY <1>4, WithoutOK DEF SameBuffs
<1> HIDE DEF held
<1>6. /\ BuffsOK' /\ buffs'[a.to] = held
      /\ \A q \in All : q # a.to => SameBuffs(buffs'[q], buffs[q])
  BY <1>2, <1>4, <1>5, BuffsChange
<1>7. Lost(held, buffs[a.to], a.of)
  BY <1>4, <1>5 DEF Lost, SameBuffs
<1>8. BuffStep(a)
  BY <1>1, <1>6, <1>7 DEF BuffStep, Passes
<1> QED
  BY <1>3, <1>8 DEF Outcome

LEMMA ProlongedOK ==
  ASSUME NEW b \in BuffState, IsActive(b), NEW a, Sound(a), a.do = "AddBuff"
  PROVE  LET c == Prolonged(b, a)
         IN c \in BuffState /\ IsActive(c) /\ (a.from = Nobody => c.peer = b.peer)
<1> DEFINE left == IF b.left = -1 \/ Duration[a.of] = -1 THEN b.left ELSE b.left + Duration[a.of]
           b1 == [b EXCEPT !.left = left]
           peer == IF a.from = Nobody THEN b1.peer ELSE a.from
           b2 == [b1 EXCEPT !.peer = peer]
<1>1. Duration[a.of] \in {-1} \cup (Nat \ {0}) /\ a.from \in All \cup {Nobody}
  BY DEF Sound, Action, Duration, Buffs
<1>2. Prolonged(b, a) = b2
  BY DEF Prolonged
<1>3. left \in Nat \cup {-1} /\ (left > 0 \/ left = -1)
  BY <1>1 DEF IsActive, BuffState
<1> HIDE DEF left
<1>4. b1 \in BuffState /\ b1.left = left /\ b1.peer = b.peer
  BY <1>3 DEF BuffState
<1> HIDE DEF b1
<1>5. peer \in All \cup {Nobody} /\ (a.from = Nobody => peer = b.peer)
  BY <1>1, <1>4 DEF BuffState
<1> HIDE DEF peer
<1>6. b2 \in BuffState /\ b2.left = b1.left /\ b2.peer = peer
  BY <1>4, <1>5 DEF BuffState
<1> HIDE DEF b2
<1> QED
  BY <1>2, <1>3, <1>4, <1>5, <1>6 DEF IsActive

\* Again a buff its target has.
LEMMA ExtendOK ==
  ASSUME PlayersOK, BuffsOK, extended \in BOOLEAN, NEW a, Sound(a), a.do = "AddBuff",
         NEW rest \in Seq(Action), Extend(a, rest), player' = player
  PROVE  Outcome(a, rest)
<1> DEFINE was == Consulted(a)[a.to]
           b == was[a.of]
           held == [was EXCEPT ![a.of] = Prolonged(b, a)]
<1>1. Passes(a, rest, <<>>) /\ extended' = TRUE /\ Extends(a) /\ ~Stopped(a)
  BY DEF Extend, Passes
<1>2. a.to \in All /\ a.of \in Buffs
  BY DEF Sound, Action
<1>3. PlayerStep(a) /\ QueueStep(a, rest)
  BY <1>1, PlayerStays, NothingMore
<1>4. /\ Consulted(a) = [p \in All |-> Consulted(a)[p]] /\ SameBuffs(was, buffs[a.to])
  BY <1>2, ConsultedSame
<1>5. buffs' = [Consulted(a) EXCEPT ![a.to] = held]
  BY DEF Extend
<1> HIDE DEF was
<1>6. a.of \in DOMAIN was /\ b \in BuffState /\ IsActive(b) /\ b.peer = buffs[a.to][a.of].peer
  <2>1. a.of \in DOMAIN buffs[a.to] /\ IsActive(buffs[a.to][a.of])
    BY <1>1 DEF Extends, Has
  <2> QED
    BY <1>4, <2>1 DEF SameBuffs, HeldOK, IsActive
<1>7. LET c == Prolonged(b, a)
      IN c \in BuffState /\ IsActive(c) /\ (a.from = Nobody => c.peer = b.peer)
  BY <1>6, ProlongedOK
<1>8. /\ DOMAIN held = DOMAIN was /\ held[a.of] = Prolonged(b, a)
      /\ \A j \in DOMAIN was : j # a.of => held[j] = was[j]
      /\ held = [j \in DOMAIN was |-> held[j]]
  BY <1>4, <1>6 DEF SameBuffs, HeldOK
<1> HIDE DEF held, b
<1>9. HeldOK(was)
  BY <1>4 DEF SameBuffs
<1>10. HeldOK(held)
  BY <1>7, <1>8, <1>9 DEF HeldOK
<1>11. /\ BuffsOK' /\ buffs'[a.to] = held
       /\ \A q \in All : q # a.to => SameBuffs(buffs'[q], buffs[q])
  BY <1>2, <1>5, <1>10, BuffsChange
<1>12. Gained(held, buffs[a.to], a.of)
  BY <1>4, <1>6, <1>7, <1>8, <1>10 DEF Gained, SameBuffs
<1>13. BuffStep(a)
  BY <1>1, <1>6, <1>7, <1>8, <1>11, <1>12 DEF BuffStep
<1> QED
  BY <1>3, <1>13 DEF Outcome

\* A new buff, which may do something at once.
LEMMA ApplyOK ==
  ASSUME PlayersOK, BuffsOK, extended \in BOOLEAN, NEW a, Sound(a), a.do = "AddBuff",
         NEW rest \in Seq(Action), Apply(a, rest), player' = player
  PROVE  Outcome(a, rest)
<1> DEFINE was == Consulted(a)[a.to]
           b == NewBuff(a.of, a.from)
           held == With(was, a.of, b)
           now == IF extended THEN held ELSE Ripen(held, PostTriggered)
           next == IF extended THEN <<>> ELSE Marked(a, AfterTrigger(a))
<1>1. /\ Passes(a, rest, next) /\ extended' = extended /\ ~Extends(a) /\ ~Stopped(a)
      /\ buffs' = [Consulted(a) EXCEPT ![a.to] = now]
  BY DEF Apply, Passes
<1>2. a.to \in All /\ a.of \in Buffs /\ a.from \in All \cup {Nobody}
  BY DEF Sound, Action
<1>3. PlayerStep(a)
  BY PlayerStays
<1>4. SameBuffs(was, buffs[a.to])
  BY <1>2, ConsultedSame
<1> HIDE DEF was
<1>5. /\ HeldOK(held) /\ DOMAIN held = DOMAIN was \cup {a.of} /\ IsActive(held[a.of])
      /\ held[a.of].peer = a.from
      /\ \A j \in DOMAIN was : j # a.of => held[j] = was[j]
  <2>1. b \in BuffState /\ IsActive(b) /\ b.peer = a.from
    BY <1>2, NewBuffOK DEF NewBuff
  <2> HIDE DEF b
  <2>2. HeldOK(was)
    BY <1>4 DEF SameBuffs
  <2>3. /\ HeldOK(held) /\ DOMAIN held = DOMAIN was \cup {a.of}
        /\ held[a.of] = b
        /\ \A j \in DOMAIN was : j # a.of => held[j] = was[j]
    <3> DEFINE k == a.of
    <3>1. k \in Buffs
      BY <1>2
    <3> HIDE DEF k
    <3>2. LET h == With(was, k, b)
          IN /\ HeldOK(h) /\ DOMAIN h = DOMAIN was \cup {k}
             /\ h[k] = b /\ \A j \in DOMAIN was : j # k => h[j] = was[j]
      BY <2>1, <2>2, <3>1, WithOK
    <3> QED
      BY <3>2 DEF k
  <2> HIDE DEF held
  <2> QED
    BY <2>1, <2>3
<1> HIDE DEF held
<1>6. /\ HeldOK(now) /\ DOMAIN now = DOMAIN held
      /\ \A j \in DOMAIN held : now[j].left = held[j].left /\ now[j].peer = held[j].peer
  BY <1>5, RipenSame DEF SameBuffs
<1>7. /\ BuffsOK' /\ buffs'[a.to] = now
      /\ \A q \in All : q # a.to => SameBuffs(buffs'[q], buffs[q])
  <2> HIDE DEF now
  <2> QED
    BY <1>1, <1>2, <1>6, BuffsChange
<1> HIDE DEF now
<1>8. Gained(now, buffs[a.to], a.of)
  BY <1>4, <1>5, <1>6 DEF Gained, SameBuffs, IsActive
<1>9. BuffStep(a)
  <2>1. now[a.of].peer = a.from
    BY <1>5, <1>6
  <2> QED
    BY <1>1, <1>7, <1>8, <2>1 DEF BuffStep
<1>10. Effect(a, next) /\ Len(next) \in {0, 1} /\ next \in Seq(Action)
  BY <1>1, AfterTriggerOK, EffectOfNone DEF Effect
<1> HIDE DEF next
<1>11. QueueStep(a, rest)
  <2>1. ASSUME NEW x \in ToSet(next) PROVE x.do # "Death" /\ Len(next) = 1
    <3>1. Caused(a, x)
      BY <1>10, <2>1 DEF Effect
    <3>2. x.do # "Death"
      BY <3>1 DEF Caused
    <3>3. CASE Len(next) = 0
      BY <1>10, <2>1, <3>3, NoneSet, EmptySeq
    <3> QED
      BY <1>10, <3>2, <3>3
  <2> QED
    BY <1>1, <1>10, <2>1, PassesOK
<1> QED
  BY <1>3, <1>9, <1>11 DEF Outcome

LEMMA AddBuffOK ==
  ASSUME PlayersOK, BuffsOK, extended \in BOOLEAN, NEW a, Sound(a),
         NEW rest \in Seq(Action), ExecuteAddBuff(a, rest)
  PROVE  Outcome(a, rest)
  BY ExtendOK, ApplyOK DEF ExecuteAddBuff

LEMMA OneCaused ==
  ASSUME NEW a, NEW x, Caused(a, x), x.do # "Death", x.src # "fearless"
  PROVE  Effect(a, <<x>>) /\ \A y \in ToSet(<<x>>) : y.do # "Death" /\ y.src # "fearless"
<1>1. x \in Action
  BY DEF Caused, Sound
<1> QED
  BY <1>1, EffectOfOne, SingleSet

\* What the actions that only announce another one lead to.
LEMMA LeadsOK ==
  ASSUME NEW a, Sound(a), NEW next \in Leads(a)
  PROVE  /\ Effect(a, next)
         /\ \A x \in ToSet(next) : x.do # "Death" /\ x.src # "fearless"
         /\ a.do \in {"DrawItem", "DrawBuff", "FellDown", "BossAttack", "BossSkill",
                      "RollDice", "DrawEvent", "DiceUpgrade"}
<1>1. a.to \in All /\ a.n \in Int
  BY DEF Sound, Action
<1>2. CASE a.do = "DrawItem"
  <2>1. PICK i \in ItemPool : next = <<Act("AddItem", a.to, 0, i)>>
    BY <1>2 DEF Leads, ItemDrawn, Announces
  <2> DEFINE x == Act("AddItem", a.to, 0, i)
  <2>2. i \in Items
    BY PoolAssumption
  <2>3. x \in Action /\ x.do = "AddItem" /\ x.of = i /\ x.src = "none"
    BY <1>1, <2>2 DEF Act, Action, Sources, Kinds, Queueable
  <2>4. Caused(a, x)
    BY <1>2, <2>2, <2>3 DEF Caused, Sound
  <2> QED
    <3>1. next = <<x>>
      BY <2>1
    <3> HIDE DEF x
    <3> QED
      BY <1>2, <2>3, <2>4, <3>1, OneCaused
<1>3. CASE a.do = "DrawBuff"
  <2>1. PICK k \in BuffPool : next = <<AddBuff(a.to, k)>>
    BY <1>3 DEF Leads, BuffDrawn, Announces
  <2> DEFINE x == AddBuff(a.to, k)
  <2>2. k \in Buffs
    BY PoolAssumption
  <2>3. x \in Action /\ x.do = "AddBuff" /\ x.of = k /\ x.src = "none" /\ x.from = Nobody
        /\ x.of = k
    BY <1>1, <2>2 DEF AddBuff, Act, Action, Sources, Kinds, Queueable
  <2>4. Caused(a, x)
    BY <1>3, <2>2, <2>3 DEF Caused, Sound
  <2> QED
    <3>1. next = <<x>>
      BY <2>1
    <3> HIDE DEF x
    <3> QED
      BY <1>3, <2>3, <2>4, <3>1, OneCaused
<1>4. CASE a.do \in {"FellDown", "BossAttack"}
  <2>1. PICK x \in {Damage(a.to, a.n), Piercing(a.to, a.n)} : next = <<x>>
    BY <1>4 DEF Leads, FallHurts, AttackHurts, Announces
  <2>2. a.n \in Nat
    BY <1>1, <1>4 DEF Sound
  <2>3. Caused(a, x)
    BY <1>1, <1>4, <2>2, DamageCaused
  <2>4. x.do = "Damage" /\ x.src = "none"
    <3>1. Damage(a.to, a.n) \in Action /\ Damage(a.to, a.n).do = "Damage"
          /\ Damage(a.to, a.n).src = "none"
      BY <1>1 DEF Damage, Act, Action, Sources, Kinds, Queueable
    <3>2. Piercing(a.to, a.n).do = "Damage" /\ Piercing(a.to, a.n).src = "none"
      BY <3>1 DEF Piercing, Action
    <3> QED
      BY <3>1, <3>2
  <2> QED
    <3> QED
      BY <1>4, <2>1, <2>3, <2>4, OneCaused
<1>5. CASE Announces(a)
  BY <1>5, EffectOfNone, NoneSet DEF Leads, Announces
<1>6. a.do \in {"DrawItem", "DrawBuff", "FellDown", "BossAttack"} \/ Announces(a)
  BY DEF Leads
<1> QED
  BY <1>2, <1>3, <1>4, <1>5, <1>6 DEF Announces

LEMMA OtherOK ==
  ASSUME PlayersOK, BuffsOK, extended \in BOOLEAN, NEW a, Sound(a),
         NEW rest \in Seq(Action), ExecuteOther(a, rest)
  PROVE  Outcome(a, rest)
<1>1. PICK next \in Leads(a) : Passes(a, rest, next) /\ buffs' = Consulted(a)
                               /\ player' = player /\ extended' = extended
  BY DEF ExecuteOther
<1>2. /\ Effect(a, next)
      /\ \A x \in ToSet(next) : x.do # "Death" /\ x.src # "fearless"
      /\ a.do \in {"DrawItem", "DrawBuff", "FellDown", "BossAttack", "BossSkill",
                   "RollDice", "DrawEvent", "DiceUpgrade"}
  BY LeadsOK
<1>3. PlayerStep(a) /\ BuffStep(a)
  BY <1>1, <1>2, PlayerStays, BuffsStay
<1>4. QueueStep(a, rest)
  BY <1>1, <1>2, PassesOK
<1> QED
  BY <1>3, <1>4 DEF Outcome

\* Whatever is executed keeps to what its kind allows.
THEOREM RunOK ==
  ASSUME PlayersOK, BuffsOK, extended \in BOOLEAN, NEW a, Sound(a),
         NEW rest \in Seq(Action), Run(a, rest)
  PROVE  Outcome(a, rest)
<1>1. CASE Refuse(a, rest)
  BY <1>1, RefuseOK
<1>2. CASE ExecuteDamage(a, rest)
  BY <1>2, DamageOK
<1>3. CASE ExecuteBossDamage(a, rest)
  BY <1>3, BossDamageOK
<1>4. CASE ExecuteHeal(a, rest)
  BY <1>4, HealOK
<1>5. CASE ExecuteModifyLP(a, rest)
  BY <1>5, ModifyLPOK
<1>6. CASE ExecuteMove(a, rest) \/ ExecuteTeleport(a, rest)
  BY <1>6, MoveOK
<1>7. CASE ExecuteRespawn(a, rest)
  BY <1>7, RespawnOK
<1>8. CASE ExecuteDeath(a, rest)
  BY <1>8, DeathOK
<1>9. CASE ExecuteAddBuff(a, rest)
  BY <1>9, AddBuffOK
<1>10. CASE ExecuteRemoveBuff(a, rest)
  BY <1>10, RemoveBuffOK
<1>11. CASE ExecuteAddItem(a, rest)
  BY <1>11, AddItemOK
<1>12. CASE ExecuteRemoveItem(a, rest)
  BY <1>12, RemoveItemOK
<1>13. CASE ExecuteOther(a, rest)
  BY <1>13, OtherOK
<1> QED
  BY <1>1, <1>2, <1>3, <1>4, <1>5, <1>6, <1>7, <1>8, <1>9, <1>10, <1>11, <1>12, <1>13 DEF Run

-----------------------------------------------------------------------------
(* What is stopped and what is not *)

\* The mark keeps everything off but a respawn and its own removal.
LEMMA MarkStops ==
  ASSUME NEW a, Sound(a), Has(a.to, "death_mark"), DeathMarkBlocks(a)
  PROVE  Stopped(a)
<1>1. "death_mark" \in Blockers(a.to, a)
  BY DEF Has, Blockers, Interceptors, Priority, Blocks
<1>2. a.to \in ToSet(Asked(a))
  BY AskedOK
<1> QED
  BY <1>1, <1>2 DEF Stopped, Intercepted

\* Fearlessness keeps off what hurts or heals, but for the loss it brings itself.
LEMMA FearlessStops ==
  ASSUME NEW a, Sound(a), Has(a.to, "fearless"), FearlessBlocks(a.to, a)
  PROVE  Stopped(a)
<1>1. "fearless" \in Blockers(a.to, a)
  BY DEF Has, Blockers, Interceptors, Priority, Blocks
<1>2. a.to \in ToSet(Asked(a))
  BY AskedOK
<1> QED
  BY <1>1, <1>2 DEF Stopped, Intercepted

\* Robbed luck keeps off every gain that is not itself the robbery of another's.
LEMMA RobberyStops ==
  ASSUME NEW a, Sound(a), Has(a.to, "rob_luck"), RobLuckTakes(a.to, a)
  PROVE  Stopped(a)
<1>1. "rob_luck" \in Blockers(a.to, a)
  BY DEF Has, Blockers, Interceptors, Priority, Blocks
<1>2. a.to \in ToSet(Asked(a))
  BY AskedOK
<1> QED
  BY <1>1, <1>2 DEF Stopped, Intercepted

\* Nothing but the mark stops these.
LEMMA OnlyMarkStops ==
  ASSUME NEW a, Sound(a), Stopped(a),
         a.do \in {"Death", "RemoveBuff", "Respawn", "Move", "Teleport"}
  PROVE  Has(a.to, "death_mark") /\ DeathMarkBlocks(a)
<1>1. Intercepted(a)
  BY DEF Stopped, Hides
<1>2. Asked(a) = <<a.to>>
  BY DEF Asked, ActorPlayers
<1>3. Blockers(a.to, a) # {}
  <2>1. a.to \in All
    BY DEF Sound, Action
  <2> QED
    BY <1>1, <1>2, <2>1, SingleSet DEF Intercepted
<1>4. PICK k \in Blockers(a.to, a) : TRUE
  BY <1>3
<1>5. k \in DOMAIN buffs[a.to] /\ Blocks(k, a.to, a)
  BY <1>4 DEF Blockers, Interceptors
<1> QED
  BY <1>5 DEF Blocks, FearlessBlocks, RobLuckTakes, Gains, Has

\* A respawn always takes place.
LEMMA RespawnPasses ==
  ASSUME NEW a, Sound(a), a.do = "Respawn" PROVE ~Stopped(a)
  BY OnlyMarkStops DEF DeathMarkBlocks

-----------------------------------------------------------------------------
(* What events, items and skills ask for *)

\* What the turn asks of the queue: nothing derived, no death and no blow against
\* the Boss; who changes places goes where somebody is; and the buffs of the skills
\* are given by the skills only.
Wanted(x) ==
  /\ Sound(x) /\ x.src = "none"
  /\ x.do \in Queueable \ {"Death", "BossDamage"}
  /\ x.do = "Teleport" => \E p \in All : x.n = player[p].pos
  /\ x.do = "AddBuff" => x.of \notin {"dominance", "rob_luck"}

Wish(s) == s \in Seq(Action) /\ \A x \in ToSet(s) : Wanted(x)

LEMMA WishNone == Wish(<<>>)
  BY NoneSet DEF Wish

LEMMA WishOne == ASSUME NEW x, Wanted(x) PROVE Wish(<<x>>)
<1>1. x \in Action
  BY DEF Wanted, Sound
<1> QED
  BY <1>1, SingleSet DEF Wish

LEMMA WishTwo == ASSUME NEW x, Wanted(x), NEW y, Wanted(y) PROVE Wish(<<x, y>>)
<1>1. x \in Action /\ y \in Action
  BY DEF Wanted, Sound
<1> QED
  BY <1>1, PairSet DEF Wish

\* What is asked for plainly.
LEMMA ActWanted ==
  ASSUME NEW do \in {"Heal", "ModifyLP", "Damage", "AddBuff", "RemoveItem", "DrawItem",
                     "DrawBuff", "DiceUpgrade", "Teleport"},
         NEW to \in All, NEW n \in Int, NEW of \in Buffs \cup Items \cup {"none"},
         do \in {"Heal", "Damage"} => n >= 0,
         do = "AddBuff" => of \in Buffs \ {"dominance", "rob_luck"},
         do = "Teleport" => n \in Cells /\ \E p \in All : n = player[p].pos
  PROVE  Wanted(Act(do, to, n, of))
<1> DEFINE x == Act(do, to, n, of)
<1>1. do \in Kinds
  BY DEF Kinds, Queueable
<1>2. /\ x \in Action
      /\ x.do = do /\ x.to = to /\ x.n = n /\ x.of = of
      /\ x.src = "none" /\ x.from = Nobody /\ x.pierce = FALSE /\ x.marks = {}
  BY <1>1, ActSound
<1> HIDE DEF x
<1>3. Sound(x)
  BY <1>2 DEF Sound
<1>4. x.do \in Queueable \ {"Death", "BossDamage"}
  BY <1>2 DEF Queueable
<1> QED
  BY <1>2, <1>3, <1>4 DEF Wanted, x

\* The blow with the crimson blade: who deals it bleeds, too.
LEMMA BladeWanted ==
  ASSUME NEW p \in All, NEW t \in All, NEW n \in Nat
  PROVE  Wanted(Piercing(p, n)) /\ Wanted(DamageFrom(t, n, p))
<1>1. LET x == Damage(p, n)
      IN x \in Action /\ x.do = "Damage" /\ x.src = "none" /\ x.n = n
  BY DEF Damage, Act, Action, Sources, Kinds, Queueable
<1>2. LET x == Piercing(p, n)
      IN x \in Action /\ x.do = "Damage" /\ x.src = "none" /\ x.n = n
  BY <1>1 DEF Piercing, Action
<1>3. LET x == Damage(t, n)
      IN x \in Action /\ x.do = "Damage" /\ x.src = "none" /\ x.n = n
  BY DEF Damage, Act, Action, Sources, Kinds, Queueable
<1>4. LET x == DamageFrom(t, n, p)
      IN x \in Action /\ x.do = "Damage" /\ x.src = "none" /\ x.n = n
  BY <1>3 DEF DamageFrom, Action
<1> QED
  BY <1>2, <1>4 DEF Wanted, Sound, Queueable

\* The two ends of a link.
LEMMA LinkWanted ==
  ASSUME NEW p \in All, NEW t \in All, NEW k \in Links
  PROVE  Wanted(LinkBuff(p, k, t))
<1>1. LET x == AddBuff(p, k)
      IN x \in Action /\ x.do = "AddBuff" /\ x.src = "none" /\ x.of = k
  BY DEF AddBuff, Act, Action, Sources, Kinds, Queueable, Links, Buffs
<1>2. LET x == LinkBuff(p, k, t)
      IN x \in Action /\ x.do = "AddBuff" /\ x.src = "none" /\ x.of = k
  BY <1>1 DEF LinkBuff, Action
<1> QED
  BY <1>2 DEF Wanted, Sound, Queueable, Links, Buffs

\* A player and another change places.
LEMMA SwapWanted ==
  ASSUME PlayersOK, NEW p \in All, NEW next \in Swaps(p)
  PROVE  Wish(next)
<1>1. PICK q \in SwapPartners(p) :
        next = <<Act("Teleport", p, player[q].pos, "none"), Act("Teleport", q, player[p].pos, "none")>>
  BY DEF Swaps
<1>2. q \in All
  BY DEF SwapPartners, All
<1>3. player[p].pos \in Cells /\ player[q].pos \in Cells
  BY <1>2 DEF PlayersOK, PlayerState
<1>4. player[p].pos \in Int /\ player[q].pos \in Int
  BY <1>3, LengthAssumption DEF Cells
<1>5. /\ Wanted(Act("Teleport", p, player[q].pos, "none"))
      /\ Wanted(Act("Teleport", q, player[p].pos, "none"))
  BY <1>2, <1>3, <1>4, ActWanted
<1> QED
  BY <1>1, <1>5, WishTwo

LEMMA EventEffectsOK ==
  ASSUME PlayersOK, NEW e \in Events, NEW p \in Users, NEW next \in EventEffects(e, p)
  PROVE  Wish(next)
<1>1. p \in All /\ player[p] \in PlayerState
  BY DEF All, PlayersOK
<1>2. player[p].hp \in Nat /\ player[p].bag \in Seq(Items)
  BY <1>1 DEF PlayerState
<1>3. CASE e = "herb"
  <2>1. next = <<Act("Heal", p, 1, "none")>>
    BY <1>3 DEF EventEffects, Heal
  <2> QED
    BY <1>1, <2>1, ActWanted, WishOne
<1>4. CASE e = "lucky_bubble"
  <2>1. next = <<Act("ModifyLP", p, 1, "none")>>
    BY <1>4 DEF EventEffects, ModifyLP
  <2> QED
    BY <1>1, <2>1, ActWanted, WishOne
<1>5. CASE e = "relic"
  <2>1. next = <<Act("DrawItem", p, 0, "none")>>
    BY <1>5 DEF EventEffects
  <2> QED
    BY <1>1, <2>1, ActWanted, WishOne
<1>6. CASE e \in {"divine_bless", "hidden_buff", "skull_gaze", "lost_way"}
  <2>1. PICK k \in {"divine", "hidden", "curse", "lost"} : next = <<Act("AddBuff", p, 0, k)>>
    BY <1>6 DEF EventEffects, AddBuff
  <2>2. k \in Buffs \ {"dominance", "rob_luck"}
    BY DEF Buffs
  <2> QED
    BY <1>1, <2>1, <2>2, ActWanted, WishOne
<1>7. CASE e = "exchange"
  <2>1. next = <<>> \/ next \in Swaps(p)
    BY <1>7 DEF EventEffects
  <2> QED
    BY <1>1, <2>1, SwapWanted, WishNone
<1>8. CASE e = "taste_test"
  <2>1. next = <<Act("DrawBuff", p, 0, "none")>>
    BY <1>8 DEF EventEffects
  <2> QED
    BY <1>1, <2>1, ActWanted, WishOne
<1>9. CASE e \in {"mosquito", "ghost_hit"}
  <2>1. next = <<Act("Damage", p, 1, "none")>>
    BY <1>9 DEF EventEffects, Damage
  <2> QED
    BY <1>1, <2>1, ActWanted, WishOne
<1>10. CASE e = "dog_poop"
  <2>1. next = <<Act("ModifyLP", p, -1, "none")>>
    BY <1>10 DEF EventEffects, ModifyLP
  <2> QED
    BY <1>1, <2>1, ActWanted, WishOne
<1>11. CASE e = "wind_gust"
  <2>1. CASE player[p].bag = <<>>
    <3>1. next = <<>>
      BY <1>11, <2>1 DEF EventEffects
    <3> QED
      BY <3>1, WishNone
  <2>2. CASE player[p].bag # <<>>
    <3>1. next = <<Act("RemoveItem", p, 0, Head(player[p].bag))>>
      BY <1>11, <2>2 DEF EventEffects
    <3>2. Head(player[p].bag) \in Items
      BY <1>2, <2>2, HeadTailProperties
    <3> QED
      BY <1>1, <3>1, <3>2, ActWanted, WishOne
  <2> QED
    BY <2>1, <2>2
<1>12. CASE e = "thunder"
  <2>1. next = <<>> \/ next = <<Act("Damage", p, player[p].hp, "none")>>
    BY <1>12 DEF EventEffects, Damage
  <2> QED
    BY <1>1, <1>2, <2>1, ActWanted, WishOne, WishNone
<1> QED
  BY <1>3, <1>4, <1>5, <1>6, <1>7, <1>8, <1>9, <1>10, <1>11, <1>12 DEF Events

LEMMA ItemEffectOK ==
  ASSUME PlayersOK, NEW i \in Items, NEW p \in Users, NEW t \in All \cup {Nobody},
         t = Nobody => i \notin NeedsTarget
  PROVE  Wish(ItemEffect(i, p, t))
<1>1. p \in All /\ player[p] \in PlayerState
  BY DEF All, PlayersOK
<1>2. player[p].hp \in Nat
  BY <1>1 DEF PlayerState
<1>3. CASE i \in DOMAIN GivenBuff
  <2>1. GivenBuff[i] \in Buffs \ {"dominance", "rob_luck"}
    BY <1>3 DEF GivenBuff, Buffs
  <2> DEFINE q == IF t = Nobody THEN p ELSE t
  <2>2. q \in All /\ ItemEffect(i, p, t) = <<Act("AddBuff", q, 0, GivenBuff[i])>>
    <3>1. i \notin {"any_door", "dice_upgrade", "magic_flute", "cupid_arrow", "crimson_blade"}
      BY <1>3 DEF GivenBuff
    <3>2. ItemEffect(i, p, t) = <<AddBuff(q, GivenBuff[i])>>
      BY <1>3, <3>1 DEF ItemEffect
    <3> QED
      BY <1>1, <3>2 DEF AddBuff
  <2> HIDE DEF q
  <2> QED
    BY <2>1, <2>2, ActWanted, WishOne
<1>4. CASE i = "any_door"
  <2>1. i \notin DOMAIN GivenBuff
    BY <1>4 DEF GivenBuff
  <2>2. CASE t = Nobody
    BY <1>4, <2>1, <2>2, WishNone DEF ItemEffect
  <2>3. CASE t # Nobody
    <3>1. ItemEffect(i, p, t) = <<Act("Teleport", p, player[t].pos, "none")>>
      BY <1>4, <2>1, <2>3 DEF ItemEffect
    <3>2. player[t].pos \in Cells /\ t \in All
      BY <2>3 DEF PlayersOK, PlayerState
    <3>3. player[t].pos \in Int
      BY <3>2, LengthAssumption DEF Cells
    <3> QED
      BY <1>1, <3>1, <3>2, <3>3, ActWanted, WishOne
  <2> QED
    BY <2>2, <2>3
<1>5. CASE i = "dice_upgrade"
  <2>1. ItemEffect(i, p, t) = <<Act("DiceUpgrade", p, 0, "none")>>
    BY <1>5 DEF ItemEffect, GivenBuff
  <2> QED
    BY <1>1, <2>1, ActWanted, WishOne
<1>6. CASE i \in {"magic_flute", "cupid_arrow"}
  <2>1. t \in All
    BY <1>6 DEF NeedsTarget
  <2>2. PICK k \in Links : ItemEffect(i, p, t) = <<LinkBuff(p, k, t), LinkBuff(t, k, p)>>
    BY <1>6 DEF ItemEffect, GivenBuff, Links
  <2> QED
    BY <1>1, <2>1, <2>2, LinkWanted, WishTwo
<1>7. CASE i = "crimson_blade"
  <2>1. t \in All
    BY <1>7 DEF NeedsTarget
  <2> DEFINE n == player[p].hp \div 2
  <2>2. n \in Nat
    BY <1>2
  <2>3. ItemEffect(i, p, t) = <<>> \/ ItemEffect(i, p, t) = <<Piercing(p, n), DamageFrom(t, n, p)>>
    BY <1>7 DEF ItemEffect, GivenBuff
  <2> HIDE DEF n
  <2> QED
    BY <1>1, <2>1, <2>2, <2>3, BladeWanted, WishTwo, WishNone
<1>8. Items = {"any_door", "dice_upgrade", "magic_flute", "cupid_arrow", "crimson_blade"}
                \cup DOMAIN GivenBuff
  BY DEF Items, GivenBuff
<1> QED
  BY <1>3, <1>4, <1>5, <1>6, <1>7, <1>8

\* The same is asked for each of several players, in some order.
LEMMA WishEach ==
  ASSUME NEW prey \in SUBSET Users, NEW o \in SetToSeqs(prey),
         NEW do \in {"Damage", "AddBuff"}, NEW n \in Nat, NEW of \in Buffs \cup {"none"},
         do = "AddBuff" => of \in Buffs \ {"dominance", "rob_luck"}
  PROVE  Wish([i \in DOMAIN o |-> Act(do, o[i], n, of)])
<1> DEFINE N == Cardinality(prey)
           s == [i \in DOMAIN o |-> Act(do, o[i], n, of)]
<1>1. N \in Nat
  BY PlayerAssumption, FS_Subset, FS_CardinalityType
<1>2. o \in [1 .. N -> prey]
  BY DEF SetToSeqs
<1> HIDE DEF N
<1>3. ASSUME NEW i \in 1 .. N PROVE Wanted(Act(do, o[i], n, of))
  <2>1. o[i] \in All /\ n \in Int
    BY <1>2, <1>3 DEF All
  <2> QED
    BY <2>1, ActWanted
<1>4. \A i \in 1 .. N : Act(do, o[i], n, of) \in Action
  BY <1>3 DEF Wanted, Sound
<1>5. s = [i \in 1 .. N |-> Act(do, o[i], n, of)]
  BY <1>2
<1>6. s \in Seq(Action)
  BY <1>1, <1>4, <1>5, IsASeq
<1>7. \A x \in ToSet(s) : Wanted(x)
  BY <1>3, <1>5 DEF ToSet
<1> QED
  BY <1>6, <1>7 DEF Wish

LEMMA SkillEffectsOK ==
  ASSUME NEW s \in Skills, NEW prey \in SUBSET Users, NEW next \in SkillEffects(s, prey)
  PROVE  Wish(next)
<1>1. Boss \in All
  BY DEF All
<1>2. CASE s = "thunder"
  <2>1. PICK o \in SetToSeqs(prey) : next = [i \in DOMAIN o |-> Act("Damage", o[i], 3, "none")]
    BY <1>2 DEF SkillEffects, Damage
  <2> QED
    BY <2>1, WishEach
<1>3. CASE s = "curse"
  <2>1. PICK o \in SetToSeqs(prey) : next = [i \in DOMAIN o |-> Act("AddBuff", o[i], 0, "curse")]
    BY <1>3 DEF SkillEffects, AddBuff
  <2> QED
    BY <2>1, WishEach DEF Buffs
<1>4. CASE s = "rest"
  <2>1. next = <<>> \/ next = <<Act("Heal", Boss, 20, "none")>>
    BY <1>4 DEF SkillEffects, Heal
  <2> QED
    BY <1>1, <2>1, ActWanted, WishOne, WishNone
<1>5. CASE s = "thorns"
  <2>1. next = <<Act("AddBuff", Boss, 0, "thorns")>>
    BY <1>5 DEF SkillEffects, AddBuff
  <2> QED
    BY <1>1, <2>1, ActWanted, WishOne DEF Buffs
<1> QED
  BY <1>2, <1>3, <1>4, <1>5 DEF Skills

-----------------------------------------------------------------------------
(* How many executions an action can lead to *)

\* Of a gain, which is robbed once, shared once and doubled once, in whichever order
\* the buffs that do it are met.
GainWeight(a) ==
  LET shared == "eternal" \in a.marks
  IN IF a.src = "rob_luck" THEN (IF shared THEN 1 ELSE 4)
     ELSE IF a.src = "dominance" THEN (IF shared THEN 2 ELSE 5)
     ELSE (IF shared THEN 3 ELSE 9)

IsGain(a) == Gains(a) \/ a.do = "AddItem"

BuffWeight == [k \in Buffs |-> CASE k = "divine" -> 10 [] k = "fearless" -> 5
                                 [] k = "curse" -> 3 [] OTHER -> 1]

LossWeight(a) ==
  IF "sinking" \in a.marks THEN 2 ELSE IF a.from = Nobody THEN 4 ELSE 6

\* At most so many actions are executed because of "a", itself included.
Weight(a) ==
  CASE IsGain(a) -> GainWeight(a)
    [] a.do = "ModifyLP" /\ ~Gains(a) -> IF "sinking" \in a.marks THEN 1 ELSE 2
    [] a.do = "Damage" -> LossWeight(a)
    [] a.do = "BossDamage" -> IF a.src = "dominance" THEN 5 ELSE 10
    [] a.do = "AddBuff" -> BuffWeight[a.of]
    [] a.do = "RemoveBuff" -> IF a.of = "curse" THEN 10 ELSE IF a.of = "divine" THEN 3 ELSE 1
    [] a.do = "DrawItem" -> 10
    [] a.do = "DrawBuff" -> 11
    [] a.do \in {"FellDown", "BossAttack"} -> 5
    [] OTHER -> 1

Weights == 1 .. 11

\* The weights of a queue, added up: as many tokens for each action as it weighs.
Tokens(s) == {u \in (1 .. Len(s)) \X Weights : u[2] <= Weight(s[u[1]])}

Fuel(s) == Cardinality(Tokens(s))

LEMMA TokenIs ==
  ASSUME NEW s, NEW i, NEW j
  PROVE  <<i, j>> \in Tokens(s) <=> i \in 1 .. Len(s) /\ j \in Weights /\ j <= Weight(s[i])
<1> DEFINE S == 1 .. Len(s)
<1> HIDE DEF S
<1>1. <<i, j>> \in {u \in S \X Weights : u[2] <= Weight(s[u[1]])} <=>
        i \in S /\ j \in Weights /\ j <= Weight(s[i])
  OBVIOUS
<1> QED
  BY <1>1 DEF Tokens, S

LEMMA TokenPair ==
  ASSUME NEW s, NEW u \in Tokens(s)
  PROVE  /\ u = <<u[1], u[2]>> /\ u[1] \in 1 .. Len(s) /\ u[2] \in Weights
         /\ u[2] <= Weight(s[u[1]])
<1> DEFINE S == 1 .. Len(s)
<1> HIDE DEF S
<1>1. u \in S \X Weights /\ u[2] <= Weight(s[u[1]])
  BY DEF Tokens, S
<1>2. u = <<u[1], u[2]>> /\ u[1] \in S /\ u[2] \in Weights
  BY <1>1
<1> QED
  BY <1>1, <1>2 DEF S

LEMMA WeightIs ==
  ASSUME NEW a, Sound(a)
  PROVE  /\ IsGain(a) => Weight(a) = GainWeight(a)
         /\ a.do = "ModifyLP" /\ ~Gains(a) => Weight(a) = IF "sinking" \in a.marks THEN 1 ELSE 2
         /\ a.do = "Damage" => Weight(a) = LossWeight(a)
         /\ a.do = "BossDamage" => Weight(a) = IF a.src = "dominance" THEN 5 ELSE 10
         /\ a.do = "AddBuff" => Weight(a) = BuffWeight[a.of]
         /\ a.do = "RemoveBuff" =>
              Weight(a) = IF a.of = "curse" THEN 10 ELSE IF a.of = "divine" THEN 3 ELSE 1
         /\ a.do = "DrawItem" => Weight(a) = 10
         /\ a.do = "DrawBuff" => Weight(a) = 11
         /\ a.do \in {"FellDown", "BossAttack"} => Weight(a) = 5
         /\ a.do \in {"Heal", "Teleport", "Death", "RemoveItem", "DiceUpgrade", "Move", "Respawn",
                      "BossSkill", "RollDice", "DrawEvent"} /\ ~IsGain(a) => Weight(a) = 1
         /\ Weight(a) \in 1 .. 11
<1>1. a.do = "AddBuff" => BuffWeight[a.of] \in 1 .. 10
  BY DEF Sound, BuffWeight
<1>2. GainWeight(a) \in 1 .. 9 /\ LossWeight(a) \in 1 .. 6
  BY DEF GainWeight, LossWeight
<1>3. a.do \in Kinds
  BY DEF Sound, Action
<1> QED
  BY <1>1, <1>2, <1>3 DEF Weight, IsGain, Gains, Kinds, Queueable

LEMMA Counting == ASSUME NEW n \in Nat PROVE IsFiniteSet(1 .. n) /\ Cardinality(1 .. n) = n
<1>1. /\ IsFiniteSet(1 .. n)
      /\ Cardinality(1 .. n) = IF 1 > n THEN 0 ELSE n - 1 + 1
  <2>1. 1 \in Int /\ n \in Int
    OBVIOUS
  <2> QED
    BY <2>1, FS_Interval, Zenon
<1> QED
  BY <1>1

LEMMA WeightsAre == IsFiniteSet(Weights) /\ \A j : j \in Weights <=> j \in 1 .. 11
<1>1. IsFiniteSet(1 .. 11)
  <2>1. 11 \in Nat
    OBVIOUS
  <2> QED
    BY <2>1, Counting, Zenon
<1> QED
  BY <1>1 DEF Weights

LEMMA TokensFinite ==
  ASSUME NEW s, Len(s) \in Nat PROVE IsFiniteSet(Tokens(s)) /\ Fuel(s) \in Nat
<1> DEFINE S == 1 .. Len(s)
<1>1. IsFiniteSet(S) /\ IsFiniteSet(Weights)
  BY FS_Interval, WeightsAre
<1>2. Tokens(s) \in SUBSET (S \X Weights)
  BY DEF Tokens
<1> HIDE DEF S
<1>3. IsFiniteSet(S \X Weights)
  BY <1>1, FS_Product
<1> QED
  BY <1>2, <1>3, FS_Subset, FS_CardinalityType DEF Fuel

LEMMA FuelNone == Fuel(<<>>) = 0
<1>1. Tokens(<<>>) = {}
  <2>1. 1 .. Len(<<>>) = {}
    OBVIOUS
  <2> QED
    BY <2>1, TokenPair
<1> QED
  BY <1>1, FS_EmptySet DEF Fuel

LEMMA FuelOne ==
  ASSUME NEW a, Sound(a) PROVE Fuel(<<a>>) = Weight(a) /\ <<a>> \in Seq(Action)
<1> DEFINE S == 1 .. Weight(a)
           T == Tokens(<<a>>)
           f == [n \in S |-> <<1, n>>]
<1>1. Weight(a) \in 1 .. 11
  BY WeightIs
<1>2. Len(<<a>>) = 1 /\ <<a>>[1] = a
  OBVIOUS
<1>3. f \in [S -> T]
  <2>1. \A n \in S : n \in 1 .. 11
    BY <1>1
  <2>2. \A n \in S : n <= Weight(a)
    BY <1>1
  <2> QED
    BY <1>2, <2>1, <2>2, TokenIs, WeightsAre
<1>4. ASSUME NEW u \in T PROVE \E n \in S : f[n] = u
  <2>1. u = <<u[1], u[2]>> /\ u[1] \in 1 .. 1 /\ u[2] \in 1 .. 11 /\ u[2] <= Weight(<<a>>[u[1]])
    BY <1>2, TokenPair, WeightsAre
  <2>2. u[1] = 1 /\ u[2] \in S
    BY <1>1, <1>2, <2>1
  <2> QED
    BY <2>1, <2>2
<1>5. \A m, n \in S : f[m] = f[n] => m = n
  OBVIOUS
<1>6. f \in Bijection(S, T)
  <2> HIDE DEF f, S, T
  <2> QED
    BY <1>3, <1>4, <1>5 DEF Bijection, Injection, Surjection, IsInjective
<1>7. IsFiniteSet(S) /\ Cardinality(S) = Weight(a)
  BY <1>1, FS_Interval
<1>8. a \in Action
  BY DEF Sound
<1> HIDE DEF S, T
<1> QED
  BY <1>6, <1>7, <1>8, FS_Bijection DEF Fuel, T, ExistsBijection

LEMMA FuelBoth ==
  ASSUME NEW s \in Seq(Action), NEW t \in Seq(Action)
  PROVE  s \o t \in Seq(Action) /\ Fuel(s \o t) = Fuel(s) + Fuel(t)
<1> DEFINE n == Len(s)
           m == Len(t)
           both == Tokens(s \o t)
           front == {u \in both : u[1] <= n}
           back == {u \in both : u[1] > n}
           shift == [u \in Tokens(t) |-> <<n + u[1], u[2]>>]
<1>1. /\ s \o t \in Seq(Action) /\ Len(s \o t) = n + m /\ n \in Nat /\ m \in Nat
      /\ \A i \in 1 .. n + m : (s \o t)[i] = IF i <= n THEN s[i] ELSE t[i - n]
  BY ConcatProperties, LenProperties
<1>2. ASSUME NEW u \in both
      PROVE  u = <<u[1], u[2]>> /\ u[1] \in 1 .. n + m /\ u[2] \in Weights
             /\ u[2] <= Weight((s \o t)[u[1]])
  BY <1>1, TokenPair
<1>3. both = front \cup back /\ front \cap back = {}
  <2>1. \A u \in both : u[1] \in Nat
    BY <1>1, <1>2
  <2> HIDE DEF both
  <2> QED
    BY <1>1, <2>1
<1>4. front = Tokens(s)
  <2>1. ASSUME NEW u \in front PROVE u \in Tokens(s)
    <3>1. u = <<u[1], u[2]>> /\ u[1] \in 1 .. n /\ u[2] \in Weights /\ u[2] <= Weight(s[u[1]])
      BY <1>1, <1>2
    <3> QED
      BY <3>1, TokenIs
  <2>2. ASSUME NEW u \in Tokens(s) PROVE u \in front
    <3>1. u = <<u[1], u[2]>> /\ u[1] \in 1 .. n /\ u[2] \in Weights /\ u[2] <= Weight(s[u[1]])
      BY TokenPair
    <3>2. u[1] \in 1 .. n + m /\ u[1] <= n /\ (s \o t)[u[1]] = s[u[1]]
      BY <1>1, <3>1
    <3>3. <<u[1], u[2]>> \in both
      BY <1>1, <3>1, <3>2, TokenIs
    <3> QED
      BY <3>1, <3>2, <3>3
  <2> QED
    BY <2>1, <2>2
<1>5. ASSUME NEW u \in Tokens(t) PROVE shift[u] \in back
  <2>1. u[1] \in 1 .. m /\ u[2] \in Weights /\ u[2] <= Weight(t[u[1]])
    BY TokenPair
  <2> DEFINE i == n + u[1]
  <2>2. i \in 1 .. n + m /\ i > n /\ ~(i <= n) /\ i - n = u[1]
    BY <1>1, <2>1
  <2>3. (s \o t)[i] = t[u[1]]
    BY <1>1, <2>2
  <2>4. shift[u] = <<i, u[2]>>
    OBVIOUS
  <2> HIDE DEF i
  <2>5. <<i, u[2]>> \in both
    BY <1>1, <2>1, <2>2, <2>3, TokenIs
  <2>6. <<i, u[2]>>[1] = i
    OBVIOUS
  <2> HIDE DEF both, shift
  <2> QED
    BY <2>2, <2>4, <2>5, <2>6
<1>6. ASSUME NEW u \in back PROVE \E v \in Tokens(t) : shift[v] = u
  <2>1. /\ u = <<u[1], u[2]>> /\ u[1] \in 1 .. n + m /\ u[2] \in Weights
        /\ u[2] <= Weight((s \o t)[u[1]]) /\ u[1] > n
    BY <1>2
  <2> DEFINE i == u[1] - n
             v == <<i, u[2]>>
  <2>2. i \in 1 .. m /\ n + i = u[1] /\ (s \o t)[u[1]] = t[i]
    BY <1>1, <2>1
  <2> HIDE DEF i
  <2>3. v \in Tokens(t)
    BY <2>1, <2>2, TokenIs
  <2>4. v[1] = i /\ v[2] = u[2]
    OBVIOUS
  <2> HIDE DEF v
  <2>5. shift[v] = <<n + i, u[2]>>
    BY <2>3, <2>4
  <2> QED
    BY <2>1, <2>2, <2>3, <2>5
<1>7. shift \in Bijection(Tokens(t), back)
  <2>1. shift \in [Tokens(t) -> back]
    BY <1>5
  <2>2. ASSUME NEW u \in Tokens(t), NEW v \in Tokens(t), shift[u] = shift[v] PROVE u = v
    <3>1. /\ u = <<u[1], u[2]>> /\ v = <<v[1], v[2]>> /\ u[1] \in Int /\ v[1] \in Int
      BY <1>1, TokenPair
    <3>2. n + u[1] = n + v[1] /\ u[2] = v[2]
      BY <2>2
    <3> QED
      BY <1>1, <3>1, <3>2
  <2> HIDE DEF shift, back
  <2> QED
    BY <1>6, <2>1, <2>2 DEF Bijection, Injection, Surjection, IsInjective
<1>8. IsFiniteSet(Tokens(t)) /\ IsFiniteSet(Tokens(s)) /\ Fuel(s) \in Nat /\ Fuel(t) \in Nat
  BY <1>1, TokensFinite
<1>9. IsFiniteSet(back) /\ Cardinality(back) = Cardinality(Tokens(t))
  BY <1>7, <1>8, FS_Bijection DEF ExistsBijection
<1>10. Cardinality(front \cup back) = Cardinality(front) + Cardinality(back) - Cardinality(front \cap back)
  BY <1>4, <1>8, <1>9, FS_Union
<1>11. Fuel(s \o t) = Cardinality(front \cup back)
  BY <1>3 DEF Fuel
<1> HIDE DEF front, back, shift, both
<1>12. Cardinality(front \cap back) = 0
  BY <1>3, FS_EmptySet
<1> QED
  BY <1>1, <1>4, <1>8, <1>9, <1>10, <1>11, <1>12 DEF Fuel

\* No action weighs more than w.
LEMMA FuelEach ==
  ASSUME NEW s, Len(s) \in Nat, NEW w \in 1 .. 11,
         \A i \in 1 .. Len(s) : Weight(s[i]) \in 1 .. w
  PROVE  Fuel(s) <= Len(s) * w
<1> DEFINE S == 1 .. Len(s)
           V == 1 .. w
<1>1. w \in Nat
  OBVIOUS
<1>0. IsFiniteSet(S) /\ IsFiniteSet(V) /\ Cardinality(S) = Len(s) /\ Cardinality(V) = w
  BY <1>1, Counting, Zenon
<1>2. ASSUME NEW u \in Tokens(s) PROVE u = <<u[1], u[2]>> /\ u[1] \in S /\ u[2] \in V
  <2>1. u = <<u[1], u[2]>> /\ u[1] \in S /\ u[2] \in 1 .. 11 /\ u[2] <= Weight(s[u[1]])
    BY TokenPair, WeightsAre
  <2>2. Weight(s[u[1]]) \in 1 .. w
    BY <2>1
  <2> QED
    BY <2>1, <2>2, SMTT(30)
<1> HIDE DEF S, V
<1>3. Tokens(s) \in SUBSET (S \X V)
  BY <1>2
<1>4. IsFiniteSet(S \X V) /\ Cardinality(S \X V) = Len(s) * w
  BY <1>0, FS_Product
<1> QED
  BY <1>3, <1>4, FS_Subset DEF Fuel

\* What waits at the head is paid for separately.
LEMMA FuelHead ==
  ASSUME NEW s \in Seq(Action), s # <<>>, Sound(Head(s))
  PROVE  /\ Tail(s) \in Seq(Action)
         /\ Fuel(s) = Weight(Head(s)) + Fuel(Tail(s)) /\ Fuel(s) >= 1
<1> DEFINE h == Head(s)
           r == Tail(s)
<1>1. r \in Seq(Action) /\ h \in Action
  BY HeadTailProperties
<1>2. s = <<h>> \o r
  BY HeadTailProperties, ConcatProperties, LenProperties
<1>3. Weight(h) \in 1 .. 11 /\ Fuel(<<h>>) = Weight(h) /\ <<h>> \in Seq(Action)
  BY FuelOne, WeightIs
<1>4. Fuel(r) \in Nat
  BY <1>1, TokensFinite, LenProperties
<1> HIDE DEF h, r
<1>5. Fuel(s) = Fuel(<<h>>) + Fuel(r)
  BY <1>1, <1>2, <1>3, FuelBoth
<1> QED
  BY <1>1, <1>3, <1>4, <1>5 DEF h, r

-----------------------------------------------------------------------------
(* Every execution uses fuel up *)

Of(f) == {u \in Users : Faction[u] = f}

\* The buffs that the skills give: luck is robbed by players of BaiHu only, and only
\* those of QingLong do things twice.
SkillBuffsOK ==
  /\ \A p \in All : Has(p, "dominance") => p \in Of("QingLong")
  /\ \A p \in All : Has(p, "rob_luck") => buffs[p]["rob_luck"].peer \in Of("BaiHu") \cup {Nobody}

\* What was robbed is on its way to one who robs.
Rightful(a) == a.src = "rob_luck" => a.to \in Of("BaiHu")

LEMMA DerivedIs ==
  ASSUME NEW a, Sound(a), a.do \in Shareable, NEW to \in All, NEW src \in Sources,
         NEW own \in SUBSET Links, a.do = "BossDamage" => to = Boss,
         NEW x, x = Derived(a, to, src, own)
  PROVE  /\ Sound(x) /\ x.do = a.do /\ x.src = src
         /\ \A k : k \in x.marks <=> k \in a.marks \/ k \in own
         /\ a.do # "BossDamage" => x.from = Nobody
         /\ Gains(x) <=> Gains(a)
         /\ <<x>> \in Seq(Action) /\ Fuel(<<x>>) = Weight(x)
<1>1. Sound(x) /\ x.do = a.do /\ x.src = src /\ x.n = a.n
  BY DerivedSound
<1>2. /\ a.do \in Kinds /\ a.n \in Int /\ a.of \in Buffs \cup Items \cup {"none"}
      /\ a.marks \in SUBSET Links /\ a.from \in All \cup {Nobody}
  BY DEF Sound, Action
<1>3. Act(a.do, to, a.n, a.of) \in Action
  BY <1>2 DEF Act, Action, Sources
<1>4. x.marks = a.marks \cup own /\ (a.do # "BossDamage" => x.from = Nobody)
  BY <1>2, <1>3 DEF Derived, Act, Action
<1>5. Fuel(<<x>>) = Weight(x) /\ <<x>> \in Seq(Action)
  BY <1>1, FuelOne
<1>6. \A k : k \in x.marks <=> k \in a.marks \/ k \in own
  BY <1>4
<1> QED
  BY <1>1, <1>4, <1>5, <1>6 DEF Gains

\* What each of the four buffs derives.
LEMMA RedirectedFuel ==
  ASSUME BuffsOK, SkillBuffsOK, NEW a, Sound(a), NEW p \in All
  PROVE  /\ Redirected(p, a) \in Seq(Action)
         /\ IF "rob_luck" \in Heard(p, a) /\ RobLuckTakes(p, a)
              THEN IsGain(a) /\ a.to = p /\ a.src # "rob_luck"
                   /\ Fuel(Redirected(p, a)) = IF "eternal" \in a.marks THEN 1 ELSE 4
              ELSE Fuel(Redirected(p, a)) = 0
<1> DEFINE q == buffs[p]["rob_luck"].peer
           x == Derived(a, q, "rob_luck", {})
<1>1. CASE "rob_luck" \in Heard(p, a) /\ RobLuckTakes(p, a)
  <2>1. q \in All
    <3>1. "rob_luck" \in DOMAIN buffs[p]
      BY <1>1 DEF Heard, Interceptors
    <3>2. buffs[p]["rob_luck"] \in BuffState
      BY <3>1, HeldBuff
    <3> QED
      BY <1>1, <3>2 DEF BuffState, RobLuckTakes
  <2>2. IsGain(a) /\ a.to = p /\ a.src # "rob_luck" /\ a.do \in {"Heal", "ModifyLP", "AddItem"}
    BY <1>1 DEF RobLuckTakes, IsGain, Gains
  <2>3. /\ Sound(x) /\ x.do = a.do /\ x.src = "rob_luck"
        /\ "eternal" \in x.marks <=> "eternal" \in a.marks
        /\ Gains(x) <=> Gains(a)
        /\ <<x>> \in Seq(Action) /\ Fuel(<<x>>) = Weight(x)
    <3>1. /\ a.do \in Shareable /\ "rob_luck" \in Sources /\ {} \in SUBSET Links
          /\ a.do = "BossDamage" => q = Boss
      BY <2>1, <2>2 DEF Shareable, Sources
    <3>2. x = Derived(a, q, "rob_luck", {})
      OBVIOUS
    <3> HIDE DEF x
    <3> QED
      BY <2>1, <3>1, <3>2, DerivedIs
  <2> HIDE DEF x
  <2>4. Weight(x) = IF "eternal" \in a.marks THEN 1 ELSE 4
    BY <2>2, <2>3, WeightIs DEF IsGain, GainWeight
  <2>5. Redirected(p, a) = <<x>>
    BY <1>1 DEF Redirected, x
  <2> QED
    BY <1>1, <2>2, <2>3, <2>4, <2>5
<1>2. CASE ~("rob_luck" \in Heard(p, a) /\ RobLuckTakes(p, a))
  <2>1. Redirected(p, a) = <<>>
    BY <1>2 DEF Redirected
  <2> QED
    BY <1>2, <2>1, FuelNone, NoneSet
<1> QED
  BY <1>1, <1>2

LEMMA SharedFuel ==
  ASSUME BuffsOK, NEW a, Sound(a), NEW p \in All, NEW k \in Links
  PROVE  /\ Shared(k, p, a) \in Seq(Action)
         /\ IF Shares(k, p, a)
              THEN /\ a.to = p /\ k \notin a.marks /\ a.src # k
                   /\ k = "sinking" => ~IsGain(a) /\ a.do \in {"Damage", "ModifyLP"}
                   /\ k = "eternal" => IsGain(a) /\ "eternal" \in Heard(p, a)
                   /\ Fuel(Shared(k, p, a)) = IF k = "eternal" THEN 3
                                              ELSE IF a.do = "Damage" THEN 2 ELSE 1
              ELSE Fuel(Shared(k, p, a)) = 0
<1> DEFINE q == buffs[p][k].peer
           x == Derived(a, q, k, {k})
<1>1. CASE Shares(k, p, a)
  <2>1. q \in All
    <3>1. k \in DOMAIN buffs[p]
      BY <1>1 DEF Heard, Interceptors, Shares
    <3>2. buffs[p][k] \in BuffState
      BY <3>1, HeldBuff
    <3> QED
      BY <1>1, <3>2 DEF BuffState, Shares
  <2>2. /\ a.to = p /\ k \notin a.marks /\ a.src # k
        /\ k = "sinking" => ~IsGain(a) /\ a.do \in {"Damage", "ModifyLP"}
        /\ k = "eternal" => IsGain(a) /\ "eternal" \in Heard(p, a)
        /\ a.do \in {"Damage", "Heal", "ModifyLP", "AddItem"}
    <3>1. a.n \in Int
      BY DEF Sound, Action
    <3> QED
      BY <1>1, <3>1 DEF Shares, Gains, IsGain, Links
  <2>3. /\ Sound(x) /\ x.do = a.do /\ x.src = k /\ x.from = Nobody
        /\ k \in x.marks
        /\ Gains(x) <=> Gains(a)
        /\ <<x>> \in Seq(Action) /\ Fuel(<<x>>) = Weight(x)
    <3> DEFINE own == {k}
    <3>1. /\ k \in Sources /\ own \in SUBSET Links /\ k \in own
          /\ a.do \in Shareable /\ a.do # "BossDamage"
      BY <2>2 DEF Sources, Links, Shareable
    <3>2. x = Derived(a, q, k, own)
      OBVIOUS
    <3> HIDE DEF x, own
    <3> QED
      BY <2>1, <3>1, <3>2, DerivedIs
  <2> HIDE DEF x
  <2>4. Weight(x) = IF k = "eternal" THEN 3 ELSE IF a.do = "Damage" THEN 2 ELSE 1
    BY <2>2, <2>3, WeightIs DEF IsGain, GainWeight, LossWeight, Links
  <2>5. Shared(k, p, a) = <<x>>
    BY <1>1 DEF Shared, x
  <2> QED
    BY <1>1, <2>2, <2>3, <2>4, <2>5
<1>2. CASE ~Shares(k, p, a)
  <2>1. Shared(k, p, a) = <<>>
    BY <1>2 DEF Shared
  <2> QED
    BY <1>2, <2>1, FuelNone, NoneSet
<1> QED
  BY <1>1, <1>2

LEMMA AmplifiedFuel ==
  ASSUME SkillBuffsOK, NEW a, Sound(a), NEW p \in All
  PROVE  /\ Amplified(p, a) \in Seq(Action)
         /\ IF Amplifies(p, a)
              THEN /\ a.src # "dominance" /\ "dominance" \in Heard(p, a) /\ p \in Of("QingLong")
                   /\ a.do = "BossDamage" \/ (IsGain(a) /\ a.do # "BossDamage" /\ a.to = p)
                   /\ Fuel(Amplified(p, a)) = IF a.do # "BossDamage" /\ "eternal" \in a.marks
                                                THEN 2 ELSE 5
              ELSE Fuel(Amplified(p, a)) = 0
<1> DEFINE x == Derived(a, a.to, "dominance", {})
<1>1. CASE Amplifies(p, a)
  <2>1. a.to \in All /\ (a.do = "BossDamage" => a.to = Boss)
    BY DEF Sound, Action
  <2>2. /\ a.do \in {"BossDamage", "Heal", "ModifyLP"}
        /\ a.src # "dominance" /\ "dominance" \in Heard(p, a)
        /\ a.do = "BossDamage" \/ (IsGain(a) /\ a.do # "BossDamage" /\ a.to = p)
    BY <1>1 DEF Amplifies, Gains, IsGain
  <2>3. /\ Sound(x) /\ x.do = a.do /\ x.src = "dominance"
        /\ "eternal" \in x.marks <=> "eternal" \in a.marks
        /\ Gains(x) <=> Gains(a)
        /\ <<x>> \in Seq(Action) /\ Fuel(<<x>>) = Weight(x)
    <3>1. /\ a.do \in Shareable /\ "dominance" \in Sources /\ {} \in SUBSET Links
          /\ a.do = "BossDamage" => a.to = Boss
      BY <2>1, <2>2 DEF Shareable, Sources
    <3>2. x = Derived(a, a.to, "dominance", {})
      OBVIOUS
    <3> HIDE DEF x
    <3> QED
      BY <2>1, <3>1, <3>2, DerivedIs
  <2> HIDE DEF x
  <2>4. Weight(x) = IF a.do # "BossDamage" /\ "eternal" \in a.marks THEN 2 ELSE 5
    BY <2>2, <2>3, WeightIs DEF IsGain, GainWeight
  <2>5. Amplified(p, a) = <<x>>
    BY <1>1 DEF Amplified, x
  <2>6. p \in Of("QingLong")
    BY <2>2 DEF Heard, Interceptors, SkillBuffsOK, Has
  <2> QED
    BY <1>1, <2>2, <2>3, <2>4, <2>5, <2>6
<1>2. CASE ~Amplifies(p, a)
  <2>1. Amplified(p, a) = <<>>
    BY <1>2 DEF Amplified
  <2> QED
    BY <1>2, <2>1, FuelNone, NoneSet
<1> QED
  BY <1>1, <1>2

\* Where luck is robbed, nothing is shared or done twice.
LEMMA RobberyIsAlone ==
  ASSUME NEW a, NEW p \in All, "rob_luck" \in Heard(p, a), RobLuckTakes(p, a)
  PROVE  "eternal" \notin Heard(p, a) /\ "dominance" \notin Heard(p, a)
<1>1. "rob_luck" \in Blockers(p, a)
  BY DEF Heard, Blockers, Blocks
<1>2. \A k \in Heard(p, a) : Priority["rob_luck"] <= Priority[k]
  BY <1>1 DEF Heard
<1>3. Priority["rob_luck"] = 80 /\ Priority["eternal"] = 60 /\ Priority["dominance"] = 50
  BY DEF Priority
<1> QED
  BY <1>2, <1>3

LEMMA FromActorFuel ==
  ASSUME BuffsOK, SkillBuffsOK, NEW a, Sound(a), Rightful(a), NEW p \in All
  PROVE  /\ FromActor(p, a) \in Seq(Action)
         /\ Fuel(FromActor(p, a)) \in Nat
         /\ IsGain(a) => Fuel(FromActor(p, a)) + 1 <= GainWeight(a)
         /\ a.do = "Damage" =>
              Fuel(FromActor(p, a)) <= IF p # a.to \/ "sinking" \in a.marks THEN 0 ELSE 2
         /\ a.do = "ModifyLP" /\ ~Gains(a) =>
              Fuel(FromActor(p, a)) <= IF "sinking" \in a.marks THEN 0 ELSE 1
         /\ a.do = "BossDamage" =>
              Fuel(FromActor(p, a)) <= IF p = Boss \/ a.src = "dominance" THEN 0 ELSE 5
         /\ a.do = "Heal" /\ ~Gains(a) => Fuel(FromActor(p, a)) = 0
<1> DEFINE r == Redirected(p, a)
           s == Shared("sinking", p, a)
           e == Shared("eternal", p, a)
           m == Amplified(p, a)
           robs == "rob_luck" \in Heard(p, a) /\ RobLuckTakes(p, a)
           marked == "eternal" \in a.marks
<1>1. /\ r \in Seq(Action) /\ s \in Seq(Action) /\ e \in Seq(Action) /\ m \in Seq(Action)
  BY RedirectedFuel, SharedFuel, AmplifiedFuel DEF Links
<1>2. /\ r \o s \in Seq(Action) /\ Fuel(r \o s) = Fuel(r) + Fuel(s)
      /\ (r \o s) \o e \in Seq(Action) /\ Fuel((r \o s) \o e) = Fuel(r \o s) + Fuel(e)
      /\ ((r \o s) \o e) \o m \in Seq(Action)
      /\ Fuel(((r \o s) \o e) \o m) = Fuel((r \o s) \o e) + Fuel(m)
  <2> HIDE DEF r, s, e, m
  <2> QED
    BY <1>1, FuelBoth
<1>3. /\ IF robs THEN IsGain(a) /\ a.to = p /\ a.src # "rob_luck" /\ Fuel(r) = IF marked THEN 1 ELSE 4
                 ELSE Fuel(r) = 0
      /\ IF Shares("sinking", p, a)
           THEN /\ ~IsGain(a) /\ a.do \in {"Damage", "ModifyLP"} /\ a.to = p /\ "sinking" \notin a.marks
                /\ Fuel(s) = IF a.do = "Damage" THEN 2 ELSE 1
           ELSE Fuel(s) = 0
      /\ IF Shares("eternal", p, a)
           THEN IsGain(a) /\ "eternal" \in Heard(p, a) /\ ~marked /\ a.to = p /\ Fuel(e) = 3
           ELSE Fuel(e) = 0
      /\ IF Amplifies(p, a)
           THEN /\ a.src # "dominance" /\ "dominance" \in Heard(p, a) /\ p \in Of("QingLong")
                /\ a.do = "BossDamage" \/ (IsGain(a) /\ a.do # "BossDamage" /\ a.to = p)
                /\ Fuel(m) = IF a.do # "BossDamage" /\ marked THEN 2 ELSE 5
           ELSE Fuel(m) = 0
  BY RedirectedFuel, SharedFuel, AmplifiedFuel DEF Links
<1>4. robs => "eternal" \notin Heard(p, a) /\ "dominance" \notin Heard(p, a)
  BY RobberyIsAlone
<1>5. /\ p \in Of("QingLong") => p \notin Of("BaiHu") /\ p # Boss
      /\ a.src = "rob_luck" /\ a.to = p => p \notin Of("QingLong")
  BY PlayerAssumption DEF Of, Rightful
<1>6. FromActor(p, a) = ((r \o s) \o e) \o m
  BY DEF FromActor
<1>7. IsGain(a) => a.do \notin {"Damage", "BossDamage"} /\ (a.do = "ModifyLP" => Gains(a))
  BY DEF IsGain, Gains
<1> HIDE DEF r, s, e, m, robs, marked
<1>8. Fuel(FromActor(p, a)) = Fuel(r) + Fuel(s) + Fuel(e) + Fuel(m)
      /\ Fuel(r) \in Nat /\ Fuel(s) \in Nat /\ Fuel(e) \in Nat /\ Fuel(m) \in Nat
  <2>1. Fuel(r) \in Nat /\ Fuel(s) \in Nat /\ Fuel(e) \in Nat /\ Fuel(m) \in Nat
    BY <1>3
  <2> QED
    BY <1>2, <1>6, <2>1
<1>9. ASSUME IsGain(a) PROVE Fuel(FromActor(p, a)) + 1 <= GainWeight(a)
  <2>1. Fuel(s) = 0
    BY <1>3, <1>9
  <2>2. CASE robs
    BY <1>3, <1>4, <1>8, <2>1, <2>2 DEF GainWeight, marked
  <2>3. CASE ~robs
    <3>1. Fuel(r) = 0 /\ Fuel(e) \in {0, 3} /\ (marked => Fuel(e) = 0)
      BY <1>3, <2>3
    <3>2. /\ Fuel(m) <= IF marked THEN 2 ELSE 5
          /\ a.src \in {"dominance", "rob_luck"} => Fuel(m) = 0
      BY <1>3, <1>5, <1>7, <1>9
    <3> QED
      BY <1>8, <2>1, <3>1, <3>2 DEF GainWeight, marked
  <2> QED
    BY <2>2, <2>3
<1>10. a.do = "Damage" =>
         Fuel(FromActor(p, a)) <= IF p # a.to \/ "sinking" \in a.marks THEN 0 ELSE 2
  BY <1>3, <1>7, <1>8
<1>11. a.do = "ModifyLP" /\ ~Gains(a) =>
         Fuel(FromActor(p, a)) <= IF "sinking" \in a.marks THEN 0 ELSE 1
  <2>1. a.do = "ModifyLP" /\ ~Gains(a) => ~IsGain(a)
    BY DEF IsGain
  <2> QED
    BY <1>3, <1>8, <2>1
<1>12. a.do = "BossDamage" =>
         Fuel(FromActor(p, a)) <= IF p = Boss \/ a.src = "dominance" THEN 0 ELSE 5
  BY <1>3, <1>5, <1>7, <1>8
<1>13. a.do = "Heal" /\ ~Gains(a) => Fuel(FromActor(p, a)) = 0
  <2>1. a.do = "Heal" /\ ~Gains(a) => ~IsGain(a)
    BY DEF IsGain
  <2> QED
    BY <1>3, <1>8, <2>1
<1> QED
  BY <1>1, <1>2, <1>6, <1>8, <1>9, <1>10, <1>11, <1>12, <1>13

LEMMA FromActorsFuel ==
  ASSUME BuffsOK, SkillBuffsOK, NEW a, Sound(a), Rightful(a)
  PROVE  /\ FromActors(a) \in Seq(Action) /\ Fuel(FromActors(a)) \in Nat
         /\ IsGain(a) => Fuel(FromActors(a)) + 1 <= GainWeight(a)
         /\ a.do = "Damage" => Fuel(FromActors(a)) + 2 <= LossWeight(a)
         /\ a.do = "ModifyLP" /\ ~Gains(a) =>
              Fuel(FromActors(a)) <= IF "sinking" \in a.marks THEN 0 ELSE 1
         /\ a.do = "BossDamage" => Fuel(FromActors(a)) <= IF a.src = "dominance" THEN 0 ELSE 5
         /\ a.do = "Heal" /\ ~Gains(a) => Fuel(FromActors(a)) = 0
         /\ a.do \notin Shareable => FromActors(a) = <<>>
<1> DEFINE asked == Asked(a)
<1>1. /\ a.to \in All /\ a.from \in All \cup {Nobody}
      /\ a.do = "BossDamage" => a.to = Boss
  BY DEF Sound, Action
<1>2. a.do \notin Shareable => FromActors(a) = <<>>
  <2>1. ASSUME a.do \notin Shareable, FromActors(a) # <<>> PROVE FALSE
    <3>1. FromActors(a) \in Seq(Action) /\ \A x \in ToSet(FromActors(a)) : Inherits(x, a)
      BY FromActorsOK DEF Legacy
    <3>2. Head(FromActors(a)) \in ToSet(FromActors(a))
      BY <2>1, <3>1, HeadTailSet
    <3> QED
      BY <2>1, <3>1, <3>2 DEF Inherits
  <2> QED
    BY <2>1
<1>3. CASE asked = <<a.to>>
  <2>1. FromActors(a) = FromActor(a.to, a)
    BY <1>3 DEF FromActors
  <2>2. a.do = "Damage" =>
          Fuel(FromActor(a.to, a)) <= IF "sinking" \in a.marks THEN 0 ELSE 2
    BY <1>1, FromActorFuel
  <2>3. a.do = "BossDamage" => Fuel(FromActor(a.to, a)) <= 0
    BY <1>1, FromActorFuel
  <2>4. /\ FromActor(a.to, a) \in Seq(Action) /\ Fuel(FromActor(a.to, a)) \in Nat
        /\ IsGain(a) => Fuel(FromActor(a.to, a)) + 1 <= GainWeight(a)
        /\ a.do = "ModifyLP" /\ ~Gains(a) =>
             Fuel(FromActor(a.to, a)) <= IF "sinking" \in a.marks THEN 0 ELSE 1
        /\ a.do = "Heal" /\ ~Gains(a) => Fuel(FromActor(a.to, a)) = 0
    BY <1>1, FromActorFuel
  <2> QED
    BY <1>2, <2>1, <2>2, <2>3, <2>4 DEF LossWeight
<1>4. CASE a.do \in {"Damage", "BossDamage"} /\ a.from \in All /\ asked = <<a.to, a.from>>
  <2> DEFINE f == FromActor(a.to, a)
             g == FromActor(a.from, a)
  <2>1. FromActors(a) = f \o g
    BY <1>4 DEF FromActors
  <2>2. f \in Seq(Action) /\ Fuel(f) \in Nat /\ g \in Seq(Action) /\ Fuel(g) \in Nat
    BY <1>1, <1>4, FromActorFuel
  <2>3. f \o g \in Seq(Action) /\ Fuel(f \o g) = Fuel(f) + Fuel(g)
    <3> HIDE DEF f, g
    <3> QED
      BY <2>2, FuelBoth
  <2>4. a.do = "Damage" =>
          /\ Fuel(f) <= IF "sinking" \in a.marks THEN 0 ELSE 2
          /\ Fuel(g) <= IF "sinking" \in a.marks THEN 0 ELSE 2
    BY <1>1, <1>4, FromActorFuel
  <2>5. a.do = "BossDamage" =>
          Fuel(f) <= 0 /\ Fuel(g) <= IF a.src = "dominance" THEN 0 ELSE 5
    BY <1>1, <1>4, FromActorFuel
  <2>6. a.from # Nobody
    BY <1>4, PlayerAssumption
  <2>7. ~IsGain(a) /\ a.do # "ModifyLP" /\ a.do # "Heal"
    BY <1>4 DEF IsGain, Gains
  <2> HIDE DEF f, g
  <2> QED
    BY <1>2, <2>1, <2>2, <2>3, <2>4, <2>5, <2>6, <2>7 DEF LossWeight
<1>5. \/ asked = <<a.to>>
      \/ a.do \in {"Damage", "BossDamage"} /\ a.from \in All /\ asked = <<a.to, a.from>>
  BY <1>1 DEF Asked, ActorPlayers
<1> QED
  BY <1>3, <1>4, <1>5

\* With markers or without, what the triggers derive is cheap.
LEMMA MarkedFuel ==
  ASSUME NEW a, Sound(a), NEW x, Caused(a, x)
  PROVE  /\ Marked(a, <<x>>) \in Seq(Action) /\ Fuel(Marked(a, <<x>>)) \in Nat
         /\ x.do = "ModifyLP" => Fuel(Marked(a, <<x>>)) <= IF x.n > 0 THEN 9 ELSE 2
         /\ x.do = "Damage" /\ x.from = Nobody => Fuel(Marked(a, <<x>>)) <= 4
<1> DEFINE y == [x EXCEPT !.marks = a.marks]
<1>1. Sound(x) /\ x \in Action /\ a.marks \in SUBSET Links
  BY DEF Caused, Sound, Action
<1>2. Marked(a, <<x>>) = <<y>>
  BY MarkedOne
<1>3. Sound(y) /\ y.do = x.do /\ y.n = x.n /\ y.from = x.from
  <2>1. /\ y \in Action
        /\ y.do = x.do /\ y.to = x.to /\ y.n = x.n /\ y.of = x.of /\ y.src = x.src
        /\ y.from = x.from
    BY <1>1 DEF Action
  <2> QED
    BY <1>1, <2>1 DEF Sound
<1> HIDE DEF y
<1>4. Fuel(<<y>>) = Weight(y) /\ <<y>> \in Seq(Action) /\ Weight(y) \in 1 .. 11
  BY <1>3, FuelOne, WeightIs
<1>5. x.do = "ModifyLP" => Weight(y) <= IF x.n > 0 THEN 9 ELSE 2
  <2>1. IsGain(y) => Weight(y) = GainWeight(y)
    BY <1>3, WeightIs
  <2>2. y.do = "ModifyLP" /\ ~Gains(y) => Weight(y) = IF "sinking" \in y.marks THEN 1 ELSE 2
    BY <1>3, WeightIs
  <2>3. GainWeight(y) <= 9
    BY DEF GainWeight
  <2>4. y.do = "ModifyLP" => (Gains(y) <=> x.n > 0) /\ (Gains(y) => IsGain(y))
    BY <1>3 DEF Gains, IsGain
  <2> QED
    BY <1>3, <2>1, <2>2, <2>3, <2>4
<1>6. x.do = "Damage" /\ x.from = Nobody => Weight(y) <= 4
  <2>1. y.do = "Damage" => Weight(y) = LossWeight(y)
    BY <1>3, WeightIs
  <2> QED
    BY <1>3, <2>1 DEF LossWeight
<1>7. Marked(a, <<x>>) \in Seq(Action) /\ Fuel(Marked(a, <<x>>)) = Weight(y)
  BY <1>2, <1>4
<1>8. Weight(y) \in Nat
  BY <1>4
<1> QED
  BY <1>5, <1>6, <1>7, <1>8

LEMMA BeforeTriggerFuel ==
  ASSUME NEW a, Sound(a)
  PROVE  /\ Marked(a, BeforeTrigger(a)) \in Seq(Action)
         /\ Fuel(Marked(a, BeforeTrigger(a))) \in Nat
         /\ Fuel(Marked(a, BeforeTrigger(a))) <=
              CASE a.do = "BossDamage" -> 4
                [] a.do = "RemoveBuff" /\ a.of = "curse" -> 9
                [] a.do = "RemoveBuff" /\ a.of = "divine" -> 2
                [] OTHER -> 0
<1> DEFINE back == (3 * a.n + 5) \div 10
           limit == CASE a.do = "BossDamage" -> 4
                      [] a.do = "RemoveBuff" /\ a.of = "curse" -> 9
                      [] a.do = "RemoveBuff" /\ a.of = "divine" -> 2
                      [] OTHER -> 0
<1>1. a.to \in All /\ a.n \in Int
  BY DEF Sound, Action
<1>2. CASE BeforeTrigger(a) = <<>>
  <2>1. Marked(a, <<>>) = <<>> /\ <<>> \in Seq(Action) /\ Fuel(<<>>) = 0
    BY MarkedNone, NoneSet, FuelNone
  <2>2. limit \in Nat
    OBVIOUS
  <2>3. Fuel(<<>>) <= limit
    BY <2>1, <2>2
  <2> HIDE DEF limit
  <2>4. /\ Marked(a, BeforeTrigger(a)) = <<>>
        /\ Fuel(Marked(a, BeforeTrigger(a))) = 0
    BY <1>2, <2>1
  <2> QED
    BY <2>1, <2>2, <2>4 DEF limit
<1>3. CASE a.do = "BossDamage" /\ back > 0 /\ BeforeTrigger(a) = <<Piercing(a.from, back)>>
  <2> DEFINE x == Piercing(a.from, back)
  <2>1. a.from \in All /\ a.n >= 0
    BY <1>3 DEF Sound
  <2>2. back \in Nat
    BY <1>1, <2>1
  <2>3. Caused(a, x)
    BY <1>3, <2>1, <2>2, DamageCaused
  <2>4. x.do = "Damage" /\ x.from = Nobody
    BY DEF Piercing, Damage, Act
  <2> HIDE DEF x
  <2>5. Marked(a, <<x>>) \in Seq(Action) /\ Fuel(Marked(a, <<x>>)) \in Nat
        /\ Fuel(Marked(a, <<x>>)) <= 4
    BY <2>3, <2>4, MarkedFuel
  <2> QED
    BY <1>3, <2>5 DEF x
<1>4. CASE \E n \in {1, -1} : /\ BeforeTrigger(a) = <<ModifyLP(a.to, n)>>
                              /\ a.do = "RemoveBuff" /\ a.of = IF n = 1 THEN "curse" ELSE "divine"
  <2>1. PICK n \in {1, -1} : /\ BeforeTrigger(a) = <<ModifyLP(a.to, n)>>
                             /\ a.do = "RemoveBuff" /\ a.of = IF n = 1 THEN "curse" ELSE "divine"
    BY <1>4
  <2> DEFINE x == ModifyLP(a.to, n)
  <2>2. Caused(a, x)
    BY <1>1, LuckCaused
  <2>3. x.do = "ModifyLP" /\ x.n = n
    BY DEF ModifyLP, Act
  <2> HIDE DEF x
  <2>4. Marked(a, <<x>>) \in Seq(Action) /\ Fuel(Marked(a, <<x>>)) \in Nat
        /\ Fuel(Marked(a, <<x>>)) <= IF n > 0 THEN 9 ELSE 2
    BY <2>2, <2>3, MarkedFuel
  <2> QED
    BY <2>1, <2>4 DEF x
<1>5. \/ BeforeTrigger(a) = <<>>
      \/ a.do = "BossDamage" /\ back > 0 /\ BeforeTrigger(a) = <<Piercing(a.from, back)>>
      \/ \E n \in {1, -1} : /\ BeforeTrigger(a) = <<ModifyLP(a.to, n)>>
                            /\ a.do = "RemoveBuff" /\ a.of = IF n = 1 THEN "curse" ELSE "divine"
  BY DEF BeforeTrigger
<1> QED
  BY <1>2, <1>3, <1>4, <1>5

\* The phases before the execution leave at least the price of the action itself,
\* and for damage that of the death it may bring.
LEMMA PreludeFuel ==
  ASSUME BuffsOK, SkillBuffsOK, NEW a, Sound(a), Rightful(a)
  PROVE  /\ Prelude(a) \in Seq(Action) /\ Fuel(Prelude(a)) \in Nat
         /\ Fuel(Prelude(a)) + 1 <= Weight(a)
         /\ a.do = "Damage" => Fuel(Prelude(a)) + 2 <= Weight(a)
<1> DEFINE f == FromActors(a)
           t == IF Stopped(a) THEN <<>> ELSE Marked(a, BeforeTrigger(a))
<1>1. f \in Seq(Action) /\ Fuel(f) \in Nat
  BY FromActorsFuel
<1>2. /\ t \in Seq(Action) /\ Fuel(t) \in Nat
      /\ a.do = "BossDamage" => Fuel(t) <= 4
      /\ a.do = "RemoveBuff" => Fuel(t) <= IF a.of = "curse" THEN 9 ELSE IF a.of = "divine" THEN 2 ELSE 0
      /\ a.do \notin {"BossDamage", "RemoveBuff"} => Fuel(t) <= 0
  BY BeforeTriggerFuel, FuelNone, NoneSet
<1>3. /\ IsGain(a) => Fuel(f) + 1 <= Weight(a)
      /\ a.do = "Damage" => Fuel(f) + 2 <= Weight(a)
      /\ a.do = "ModifyLP" /\ ~Gains(a) => Fuel(f) + 1 <= Weight(a)
      /\ a.do = "BossDamage" => Fuel(f) + 5 <= Weight(a)
  BY FromActorsFuel, WeightIs
<1>4. a.do \notin Shareable => Fuel(f) = 0
  BY FromActorsFuel, FuelNone
<1>5. a.do \in Shareable =>
        \/ IsGain(a) /\ a.do \notin {"Damage", "BossDamage", "RemoveBuff"}
        \/ a.do = "Damage" \/ a.do = "BossDamage" \/ (a.do = "ModifyLP" /\ ~Gains(a))
        \/ a.do = "Heal" /\ ~Gains(a)
  BY DEF Shareable, IsGain, Gains
<1>6. /\ Weight(a) \in 1 .. 11
      /\ a.do = "RemoveBuff" =>
              Weight(a) = IF a.of = "curse" THEN 10 ELSE IF a.of = "divine" THEN 3 ELSE 1
  BY WeightIs
<1>7. Prelude(a) = f \o t
  BY DEF Prelude
<1>8. a.do = "Heal" /\ ~Gains(a) => Fuel(f) = 0
  BY FromActorsFuel
<1> HIDE DEF f, t
<1>9. f \o t \in Seq(Action) /\ Fuel(f \o t) = Fuel(f) + Fuel(t)
  BY <1>1, <1>2, FuelBoth
<1>10. CASE a.do \notin Shareable
  BY <1>1, <1>2, <1>4, <1>6, <1>7, <1>9, <1>10 DEF Shareable
<1>11. CASE a.do \in Shareable
  <2>1. CASE IsGain(a) /\ a.do \notin {"Damage", "BossDamage", "RemoveBuff"}
    BY <1>1, <1>2, <1>3, <1>6, <1>7, <1>9, <2>1
  <2>2. CASE a.do = "Damage"
    BY <1>1, <1>2, <1>3, <1>6, <1>7, <1>9, <2>2, SMTT(30)
  <2>3. CASE a.do = "BossDamage"
    BY <1>1, <1>2, <1>3, <1>6, <1>7, <1>9, <2>3, SMTT(30)
  <2>4. CASE a.do = "ModifyLP" /\ ~Gains(a)
    BY <1>1, <1>2, <1>3, <1>6, <1>7, <1>9, <2>4
  <2>5. CASE a.do = "Heal" /\ ~Gains(a)
    BY <1>1, <1>2, <1>6, <1>7, <1>8, <1>9, <2>5
  <2> QED
    BY <1>5, <1>11, <2>1, <2>2, <2>3, <2>4, <2>5
<1> QED
  BY <1>10, <1>11

LEMMA AfterTriggerFuel ==
  ASSUME PlayersOK, NEW a, Sound(a), a.do = "AddBuff", ~Extends(a)
  PROVE  /\ Marked(a, AfterTrigger(a)) \in Seq(Action)
         /\ Fuel(Marked(a, AfterTrigger(a))) \in Nat
         /\ Fuel(Marked(a, AfterTrigger(a))) + 1 <= Weight(a)
<1> DEFINE n == player[a.to].hp - 1
           z == [Piercing(a.to, n) EXCEPT !.src = "fearless"]
<1>1. a.to \in All /\ player[a.to].hp \in Nat /\ a.of \in Buffs
  BY DEF Sound, Action, PlayersOK, PlayerState
<1>2. /\ Weight(a) = BuffWeight[a.of]
      /\ BuffWeight[a.of] = CASE a.of = "divine" -> 10 [] a.of = "fearless" -> 5
                              [] a.of = "curse" -> 3 [] OTHER -> 1
  BY <1>1, WeightIs DEF BuffWeight
<1>3. CASE AfterTrigger(a) = <<>>
  <2>1. Marked(a, <<>>) = <<>> /\ <<>> \in Seq(Action) /\ Fuel(<<>>) = 0
    BY MarkedNone, NoneSet, FuelNone
  <2>2. Weight(a) >= 1
    BY <1>2
  <2>3. Marked(a, AfterTrigger(a)) = <<>>
    BY <1>3, <2>1
  <2> QED
    BY <2>1, <2>2, <2>3
<1>4. CASE \E m \in {1, -1} : /\ AfterTrigger(a) = <<ModifyLP(a.to, m)>>
                              /\ a.of = IF m = 1 THEN "divine" ELSE "curse"
  <2>1. PICK m \in {1, -1} : /\ AfterTrigger(a) = <<ModifyLP(a.to, m)>>
                             /\ a.of = IF m = 1 THEN "divine" ELSE "curse"
    BY <1>4
  <2> DEFINE x == ModifyLP(a.to, m)
  <2>2. Caused(a, x)
    BY <1>1, LuckCaused
  <2>3. x.do = "ModifyLP" /\ x.n = m
    BY DEF ModifyLP, Act
  <2> HIDE DEF x
  <2>4. Marked(a, <<x>>) \in Seq(Action) /\ Fuel(Marked(a, <<x>>)) \in Nat
        /\ Fuel(Marked(a, <<x>>)) <= IF m > 0 THEN 9 ELSE 2
    BY <2>2, <2>3, MarkedFuel
  <2> QED
    BY <1>2, <2>1, <2>4 DEF x
<1>5. CASE a.of = "fearless" /\ player[a.to].hp > 1 /\ AfterTrigger(a) = <<z>>
  <2>1. n \in Nat
    BY <1>1, <1>5
  <2>2. Damage(a.to, n) \in Action /\ Damage(a.to, n).do = "Damage"
        /\ Damage(a.to, n).to = a.to /\ Damage(a.to, n).n = n /\ Damage(a.to, n).from = Nobody
    BY <1>1, <2>1 DEF Damage, Act, Action, Sources, Kinds, Queueable
  <2>3. /\ z \in Action /\ z.do = "Damage" /\ z.src = "fearless" /\ z.n = n /\ z.to = a.to
        /\ z.pierce = TRUE /\ z.from = Nobody
    BY <2>2 DEF Piercing, Action, Sources
  <2>4. Caused(a, z)
    BY <1>5, <2>1, <2>3 DEF Caused, Sound
  <2> HIDE DEF z
  <2>5. Marked(a, <<z>>) \in Seq(Action) /\ Fuel(Marked(a, <<z>>)) \in Nat
        /\ Fuel(Marked(a, <<z>>)) <= 4
    BY <2>3, <2>4, MarkedFuel
  <2> QED
    BY <1>2, <1>5, <2>5
<1>6. \/ AfterTrigger(a) = <<>>
      \/ \E m \in {1, -1} : /\ AfterTrigger(a) = <<ModifyLP(a.to, m)>>
                            /\ a.of = IF m = 1 THEN "divine" ELSE "curse"
      \/ a.of = "fearless" /\ player[a.to].hp > 1 /\ AfterTrigger(a) = <<z>>
  BY DEF AfterTrigger
<1> QED
  BY <1>3, <1>4, <1>5, <1>6

\* What an action queues besides is worth less than the action.
LEMMA PassFuel ==
  ASSUME BuffsOK, SkillBuffsOK, NEW a, Sound(a), Rightful(a), NEW rest \in Seq(Action),
         NEW next \in Seq(Action), Passes(a, rest, next),
         Fuel(next) \in Nat, Fuel(Prelude(a)) + Fuel(next) + 1 <= Weight(a)
  PROVE  queue' \in Seq(Action) /\ Fuel(queue') + 1 <= Fuel(rest) + Weight(a)
<1> DEFINE p == Prelude(a)
<1>1. p \in Seq(Action) /\ Fuel(p) \in Nat
  BY PreludeFuel
<1>2. queue' = (rest \o p) \o next
  BY DEF Passes
<1>3. Fuel(rest) \in Nat
  BY TokensFinite, LenProperties
<1> HIDE DEF p
<1>4. /\ rest \o p \in Seq(Action) /\ Fuel(rest \o p) = Fuel(rest) + Fuel(p)
      /\ (rest \o p) \o next \in Seq(Action)
      /\ Fuel((rest \o p) \o next) = Fuel(rest \o p) + Fuel(next)
  BY <1>1, FuelBoth
<1>5. Weight(a) \in Nat
  BY WeightIs
<1> QED
  BY <1>1, <1>2, <1>3, <1>4, <1>5 DEF p

LEMMA PassAlone ==
  ASSUME BuffsOK, SkillBuffsOK, NEW a, Sound(a), Rightful(a), NEW rest \in Seq(Action),
         Passes(a, rest, <<>>)
  PROVE  queue' \in Seq(Action) /\ Fuel(queue') + 1 <= Fuel(rest) + Weight(a)
<1>1. <<>> \in Seq(Action) /\ Fuel(<<>>) = 0
  BY NoneSet, FuelNone
<1>2. Fuel(Prelude(a)) \in Nat /\ Fuel(Prelude(a)) + 1 <= Weight(a)
  BY PreludeFuel
<1>3. Fuel(Prelude(a)) + Fuel(<<>>) + 1 <= Weight(a) /\ Fuel(<<>>) \in Nat
  BY <1>1, <1>2
<1> QED
  BY <1>1, <1>3, PassFuel

LEMMA PassOne ==
  ASSUME BuffsOK, SkillBuffsOK, NEW a, Sound(a), Rightful(a), NEW rest \in Seq(Action),
         NEW x, Sound(x), Passes(a, rest, <<x>>),
         a.do \notin Shareable \cup {"RemoveBuff"}, Weight(x) + 1 <= Weight(a)
  PROVE  queue' \in Seq(Action) /\ Fuel(queue') + 1 <= Fuel(rest) + Weight(a)
<1>1. <<x>> \in Seq(Action) /\ Fuel(<<x>>) = Weight(x) /\ Weight(x) \in Nat
  BY FuelOne, WeightIs
<1>2. Fuel(Prelude(a)) = 0
  BY PreludeOK, FuelNone
<1>3. Weight(a) \in Nat
  BY WeightIs
<1>4. Fuel(Prelude(a)) + Fuel(<<x>>) + 1 <= Weight(a) /\ Fuel(<<x>>) \in Nat
  BY <1>1, <1>2, <1>3
<1> QED
  BY <1>1, <1>4, PassFuel

LEMMA DamageFuel ==
  ASSUME BuffsOK, SkillBuffsOK, NEW a, Sound(a), Rightful(a), NEW rest \in Seq(Action),
         ExecuteDamage(a, rest)
  PROVE  queue' \in Seq(Action) /\ Fuel(queue') + 1 <= Fuel(rest) + Weight(a)
<1>1. a.to \in All
  BY DEF Sound, Action
<1>2. Sound(Death(a.to)) /\ Weight(Death(a.to)) = 1
  <2>1. Sound(Death(a.to)) /\ Death(a.to).do = "Death"
    BY <1>1 DEF Death, Act, Sound, Action, Sources, Kinds, Queueable
  <2>2. ~IsGain(Death(a.to))
    BY <2>1 DEF IsGain, Gains
  <2> QED
    BY <2>1, <2>2, WeightIs
<1>3. CASE Passes(a, rest, <<>>)
  BY <1>3, PassAlone
<1>4. CASE Passes(a, rest, <<Death(a.to)>>)
  <2> DEFINE x == Death(a.to)
  <2>1. <<x>> \in Seq(Action) /\ Fuel(<<x>>) = 1
    <3> HIDE DEF x
    <3> QED
      BY <1>2, FuelOne DEF x
  <2>2. Fuel(Prelude(a)) \in Nat /\ Fuel(Prelude(a)) + 2 <= Weight(a)
    BY PreludeFuel DEF ExecuteDamage
  <2>5. Weight(a) \in 1 .. 11
    BY WeightIs
  <2> HIDE DEF x
  <2>3. Fuel(Prelude(a)) + Fuel(<<x>>) + 1 <= Weight(a) /\ Fuel(<<x>>) \in Nat
    BY <2>1, <2>2, <2>5
  <2> QED
    BY <1>4, <2>1, <2>3, PassFuel DEF x
<1> QED
  BY <1>3, <1>4 DEF ExecuteDamage

LEMMA AddBuffFuel ==
  ASSUME PlayersOK, BuffsOK, SkillBuffsOK, NEW a, Sound(a), Rightful(a),
         NEW rest \in Seq(Action), ExecuteAddBuff(a, rest)
  PROVE  queue' \in Seq(Action) /\ Fuel(queue') + 1 <= Fuel(rest) + Weight(a)
<1>1. CASE Passes(a, rest, <<>>)
  BY <1>1, PassAlone
<1>2. CASE ~Extends(a) /\ Passes(a, rest, Marked(a, AfterTrigger(a)))
  <2> DEFINE next == Marked(a, AfterTrigger(a))
  <2>1. a.do = "AddBuff"
    BY DEF ExecuteAddBuff
  <2>2. next \in Seq(Action) /\ Fuel(next) \in Nat /\ Fuel(next) + 1 <= Weight(a)
    BY <1>2, <2>1, AfterTriggerFuel
  <2>3. Fuel(Prelude(a)) = 0
    BY <2>1, PreludeOK, FuelNone DEF Shareable
  <2> HIDE DEF next
  <2>4. Fuel(Prelude(a)) + Fuel(next) + 1 <= Weight(a)
    BY <2>2, <2>3
  <2> QED
    BY <1>2, <2>2, <2>4, PassFuel DEF next
<1> QED
  BY <1>1, <1>2 DEF ExecuteAddBuff, Extend, Apply

LEMMA OtherFuel ==
  ASSUME BuffsOK, SkillBuffsOK, NEW a, Sound(a), Rightful(a), NEW rest \in Seq(Action),
         ExecuteOther(a, rest)
  PROVE  queue' \in Seq(Action) /\ Fuel(queue') + 1 <= Fuel(rest) + Weight(a)
<1>1. a.to \in All /\ a.n \in Int
  BY DEF Sound, Action
<1>2. PICK next \in Leads(a) : Passes(a, rest, next)
  BY DEF ExecuteOther
<1>3. CASE Announces(a)
  <2>1. next = <<>>
    BY <1>2, <1>3 DEF Leads, Announces
  <2> QED
    BY <1>2, <2>1, PassAlone
<1>4. CASE a.do = "DrawItem"
  <2>1. PICK i \in ItemPool : next = <<Act("AddItem", a.to, 0, i)>>
    BY <1>2, <1>4 DEF Leads, ItemDrawn, Announces
  <2> DEFINE x == Act("AddItem", a.to, 0, i)
  <2>2. i \in Items
    BY PoolAssumption
  <2>3. Sound(x) /\ x.do = "AddItem"
    BY <1>1, <2>2 DEF Act, Sound, Action, Sources, Kinds, Queueable
  <2> HIDE DEF x
  <2>4. Weight(x) <= 9 /\ Weight(x) \in Nat
    <3>1. Weight(x) = GainWeight(x)
      BY <2>3, WeightIs DEF IsGain
    <3> QED
      BY <3>1 DEF GainWeight
  <2>5. Weight(a) = 10
    BY <1>4, WeightIs
  <2> QED
    BY <1>2, <1>4, <2>1, <2>3, <2>4, <2>5, PassOne DEF x, Shareable
<1>5. CASE a.do = "DrawBuff"
  <2>1. PICK k \in BuffPool : next = <<AddBuff(a.to, k)>>
    BY <1>2, <1>5 DEF Leads, BuffDrawn, Announces
  <2> DEFINE x == AddBuff(a.to, k)
  <2>2. k \in Buffs
    BY PoolAssumption
  <2>3. Sound(x) /\ x.do = "AddBuff"
    BY <1>1, <2>2 DEF AddBuff, Act, Sound, Action, Sources, Kinds, Queueable
  <2> HIDE DEF x
  <2>4. Weight(x) <= 10 /\ Weight(x) \in Nat
    <3>1. Weight(x) = BuffWeight[x.of] /\ x.of \in Buffs
      BY <2>3, WeightIs DEF Sound
    <3> QED
      BY <3>1 DEF BuffWeight
  <2>5. Weight(a) = 11
    BY <1>5, WeightIs
  <2> QED
    BY <1>2, <1>5, <2>1, <2>3, <2>4, <2>5, PassOne DEF x, Shareable
<1>6. CASE a.do \in {"FellDown", "BossAttack"}
  <2>1. next \in {<<Piercing(a.to, a.n)>>, <<Damage(a.to, a.n)>>}
    BY <1>2, <1>6 DEF Leads, FallHurts, AttackHurts, Announces
  <2>2. PICK x \in {Piercing(a.to, a.n), Damage(a.to, a.n)} : next = <<x>>
    BY <2>1
  <2>3. a.n >= 0
    BY <1>6 DEF Sound
  <2>4. Damage(a.to, a.n) \in Action /\ Damage(a.to, a.n).do = "Damage"
        /\ Damage(a.to, a.n).n = a.n /\ Damage(a.to, a.n).from = Nobody
    BY <1>1 DEF Damage, Act, Action, Sources, Kinds, Queueable
  <2>5. x \in Action /\ x.do = "Damage" /\ x.n = a.n /\ x.from = Nobody
    BY <2>2, <2>4 DEF Piercing, Action
  <2>6. Sound(x)
    BY <2>3, <2>5 DEF Sound
  <2>7. Weight(x) <= 4 /\ Weight(x) \in Nat
    <3>1. Weight(x) = LossWeight(x)
      BY <2>5, <2>6, WeightIs
    <3> QED
      BY <2>5, <3>1 DEF LossWeight
  <2>8. Weight(a) = 5
    BY <1>6, WeightIs
  <2>9. Weight(x) + 1 <= Weight(a) /\ a.do \notin Shareable \cup {"RemoveBuff"}
    BY <1>6, <2>7, <2>8 DEF Shareable
  <2> QED
    BY <1>2, <2>2, <2>6, <2>9, PassOne
<1> QED
  BY <1>2, <1>3, <1>4, <1>5, <1>6 DEF Leads

\* The execution of an action costs at least one more than what it queues.
THEOREM RunBurns ==
  ASSUME PlayersOK, BuffsOK, SkillBuffsOK, NEW a, Sound(a), Rightful(a),
         NEW rest \in Seq(Action), Run(a, rest)
  PROVE  queue' \in Seq(Action) /\ Fuel(queue') + 1 <= Fuel(rest) + Weight(a)
<1>1. CASE Refuse(a, rest)
  <2> DEFINE p == Prelude(a)
  <2>1. p \in Seq(Action) /\ Fuel(p) \in Nat /\ Fuel(p) + 1 <= Weight(a) /\ Weight(a) \in Nat
    BY PreludeFuel, WeightIs
  <2>2. queue' = rest \o p
    BY <1>1 DEF Refuse
  <2>3. Fuel(rest) \in Nat
    BY TokensFinite, LenProperties
  <2> HIDE DEF p
  <2>4. rest \o p \in Seq(Action) /\ Fuel(rest \o p) = Fuel(rest) + Fuel(p)
    BY <2>1, FuelBoth
  <2> QED
    BY <2>1, <2>2, <2>3, <2>4
<1>2. CASE ExecuteDamage(a, rest)
  BY <1>2, DamageFuel
<1>3. CASE ExecuteAddBuff(a, rest)
  BY <1>3, AddBuffFuel
<1>4. CASE ExecuteOther(a, rest)
  BY <1>4, OtherFuel
<1>5. CASE Passes(a, rest, <<>>)
  BY <1>5, PassAlone
<1> QED
  BY <1>1, <1>2, <1>3, <1>4, <1>5
     DEF Run, ExecuteBossDamage, ExecuteHeal, ExecuteModifyLP, ExecuteMove, ExecuteTeleport,
         ExecuteRespawn, ExecuteDeath, ExecuteRemoveBuff, ExecuteAddItem, ExecuteRemoveItem
==============================================================================
