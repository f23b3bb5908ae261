------------------------------- MODULE Effects -------------------------------
(***************************************************************************)
(* The effect engine of a match: actions, the buffs that intercept them,   *)
(* and the queue of the actions they derive (internal/engine/action,       *)
(* buff_registry.go, event_registry.go, boss_registry.go, core/player.go). *)
(*                                                                         *)
(* The event bus calls the buffs of a player in the order of their         *)
(* priorities, until one of them blocks.  The code executes one action of  *)
(* the queue after the other, without a pause; a step here is the          *)
(* execution of one action, the phases around it included, so that the     *)
(* recursion of ExecuteAction and ProcessQueue becomes the queue itself.   *)
(*                                                                         *)
(* Buffs and items whose definition is commented out of paradiced.yml are  *)
(* never registered and are left out, and so are the branches that read    *)
(* applied_buff_type before a buff is applied, a key nobody sets there.    *)
(***************************************************************************)
EXTENDS Integers, Sequences, FiniteSets, SequencesExt

CONSTANTS
  Users,        \* the players of the match
  Boss,         \* the Boss, a player too
  Nobody,       \* no player: a nil pointer, an absent metadata key
  InitHP, MaxHP, InitLP, MaxLP, BossHP,
  ItemPool,     \* Game.ItemPool and Game.BuffPool, what a draw may give
  BuffPool,
  QueueLimit    \* maxQueueProcessingDepth

All == Users \cup {Boss}

Buffs == {"curse", "lost", "corrupt", "poison", "hidden", "thorns", "divine",
          "rain", "exorcism", "fire", "death_mark", "dominance", "rob_luck",
          "suppress", "sinking", "eternal", "fearless", "golden_body"}

Items == {"reverse_clock", "any_door", "dice_upgrade", "magic_flute",
          "cupid_arrow", "crimson_blade", "wish_bead", "rainwater_vessel",
          "vajra_seal"}

ASSUME PlayerAssumption ==
  IsFiniteSet(Users) /\ Users # {} /\ Boss \notin Users /\ Nobody \notin All
ASSUME StatAssumption ==
  /\ InitHP \in Nat \ {0} /\ MaxHP \in Nat /\ InitHP <= MaxHP
  /\ InitLP \in Nat /\ MaxLP \in Nat /\ InitLP <= MaxLP
  /\ BossHP \in Nat \ {0} /\ QueueLimit \in Nat
ASSUME PoolAssumption ==
  ItemPool \subseteq Items /\ ItemPool # {} /\ BuffPool \subseteq Buffs /\ BuffPool # {}
\* buildBuffPool leaves out what is not drawn, the buffs of the skills among it.
ASSUME DrawableAssumption == {"dominance", "rob_luck"} \cap BuffPool = {}

VARIABLES
  player,     \* core.Player: hp, lp, IsDead, death count, position, inventory
  buffs,      \* Player.ActiveBuffs, by kind
  queue,      \* ActionContext.ActionQueue
  draining,   \* ProcessQueue is running
  count,      \* ActionContext.processedCount
  extended    \* the metadata key buff_duration_extended

engine == <<player, buffs, queue, draining, count, extended>>

------------------------------------------------------------------------------
\* Players.

MaxHPOf(p) == IF p = Boss THEN BossHP ELSE MaxHP

\* ApplyDamage: hit points stop at zero, where the player dies.
Hurt(p, n) ==
  LET left == player[p].hp - n
  IN IF left <= 0 THEN [player[p] EXCEPT !.hp = 0, !.dead = TRUE]
                  ELSE [player[p] EXCEPT !.hp = left]

\* Mutant of Healed: past the maximum.
HealedOver(p, n) == [player[p] EXCEPT !.hp = @ + n]

\* Heal: up to the maximum, dead or not.
Healed(p, n) ==
  [player[p] EXCEPT !.hp = IF @ + n > MaxHPOf(p) THEN MaxHPOf(p) ELSE @ + n]

\* ModifyLP: within 0 .. MaxLP.
Swayed(p, n) ==
  [player[p] EXCEPT !.lp = IF @ + n < 0 THEN 0
                           ELSE IF @ + n > MaxLP THEN MaxLP ELSE @ + n]

\* Respawn.
Reborn(p, cell) ==
  [player[p] EXCEPT !.pos = cell, !.dead = FALSE,
                    !.hp = IF p = Boss THEN BossHP ELSE InitHP]

------------------------------------------------------------------------------
\* Buffs.  An instance has the turns it still lasts, whether the end of the
\* turn counts it down, the player it points at (the one linked by sinking and
\* eternal, the beneficiary of rob_luck) and a turn counter.

Duration ==
  [curse |-> 3, lost |-> 1, corrupt |-> 4, poison |-> 3, hidden |-> 1,
   thorns |-> 2, divine |-> 3, rain |-> 4, exorcism |-> 5, fire |-> -1,
   death_mark |-> 1, dominance |-> 1, rob_luck |-> 1, suppress |-> 1,
   sinking |-> 2, eternal |-> 2, fearless |-> 3, golden_body |-> 2]

NewBuff(k, peer) == [left |-> Duration[k], ripe |-> FALSE, peer |-> peer, beat |-> 0]

Has(p, k) == k \in DOMAIN buffs[p]

IsActive(b) == b.left > 0 \/ b.left = -1

\* Every handler that returns without an error makes its buff tick-eligible.
Ripen(held, kinds) ==
  [k \in DOMAIN held |-> [held[k] EXCEPT !.ripe = @ \/ k \in kinds]]

\* TickBuffs: the eligible buffs lose a turn.
Ticked(held) ==
  [k \in DOMAIN held |->
     [held[k] EXCEPT !.left = IF @ > 0 /\ held[k].ripe THEN @ - 1 ELSE @]]

Expired(held) == {k \in DOMAIN held : ~IsActive(held[k])}

Without(held, k) == [j \in DOMAIN held \ {k} |-> held[j]]

With(held, k, b) == [j \in DOMAIN held \cup {k} |-> IF j = k THEN b ELSE held[j]]

------------------------------------------------------------------------------
\* Actions: what is done to whom, how much (or which cell), of which kind of
\* buff, item or event, from which source, by which player; for a new buff,
\* "from" is the player it points at.

Sources == {"none", "sinking", "eternal", "dominance", "rob_luck", "fearless"}

Act(do, to, n, of) ==
  [do |-> do, to |-> to, n |-> n, of |-> of, src |-> "none", from |-> Nobody,
   pierce |-> FALSE, marks |-> {}]

Damage(p, n) == Act("Damage", p, n, "none")

Piercing(p, n) == [Damage(p, n) EXCEPT !.pierce = TRUE]

DamageFrom(p, n, q) == [Damage(p, n) EXCEPT !.from = q]

Heal(p, n) == Act("Heal", p, n, "none")

ModifyLP(p, n) == Act("ModifyLP", p, n, "none")

AddBuff(p, k) == Act("AddBuff", p, 0, k)

LinkBuff(p, k, q) == [AddBuff(p, k) EXCEPT !.from = q]

RemoveBuff(p, k) == Act("RemoveBuff", p, 0, k)

Death(p) == Act("Death", p, 0, "none")

BossDamage(p, n) == [Act("BossDamage", Boss, n, "none") EXCEPT !.from = p]

\* What may be taken over, shared or repeated as a gain.
Gains(a) == a.do \in {"Heal", "ModifyLP"} /\ a.n > 0

\* The players whose buffs are asked before the action: the target; for damage
\* also who deals it, and twice where a player hurts itself that way.
ActorPlayers(a) ==
  IF a.do \in {"Damage", "BossDamage"} /\ a.from # Nobody
    THEN <<a.to, a.from>> ELSE <<a.to>>

------------------------------------------------------------------------------
\* PhasePreAction.

Priority == [death_mark |-> 999, fearless |-> 200, rob_luck |-> 80,
             sinking |-> 60, eternal |-> 60, dominance |-> 50]

Interceptors(p) == DOMAIN buffs[p] \cap DOMAIN Priority

\* Mutants of DeathMarkBlocks: only harm is kept off, or another death is let in.
BlocksHarmOnly(a) == a.do \in {"Damage", "Death"}
BlocksAllButDeath(a) ==
  a.do \notin {"Respawn", "Death"} /\ ~(a.do = "RemoveBuff" /\ a.of = "death_mark")

\* handleDeathMarkBlock: nothing but a respawn and the removal of the mark.
DeathMarkBlocks(a) ==
  a.do # "Respawn" /\ ~(a.do = "RemoveBuff" /\ a.of = "death_mark")

\* Mutant of FearlessBlocks: piercing damage passes.
FearlessBlocksPlain(p, a) ==
  a.to = p /\ ((a.do = "Damage" /\ ~a.pierce) \/ a.do = "Heal")

\* handleFearless: neither damage, its own excepted, nor healing.
FearlessBlocks(p, a) ==
  a.to = p /\ ((a.do = "Damage" /\ a.src # "fearless") \/ a.do = "Heal")

\* Mutant of RobLuckTakes: what another effect derived is let through.
RobLuckTakesDirect(p, a) ==
  /\ buffs[p]["rob_luck"].peer # Nobody /\ a.src = "none"
  /\ a.to = p /\ (Gains(a) \/ a.do = "AddItem")

\* handleRobLuckRedirect takes gains and items meant for its holder.
RobLuckTakes(p, a) ==
  /\ buffs[p]["rob_luck"].peer # Nobody /\ a.src # "rob_luck"
  /\ a.to = p /\ (Gains(a) \/ a.do = "AddItem")

Blocks(k, p, a) ==
  \/ k = "death_mark" /\ DeathMarkBlocks(a)
  \/ k = "fearless" /\ FearlessBlocks(p, a)
  \/ k = "rob_luck" /\ RobLuckTakes(p, a)

Blockers(p, a) == {k \in Interceptors(p) : Blocks(k, p, a)}

\* Publish stops at the first handler that blocks.
Heard(p, a) ==
  {k \in Interceptors(p) : \A b \in Blockers(p, a) : Priority[b] <= Priority[k]}

\* Mutant of Shares: a share is shared again.
SharesAgain(k, p, a) ==
  /\ k \in Heard(p, a) /\ buffs[p][k].peer # Nobody /\ a.to = p
  /\ \/ k = "sinking" /\ (a.do = "Damage" \/ (a.do = "ModifyLP" /\ a.n < 0))
     \/ k = "eternal" /\ (Gains(a) \/ a.do = "AddItem")

\* handleSinkingShare passes on losses, handleEternalShare gains, unless the
\* action is itself such a share.
Shares(k, p, a) ==
  /\ k \in Heard(p, a) /\ buffs[p][k].peer # Nobody
  /\ a.src # k /\ k \notin a.marks /\ a.to = p
  /\ \/ k = "sinking" /\ (a.do = "Damage" \/ (a.do = "ModifyLP" /\ a.n < 0))
     \/ k = "eternal" /\ (Gains(a) \/ a.do = "AddItem")

\* handleDominanceAmplify does its holder's attacks and gains a second time.
Amplifies(p, a) ==
  /\ "dominance" \in Heard(p, a) /\ a.src # "dominance"
  /\ (a.do = "BossDamage" /\ a.from = p) \/ (Gains(a) /\ a.to = p)

\* The markers of an action are copied to what its handlers derive.
Derived(a, to, src, own) ==
  [Act(a.do, to, a.n, a.of) EXCEPT
     !.src = src, !.marks = a.marks \cup own,
     !.from = IF a.do = "BossDamage" THEN a.from ELSE Nobody]

Redirected(p, a) ==
  IF "rob_luck" \in Heard(p, a) /\ RobLuckTakes(p, a)
    THEN <<Derived(a, buffs[p]["rob_luck"].peer, "rob_luck", {})>> ELSE <<>>

Shared(k, p, a) ==
  IF Shares(k, p, a) THEN <<Derived(a, buffs[p][k].peer, k, {k})>> ELSE <<>>

Amplified(p, a) ==
  IF Amplifies(p, a) THEN <<Derived(a, a.to, "dominance", {})>> ELSE <<>>

FromActor(p, a) ==
  Redirected(p, a) \o Shared("sinking", p, a) \o Shared("eternal", p, a)
    \o Amplified(p, a)

\* The second player is asked only when the first let the action pass.
Asked(a) ==
  LET actors == ActorPlayers(a)
  IN IF Blockers(actors[1], a) # {} THEN <<actors[1]>> ELSE actors

Intercepted(a) == \E p \in ToSet(Asked(a)) : Blockers(p, a) # {}

FromActors(a) ==
  LET asked == Asked(a)
  IN IF Len(asked) = 1 THEN FromActor(asked[1], a)
     ELSE FromActor(asked[1], a) \o FromActor(asked[2], a)
------------------------------------------------------------------------------
\* The trigger phase before and the lifecycle phase after an action: the buffs
\* of the target whose handlers run, what they block and what they derive.

PreTriggered(a) ==
  CASE a.do = "Damage" /\ ~a.pierce -> {"golden_body", "thorns"}
    [] a.do = "BossDamage" -> {"golden_body", "thorns"}
    [] a.do = "AddBuff" -> IF Has(a.to, "hidden") THEN {"hidden"}
                           ELSE {"suppress", "rob_luck", "sinking", "eternal"}
    [] a.do = "RemoveBuff" -> {"curse", "divine"}
    [] a.do = "DrawEvent" -> {"exorcism", "suppress"}
    [] OTHER -> {}

\* handleHiddenImmune turns every new buff away, good or bad.
Hides(a) == a.do = "AddBuff" /\ Has(a.to, "hidden")

Stopped(a) == Intercepted(a) \/ Hides(a)

\* handleGoldenBodyReduce.
Amount(a) ==
  IF ~a.pierce /\ Has(a.to, "golden_body") THEN a.n \div 2 + 1 ELSE a.n

\* handleThornsReflect: three tenths, rounded to the nearest, back to the
\* attacker.  handleCurseEffect and handleDivineEffect give the luck back.
BeforeTrigger(a) ==
  CASE a.do = "BossDamage" /\ Has(Boss, "thorns") /\ IsActive(buffs[Boss]["thorns"]) ->
         LET back == (3 * a.n + 5) \div 10
         IN IF back > 0 THEN <<Piercing(a.from, back)>> ELSE <<>>
    [] a.do = "RemoveBuff" /\ Has(a.to, a.of) /\ a.of = "curse" -> <<ModifyLP(a.to, 1)>>
    [] a.do = "RemoveBuff" /\ Has(a.to, a.of) /\ a.of = "divine" -> <<ModifyLP(a.to, -1)>>
    [] OTHER -> <<>>

PostTriggered == {"curse", "divine", "fearless"}

\* handleFearless leaves its new holder a single hit point.
AfterTrigger(a) ==
  CASE a.of = "curse" -> <<ModifyLP(a.to, -1)>>
    [] a.of = "divine" -> <<ModifyLP(a.to, 1)>>
    [] a.of = "fearless" /\ player[a.to].hp > 1 ->
         <<[Piercing(a.to, player[a.to].hp - 1) EXCEPT !.src = "fearless"]>>
    [] OTHER -> <<>>

\* ExecuteAction copies the markers to what the handlers derived.
Marked(a, derived) ==
  [i \in 1 .. Len(derived) |-> [derived[i] EXCEPT !.marks = a.marks]]

\* The buffs after the phases up to the action's execution.
Consulted(a) ==
  [p \in All |->
     Ripen(buffs[p],
           (IF p \in ToSet(Asked(a)) THEN Heard(p, a) ELSE {}) \cup
           (IF p = a.to /\ ~Intercepted(a) THEN PreTriggered(a) ELSE {}))]

\* What is queued before the action itself is executed.
Prelude(a) ==
  FromActors(a) \o
  (IF Stopped(a) THEN <<>> ELSE Marked(a, BeforeTrigger(a)))

------------------------------------------------------------------------------
\* ExecuteAction, one operator per kind of action.  "rest" is what the queue
\* holds without the action itself.

\* An intercepted action has no effect; what was derived stays in the queue.
Refuse(a, rest) ==
  /\ Stopped(a)
  /\ buffs' = Consulted(a)
  /\ queue' = rest \o Prelude(a)
  /\ UNCHANGED <<player, extended>>

\* The action is executed: "next" is what it queues in its turn.
Passes(a, rest, next) ==
  /\ ~Stopped(a)
  /\ queue' = rest \o Prelude(a) \o next

ExecuteDamage(a, rest) ==
  LET p == Hurt(a.to, Amount(a))
  IN /\ a.do = "Damage"
     /\ Passes(a, rest, IF p.dead THEN <<Death(a.to)>> ELSE <<>>)
     /\ player' = [player EXCEPT ![a.to] = p]
     /\ buffs' = Consulted(a)
     /\ UNCHANGED extended

ExecuteBossDamage(a, rest) ==
  /\ a.do = "BossDamage"
  /\ Passes(a, rest, <<>>)
  /\ player' = [player EXCEPT ![a.to] = Hurt(a.to, a.n)]
  /\ buffs' = Consulted(a)
  /\ UNCHANGED extended

ExecuteHeal(a, rest) ==
  /\ a.do = "Heal"
  /\ Passes(a, rest, <<>>)
  /\ player' = [player EXCEPT ![a.to] = Healed(a.to, a.n)]
  /\ buffs' = Consulted(a)
  /\ UNCHANGED extended

ExecuteModifyLP(a, rest) ==
  /\ a.do = "ModifyLP"
  /\ Passes(a, rest, <<>>)
  /\ player' = [player EXCEPT ![a.to] = Swayed(a.to, a.n)]
  /\ buffs' = Consulted(a)
  /\ UNCHANGED extended

\* To a cell the caller has worked out.
ExecuteMove(a, rest) ==
  /\ a.do = "Move"
  /\ Passes(a, rest, <<>>)
  /\ player' = [player EXCEPT ![a.to].pos = a.n]
  /\ buffs' = Consulted(a)
  /\ UNCHANGED extended

ExecuteTeleport(a, rest) ==
  /\ a.do = "Teleport"
  /\ Passes(a, rest, <<>>)
  /\ player' = [player EXCEPT ![a.to].pos = a.n]
  /\ buffs' = Consulted(a)
  /\ UNCHANGED extended

ExecuteRespawn(a, rest) ==
  /\ a.do = "Respawn"
  /\ Passes(a, rest, <<>>)
  /\ player' = [player EXCEPT ![a.to] = Reborn(a.to, a.n)]
  /\ buffs' = Consulted(a)
  /\ UNCHANGED extended

\* Mutant of ExecuteDeath: the mark of the dead is forgotten.
ExecuteDeathUnmarked(a, rest) ==
  /\ a.do = "Death"
  /\ Passes(a, rest, <<>>)
  /\ player' = [player EXCEPT ![a.to].deaths = @ + 1]
  /\ buffs' = Consulted(a)
  /\ UNCHANGED extended

\* DeathAction counts the death and marks the dead through OnAddBuff directly,
\* past whatever intercepts an AddBuffAction.
ExecuteDeath(a, rest) ==
  /\ a.do = "Death"
  /\ Passes(a, rest, <<>>)
  /\ player' = [player EXCEPT ![a.to].deaths = @ + 1]
  /\ buffs' = [Consulted(a) EXCEPT
                  ![a.to] = With(@, "death_mark", NewBuff("death_mark", Nobody))]
  /\ UNCHANGED extended

\* AddBuffAction: a buff the target already has lasts longer instead, and the
\* context remembers that this was no new application.
Extends(a) == Has(a.to, a.of) /\ IsActive(buffs[a.to][a.of])

Prolonged(b, a) ==
  [b EXCEPT !.left = IF @ = -1 \/ Duration[a.of] = -1 THEN @ ELSE @ + Duration[a.of],
            !.peer = IF a.from = Nobody THEN @ ELSE a.from]

Extend(a, rest) ==
  /\ Extends(a)
  /\ Passes(a, rest, <<>>)
  /\ buffs' = [Consulted(a) EXCEPT ![a.to][a.of] = Prolonged(@, a)]
  /\ extended' = TRUE

\* A new buff; PhasePostBuffApplied is published unless the flag is up.
Apply(a, rest) ==
  LET held == With(Consulted(a)[a.to], a.of, NewBuff(a.of, a.from))
  IN /\ ~Extends(a)
     /\ Passes(a, rest, IF extended THEN <<>> ELSE Marked(a, AfterTrigger(a)))
     /\ buffs' = [Consulted(a) EXCEPT
                     ![a.to] = IF extended THEN held ELSE Ripen(held, PostTriggered)]
     /\ UNCHANGED extended

ExecuteAddBuff(a, rest) ==
  /\ a.do = "AddBuff"
  /\ Extend(a, rest) \/ Apply(a, rest)
  /\ UNCHANGED player

ExecuteRemoveBuff(a, rest) ==
  /\ a.do = "RemoveBuff"
  /\ Passes(a, rest, <<>>)
  /\ buffs' = [Consulted(a) EXCEPT ![a.to] = Without(@, a.of)]
  /\ UNCHANGED <<player, extended>>

ExecuteAddItem(a, rest) ==
  /\ a.do = "AddItem"
  /\ Passes(a, rest, <<>>)
  /\ player' = [player EXCEPT ![a.to].bag = Append(@, a.of)]
  /\ buffs' = Consulted(a)
  /\ UNCHANGED extended

\* OnRemoveItem takes the first item of the type, whichever was used.
ExecuteRemoveItem(a, rest) ==
  /\ a.do = "RemoveItem"
  /\ Passes(a, rest, <<>>)
  /\ player' = [player EXCEPT ![a.to].bag = RemoveFirst(@, a.of)]
  /\ buffs' = Consulted(a)
  /\ UNCHANGED extended

\* Actions that only queue another one: what they may queue.
ItemDrawn(a) == {Act("AddItem", a.to, 0, i) : i \in ItemPool}

BuffDrawn(a) == {AddBuff(a.to, k) : k \in BuffPool}

FallHurts(a) == Piercing(a.to, a.n)

AttackHurts(a) == Damage(a.to, a.n)

\* Actions whose outcome their caller goes on with: what was rolled or drawn as
\* an event, which skill was chosen, which dice are upgraded.
Announces(a) == a.do \in {"BossSkill", "RollDice", "DrawEvent", "DiceUpgrade"}

Leads(a) ==
  CASE a.do = "DrawItem" -> {<<next>> : next \in ItemDrawn(a)}
    [] a.do = "DrawBuff" -> {<<next>> : next \in BuffDrawn(a)}
    [] a.do = "FellDown" -> {<<FallHurts(a)>>}
    [] a.do = "BossAttack" -> {<<AttackHurts(a)>>}
    [] Announces(a) -> {<<>>}
    [] OTHER -> {}

ExecuteOther(a, rest) ==
  \E next \in Leads(a) :
    /\ Passes(a, rest, next)
    /\ buffs' = Consulted(a)
    /\ UNCHANGED <<player, extended>>

Run(a, rest) ==
  \/ Refuse(a, rest)
  \/ ExecuteDamage(a, rest)
  \/ ExecuteBossDamage(a, rest)
  \/ ExecuteHeal(a, rest)
  \/ ExecuteModifyLP(a, rest)
  \/ ExecuteMove(a, rest)
  \/ ExecuteTeleport(a, rest)
  \/ ExecuteRespawn(a, rest)
  \/ ExecuteDeath(a, rest)
  \/ ExecuteAddBuff(a, rest)
  \/ ExecuteRemoveBuff(a, rest)
  \/ ExecuteAddItem(a, rest)
  \/ ExecuteRemoveItem(a, rest)
  \/ ExecuteOther(a, rest)

------------------------------------------------------------------------------
\* Who runs the queue.

\* ExecuteAction called by a turn state: the queue is processed afterwards,
\* unless the action was intercepted.
Top(a) ==
  /\ Run(a, queue)
  /\ draining' = (~Stopped(a) /\ queue' # <<>>)
  /\ UNCHANGED count

\* ProcessQueue takes the next action; at the limit it gives up with an error.
DrainOne ==
  /\ draining /\ count < QueueLimit
  /\ Run(Head(queue), Tail(queue))
  /\ draining' = (queue' # <<>>)
  /\ count' = count + 1

\* Derived actions of a handler pushed by a turn state, and ProcessQueue.
Push(actions) ==
  /\ queue' = queue \o actions
  /\ draining' = (queue' # <<>>)
  /\ UNCHANGED <<player, count, extended>>

\* ActionContext.Clear, and the new context of the next state.
Clear ==
  /\ queue' = <<>> /\ draining' = FALSE /\ count' = 0 /\ extended' = FALSE
  /\ UNCHANGED <<player, buffs>>

------------------------------------------------------------------------------
\* Events, items and Boss skills: what each asks of the queue.

Events == {"herb", "lucky_bubble", "relic", "divine_bless", "exchange",
           "hidden_buff", "taste_test", "mosquito", "ghost_hit", "dog_poop",
           "wind_gust", "skull_gaze", "lost_way", "thunder"}

\* Events whose evaluation is 40 or less.
BadEvents == {"mosquito", "ghost_hit", "dog_poop", "wind_gust", "skull_gaze",
              "lost_way", "thunder"}

\* handleSwapPosition takes the first other player who is alive; the Boss is
\* last of Game.Players, the order of the others is theirs of the round.
SwapPartners(p) ==
  LET alive == {q \in Users \ {p} : ~player[q].dead}
  IN IF alive # {} THEN alive ELSE {q \in {Boss} : ~player[q].dead}

Swaps(p) ==
  {<<Act("Teleport", p, player[q].pos, "none"), Act("Teleport", q, player[p].pos, "none")>> :
     q \in SwapPartners(p)}

\* The event handlers of event_registry.go.
EventEffects(e, p) ==
  CASE e = "herb" -> {<<Heal(p, 1)>>}
    [] e = "lucky_bubble" -> {<<ModifyLP(p, 1)>>}
    [] e = "relic" -> {<<Act("DrawItem", p, 0, "none")>>}
    [] e = "divine_bless" -> {<<AddBuff(p, "divine")>>}
    [] e = "exchange" -> IF SwapPartners(p) = {} THEN {<<>>} ELSE Swaps(p)
    [] e = "hidden_buff" -> {<<AddBuff(p, "hidden")>>}
    [] e = "taste_test" -> {<<Act("DrawBuff", p, 0, "none")>>}
    [] e \in {"mosquito", "ghost_hit"} -> {<<Damage(p, 1)>>}
    [] e = "dog_poop" -> {<<ModifyLP(p, -1)>>}
    [] e = "wind_gust" ->
         {IF player[p].bag = <<>> THEN <<>>
          ELSE <<Act("RemoveItem", p, 0, Head(player[p].bag))>>}
    [] e = "skull_gaze" -> {<<AddBuff(p, "curse")>>}
    [] e = "lost_way" -> {<<AddBuff(p, "lost")>>}
    [] e = "thunder" -> {IF player[p].hp > 0 THEN <<Damage(p, player[p].hp)>> ELSE <<>>}

GivenBuff == [reverse_clock |-> "lost", wish_bead |-> "divine",
              rainwater_vessel |-> "rain", vajra_seal |-> "golden_body"]

\* The items whose handler fails without a target: they are not used up.
NeedsTarget == {"magic_flute", "cupid_arrow", "crimson_blade"}

\* The item handlers of item_registry.go, used by p on t (or on Nobody).
ItemEffect(i, p, t) ==
  CASE i \in DOMAIN GivenBuff -> <<AddBuff(IF t = Nobody THEN p ELSE t, GivenBuff[i])>>
    [] i = "any_door" ->
         IF t = Nobody THEN <<>> ELSE <<Act("Teleport", p, player[t].pos, "none")>>
    [] i = "dice_upgrade" -> <<Act("DiceUpgrade", p, 0, "none")>>
    [] i = "magic_flute" -> <<LinkBuff(p, "sinking", t), LinkBuff(t, "sinking", p)>>
    [] i = "cupid_arrow" -> <<LinkBuff(p, "eternal", t), LinkBuff(t, "eternal", p)>>
    [] i = "crimson_blade" ->
         IF player[p].hp < 2 THEN <<>>
         ELSE <<Piercing(p, player[p].hp \div 2), DamageFrom(t, player[p].hp \div 2, p)>>

Skills == {"thunder", "curse", "rest", "thorns"}

\* The skill handlers of boss_registry.go against the players "prey".
SkillEffects(s, prey) ==
  CASE s = "thunder" -> {[i \in DOMAIN o |-> Damage(o[i], 3)] : o \in SetToSeqs(prey)}
    [] s = "curse" -> {[i \in DOMAIN o |-> AddBuff(o[i], "curse")] : o \in SetToSeqs(prey)}
    [] s = "rest" -> {IF player[Boss].dead THEN <<>> ELSE <<Heal(Boss, 20)>>}
    [] s = "thorns" -> {<<AddBuff(Boss, "thorns")>>}

------------------------------------------------------------------------------
\* The start: what a player and the Boss are given, and the players of ZhuQue
\* their fire.  The Boss asks for no luck, and NewPlayer puts the default.

Newcomer(p, cell) ==
  [hp |-> IF p = Boss THEN BossHP ELSE InitHP, lp |-> InitLP,
   dead |-> FALSE, deaths |-> 0, pos |-> cell, bag |-> <<>>]

EngineInit(start, firebirds) ==
  /\ player = [p \in All |-> Newcomer(p, start[p])]
  /\ buffs = [p \in All |-> [k \in IF p \in firebirds THEN {"fire"} ELSE {} |->
                               NewBuff(k, Nobody)]]
  /\ queue = <<>> /\ draining = FALSE /\ count = 0 /\ extended = FALSE
==============================================================================
