--------------------------- MODULE RoundFlowProofs ---------------------------
(***************************************************************************)
(* Theorems about RoundFlow, for every set of users, every initial roster   *)
(* and every setting of the switches.                                       *)
(*                                                                         *)
(* The turn order is the heart of the argument: the code sorts, extends and *)
(* shrinks game.Players in place while three indices and one pointer refer  *)
(* into it.  The first lemmas say what each of these operations does to a   *)
(* roster; FlowInv then says how the references stay together.              *)
(* The last part shows that RoundFlow implements RoundPromise.              *)
(***************************************************************************)
EXTENDS RoundFlow, FiniteSetTheorems, FunctionTheorems, SequenceTheorems, TLAPS

-----------------------------------------------------------------------------
(* Rosters *)

\* A roster: participants, nobody twice, the Boss and somebody to play.
Roster(ps) ==
  /\ ps \in Seq(Participants)
  /\ IsInjective(ps)
  /\ Boss \in ToSet(ps)
  /\ ToSet(ps) \ {Boss} # {}

\* The elements of a sequence are what its indices are mapped to.
LEMMA ToSetOfSeq ==
  ASSUME NEW ps \in Seq(Participants)
  PROVE  /\ \A x : x \in ToSet(ps) <=> \E i \in 1..Len(ps) : x = ps[i]
         /\ Len(ps) \in Nat
         /\ IsInjective(ps) <=>
              \A i, j \in 1..Len(ps) : ps[i] = ps[j] => i = j
BY LenProperties DEF ToSet, IsInjective

\* A roster is not empty, and its players are finitely many but not none.
LEMMA RosterFacts ==
  ASSUME NEW ps, Roster(ps)
  PROVE  /\ Len(ps) \in Nat /\ Len(ps) >= 1
         /\ \A i \in 1..Len(ps) : ps[i] \in Participants
         /\ IsFiniteSet(ToSet(ps) \ {Boss})
         /\ Cardinality(ToSet(ps) \ {Boss}) \in Nat \ {0}
<1>1. /\ Len(ps) \in Nat
      /\ \A x : x \in ToSet(ps) <=> \E i \in 1..Len(ps) : x = ps[i]
  BY ToSetOfSeq DEF Roster
<1>2. Len(ps) >= 1
  BY <1>1 DEF Roster
<1>3. \A i \in 1..Len(ps) : ps[i] \in Participants
  BY ElementOfSeq DEF Roster
<1>4. ToSet(ps) \ {Boss} \subseteq Users
  BY <1>1, <1>3 DEF Participants
<1>5. IsFiniteSet(ToSet(ps) \ {Boss})
  BY <1>4, FS_Subset, UsersAssumption
<1>6. Cardinality(ToSet(ps) \ {Boss}) \in Nat \ {0}
  BY <1>5, FS_CardinalityType, FS_EmptySet DEF Roster
<1> QED
  BY <1>1, <1>2, <1>3, <1>5, <1>6

\* The sort of RoundPrep loses nobody, doubles nobody and invents nobody.
LEMMA SortedRoster ==
  ASSUME NEW ps, Roster(ps), NEW rk \in [Users -> Nat],
         NEW f \in RankOrders(ps, rk),
         NEW qs, qs = [i \in 1..Len(ps) |-> ps[f[i]]]
  PROVE  Roster(qs) /\ Len(qs) = Len(ps) /\ ToSet(qs) = ToSet(ps)
<1>0. \A s \in Seq(Participants) :
        \A x : x \in ToSet(s) <=> \E i \in 1..Len(s) : x = s[i]
  BY ToSetOfSeq
<1> DEFINE n == Len(ps)
<1>1. n \in Nat /\ (\A i \in 1..n : ps[i] \in Participants)
  BY RosterFacts
<1>2. f \in [1..n -> 1..n]
  BY DEF RankOrders
<1>3. \A i \in 1..n : SortKey(ps, rk, i) \in Nat
  BY <1>1 DEF SortKey, Participants
<1>4. \A i, j \in 1..n : i < j => f[i] # f[j]
  <2> SUFFICES ASSUME NEW i \in 1..n, NEW j \in 1..n, i < j, f[i] = f[j]
               PROVE  FALSE
    OBVIOUS
  <2>1. \/ SortKey(ps, rk, f[i]) < SortKey(ps, rk, f[j])
        \/ SortKey(ps, rk, f[i]) = SortKey(ps, rk, f[j]) /\ f[i] < f[j]
    BY DEF RankOrders
  <2>2. f[i] \in 1..n /\ SortKey(ps, rk, f[i]) \in Nat
    BY <1>2, <1>3
  <2> QED
    BY <2>1, <2>2
<1>5. f \in Injection(1..n, 1..n)
  <2>1. \A i, j \in 1..n : f[i] = f[j] => i = j
    BY <1>1, <1>4
  <2> QED
    BY <1>2, <2>1 DEF Injection, IsInjective
<1>6. f \in Surjection(1..n, 1..n)
  BY <1>1, <1>5, FS_Injection, FS_Interval
<1>7. \A k \in 1..n : \E i \in 1..n : f[i] = k
  BY <1>6 DEF Surjection
<1>8. qs \in Seq(Participants) /\ Len(qs) = n
  <2>1. qs \in [1..n -> Participants]
    BY <1>1, <1>2
  <2> QED
    BY <1>1, <2>1
<1>9. ToSet(qs) = ToSet(ps)
  <2>1. \A x : x \in ToSet(ps) <=> \E i \in 1..n : x = ps[i]
    BY <1>0, Zenon DEF Roster
  <2>2. \A x : x \in ToSet(qs) <=> \E i \in 1..Len(qs) : x = qs[i]
    BY <1>8, <1>0, Zenon
  <2>3. \A i \in 1..n : qs[i] = ps[f[i]] /\ f[i] \in 1..n
    BY <1>2
  <2>4. 1..Len(qs) = 1..n
    BY <1>8
  <2>5. ASSUME NEW x, x \in ToSet(qs) PROVE x \in ToSet(ps)
    <3>1. \E i \in 1..Len(qs) : x = qs[i]
      BY <2>2, <2>5, ZenonT(40)
    <3>2. PICK i \in 1..n : x = qs[i]
      BY <2>4, <3>1, ZenonT(40)
    <3> QED
      BY <2>1, <2>3, <3>2, Zenon
  <2>6. ASSUME NEW x, x \in ToSet(ps) PROVE x \in ToSet(qs)
    <3>1. PICK k \in 1..n : x = ps[k]
      BY <2>1, <2>6, Zenon
    <3>2. PICK i \in 1..n : f[i] = k
      BY <1>7, Zenon
    <3>3. i \in 1..Len(qs) /\ x = qs[i]
      BY <2>3, <2>4, <3>1, <3>2, Zenon
    <3> QED
      BY <2>2, <3>3, Zenon
  <2> QED
    BY <2>5, <2>6, Zenon
<1>10. IsInjective(qs)
  <2>1. \A i, j \in 1..n : qs[i] = qs[j] => i = j
    <3> SUFFICES ASSUME NEW i \in 1..n, NEW j \in 1..n, qs[i] = qs[j]
                 PROVE  i = j
      OBVIOUS
    <3>1. ps[f[i]] = ps[f[j]] /\ f[i] \in 1..n /\ f[j] \in 1..n
      BY <1>2
    <3>2. f[i] = f[j]
      BY <3>1, ToSetOfSeq DEF Roster
    <3> QED
      BY <3>2, <1>5 DEF Injection, IsInjective
  <2> QED
    BY <1>8, <2>1, ToSetOfSeq
<1> QED
  BY <1>8, <1>9, <1>10 DEF Roster

\* A newcomer goes to the end; nobody else moves.
LEMMA ExtendedRoster ==
  ASSUME NEW ps, Roster(ps), NEW u \in Users, u \notin ToSet(ps)
  PROVE  /\ Roster(Append(ps, u))
         /\ Len(Append(ps, u)) = Len(ps) + 1
         /\ \A i \in 1..Len(ps) : Append(ps, u)[i] = ps[i]
         /\ Append(ps, u)[Len(ps) + 1] = u
         /\ ToSet(Append(ps, u)) = ToSet(ps) \cup {u}
<1> DEFINE qs == Append(ps, u)
<1>1. ps \in Seq(Participants) /\ u \in Participants
  BY DEF Roster, Participants
<1>2. /\ qs \in Seq(Participants) /\ Len(qs) = Len(ps) + 1
      /\ \A i \in 1..Len(ps) : qs[i] = ps[i]
      /\ qs[Len(ps) + 1] = u
  BY <1>1, AppendProperties
<1>3. Len(ps) \in Nat /\ (\A x : x \in ToSet(ps) <=> \E i \in 1..Len(ps) : x = ps[i])
  BY <1>1, ToSetOfSeq
<1> HIDE DEF qs
<1>4. \A x : x \in ToSet(qs) <=> \E i \in 1..Len(qs) : x = qs[i]
  BY <1>2, ToSetOfSeq
<1>5. ToSet(qs) = ToSet(ps) \cup {u}
  <2>1. 1..Len(qs) = 1..Len(ps) \cup {Len(ps) + 1}
    BY <1>2, <1>3
  <2> QED
    BY <1>2, <1>3, <1>4, <2>1
<1>6. IsInjective(qs)
  <2>1. \A i \in 1..Len(ps) : ps[i] # u
    BY <1>3
  <2>2. \A i, j \in 1..Len(ps) : ps[i] = ps[j] => i = j
    BY <1>1, ToSetOfSeq DEF Roster
  <2>3. \A i, j \in 1..Len(qs) : qs[i] = qs[j] => i = j
    BY <1>2, <1>3, <2>1, <2>2
  <2> QED
    BY <1>2, <2>3, ToSetOfSeq
<1>7. Boss \in ToSet(qs) /\ ToSet(qs) \ {Boss} # {}
  BY <1>5 DEF Roster
<1> QED
  BY <1>2, <1>5, <1>6, <1>7 DEF Roster, qs

\* Removing one player leaves the others, each at one place.
LEMMA ReducedRoster ==
  ASSUME NEW ps, Roster(ps), NEW k \in 1..Len(ps),
         ps[k] # Boss, ToSet(ps) \ {Boss} # {ps[k]}
  PROVE  /\ Roster(RemoveAt(ps, k))
         /\ ToSet(RemoveAt(ps, k)) = ToSet(ps) \ {ps[k]}
<1> DEFINE n == Len(ps)
           front == SubSeq(ps, 1, k - 1)
           back  == SubSeq(ps, k + 1, n)
           qs == RemoveAt(ps, k)
<1>1. ps \in Seq(Participants) /\ n \in Nat
  BY ToSetOfSeq DEF Roster
<1>2. \A i \in 1..n : ps[i] \in Participants
  BY RosterFacts
<1>3. /\ front \in Seq(Participants) /\ Len(front) = k - 1
      /\ \A i \in 1..(k - 1) : front[i] = ps[i]
  <2>1. \A i \in 1..(k - 1) : ps[i] \in Participants
    BY <1>1, <1>2
  <2>2. 1 \in Int /\ k - 1 \in Int
    BY <1>1
  <2>3. /\ front \in Seq(Participants)
        /\ Len(front) = IF 1 <= k - 1 THEN k - 1 - 1 + 1 ELSE 0
        /\ \A i \in 1..(k - 1 - 1 + 1) : front[i] = ps[1 + i - 1]
    BY <2>1, <2>2, SubSeqProperties
  <2> QED
    BY <1>1, <2>3
<1>4. /\ back \in Seq(Participants) /\ Len(back) = n - k
      /\ \A i \in 1..(n - k) : back[i] = ps[k + i]
  <2>1. \A i \in (k + 1)..n : ps[i] \in Participants
    BY <1>1, <1>2
  <2>2. k + 1 \in Int /\ n \in Int
    BY <1>1
  <2>3. /\ back \in Seq(Participants)
        /\ Len(back) = IF k + 1 <= n THEN n - (k + 1) + 1 ELSE 0
        /\ \A i \in 1..(n - (k + 1) + 1) : back[i] = ps[(k + 1) + i - 1]
    BY <2>1, <2>2, SubSeqProperties
  <2> QED
    BY <1>1, <2>3
<1>5. qs = front \o back
  BY DEF RemoveAt
<1>6. /\ qs \in Seq(Participants) /\ Len(qs) = n - 1
      /\ \A i \in 1..(n - 1) : qs[i] = IF i < k THEN ps[i] ELSE ps[i + 1]
  <2> HIDE DEF front, back, qs
  <2>1. /\ qs \in Seq(Participants) /\ Len(qs) = Len(front) + Len(back)
        /\ \A i \in 1..(Len(front) + Len(back)) :
             qs[i] = IF i <= Len(front) THEN front[i] ELSE back[i - Len(front)]
    BY <1>3, <1>4, <1>5, ConcatProperties
  <2>2. Len(front) = k - 1 /\ Len(front) + Len(back) = n - 1
    BY <1>1, <1>3, <1>4
  <2>3. ASSUME NEW i \in 1..(n - 1)
        PROVE  qs[i] = IF i < k THEN ps[i] ELSE ps[i + 1]
    <3>1. qs[i] = IF i <= k - 1 THEN front[i] ELSE back[i - (k - 1)]
      BY <2>1, <2>2
    <3>2. CASE i < k
      BY <1>1, <1>3, <3>1, <3>2
    <3>3. CASE ~(i < k)
      <4>1. i - (k - 1) \in 1..(n - k) /\ k + (i - (k - 1)) = i + 1
        BY <1>1, <3>3
      <4>2. back[i - (k - 1)] = ps[i + 1]
        BY <1>4, <4>1
      <4> QED
        BY <1>1, <3>1, <3>3, <4>2
    <3> QED
      BY <3>2, <3>3
  <2> QED
    BY <2>1, <2>2, <2>3
<1> HIDE DEF qs, front, back
<1>7. \A i, j \in 1..n : ps[i] = ps[j] => i = j
  BY <1>1, ToSetOfSeq DEF Roster
<1>8. /\ \A x : x \in ToSet(ps) <=> \E i \in 1..n : x = ps[i]
      /\ \A x : x \in ToSet(qs) <=> \E i \in 1..(n - 1) : x = qs[i]
  BY <1>1, <1>6, ToSetOfSeq
<1>9. ToSet(qs) = ToSet(ps) \ {ps[k]}
  <2>1. ASSUME NEW i \in 1..(n - 1)
        PROVE  \E j \in 1..n : j # k /\ qs[i] = ps[j]
    <3>1. CASE i < k
      BY <1>1, <1>6, <3>1
    <3>2. CASE ~(i < k)
      <4>1. i + 1 \in 1..n /\ i + 1 # k
        BY <1>1, <3>2
      <4> QED
        BY <1>6, <3>2, <4>1
    <3> QED
      BY <3>1, <3>2
  <2>2. ASSUME NEW i \in 1..n, i # k
        PROVE  \E j \in 1..(n - 1) : qs[j] = ps[i]
    <3>1. CASE i < k
      BY <1>1, <1>6, <3>1
    <3>2. CASE i > k
      <4>1. i - 1 \in 1..(n - 1) /\ ~(i - 1 < k) /\ (i - 1) + 1 = i
        BY <1>1, <3>2
      <4> QED
        BY <1>6, <4>1
    <3> QED
      BY <1>1, <2>2, <3>1, <3>2
  <2>3. \A i \in 1..n : ps[i] = ps[k] <=> i = k
    BY <1>7
  <2>4. ASSUME NEW x
        PROVE  x \in ToSet(qs) <=> x \in ToSet(ps) \ {ps[k]}
    <3>1. x \in ToSet(qs) <=> \E j \in 1..n : j # k /\ x = ps[j]
      <4>1. ASSUME x \in ToSet(qs)
            PROVE  \E j \in 1..n : j # k /\ x = ps[j]
        <5>1. PICK i \in 1..(n - 1) : x = qs[i]
          BY <1>8, <4>1
        <5> QED
          BY <2>1, <5>1
      <4>2. ASSUME NEW j \in 1..n, j # k, x = ps[j]
            PROVE  x \in ToSet(qs)
        <5>1. PICK i \in 1..(n - 1) : qs[i] = ps[j]
          BY <2>2, <4>2
        <5> QED
          BY <1>8, <4>2, <5>1
      <4> QED
        BY <4>1, <4>2
    <3> QED
      BY <1>8, <2>3, <3>1
  <2> QED
    BY <2>4
<1>10. IsInjective(qs)
  <2>1. \A i, j \in 1..(n - 1) : qs[i] = qs[j] => i = j
    BY <1>1, <1>6, <1>7
  <2> QED
    BY <1>6, <2>1, ToSetOfSeq
<1> QED
  BY <1>6, <1>9, <1>10 DEF Roster, qs

-----------------------------------------------------------------------------
(* The inductive invariant *)

FlowTypes ==
  /\ running \in BOOLEAN
  /\ globalState \in {"WaitingForHost", "RoundMiniGame", "TurnLoop",
                      "RoundEndWait", "GameOver"}
  /\ turnState \in {"None", "MainAction", "TurnEnd"}
  /\ Roster(players)
  /\ turn \in Nat
  /\ turnPlayer \in Participants \cup {NoPlayer}
  /\ currentPlayerIndex \in Nat
  /\ turnsTaken \in [Participants -> Nat]

\* Users outside the roster have had no turn of this round: one who joins
\* in the middle of it finds nothing on his account.
AbsentTookNoTurn ==
  globalState = "TurnLoop" => \A u \in Users \ Competitors : turnsTaken[u] = 0

FlowInv == FlowTypes /\ TurnOwnership /\ OneTurnEach /\ AbsentTookNoTurn

MiniTypes ==
  /\ mode \in {"none", "frontend", "rpc"}
  /\ totalPlayers \in Nat
  /\ resultsReceived \in Nat
  /\ gameData \subseteq Users
  /\ rank \in [Users -> Nat]
  /\ bossDefeated \in BOOLEAN

SignalTypes ==
  /\ round \in Nat \ {0}
  /\ readyReceived \in Nat
  /\ readyTotal \in Nat
  /\ startRequested \in BOOLEAN
  /\ DOMAIN pendingResults \subseteq Users
  /\ pendingResults \in [DOMAIN pendingResults -> Nat]
  /\ pendingTrigger \in BOOLEAN
  /\ inBatch \in BOOLEAN
  /\ readyFrom \subseteq Users

\* A defeated Boss is seen only between the blow and the next tick.
DefeatIsFresh ==
  bossDefeated => ~running \/ (globalState = "TurnLoop" /\ turnState = "TurnEnd")

IInv == FlowInv /\ MiniTypes /\ SignalTypes /\ NoMissedCompletion /\ DefeatIsFresh

-----------------------------------------------------------------------------
(* What the transitions establish *)

\* A turn begun at index i, with exactly the players before it served.
LEMMA BeginTurnFlow ==
  ASSUME NEW ps, Roster(ps), players' = ps, running' \in BOOLEAN,
         NEW i \in Nat, i < Len(ps),
         NEW taken \in [Participants -> Nat],
         \A j \in 1..Len(ps) : taken[ps[j]] = IF j <= i THEN 1 ELSE 0,
         \A u \in Users \ ToSet(ps) : taken[u] = 0,
         BeginTurn(ps, i, taken)
  PROVE  FlowInv' /\ globalState' = "TurnLoop"
<1>1. /\ Len(ps) \in Nat /\ i + 1 \in 1..Len(ps)
      /\ \A j \in 1..Len(ps) : ps[j] \in Participants
  <2>1. Len(ps) \in Nat /\ \A j \in 1..Len(ps) : ps[j] \in Participants
    BY RosterFacts
  <2> QED
    BY <2>1
<1>2. \A j, k \in 1..Len(ps) : ps[j] = ps[k] => j = k
  BY ToSetOfSeq DEF Roster
<1>3. /\ globalState' = "TurnLoop" /\ turn' = i /\ currentPlayerIndex' = i
      /\ turnPlayer' = ps[i + 1] /\ turnState' \in {"MainAction", "TurnEnd"}
      /\ turnsTaken' = [taken EXCEPT ![ps[i + 1]] = @ + 1]
  BY DEF BeginTurn
<1>4. turnsTaken' \in [Participants -> Nat]
  BY <1>1, <1>3
<1>5. FlowTypes'
  BY <1>1, <1>3, <1>4 DEF FlowTypes
<1>6. TurnOwnership'
  BY <1>3 DEF TurnOwnership
<1>7. OneTurnEach'
  <2> SUFFICES ASSUME NEW j \in 1..Len(ps)
               PROVE  turnsTaken'[ps[j]] = IF j <= i + 1 THEN 1 ELSE 0
    BY <1>3 DEF OneTurnEach
  <2>1. CASE j = i + 1
    <3>1. taken[ps[j]] = 0
      BY <2>1
    <3> QED
      BY <1>1, <1>3, <2>1, <3>1
  <2>2. CASE j # i + 1
    <3>1. ps[j] # ps[i + 1]
      BY <1>1, <1>2, <2>2
    <3>2. turnsTaken'[ps[j]] = taken[ps[j]]
      BY <1>1, <1>3, <3>1
    <3> QED
      BY <1>1, <2>2, <3>2
  <2> QED
    BY <2>1, <2>2
<1>8. AbsentTookNoTurn'
  <2> SUFFICES ASSUME NEW u \in Users, u \notin ToSet(ps)
               PROVE  turnsTaken'[u] = 0
    BY BossAssumption DEF AbsentTookNoTurn, Competitors
  <2>1. u # ps[i + 1]
    BY <1>1, ToSetOfSeq DEF Roster
  <2> QED
    BY <1>3, <2>1 DEF Participants
<1> QED
  BY <1>3, <1>5, <1>6, <1>7, <1>8 DEF FlowInv

\* Leaving the turns for any other state puts all references out of use.
LEMMA RestingFlow ==
  ASSUME NEW g \in {"WaitingForHost", "RoundMiniGame", "RoundEndWait", "GameOver"},
         Resting(g), running' \in BOOLEAN, Roster(players'),
         turn' \in Nat, turnsTaken' \in [Participants -> Nat]
  PROVE  FlowInv' /\ globalState' = g
BY DEF Resting, FlowInv, FlowTypes, TurnOwnership, OneTurnEach, AbsentTookNoTurn

LEMMA PrepareRoundFlow ==
  ASSUME FlowInv, NEW rk \in [Users -> Nat], NEW d, PrepareRound(rk, d)
  PROVE  FlowInv' /\ globalState' \in {"TurnLoop", "GameOver"}
<1>1. PICK f \in RankOrders(players, rk) :
        LET ps == [i \in 1..Len(players) |-> players[f[i]]] IN
        /\ players' = ps
        /\ IF d THEN EnterGameOver ELSE BeginTurn(ps, 0, NoTurns) /\ UNCHANGED running
  BY DEF PrepareRound
<1> DEFINE ps == [i \in 1..Len(players) |-> players[f[i]]]
<1>2. Roster(ps)
  BY SortedRoster DEF FlowInv, FlowTypes
<1> HIDE DEF ps
<1>3. CASE d
  <2>1. EnterGameOver /\ Roster(players')
    BY <1>1, <1>2, <1>3 DEF ps
  <2> QED
    BY <2>1, RestingFlow DEF EnterGameOver, FlowInv, FlowTypes
<1>4. CASE ~d
  <2>1. players' = ps /\ BeginTurn(ps, 0, NoTurns) /\ running' \in BOOLEAN
    BY <1>1, <1>4 DEF ps, FlowInv, FlowTypes
  <2>2. /\ Len(ps) \in Nat /\ 0 < Len(ps)
        /\ \A j \in 1..Len(ps) : ps[j] \in Participants
    <3>1. Len(ps) \in Nat /\ Len(ps) >= 1
      BY <1>2, RosterFacts
    <3>2. \A j \in 1..Len(ps) : ps[j] \in Participants
      BY <1>2, RosterFacts
    <3> QED
      BY <3>1, <3>2
  <2>3. NoTurns \in [Participants -> Nat]
    BY DEF NoTurns
  <2>4. \A j \in 1..Len(ps) : NoTurns[ps[j]] = IF j <= 0 THEN 1 ELSE 0
    BY <2>2 DEF NoTurns
  <2>5. \A u \in Users \ ToSet(ps) : NoTurns[u] = 0
    BY DEF NoTurns, Participants
  <2> QED
    BY <1>2, <2>1, <2>2, <2>3, <2>4, <2>5, BeginTurnFlow
<1> QED
  BY <1>3, <1>4

LEMMA EnterRoundMiniGameInv ==
  ASSUME FlowInv, NEW t \in Nat, NEW taken \in [Participants -> Nat],
         EnterRoundMiniGame(t, taken)
  PROVE  FlowInv' /\ MiniTypes' /\ NoMissedCompletion' /\ DefeatIsFresh'
<1>1. PICK m \in MiniGameModes :
        /\ mode' = m
        /\ totalPlayers' = Cardinality(Competitors)
        /\ resultsReceived' = 0
        /\ gameData' = {}
        /\ rank' = ClearedRanks
        /\ bossDefeated' = FALSE
        /\ IF m = "none"
           THEN PrepareRound(ClearedRanks, FALSE)
           ELSE /\ Resting("RoundMiniGame")
                /\ turn' = t
                /\ turnsTaken' = taken
                /\ UNCHANGED <<running, players>>
  BY DEF EnterRoundMiniGame
<1>2. ClearedRanks \in [Users -> Nat]
  BY DEF ClearedRanks, Unranked
<1>3. Cardinality(Competitors) \in Nat \ {0}
  BY RosterFacts DEF FlowInv, FlowTypes, Competitors
<1>4. MiniTypes'
  BY <1>1, <1>2, <1>3, ModeAssumption DEF MiniTypes
<1>5. FlowInv' /\ globalState' \in {"TurnLoop", "GameOver", "RoundMiniGame"}
  <2>1. CASE m = "none"
    BY <1>1, <1>2, <2>1, PrepareRoundFlow
  <2>2. CASE m # "none"
    BY <1>1, <2>2, RestingFlow DEF FlowInv, FlowTypes
  <2> QED
    BY <2>1, <2>2
<1>6. NoMissedCompletion'
  BY <1>1, <1>3, <1>5 DEF NoMissedCompletion
<1>7. DefeatIsFresh'
  BY <1>1 DEF DefeatIsFresh
<1> QED
  BY <1>4, <1>5, <1>6, <1>7

LEMMA WithRanksType ==
  ASSUME NEW rk \in [Users -> Nat], NEW r, r \in [DOMAIN r -> Nat]
  PROVE  WithRanks(rk, r) \in [Users -> Nat]
BY DEF WithRanks

LEMMA RankingsType ==
  ASSUME NEW S \in SUBSET Users, NEW r \in Rankings(S)
  PROVE  r \in [DOMAIN r -> Nat]
<1> DEFINE N == Cardinality(S)
<1>1. N \in Nat
  BY FS_Subset, FS_CardinalityType, UsersAssumption
<1>2. PICK p \in Bijection(S, 1..N), k \in 0..N :
        r = [u \in S |-> IF p[u] <= k THEN p[u] ELSE N]
  BY DEF Rankings
<1>3. \A u \in S : p[u] \in Nat
  BY <1>1 DEF Bijection, Injection
<1> QED
  BY <1>1, <1>2, <1>3

-----------------------------------------------------------------------------
(* One lemma for each group of steps: what it preserves of IInv *)

LEMMA FlowUnchanged ==
  ASSUME FlowInv, UNCHANGED <<hsmVars, players, turnVars>>
  PROVE  FlowInv'
BY DEF FlowInv, FlowTypes, TurnOwnership, OneTurnEach, AbsentTookNoTurn,
       Competitors, hsmVars, turnVars

\* Steps that leave the state machine where it is.
LEMMA IdleSteps ==
  ASSUME IInv,
         UNCHANGED <<globalState, turnState, players, turnVars, miniVars, rank,
                     bossDefeated, readyVars>>,
         running' \in BOOLEAN, running' => running, SignalTypes'
  PROVE  IInv'
<1>1. FlowInv'
  BY DEF IInv, FlowInv, FlowTypes, TurnOwnership, OneTurnEach, AbsentTookNoTurn,
         Competitors, turnVars
<1>2. MiniTypes' /\ NoMissedCompletion' /\ DefeatIsFresh'
  BY DEF IInv, MiniTypes, NoMissedCompletion, DefeatIsFresh, FlowInv, FlowTypes,
         miniVars, readyVars
<1> QED
  BY <1>1, <1>2 DEF IInv

\* Joins and removals; a removal happens outside of turns only.
LEMMA RosterSteps ==
  ASSUME IInv, NEW u \in Users,
         AddPlayer(u) \/ LeaveWaitingRoom(u) \/ KickPlayer(u)
  PROVE  IInv'
<1>1. /\ UNCHANGED <<hsmVars, round, turnVars, miniVars, rank, bossDefeated,
                     readyVars, startRequested, signalVars>>
      /\ inBatch' \in BOOLEAN
  BY DEF AddPlayer, LeaveWaitingRoom, KickPlayer, RemovePlayer, IInv, SignalTypes
<1>2. Roster(players) /\ u # Boss
  BY BossAssumption DEF IInv, FlowInv, FlowTypes
<1>3. FlowInv'
  <2>1. CASE AddPlayer(u)
    <3>1. players' = Append(players, u) /\ u \notin ToSet(players)
      BY <1>2, <2>1 DEF AddPlayer, IsNewcomer, Competitors
    <3>2. /\ Roster(players') /\ Len(players') = Len(players) + 1
          /\ \A i \in 1..Len(players) : players'[i] = players[i]
          /\ players'[Len(players) + 1] = u
          /\ ToSet(players') = ToSet(players) \cup {u}
      BY <1>2, <3>1, ExtendedRoster
    <3>3. Len(players) \in Nat
      BY <1>2, RosterFacts
    <3>4. FlowTypes'
      BY <1>1, <3>2 DEF IInv, FlowInv, FlowTypes, hsmVars, turnVars
    <3>5. TurnOwnership'
      BY <1>1, <3>2, <3>3
      DEF IInv, FlowInv, FlowTypes, TurnOwnership, hsmVars, turnVars
    <3>6. ASSUME globalState = "TurnLoop"
          PROVE  turnsTaken[u] = 0 /\ currentPlayerIndex + 1 < Len(players) + 1
      BY <3>1, <3>3, <3>6 DEF IInv, FlowInv, FlowTypes, AbsentTookNoTurn, Competitors,
                              TurnOwnership
    <3>7. OneTurnEach'
      <4> SUFFICES ASSUME globalState = "TurnLoop", NEW i \in 1..Len(players')
                   PROVE  turnsTaken[players'[i]] =
                            IF i <= currentPlayerIndex + 1 THEN 1 ELSE 0
        BY <1>1 DEF OneTurnEach, hsmVars, turnVars
      <4>1. CASE i \in 1..Len(players)
        BY <3>2, <4>1 DEF IInv, FlowInv, OneTurnEach
      <4>2. CASE i = Len(players) + 1
        <5>1. ~(i <= currentPlayerIndex + 1)
          BY <3>3, <3>6, <4>2 DEF IInv, FlowInv, FlowTypes
        <5> QED
          BY <3>2, <3>6, <4>2, <5>1
      <4> QED
        BY <3>2, <3>3, <4>1, <4>2
    <3>8. AbsentTookNoTurn'
      BY <1>1, <3>2 DEF IInv, FlowInv, AbsentTookNoTurn, Competitors, hsmVars, turnVars
    <3> QED
      BY <3>4, <3>5, <3>7, <3>8 DEF FlowInv
  <2>2. CASE RemovePlayer(u)
    <3>1. PICK i \in 1..Len(players) :
            players[i] = u /\ players' = RemoveAt(players, i)
      BY <2>2 DEF RemovePlayer, DropFromGame
    <3>2. Roster(players')
      BY <1>2, <2>2, <3>1, ReducedRoster DEF RemovePlayer, Competitors
    <3>3. globalState = "WaitingForHost"
      BY <2>2 DEF RemovePlayer
    <3> QED
      BY <1>1, <3>2, <3>3 DEF IInv, FlowInv, FlowTypes, TurnOwnership, OneTurnEach,
                              AbsentTookNoTurn, hsmVars, turnVars
  <2> QED
    BY <2>1, <2>2 DEF LeaveWaitingRoom, KickPlayer
<1>4. MiniTypes' /\ SignalTypes' /\ NoMissedCompletion' /\ DefeatIsFresh'
  BY <1>1 DEF IInv, MiniTypes, SignalTypes, NoMissedCompletion, DefeatIsFresh,
              hsmVars, miniVars, readyVars, signalVars
<1> QED
  BY <1>3, <1>4 DEF IInv

\* A turn runs to its end, by the player's roll or by time.
LEMMA PlayTurnSteps ==
  ASSUME IInv, turnState = "MainAction", PlayTurn, inBatch' \in BOOLEAN,
         UNCHANGED pendingTrigger
  PROVE  IInv'
<1>1. globalState = "TurnLoop"
  BY DEF IInv, FlowInv, TurnOwnership
<1>2. FlowInv'
  BY <1>1 DEF PlayTurn, IInv, FlowInv, FlowTypes, TurnOwnership, OneTurnEach,
              AbsentTookNoTurn, Competitors, turnVars
<1>3. MiniTypes' /\ SignalTypes' /\ NoMissedCompletion' /\ DefeatIsFresh'
  BY <1>1 DEF PlayTurn, IInv, MiniTypes, SignalTypes, NoMissedCompletion,
              DefeatIsFresh, miniVars, readyVars
<1> QED
  BY <1>2, <1>3 DEF IInv

LEMMA SubmissionSteps ==
  ASSUME IInv, NEW u \in Users, SubmitMiniGameData(u)
  PROVE  IInv'
<1>1. /\ running /\ globalState = "RoundMiniGame" /\ inBatch' = TRUE
      /\ gameData' = gameData \cup {u}
      /\ resultsReceived' = resultsReceived + 1
      /\ UNCHANGED <<round, mode, totalPlayers, bossDefeated, readyVars,
                     startRequested, signalVars>>
  BY DEF SubmitMiniGameData, Message
<1>2. ~bossDefeated
  BY <1>1 DEF IInv, DefeatIsFresh
<1>3. SignalTypes' /\ DefeatIsFresh'
  BY <1>1, <1>2 DEF IInv, SignalTypes, DefeatIsFresh, readyVars, signalVars, MiniTypes
<1>4. CASE Enough(resultsReceived + 1, totalPlayers)
  <2>1. PICK r \in Rankings(gameData \cup {u}) :
          /\ rank' = WithRanks(rank, r)
          /\ PrepareRound(WithRanks(rank, r), bossDefeated)
    BY <1>4 DEF SubmitMiniGameData
  <2>2. WithRanks(rank, r) \in [Users -> Nat]
    BY WithRanksType, RankingsType DEF IInv, MiniTypes
  <2>3. FlowInv' /\ globalState' \in {"TurnLoop", "GameOver"}
    BY <2>1, <2>2, PrepareRoundFlow DEF IInv
  <2>4. MiniTypes' /\ NoMissedCompletion'
    BY <1>1, <2>1, <2>2, <2>3 DEF IInv, MiniTypes, NoMissedCompletion
  <2> QED
    BY <1>3, <2>3, <2>4 DEF IInv
<1>5. CASE ~Enough(resultsReceived + 1, totalPlayers)
  <2>1. UNCHANGED <<hsmVars, players, turnVars, rank>>
    BY <1>5 DEF SubmitMiniGameData
  <2>2. FlowInv'
    BY <2>1, FlowUnchanged DEF IInv
  <2>3. MiniTypes' /\ NoMissedCompletion'
    BY <1>1, <1>5, <2>1 DEF IInv, MiniTypes, NoMissedCompletion, Enough, hsmVars
  <2> QED
    BY <1>3, <2>2, <2>3 DEF IInv
<1> QED
  BY <1>4, <1>5

LEMMA ReadySteps ==
  ASSUME IInv, NEW u \in Users, RoundReady(u)
  PROVE  IInv'
<1>1. /\ running /\ globalState = "RoundEndWait" /\ inBatch' = TRUE
      /\ readyReceived' = readyReceived + 1
      /\ readyFrom' = readyFrom \cup {u}
      /\ UNCHANGED <<round, readyTotal, startRequested, signalVars>>
  BY DEF RoundReady, Message
<1>2. SignalTypes'
  BY <1>1 DEF IInv, SignalTypes, signalVars
<1>3. CASE Enough(readyReceived + 1, readyTotal)
  <2>1. EnterRoundMiniGame(turn, turnsTaken)
    BY <1>3 DEF RoundReady
  <2>2. FlowInv' /\ MiniTypes' /\ NoMissedCompletion' /\ DefeatIsFresh'
    BY <2>1, EnterRoundMiniGameInv DEF IInv, FlowInv, FlowTypes
  <2> QED
    BY <1>2, <2>2 DEF IInv
<1>4. CASE ~Enough(readyReceived + 1, readyTotal)
  <2>1. UNCHANGED <<hsmVars, players, turnVars, miniVars, rank, bossDefeated>>
    BY <1>4 DEF RoundReady
  <2>2. FlowInv'
    BY <2>1, FlowUnchanged DEF IInv
  <2>3. MiniTypes' /\ NoMissedCompletion' /\ DefeatIsFresh'
    BY <1>1, <1>4, <2>1 DEF IInv, MiniTypes, SignalTypes, NoMissedCompletion,
                            DefeatIsFresh, Enough, hsmVars, miniVars
  <2> QED
    BY <1>2, <2>2, <2>3 DEF IInv
<1> QED
  BY <1>3, <1>4

\* The ticks that handle a finished turn.
LEMMA TurnSteps ==
  ASSUME IInv, EndGame \/ NextTurn \/ EndRound
  PROVE  IInv'
<1>1. /\ running /\ inBatch' = FALSE
      /\ globalState = "TurnLoop"
      /\ Roster(players) /\ players' = players
      /\ turn \in Nat /\ currentPlayerIndex \in Nat
      /\ turnsTaken \in [Participants -> Nat]
  BY DEF EndGame, NextTurn, EndRound, Tick, TurnFinished, IInv, FlowInv, FlowTypes
<1>2. Cardinality(Competitors) \in Nat \ {0}
  BY <1>1, RosterFacts DEF Competitors
<1>3. CASE EndGame
  <2>1. FlowInv' /\ globalState' = "GameOver" /\ running' = FALSE
    BY <1>1, <1>3, RestingFlow DEF EndGame, EnterGameOver
  <2>2. MiniTypes' /\ SignalTypes' /\ NoMissedCompletion' /\ DefeatIsFresh'
    BY <1>1, <1>3, <2>1 DEF EndGame, IInv, MiniTypes, SignalTypes,
         NoMissedCompletion, DefeatIsFresh, miniVars, readyVars
  <2> QED
    BY <2>1, <2>2 DEF IInv
<1>4. CASE NextTurn
  <2>1. /\ BeginTurn(players, NextIndex, turnsTaken) /\ running' \in BOOLEAN
        /\ NextIndex < Len(players) /\ NextIndex \in Nat
    <3>1. Len(players) \in Nat
      BY <1>1, RosterFacts
    <3> QED
      BY <1>1, <1>4, <3>1 DEF NextTurn, RoundComplete, NextIndex
  <2>2. \A j \in 1..Len(players) :
          turnsTaken[players[j]] = IF j <= NextIndex THEN 1 ELSE 0
    BY <1>1 DEF IInv, FlowInv, OneTurnEach, NextIndex
  <2>3. \A u \in Users \ ToSet(players) : turnsTaken[u] = 0
    BY <1>1 DEF IInv, FlowInv, AbsentTookNoTurn, Competitors
  <2>4. FlowInv' /\ globalState' = "TurnLoop"
    BY <1>1, <2>1, <2>2, <2>3, BeginTurnFlow
  <2>5. MiniTypes' /\ SignalTypes' /\ NoMissedCompletion' /\ DefeatIsFresh'
    BY <1>1, <1>4, <2>4 DEF NextTurn, BossBeaten, IInv, MiniTypes, SignalTypes,
         NoMissedCompletion, DefeatIsFresh, miniVars, readyVars, signalVars
  <2> QED
    BY <2>4, <2>5 DEF IInv
<1>5. CASE EndRound
  <2>1. FlowInv' /\ globalState' = "RoundEndWait"
    BY <1>1, <1>5, RestingFlow DEF EndRound, EnterRoundEndWait
  <2>2. /\ ~bossDefeated /\ round' = round + 1
        /\ readyReceived' = 0 /\ readyTotal' = Cardinality(Competitors) /\ readyFrom' = {}
        /\ UNCHANGED <<miniVars, rank, bossDefeated, startRequested, signalVars>>
    BY <1>5 DEF EndRound, BossBeaten, EnterRoundEndWait
  <2>3. MiniTypes' /\ SignalTypes'
    <3>1. MiniTypes'
      BY <2>2 DEF IInv, MiniTypes, miniVars
    <3>2. /\ round' \in Nat \ {0} /\ readyReceived' \in Nat /\ readyTotal' \in Nat
          /\ readyFrom' \subseteq Users
      BY <1>2, <2>2 DEF IInv, SignalTypes
    <3>3. SignalTypes'
      BY <1>1, <2>2, <3>2 DEF IInv, SignalTypes, signalVars
    <3> QED
      BY <3>1, <3>3
  <2>4. NoMissedCompletion'
    BY <1>2, <2>1, <2>2 DEF NoMissedCompletion
  <2>5. DefeatIsFresh'
    BY <2>2 DEF DefeatIsFresh
  <2> QED
    BY <2>1, <2>3, <2>4, <2>5 DEF IInv
<1> QED
  BY <1>3, <1>4, <1>5

LEMMA OnlineSteps ==
  ASSUME IInv, NEW expired \in BOOLEAN, OnlineResults(expired)
  PROVE  IInv'
<1> DEFINE reported == WithRanks(rank, pendingResults)
           received == resultsReceived + Cardinality(DOMAIN pendingResults)
           missing  == IF expired /\ received < totalPlayers
                       THEN LeftOver(reported) ELSE {}
           final    == WithRanks(reported, [u \in missing |-> totalPlayers])
           counted  == received + Cardinality(missing)
<1>1. /\ running /\ inBatch' = FALSE /\ globalState = "RoundMiniGame"
      /\ rank' = final /\ resultsReceived' = counted
      /\ pendingResults' = NoResults
      /\ UNCHANGED <<round, mode, totalPlayers, gameData, bossDefeated, readyVars,
                     startRequested, pendingTrigger>>
      /\ IF Enough(counted, totalPlayers)
         THEN PrepareRound(final, bossDefeated)
         ELSE UNCHANGED <<hsmVars, players, turnVars>>
  BY DEF OnlineResults, Tick
<1>2. /\ reported \in [Users -> Nat]
      /\ missing \subseteq Users
      /\ totalPlayers \in Nat
  <2>1. reported \in [Users -> Nat] /\ totalPlayers \in Nat
    BY WithRanksType DEF IInv, MiniTypes, SignalTypes
  <2>2. Competitors \subseteq Users
    BY RosterFacts, ToSetOfSeq, SMTT(30) DEF IInv, FlowInv, FlowTypes, Competitors, Participants, Roster
  <2> QED
    BY <2>1, <2>2 DEF LeftOver
<1>3. received \in Nat /\ counted \in Nat
  BY <1>2, FS_Subset, FS_CardinalityType, UsersAssumption, SMTT(30) DEF IInv, MiniTypes, SignalTypes
<1> HIDE DEF missing, received, reported
<1>4. final \in [Users -> Nat]
  BY <1>2, WithRanksType
<1> HIDE DEF final, counted
<1>5. MiniTypes'
  BY <1>1, <1>3, <1>4 DEF IInv, MiniTypes
<1>6. SignalTypes'
  BY <1>1 DEF IInv, SignalTypes, readyVars, NoResults
<1>7. DefeatIsFresh'
  BY <1>1 DEF IInv, DefeatIsFresh, MiniTypes
<1>8. FlowInv' /\ NoMissedCompletion'
  <2>1. CASE Enough(counted, totalPlayers)
    BY <1>1, <1>4, <2>1, PrepareRoundFlow DEF IInv, NoMissedCompletion
  <2>2. CASE ~Enough(counted, totalPlayers)
    <3>1. FlowInv'
      BY <1>1, <2>2, FlowUnchanged DEF IInv
    <3>2. NoMissedCompletion'
      BY <1>1, <1>2, <1>3, <2>2 DEF NoMissedCompletion, Enough, hsmVars
    <3> QED
      BY <3>1, <3>2
  <2> QED
    BY <2>1, <2>2
<1> QED
  BY <1>5, <1>6, <1>7, <1>8 DEF IInv

\* The start of the match and the debug panel's mini-game.
LEMMA MiniGameSteps ==
  ASSUME IInv, BeginMatch \/ ForceMiniGame
  PROVE  IInv'
<1>1. /\ inBatch' = FALSE
      /\ Roster(players) /\ turn \in Nat /\ currentPlayerIndex \in Nat
      /\ turnsTaken \in [Participants -> Nat]
  BY DEF BeginMatch, ForceMiniGame, Tick, IInv, FlowInv, FlowTypes
<1>2. Cardinality(Competitors) \in Nat
  BY <1>1, RosterFacts DEF Competitors
<1>3. \E t \in Nat : \E taken \in [Participants -> Nat] : EnterRoundMiniGame(t, taken)
  <2>1. CASE EnterRoundMiniGame(turn, turnsTaken)
    BY <1>1, <2>1
  <2>2. CASE EnterRoundMiniGame(NextIndex,
               [turnsTaken EXCEPT ![players[NextIndex + 1]] = @ + 1])
    <3>1. NextIndex \in Nat
      BY <1>1 DEF NextIndex
    <3>2. [turnsTaken EXCEPT ![players[NextIndex + 1]] = @ + 1] \in [Participants -> Nat]
      <4>1. \A p \in Participants : turnsTaken[p] + 1 \in Nat
        BY <1>1
      <4>2. ASSUME NEW x
            PROVE  [turnsTaken EXCEPT ![x] = turnsTaken[x] + 1] \in [Participants -> Nat]
        BY <1>1, <4>1
      <4> QED
        BY <4>2
    <3> QED
      BY <2>2, <3>1, <3>2
  <2> QED
    BY <2>1, <2>2 DEF BeginMatch, ForceMiniGame
<1>4. FlowInv' /\ MiniTypes' /\ NoMissedCompletion' /\ DefeatIsFresh'
  BY <1>3, EnterRoundMiniGameInv DEF IInv
<1>5. SignalTypes'
  <2>1. CASE BeginMatch
    BY <1>1, <2>1 DEF BeginMatch, IInv, SignalTypes, readyVars, signalVars
  <2>2. CASE ForceMiniGame
    <3>1. round' \in Nat \ {0}
      BY <2>2 DEF ForceMiniGame, IInv, SignalTypes
    <3>2. readyReceived' \in Nat /\ readyTotal' \in Nat /\ readyFrom' \subseteq Users
      BY <1>2, <2>2 DEF ForceMiniGame, IInv, SignalTypes, readyVars
    <3> QED
      BY <1>1, <2>2, <3>1, <3>2 DEF ForceMiniGame, IInv, SignalTypes
  <2> QED
    BY <2>1, <2>2
<1> QED
  BY <1>4, <1>5 DEF IInv

-----------------------------------------------------------------------------
(* The inductive invariant holds *)

LEMMA InitIInv == Init => IInv
<1> SUFFICES ASSUME Init PROVE IInv
  OBVIOUS
<1>1. Roster(players)
  BY OpeningAssumption DEF Init, Roster
<1>2. NoTurns \in [Participants -> Nat]
  BY DEF NoTurns
<1>3. FlowInv
  BY <1>1, <1>2 DEF Init, FlowInv, FlowTypes, TurnOwnership, OneTurnEach, AbsentTookNoTurn
<1>4. MiniTypes /\ SignalTypes
  <2>1. Unranked \in [Users -> Nat]
    BY DEF Unranked
  <2>2. DOMAIN NoResults = {} /\ NoResults \in [DOMAIN NoResults -> Nat]
    BY DEF NoResults
  <2>3. MiniTypes
    BY <2>1 DEF Init, MiniTypes
  <2>4. /\ round \in Nat \ {0} /\ readyReceived \in Nat /\ readyTotal \in Nat
        /\ readyFrom \subseteq Users
    BY DEF Init
  <2>5. DOMAIN pendingResults \subseteq Users /\ pendingResults \in [DOMAIN pendingResults -> Nat]
    BY <2>2 DEF Init
  <2>6. startRequested \in BOOLEAN /\ pendingTrigger \in BOOLEAN /\ inBatch \in BOOLEAN
    BY DEF Init
  <2> QED
    BY <2>3, <2>4, <2>5, <2>6 DEF SignalTypes
<1>5. NoMissedCompletion /\ DefeatIsFresh
  BY DEF Init, NoMissedCompletion, DefeatIsFresh
<1> QED
  BY <1>3, <1>4, <1>5 DEF IInv

LEMMA StepIInv == IInv /\ [Next]_vars => IInv'
<1> SUFFICES ASSUME IInv, [Next]_vars PROVE IInv'
  OBVIOUS
<1>1. ASSUME NEW u \in Users, AddPlayer(u) \/ LeaveWaitingRoom(u) \/ KickPlayer(u)
      PROVE  IInv'
  BY <1>1, RosterSteps
<1>2. ASSUME NEW u \in Users, StartGame(u)
      PROVE  IInv'
  <2>1. /\ inBatch' = TRUE /\ startRequested' = TRUE
        /\ UNCHANGED <<hsmVars, players, round, turnVars, miniVars, rank, bossDefeated,
                       readyVars, signalVars>>
    BY <1>2 DEF StartGame, Message
  <2>2. SignalTypes'
    BY <2>1 DEF IInv, SignalTypes, readyVars, signalVars
  <2> QED
    BY <2>1, <2>2, IdleSteps DEF hsmVars, IInv, FlowInv, FlowTypes
<1>3. ASSUME NEW u \in Users, RollDice(u)
      PROVE  IInv'
  BY <1>3, PlayTurnSteps DEF RollDice, Message
<1>4. ASSUME NEW u \in Users, SubmitMiniGameData(u)
      PROVE  IInv'
  BY <1>4, SubmissionSteps
<1>5. ASSUME NEW u \in Users, RoundReady(u)
      PROVE  IInv'
  BY <1>5, ReadySteps
<1>6. ASSUME NEW r \in CallbackResults, SignalResults(r)
      PROVE  IInv'
  <2>1. UNCHANGED <<hsmVars, players, round, turnVars, miniVars, rank, bossDefeated,
                    readyVars, startRequested, pendingTrigger, inBatch>>
    BY <1>6 DEF SignalResults
  <2>2. r \in [DOMAIN r -> Nat] /\ DOMAIN r \subseteq Users
    <3>1. PICK S \in SUBSET Users : r \in [S -> 1..MaxRank]
      BY <1>6 DEF CallbackResults
    <3> QED
      BY <3>1, BoundAssumption
  <2>3. /\ DOMAIN pendingResults' \subseteq Users
        /\ pendingResults' \in [DOMAIN pendingResults' -> Nat]
    BY <1>6, <2>2 DEF SignalResults, IInv, SignalTypes
  <2>4. SignalTypes'
    BY <2>1, <2>3 DEF IInv, SignalTypes, readyVars
  <2> QED
    BY <2>1, <2>4, IdleSteps DEF hsmVars, IInv, FlowInv, FlowTypes
<1>7. ASSUME SignalTrigger PROVE IInv'
  <2>1. /\ pendingTrigger' = TRUE
        /\ UNCHANGED <<hsmVars, players, round, turnVars, miniVars, rank, bossDefeated,
                       readyVars, startRequested, pendingResults, inBatch>>
    BY <1>7 DEF SignalTrigger
  <2>2. SignalTypes'
    BY <2>1 DEF IInv, SignalTypes, readyVars
  <2> QED
    BY <2>1, <2>2, IdleSteps DEF hsmVars, IInv, FlowInv, FlowTypes
<1>8. ASSUME MatchStop PROVE IInv'
  <2>1. /\ running' = FALSE /\ running
        /\ UNCHANGED <<globalState, turnState, players, round, turnVars, miniVars,
                       rank, bossDefeated, readyVars, startRequested, signalVars, inBatch>>
    BY <1>8 DEF MatchStop
  <2>2. SignalTypes'
    BY <2>1 DEF IInv, SignalTypes, readyVars, signalVars
  <2> QED
    BY <2>1, <2>2, IdleSteps
<1>9. ASSUME MatchLoop PROVE IInv'
  <2>1. CASE EndGame \/ NextTurn \/ EndRound
    BY <2>1, TurnSteps
  <2>2. CASE BeginMatch \/ ForceMiniGame
    BY <2>2, MiniGameSteps
  <2>3. CASE AutoRoll
    BY <2>3, PlayTurnSteps DEF AutoRoll, Tick
  <2>4. CASE \E expired \in BOOLEAN : OnlineResults(expired)
    BY <2>4, OnlineSteps
  <2>5. CASE IdleTick
    <3>1. /\ inBatch' = FALSE
          /\ UNCHANGED <<hsmVars, players, round, turnVars, miniVars, rank, bossDefeated,
                         readyVars, startRequested, signalVars>>
      BY <2>5 DEF IdleTick, Tick
    <3>2. SignalTypes'
      BY <3>1 DEF IInv, SignalTypes, readyVars, signalVars
    <3> QED
      BY <3>1, <3>2, IdleSteps DEF hsmVars, IInv, FlowInv, FlowTypes
  <2> QED
    BY <1>9, <2>1, <2>2, <2>3, <2>4, <2>5 DEF MatchLoop
<1>10. ASSUME UNCHANGED vars PROVE IInv'
  <2>1. SignalTypes'
    BY <1>10 DEF vars, IInv, SignalTypes, readyVars, signalVars
  <2> QED
    BY <1>10, <2>1, IdleSteps DEF vars, hsmVars, IInv, FlowInv, FlowTypes
<1> QED
  BY <1>1, <1>2, <1>3, <1>4, <1>5, <1>6, <1>7, <1>8, <1>9, <1>10 DEF Next, Event, Ended

\* The host is chosen when the room opens and stays.
HostType == hostUserID \in Users \cup {NoPlayer}

LEMMA HostTypeAlways == Spec => []HostType
<1>1. Init => HostType
  <2> SUFFICES ASSUME NEW o \in Openings, hostUserID = o.host
               PROVE  HostType
    BY DEF Init
  <2>1. o.host \in (ToSet(o.players) \ {Boss}) \cup {NoPlayer} /\ o.players \in Seq(Participants)
    BY OpeningAssumption
  <2>2. \A x \in ToSet(o.players) : x \in Participants
    BY <2>1, ToSetOfSeq, ElementOfSeq
  <2> QED
    BY <2>1, <2>2 DEF HostType, Participants
<1>2. HostType /\ [Next]_vars => HostType'
  <2>1. [Next]_vars => UNCHANGED hostUserID
    BY DEF Next, Ended, vars, MatchLoop, Tick, EndGame, NextTurn, EndRound, BeginMatch,
           AutoRoll, OnlineResults, ForceMiniGame, IdleTick
  <2> QED
    BY <2>1 DEF HostType
<1>3. Spec => Init /\ [][Next]_vars
  BY DEF Spec
<1> QED
  BY <1>1, <1>2, <1>3, PTL

LEMMA IInvAlways == Spec => []IInv
<1>1. Spec => Init /\ [][Next]_vars
  BY DEF Spec
<1> QED
  BY <1>1, InitIInv, StepIInv, PTL

-----------------------------------------------------------------------------
(* The theorems *)

\* Every variable keeps its type, and game.Players stays a roster: however
\* ranks, joins and removals reorder, extend or shrink it, the Boss is never
\* lost and nobody stands in the turn order twice.
THEOREM TypeCorrectness == Spec => []TypeOK
<1>1. IInv /\ HostType => TypeOK
  BY DEF IInv, HostType, FlowInv, FlowTypes, MiniTypes, SignalTypes, Roster, TypeOK, Competitors
<1> QED
  BY <1>1, IInvAlways, HostTypeAlways, PTL

\* TurnLoop's index, hsm.turn and hsm.turnPlayer name one player while a turn
\* is on.
THEOREM TurnsAreOwned == Spec => []TurnOwnership
<1>1. IInv => TurnOwnership
  BY DEF IInv, FlowInv
<1> QED
  BY <1>1, IInvAlways, PTL

\* No player begins two turns in one round, and none is passed over.
THEOREM TurnsAreFair == Spec => []OneTurnEach
<1>1. IInv => OneTurnEach
  BY DEF IInv, FlowInv
<1> QED
  BY <1>1, IInvAlways, PTL

\* No mini-game and no round end waits for results or signals it has.
THEOREM NothingIsAwaitedInVain == Spec => []NoMissedCompletion
<1>1. IInv => NoMissedCompletion
  BY DEF IInv
<1> QED
  BY <1>1, IInvAlways, PTL

\* A round is closed only after everyone in the turn order, the Boss and late
\* joiners included, has had exactly one turn of it.
THEOREM RoundsAreComplete == Spec => EveryoneActsEachRound
<1> DEFINE Closes == round' # round =>
                       /\ round' = round + 1
                       /\ \A i \in 1..Len(players) : turnsTaken[players[i]] = 1
<1>1. IInv /\ [Next]_vars => [Closes]_vars
  <2> SUFFICES ASSUME IInv, Next, round' # round PROVE Closes
    OBVIOUS
  <2>1. /\ TurnFinished /\ RoundComplete
        /\ round' = round + 1
    <3>1. CASE EndRound
      BY <3>1 DEF EndRound
    <3>2. CASE ForceMiniGame
      BY <3>2 DEF ForceMiniGame
    <3>3. CASE ~EndRound /\ ~ForceMiniGame
      <4>1. UNCHANGED round
        BY <3>3 DEF Next, Event, AddPlayer, LeaveWaitingRoom, KickPlayer, RemovePlayer, StartGame,
           RollDice, PlayTurn, SubmitMiniGameData, RoundReady, SignalResults, SignalTrigger,
           MatchStop, MatchLoop, EndGame, NextTurn, BeginMatch, AutoRoll, OnlineResults,
           IdleTick, Ended, vars
      <4> QED
        BY <4>1
    <3> QED
      BY <3>1, <3>2, <3>3
  <2>2. \A i \in 1..Len(players) : i <= currentPlayerIndex + 1
    BY <2>1, RosterFacts DEF RoundComplete, NextIndex, IInv, FlowInv, FlowTypes
  <2> QED
    BY <2>1, <2>2 DEF TurnFinished, IInv, FlowInv, OneTurnEach
<1>2. Spec => [][Next]_vars
  BY DEF Spec
<1> QED
  BY <1>1, <1>2, IInvAlways, PTL DEF EveryoneActsEachRound

\* Between the blow that defeats the Boss and the end of the match no turn
\* begins, no round is closed and no mini-game starts.
THEOREM DefeatIsFinal == Spec => NothingAfterBossDefeat
<1> DEFINE Final == bossDefeated =>
                      /\ turnsTaken' = turnsTaken /\ round' = round
                      /\ globalState' \in {globalState, "GameOver"}
<1>1. IInv /\ [Next]_vars => [Final]_vars
  <2> SUFFICES ASSUME IInv, Next, bossDefeated PROVE Final
    OBVIOUS
  <2>1. ~running \/ (TurnFinished /\ BossBeaten)
    BY DEF IInv, DefeatIsFresh, TurnFinished, BossBeaten
  <2>2. CASE EndGame
    BY <2>2 DEF EndGame, EnterGameOver, Resting
  <2>3. CASE ~EndGame
    <3>1. UNCHANGED <<globalState, turnsTaken, round>>
      BY <2>1, <2>3 DEF Next, Event, AddPlayer, LeaveWaitingRoom, KickPlayer, RemovePlayer, StartGame,
         RollDice, PlayTurn, SubmitMiniGameData, RoundReady, SignalResults, SignalTrigger,
         MatchStop, MatchLoop, NextTurn, EndRound, BeginMatch, AutoRoll, OnlineResults,
         ForceMiniGame, IdleTick, Ended, Message, Tick, TurnFinished, vars, hsmVars, turnVars
    <3> QED
      BY <3>1
  <2> QED
    BY <2>2, <2>3
<1>2. Spec => [][Next]_vars
  BY DEF Spec
<1> QED
  BY <1>1, <1>2, IInvAlways, PTL DEF NothingAfterBossDefeat

-----------------------------------------------------------------------------
(* The promise of the rounds.  RoundPromise knows no indices and no counters: *)
(* that every step is one of its steps or none needs, beyond IInv, that the   *)
(* Boss's dice are never waited for, and where triggers come from.            *)

BossNeedsNoDice == turnState = "MainAction" => turnPlayer # Boss

TriggersAreDebug == pendingTrigger => DebugSignals

PromiseInv == IInv /\ BossNeedsNoDice /\ TriggersAreDebug

\* What a promise's step does not see.
Unseen == UNCHANGED <<running, globalState, players, turnState, turnPlayer, turnsTaken,
                      bossDefeated, round>>

\* A turn begun at index i is a turn of somebody in the match not yet served.
LEMMA BeginTurnSeen ==
  ASSUME NEW ps, Roster(ps), NEW i \in Nat, i < Len(ps),
         NEW taken \in [Participants -> Nat], NEW before, taken[ps[i + 1]] = 0,
         before = {p \in Participants : taken[p] > 0},
         BeginTurn(ps, i, taken)
  PROVE  /\ ps[i + 1] \in ToSet(ps)
         /\ ps[i + 1] \notin before
         /\ globalState' = "TurnLoop"
         /\ Served' = before \cup {ps[i + 1]}
         /\ Awaited' \in {ps[i + 1], NoPlayer} \ {Boss}
         /\ BossNeedsNoDice'
<1>1. ps[i + 1] \in Participants /\ ps[i + 1] \in ToSet(ps)
  <2>1. Len(ps) \in Nat /\ \A j \in 1..Len(ps) : ps[j] \in Participants
    BY RosterFacts
  <2>2. i + 1 \in 1..Len(ps)
    BY <2>1
  <2> QED
    BY <2>1, <2>2, ToSetOfSeq DEF Roster
<1>2. /\ globalState' = "TurnLoop" /\ turnPlayer' = ps[i + 1]
      /\ turnState' \in IF ps[i + 1] = Boss THEN {"TurnEnd"} ELSE {"MainAction", "TurnEnd"}
      /\ turnsTaken' = [taken EXCEPT ![ps[i + 1]] = @ + 1]
  BY DEF BeginTurn
<1>3. \A p \in Participants : turnsTaken'[p] = IF p = ps[i + 1] THEN 1 ELSE taken[p]
  BY <1>1, <1>2
<1>4. Served' = before \cup {ps[i + 1]}
  BY <1>1, <1>2, <1>3 DEF Served
<1>5. Awaited' \in {ps[i + 1], NoPlayer} \ {Boss}
  BY <1>2, BossAssumption DEF Awaited, Participants
<1> QED
  BY <1>1, <1>2, <1>4, <1>5 DEF BossNeedsNoDice

\* The sort and the first turn of a round.
LEMMA PrepareRoundSeen ==
  ASSUME Roster(players), NEW rk \in [Users -> Nat], PrepareRound(rk, FALSE)
  PROVE  /\ \E p \in ToSet(players) : Promise!Begin(p, {})
         /\ ToSet(players') = ToSet(players) /\ running' = running
         /\ BossNeedsNoDice'
<1>1. PICK f \in RankOrders(players, rk) :
        /\ players' = [i \in 1..Len(players) |-> players[f[i]]]
        /\ BeginTurn([i \in 1..Len(players) |-> players[f[i]]], 0, NoTurns)
        /\ UNCHANGED running
  BY DEF PrepareRound
<1>2. Roster(players') /\ ToSet(players') = ToSet(players)
  BY <1>1, SortedRoster
<1>3. BeginTurn(players', 0, NoTurns)
  BY <1>1
<1>4. /\ Len(players') \in Nat /\ Len(players') >= 1
      /\ \A j \in 1..Len(players') : players'[j] \in Participants
  BY <1>2, RosterFacts
<1>5. 0 \in Nat /\ 0 < Len(players') /\ players'[0 + 1] \in Participants
  BY <1>4
<1>6. /\ NoTurns \in [Participants -> Nat] /\ NoTurns[players'[0 + 1]] = 0
      /\ {} = {p \in Participants : NoTurns[p] > 0}
  BY <1>5 DEF NoTurns
<1>7. /\ players'[0 + 1] \in ToSet(players')
      /\ globalState' = "TurnLoop"
      /\ Served' = {} \cup {players'[0 + 1]}
      /\ Awaited' \in {players'[0 + 1], NoPlayer} \ {Boss}
      /\ BossNeedsNoDice'
  BY <1>2, <1>3, <1>5, <1>6, BeginTurnSeen
<1>8. players'[0 + 1] \in ToSet(players)
  BY <1>2, <1>7
<1>9. Promise!Begin(players'[0 + 1], {})
  BY <1>7, <1>8 DEF Promise!Begin
<1> QED
  BY <1>1, <1>2, <1>7, <1>8, <1>9

\* Resting in a state outside the turns, nobody is served and nobody awaited.
LEMMA RestingSeen ==
  ASSUME NEW g, Resting(g), g # "TurnLoop"
  PROVE  globalState' = g /\ Served' = {} /\ Awaited' = NoPlayer /\ BossNeedsNoDice'
BY DEF Resting, Served, Awaited, BossNeedsNoDice

\* A round opens.
LEMMA OpenSeen ==
  ASSUME Roster(players), NEW t, NEW taken, EnterRoundMiniGame(t, taken)
  PROVE  /\ Promise!Open
         /\ ToSet(players') = ToSet(players) /\ running' = running
         /\ bossDefeated' = FALSE
         /\ BossNeedsNoDice'
<1>1. PICK m \in MiniGameModes :
        /\ bossDefeated' = FALSE
        /\ IF m = "none"
           THEN PrepareRound(ClearedRanks, FALSE)
           ELSE /\ Resting("RoundMiniGame")
                /\ UNCHANGED <<running, players>>
  BY DEF EnterRoundMiniGame
<1>2. CASE m = "none"
  <2>1. ClearedRanks \in [Users -> Nat] /\ PrepareRound(ClearedRanks, FALSE)
    BY <1>1, <1>2 DEF ClearedRanks, Unranked
  <2>2. /\ \E p \in ToSet(players) : Promise!Begin(p, {})
        /\ ToSet(players') = ToSet(players) /\ running' = running
        /\ BossNeedsNoDice'
    BY <2>1, PrepareRoundSeen
  <2> QED
    BY <1>1, <2>2 DEF Promise!Open
<1>3. CASE m # "none"
  <2>1. Resting("RoundMiniGame") /\ UNCHANGED <<running, players>>
    BY <1>1, <1>3
  <2>2. globalState' = "RoundMiniGame" /\ Served' = {} /\ Awaited' = NoPlayer /\ BossNeedsNoDice'
    BY <2>1, RestingSeen
  <2> QED
    BY <1>1, <2>1, <2>2 DEF Promise!Open
<1> QED
  BY <1>2, <1>3

\* Where nothing it sees changes, the promise takes no step.
LEMMA UnseenSteps ==
  ASSUME PromiseInv, Unseen, pendingTrigger' => pendingTrigger \/ DebugSignals
  PROVE  UNCHANGED Promise!vars /\ BossNeedsNoDice' /\ TriggersAreDebug'
BY DEF Unseen, Promise!vars, Served, Awaited, PromiseInv, BossNeedsNoDice, TriggersAreDebug

\* Who is in the match changes by joins, leaves and kicks; the rest stays.
LEMMA RosterSeen ==
  ASSUME PromiseInv, NEW u \in Users,
         AddPlayer(u) \/ LeaveWaitingRoom(u) \/ KickPlayer(u)
  PROVE  /\ Promise!Join(u) \/ Promise!Leave(u)
         /\ BossNeedsNoDice' /\ TriggersAreDebug'
<1>1. /\ running
      /\ UNCHANGED <<hsmVars, round, turnVars, bossDefeated, signalVars>>
  BY DEF AddPlayer, LeaveWaitingRoom, KickPlayer, RemovePlayer
<1>2. /\ UNCHANGED <<running, globalState, Served, Awaited, bossDefeated, round>>
      /\ BossNeedsNoDice' /\ TriggersAreDebug'
  BY <1>1 DEF hsmVars, turnVars, signalVars, Served, Awaited, PromiseInv, BossNeedsNoDice,
              TriggersAreDebug
<1>3. Roster(players) /\ u # Boss
  BY BossAssumption DEF PromiseInv, IInv, FlowInv, FlowTypes
<1>4. CASE AddPlayer(u)
  <2>1. players' = Append(players, u) /\ u \notin ToSet(players)
    BY <1>3, <1>4 DEF AddPlayer, IsNewcomer, Competitors
  <2>2. ToSet(players') = ToSet(players) \cup {u}
    BY <1>3, <2>1, ExtendedRoster
  <2>3. Promise!Join(u)
    BY <1>1, <1>2, <2>1, <2>2 DEF Promise!Join
  <2> QED
    BY <1>2, <2>3
<1>5. CASE RemovePlayer(u)
  <2>1. PICK i \in 1..Len(players) : players[i] = u /\ players' = RemoveAt(players, i)
    BY <1>5 DEF RemovePlayer, DropFromGame
  <2>2. /\ globalState = "WaitingForHost" /\ u \in ToSet(players)
        /\ ToSet(players) \ {Boss} # {u}
    BY <1>5 DEF RemovePlayer, Competitors
  <2>3. ToSet(players') = ToSet(players) \ {u}
    BY <1>3, <2>1, <2>2, ReducedRoster
  <2>4. ToSet(players) # {u, Boss}
    BY <1>3, <2>2
  <2>5. Promise!Leave(u)
    BY <1>1, <1>2, <2>2, <2>3, <2>4 DEF Promise!Leave
  <2> QED
    BY <1>2, <2>5
<1> QED
  BY <1>4, <1>5 DEF LeaveWaitingRoom, KickPlayer

\* The dice are rolled, by the player or by time.
LEMMA PlayTurnSeen ==
  ASSUME PromiseInv, running, turnState = "MainAction", PlayTurn, UNCHANGED pendingTrigger
  PROVE  Promise!Act /\ BossNeedsNoDice' /\ TriggersAreDebug'
<1>1. globalState = "TurnLoop" /\ turnPlayer = players[turn + 1] /\ turn < Len(players)
  BY DEF PromiseInv, IInv, FlowInv, TurnOwnership
<1>2. turnPlayer \in Users
  <2>1. turn \in Nat /\ Roster(players)
    BY DEF PromiseInv, IInv, FlowInv, FlowTypes
  <2>2. turn + 1 \in 1..Len(players)
    BY <1>1, <2>1, RosterFacts
  <2> QED
    BY <1>1, <2>1, <2>2, RosterFacts DEF Participants, PromiseInv, BossNeedsNoDice
<1>3. ~bossDefeated
  BY <1>1 DEF PromiseInv, IInv, DefeatIsFresh
<1>4. /\ turnState' = "TurnEnd" /\ bossDefeated' \in BOOLEAN
      /\ UNCHANGED <<running, globalState, players, round, turnsTaken>>
  BY DEF PlayTurn, turnVars
<1>5. Awaited = turnPlayer /\ Awaited' = NoPlayer /\ Served' = Served
  BY <1>4 DEF Awaited, Served
<1> QED
  BY <1>1, <1>2, <1>3, <1>4, <1>5
  DEF Promise!Act, PromiseInv, BossNeedsNoDice, TriggersAreDebug

\* Submissions and results end a mini-game, or are of no concern.
LEMMA RankedSeen ==
  ASSUME PromiseInv, running, globalState = "RoundMiniGame",
         NEW rk \in [Users -> Nat], PrepareRound(rk, bossDefeated),
         UNCHANGED <<round, bossDefeated, pendingTrigger>>
  PROVE  Promise!FirstTurn /\ BossNeedsNoDice' /\ TriggersAreDebug'
<1>1. bossDefeated = FALSE
  BY DEF PromiseInv, IInv, DefeatIsFresh, MiniTypes
<1>2. Roster(players)
  BY DEF PromiseInv, IInv, FlowInv, FlowTypes
<1>3. /\ \E p \in ToSet(players) : Promise!Begin(p, {})
      /\ ToSet(players') = ToSet(players) /\ running' = running
      /\ BossNeedsNoDice'
  BY <1>1, <1>2, PrepareRoundSeen
<1> QED
  BY <1>3 DEF Promise!FirstTurn, PromiseInv, TriggersAreDebug

LEMMA SubmissionSeen ==
  ASSUME PromiseInv, NEW u \in Users, SubmitMiniGameData(u)
  PROVE  [Promise!Next]_(Promise!vars) /\ BossNeedsNoDice' /\ TriggersAreDebug'
<1>1. /\ running /\ globalState = "RoundMiniGame"
      /\ UNCHANGED <<round, bossDefeated, pendingTrigger>>
  BY DEF SubmitMiniGameData, Message, signalVars
<1>2. CASE Enough(resultsReceived + 1, totalPlayers)
  <2>1. PICK r \in Rankings(gameData \cup {u}) : PrepareRound(WithRanks(rank, r), bossDefeated)
    BY <1>2 DEF SubmitMiniGameData
  <2>2. WithRanks(rank, r) \in [Users -> Nat]
    BY WithRanksType, RankingsType DEF PromiseInv, IInv, MiniTypes
  <2>3. Promise!FirstTurn /\ BossNeedsNoDice' /\ TriggersAreDebug'
    BY <1>1, <2>1, <2>2, RankedSeen
  <2> QED
    BY <2>3 DEF Promise!Next
<1>3. CASE ~Enough(resultsReceived + 1, totalPlayers)
  <2>1. Unseen
    BY <1>1, <1>3 DEF SubmitMiniGameData, Unseen, hsmVars, turnVars
  <2> QED
    BY <1>1, <2>1, UnseenSteps
<1> QED
  BY <1>2, <1>3

LEMMA OnlineSeen ==
  ASSUME PromiseInv, NEW expired \in BOOLEAN, OnlineResults(expired)
  PROVE  [Promise!Next]_(Promise!vars) /\ BossNeedsNoDice' /\ TriggersAreDebug'
<1> DEFINE reported == WithRanks(rank, pendingResults)
           received == resultsReceived + Cardinality(DOMAIN pendingResults)
           missing  == IF expired /\ received < totalPlayers
                       THEN LeftOver(reported) ELSE {}
           final    == WithRanks(reported, [u \in missing |-> totalPlayers])
           counted  == received + Cardinality(missing)
<1>1. /\ running /\ globalState = "RoundMiniGame"
      /\ UNCHANGED <<round, bossDefeated, pendingTrigger>>
      /\ IF Enough(counted, totalPlayers)
         THEN PrepareRound(final, bossDefeated)
         ELSE UNCHANGED <<hsmVars, players, turnVars>>
  BY DEF OnlineResults, Tick
<1>2. final \in [Users -> Nat]
  <2>1. reported \in [Users -> Nat] /\ totalPlayers \in Nat
    BY WithRanksType DEF PromiseInv, IInv, MiniTypes, SignalTypes
  <2> HIDE DEF missing, reported
  <2> QED
    BY <2>1, WithRanksType
<1> HIDE DEF final, counted
<1>3. CASE Enough(counted, totalPlayers)
  <2>1. Promise!FirstTurn /\ BossNeedsNoDice' /\ TriggersAreDebug'
    BY <1>1, <1>2, <1>3, RankedSeen
  <2> QED
    BY <2>1 DEF Promise!Next
<1>4. CASE ~Enough(counted, totalPlayers)
  <2>1. Unseen
    BY <1>1, <1>4 DEF Unseen, hsmVars, turnVars
  <2> QED
    BY <1>1, <2>1, UnseenSteps
<1> QED
  BY <1>3, <1>4

\* Ready signals and the host's start open a round, or are of no concern.
LEMMA OpeningSeen ==
  ASSUME PromiseInv, running, globalState \in {"WaitingForHost", "RoundEndWait"},
         EnterRoundMiniGame(turn, turnsTaken), UNCHANGED <<round, signalVars>>
  PROVE  Promise!OpenRound /\ BossNeedsNoDice' /\ TriggersAreDebug'
<1>1. bossDefeated = FALSE
  BY DEF PromiseInv, IInv, DefeatIsFresh, MiniTypes
<1>2. Roster(players)
  BY DEF PromiseInv, IInv, FlowInv, FlowTypes
<1>3. /\ Promise!Open
      /\ ToSet(players') = ToSet(players) /\ running' = running
      /\ bossDefeated' = FALSE
      /\ BossNeedsNoDice'
  BY <1>2, OpenSeen
<1> QED
  BY <1>1, <1>3 DEF Promise!OpenRound, PromiseInv, TriggersAreDebug, signalVars

LEMMA ReadySeen ==
  ASSUME PromiseInv, NEW u \in Users, RoundReady(u)
  PROVE  [Promise!Next]_(Promise!vars) /\ BossNeedsNoDice' /\ TriggersAreDebug'
<1>1. running /\ globalState = "RoundEndWait" /\ UNCHANGED <<round, signalVars>>
  BY DEF RoundReady, Message
<1>2. CASE Enough(readyReceived + 1, readyTotal)
  <2>1. Promise!OpenRound /\ BossNeedsNoDice' /\ TriggersAreDebug'
    BY <1>1, <1>2, OpeningSeen DEF RoundReady
  <2> QED
    BY <2>1 DEF Promise!Next
<1>3. CASE ~Enough(readyReceived + 1, readyTotal)
  <2>1. Unseen /\ UNCHANGED pendingTrigger
    BY <1>1, <1>3 DEF RoundReady, Unseen, hsmVars, turnVars, signalVars
  <2> QED
    BY <2>1, UnseenSteps
<1> QED
  BY <1>2, <1>3

\* A finished turn, seen from outside: over; and the round with it, if nobody is left.
LEMMA FinishedSeen ==
  ASSUME IInv, TurnFinished
  PROVE  /\ Promise!TurnIsOver
         /\ RoundComplete <=> ToSet(players) \subseteq Served
         /\ ~RoundComplete => /\ NextIndex \in Nat /\ NextIndex < Len(players)
                              /\ turnsTaken[players[NextIndex + 1]] = 0
<1>1. /\ Roster(players) /\ currentPlayerIndex \in Nat /\ turnsTaken \in [Participants -> Nat]
      /\ globalState = "TurnLoop"
      /\ \A i \in 1..Len(players) :
           turnsTaken[players[i]] = IF i <= currentPlayerIndex + 1 THEN 1 ELSE 0
  BY DEF TurnFinished, IInv, FlowInv, FlowTypes, OneTurnEach
<1>2. /\ Len(players) \in Nat
      /\ \A i \in 1..Len(players) : players[i] \in Participants
  BY <1>1, RosterFacts
<1>3. \A i \in 1..Len(players) : players[i] \in Served <=> i <= currentPlayerIndex + 1
  BY <1>1, <1>2 DEF Served
<1>4. \A x : x \in ToSet(players) <=> \E i \in 1..Len(players) : x = players[i]
  BY <1>1, ToSetOfSeq DEF Roster
<1>5. ASSUME ~RoundComplete
      PROVE  /\ NextIndex \in Nat /\ NextIndex + 1 \in 1..Len(players)
             /\ ~(NextIndex + 1 <= currentPlayerIndex + 1)
  BY <1>1, <1>2, <1>5 DEF RoundComplete, NextIndex
<1>6. RoundComplete => \A i \in 1..Len(players) : i <= currentPlayerIndex + 1
  BY <1>1, <1>2 DEF RoundComplete, NextIndex
<1>7. RoundComplete => ToSet(players) \subseteq Served
  BY <1>3, <1>4, <1>6
<1>8. ASSUME ~RoundComplete
      PROVE  /\ ~(ToSet(players) \subseteq Served)
             /\ turnsTaken[players[NextIndex + 1]] = 0
  BY <1>1, <1>3, <1>4, <1>5, <1>8
<1>9. ~RoundComplete => NextIndex < Len(players)
  BY <1>1, <1>2 DEF RoundComplete, NextIndex
<1>10. Promise!TurnIsOver
  BY DEF TurnFinished, Promise!TurnIsOver, Awaited
<1> QED
  BY <1>5, <1>7, <1>8, <1>9, <1>10

\* The ticks after a finished turn.
LEMMA TurnSeen ==
  ASSUME PromiseInv, EndGame \/ NextTurn \/ EndRound
  PROVE  Promise!Next /\ BossNeedsNoDice' /\ TriggersAreDebug'
<1>1. /\ running /\ TurnFinished /\ players' = players
      /\ UNCHANGED bossDefeated
      /\ pendingTrigger' => pendingTrigger
  BY DEF EndGame, NextTurn, EndRound, Tick, signalVars
<1>2. /\ Roster(players) /\ turnsTaken \in [Participants -> Nat] /\ globalState = "TurnLoop"
  BY <1>1 DEF TurnFinished, PromiseInv, IInv, FlowInv, FlowTypes
<1>3. TriggersAreDebug'
  BY <1>1 DEF PromiseInv, TriggersAreDebug
<1>4. /\ Promise!TurnIsOver
      /\ RoundComplete <=> ToSet(players) \subseteq Served
      /\ ~RoundComplete => /\ NextIndex \in Nat /\ NextIndex < Len(players)
                           /\ turnsTaken[players[NextIndex + 1]] = 0
  BY <1>1, FinishedSeen DEF PromiseInv
<1>5. CASE EndGame
  <2>1. Resting("GameOver") /\ running' = FALSE /\ bossDefeated /\ round' = round
    BY <1>5 DEF EndGame, EnterGameOver, BossBeaten
  <2>2. globalState' = "GameOver" /\ Served' = {} /\ Awaited' = NoPlayer /\ BossNeedsNoDice'
    BY <2>1, RestingSeen
  <2>3. Promise!Conclude
    BY <1>1, <1>4, <2>1, <2>2 DEF Promise!Conclude, Promise!TurnIsOver
  <2> QED
    BY <1>3, <2>2, <2>3 DEF Promise!Next
<1>6. CASE NextTurn
  <2>1. /\ BeginTurn(players, NextIndex, turnsTaken) /\ ~bossDefeated
        /\ UNCHANGED <<running, round>> /\ ~RoundComplete
    BY <1>6 DEF NextTurn, BossBeaten
  <2>2. Served = {p \in Participants : turnsTaken[p] > 0}
    BY <1>2 DEF Served
  <2> DEFINE p == players[NextIndex + 1]
  <2>3. /\ p \in ToSet(players)
        /\ p \notin Served
        /\ globalState' = "TurnLoop"
        /\ Served' = Served \cup {p}
        /\ Awaited' \in {p, NoPlayer} \ {Boss}
        /\ BossNeedsNoDice'
    BY <1>2, <1>4, <2>1, <2>2, BeginTurnSeen
  <2>4. Promise!Begin(p, Served)
    BY <2>3 DEF Promise!Begin
  <2>5. Promise!NextTurn
    BY <1>1, <1>4, <2>1, <2>3, <2>4 DEF Promise!NextTurn
  <2> QED
    BY <1>3, <2>3, <2>5 DEF Promise!Next
<1>7. CASE EndRound
  <2>1. /\ Resting("RoundEndWait") /\ UNCHANGED running /\ ~bossDefeated
        /\ round' = round + 1 /\ RoundComplete
    BY <1>7 DEF EndRound, EnterRoundEndWait, BossBeaten
  <2>2. globalState' = "RoundEndWait" /\ Served' = {} /\ Awaited' = NoPlayer /\ BossNeedsNoDice'
    BY <2>1, RestingSeen
  <2>3. Promise!CloseRound
    BY <1>1, <1>4, <2>1, <2>2 DEF Promise!CloseRound, Promise!RoundIsOver, Promise!TurnIsOver
  <2> QED
    BY <1>3, <2>2, <2>3 DEF Promise!Next
<1> QED
  BY <1>5, <1>6, <1>7

\* The debug panel's mini-game.
LEMMA ForcedSeen ==
  ASSUME PromiseInv, ForceMiniGame
  PROVE  Promise!Recall /\ BossNeedsNoDice' /\ TriggersAreDebug'
<1>1. /\ running /\ pendingTrigger /\ globalState # "RoundMiniGame"
      /\ ~(TurnFinished /\ bossDefeated)
      /\ pendingTrigger' = FALSE
      /\ round' = IF TurnFinished /\ RoundComplete THEN round + 1 ELSE round
      /\ \E t, taken : EnterRoundMiniGame(t, taken)
  BY DEF ForceMiniGame, Tick, Triggered, BossBeaten
<1>2. bossDefeated = FALSE
  BY <1>1 DEF PromiseInv, IInv, DefeatIsFresh, MiniTypes, TurnFinished
<1>3. Roster(players)
  BY DEF PromiseInv, IInv, FlowInv, FlowTypes
<1>4. /\ Promise!Open
      /\ ToSet(players') = ToSet(players) /\ running' = running
      /\ bossDefeated' = FALSE
      /\ BossNeedsNoDice'
  BY <1>1, <1>3, OpenSeen
<1>5. (TurnFinished /\ RoundComplete) <=> Promise!RoundIsOver
  <2>1. TurnFinished <=> Promise!TurnIsOver
    <3>1. globalState = "TurnLoop" /\ turnState = "MainAction" => turnPlayer # NoPlayer
      <4>1. CASE globalState = "TurnLoop"
        <5>1. turn \in Nat /\ turn < Len(players) /\ turnPlayer = players[turn + 1]
          BY <4>1 DEF PromiseInv, IInv, FlowInv, FlowTypes, TurnOwnership
        <5>2. /\ Len(players) \in Nat
              /\ \A i \in 1..Len(players) : players[i] \in Participants
          BY <1>3, RosterFacts
        <5>3. turn + 1 \in 1..Len(players)
          BY <5>1, <5>2
        <5> QED
          BY <5>1, <5>2, <5>3, BossAssumption
      <4> QED
        BY <4>1
    <3>2. globalState = "TurnLoop" => turnState \in {"MainAction", "TurnEnd"}
      BY DEF PromiseInv, IInv, FlowInv, FlowTypes, TurnOwnership
    <3> QED
      BY <3>1, <3>2 DEF TurnFinished, Promise!TurnIsOver, Awaited
  <2>2. TurnFinished => (RoundComplete <=> ToSet(players) \subseteq Served)
    BY FinishedSeen DEF PromiseInv
  <2> QED
    BY <1>2, <2>1, <2>2 DEF Promise!RoundIsOver
<1>6. DebugSignals
  BY <1>1 DEF PromiseInv, TriggersAreDebug
<1> QED
  BY <1>1, <1>2, <1>4, <1>5, <1>6 DEF Promise!Recall, TriggersAreDebug

LEMMA StepSeen ==
  ASSUME PromiseInv, [Next]_vars
  PROVE  [Promise!Next]_(Promise!vars) /\ BossNeedsNoDice' /\ TriggersAreDebug'
<1>1. ASSUME NEW u \in Users, AddPlayer(u) \/ LeaveWaitingRoom(u) \/ KickPlayer(u)
      PROVE  [Promise!Next]_(Promise!vars) /\ BossNeedsNoDice' /\ TriggersAreDebug'
  <2>1. (Promise!Join(u) \/ Promise!Leave(u)) /\ BossNeedsNoDice' /\ TriggersAreDebug'
    BY <1>1, RosterSeen
  <2> QED
    BY <2>1 DEF Promise!Next
<1>2. ASSUME NEW u \in Users, StartGame(u)
      PROVE  Unseen /\ UNCHANGED pendingTrigger
  BY <1>2 DEF StartGame, Message, Unseen, hsmVars, turnVars, signalVars
<1>3. ASSUME running, turnState = "MainAction", PlayTurn, UNCHANGED pendingTrigger
      PROVE  [Promise!Next]_(Promise!vars) /\ BossNeedsNoDice' /\ TriggersAreDebug'
  BY <1>3, PlayTurnSeen DEF Promise!Next
<1>4. ASSUME NEW r \in CallbackResults, SignalResults(r)
      PROVE  Unseen /\ UNCHANGED pendingTrigger
  BY <1>4 DEF SignalResults, Unseen, hsmVars, turnVars
<1>5. ASSUME SignalTrigger PROVE Unseen /\ DebugSignals
  BY <1>5 DEF SignalTrigger, Unseen, hsmVars, turnVars
<1>6. ASSUME MatchStop
      PROVE  [Promise!Next]_(Promise!vars) /\ BossNeedsNoDice' /\ TriggersAreDebug'
  <2>1. /\ running /\ running' = FALSE
        /\ UNCHANGED <<globalState, turnState, players, round, turnVars, bossDefeated, signalVars>>
    BY <1>6 DEF MatchStop
  <2>2. /\ UNCHANGED <<globalState, players, Served, Awaited, bossDefeated, round>>
        /\ BossNeedsNoDice' /\ TriggersAreDebug'
    BY <2>1 DEF turnVars, signalVars, Served, Awaited, PromiseInv, BossNeedsNoDice,
                TriggersAreDebug
  <2>3. Promise!Stop
    BY <2>1, <2>2 DEF Promise!Stop
  <2> QED
    BY <2>2, <2>3 DEF Promise!Next
<1>7. ASSUME BeginMatch
      PROVE  [Promise!Next]_(Promise!vars) /\ BossNeedsNoDice' /\ TriggersAreDebug'
  BY <1>7, OpeningSeen DEF BeginMatch, Tick, Promise!Next
<1>8. ASSUME IdleTick PROVE Unseen /\ UNCHANGED pendingTrigger
  BY <1>8 DEF IdleTick, Tick, Unseen, hsmVars, turnVars, signalVars
<1>9. ASSUME UNCHANGED vars PROVE Unseen /\ UNCHANGED pendingTrigger
  BY <1>9 DEF vars, Unseen, hsmVars, turnVars, signalVars
<1>10. ASSUME NEW u \in Users, RollDice(u)
       PROVE  running /\ turnState = "MainAction" /\ PlayTurn /\ UNCHANGED pendingTrigger
  BY <1>10 DEF RollDice, Message
<1>11. ASSUME AutoRoll
       PROVE  running /\ turnState = "MainAction" /\ PlayTurn /\ UNCHANGED pendingTrigger
  BY <1>11 DEF AutoRoll, Tick
<1>12. CASE EndGame \/ NextTurn \/ EndRound
  BY <1>12, TurnSeen
<1>13. CASE ForceMiniGame
  BY <1>13, ForcedSeen DEF Promise!Next
<1>14. CASE \E expired \in BOOLEAN : OnlineResults(expired)
  BY <1>14, OnlineSeen
<1>15. CASE Unseen /\ (UNCHANGED pendingTrigger \/ DebugSignals)
  BY <1>15, UnseenSteps
<1>16. CASE MatchLoop
  BY <1>3, <1>7, <1>8, <1>11, <1>12, <1>13, <1>14, <1>15, <1>16 DEF MatchLoop
<1>17. CASE Event
  <2>1. ASSUME NEW u \in Users, SubmitMiniGameData(u) \/ RoundReady(u)
        PROVE  [Promise!Next]_(Promise!vars) /\ BossNeedsNoDice' /\ TriggersAreDebug'
    BY <2>1, SubmissionSeen, ReadySeen
  <2> QED
    BY <1>1, <1>2, <1>3, <1>4, <1>5, <1>6, <1>10, <1>15, <1>17, <2>1 DEF Event
<1> QED
  BY <1>9, <1>15, <1>16, <1>17 DEF Next, Ended

LEMMA InitSeen == Init => PromiseInv /\ Promise!Init
<1> SUFFICES ASSUME Init PROVE PromiseInv /\ Promise!Init
  OBVIOUS
<1>1. IInv
  BY InitIInv
<1>2. /\ running = TRUE /\ globalState = "WaitingForHost" /\ turnState = "None"
      /\ bossDefeated = FALSE /\ round = 1 /\ pendingTrigger = FALSE
  BY DEF Init
<1>3. PromiseInv
  BY <1>1, <1>2 DEF PromiseInv, BossNeedsNoDice, TriggersAreDebug
<1>4. Roster(players)
  BY <1>1 DEF IInv, FlowInv, FlowTypes
<1>5. ToSet(players) \subseteq Users \cup {Boss} /\ Boss \in ToSet(players)
  BY <1>4, RosterFacts, ToSetOfSeq DEF Roster, Participants
<1>6. Served = {} /\ Awaited = NoPlayer
  BY <1>2 DEF Served, Awaited
<1> QED
  BY <1>2, <1>3, <1>5, <1>6 DEF Promise!Init

LEMMA RoundsRefine ==
  Init /\ [][Next]_vars => Promise!Init /\ [][Promise!Next]_(Promise!vars)
<1>1. PromiseInv /\ [Next]_vars => PromiseInv' /\ [Promise!Next]_(Promise!vars)
  <2> SUFFICES ASSUME PromiseInv, [Next]_vars
               PROVE  PromiseInv' /\ [Promise!Next]_(Promise!vars)
    OBVIOUS
  <2>1. IInv'
    BY StepIInv DEF PromiseInv
  <2> QED
    BY <2>1, StepSeen DEF PromiseInv
<1> QED
  BY <1>1, InitSeen, PTL

\* For all users, openings and switches the round protocol implements the promise: rounds
\* are opened and closed, turns begun, ended and won as RoundPromise says, whatever joins,
\* repeated messages, late results and triggers come in between.
THEOREM RoundsKeepPromise == Spec => RoundsAsPromised
<1>1. Spec => Init /\ [][Next]_vars
  BY DEF Spec
<1> QED
  BY <1>1, RoundsRefine DEF RoundsAsPromised, Promise!Safety

=============================================================================
