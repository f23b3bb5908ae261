---------------------------- MODULE RankingProofs ----------------------------
(***************************************************************************)
(* Theorems about RoundFlow's ranks (turns go in their order, and in a     *)
(* mini-game played in the clients they are earned) and about its waits:   *)
(* what counting submissions and signals is worth, and why the Boss acts   *)
(* last where everybody was counted once.                                  *)
(*                                                                         *)
(* The sort key of the unranked is the number of players and a hundred.    *)
(* Joins raise it while a round is under way, so the order that the sort   *)
(* has made would not last if a rank could reach it.  No rank of the       *)
(* game's own can; that the mini-game service keeps below a hundred is     *)
(* assumed (LowRanks).                                                     *)
(***************************************************************************)
EXTENDS RoundFlowProofs

LowRanks == MaxRank <= 100

-----------------------------------------------------------------------------
(* The inductive invariant *)

\* Before the first mini-game nobody has a rank, played or was reported.
WaitingIsBlank ==
  globalState = "WaitingForHost" =>
    rank = Unranked /\ gameData = {} /\ pendingResults = NoResults /\ totalPlayers = 0

\* A mini-game in the clients ranks nobody before it ends.
MiniGameIsBlank ==
  globalState = "RoundMiniGame" /\ mode = "frontend" => rank = Unranked

\* Whoever has a rank, played or was reported has a place in the turn order: one
\* who joins late brings nothing along.
RanksHaveOwners ==
  /\ \A u \in Users : rank[u] > 0 => u \in Competitors
  /\ gameData \subseteq Competitors
  /\ DOMAIN pendingResults \subseteq Competitors

\* Every rank is below the key of those who have none.
RanksAreLow ==
  /\ \A u \in Users : rank[u] < Len(players) + 100
  /\ \A u \in DOMAIN pendingResults : pendingResults[u] \in 1..MaxRank
  /\ totalPlayers <= Len(players)

RankInv ==
  /\ WaitingIsBlank /\ MiniGameIsBlank /\ RanksHaveOwners /\ RanksAreLow
  /\ TurnOrderFollowsRanks /\ RanksAreEarned

-----------------------------------------------------------------------------
(* Counting players *)

\* There are no more competitors than places in the turn order.
LEMMA CompetitorsFit ==
  ASSUME NEW ps, Roster(ps)
  PROVE  /\ Len(ps) \in Nat \ {0}
         /\ ToSet(ps) \ {Boss} \subseteq Users
         /\ Cardinality(ToSet(ps) \ {Boss}) \in Nat \ {0}
         /\ Cardinality(ToSet(ps) \ {Boss}) <= Len(ps)
<1>1. /\ Len(ps) \in Nat /\ Len(ps) >= 1
      /\ \A i \in 1..Len(ps) : ps[i] \in Participants
      /\ IsFiniteSet(ToSet(ps) \ {Boss})
      /\ Cardinality(ToSet(ps) \ {Boss}) \in Nat \ {0}
  BY RosterFacts
<1>2. \A x : x \in ToSet(ps) <=> \E i \in 1..Len(ps) : x = ps[i]
  BY ToSetOfSeq DEF Roster
<1>3. ToSet(ps) \ {Boss} \subseteq Users
  BY <1>1, <1>2 DEF Participants
<1>4. Cardinality(ToSet(ps)) <= Len(ps) /\ IsFiniteSet(ToSet(ps))
  <2> DEFINE f == [i \in 1..Len(ps) |-> ps[i]]
  <2>1. f \in Surjection(1..Len(ps), ToSet(ps))
    BY <1>2 DEF Surjection
  <2>2. IsFiniteSet(1..Len(ps)) /\ Cardinality(1..Len(ps)) = Len(ps)
    BY <1>1, FS_Interval
  <2> QED
    BY <2>1, <2>2, FS_Surjection
<1>5. Cardinality(ToSet(ps) \ {Boss}) <= Cardinality(ToSet(ps))
  BY <1>4, FS_Subset
<1>6. Cardinality(ToSet(ps)) \in Nat
  BY <1>4, FS_CardinalityType
<1> QED
  BY <1>1, <1>3, <1>4, <1>5, <1>6

\* What a ranking gives: places from 1 to the number of those who played, of
\* which only the last is shared.
LEMMA RankingsFair ==
  ASSUME NEW S \in SUBSET Users, NEW r \in Rankings(S)
  PROVE  /\ DOMAIN r = S
         /\ \A u \in S : r[u] \in 1..Cardinality(S)
         /\ \A u, v \in S : r[u] = r[v] => u = v \/ r[u] = Cardinality(S)
<1> DEFINE N == Cardinality(S)
<1>1. IsFiniteSet(S) /\ N \in Nat
  BY FS_Subset, FS_CardinalityType, UsersAssumption
<1>2. PICK p \in Bijection(S, 1..N), k \in 0..N :
        r = [u \in S |-> IF p[u] <= k THEN p[u] ELSE N]
  BY DEF Rankings
<1>3. /\ \A u \in S : p[u] \in 1..N
      /\ \A u, v \in S : p[u] = p[v] => u = v
  BY DEF Bijection, Injection, IsInjective
<1> HIDE DEF N
<1>4. \A u \in S : r[u] \in 1..N /\ (r[u] = p[u] \/ r[u] = N)
  BY <1>1, <1>2, <1>3
<1>5. \A u, v \in S : r[u] = r[v] => u = v \/ r[u] = N
  BY <1>3, <1>4
<1>6. DOMAIN r = S
  BY <1>2
<1> QED
  BY <1>4, <1>5, <1>6 DEF N

-----------------------------------------------------------------------------
(* The sort *)

\* The sort of RoundPrep puts better ranks first.
LEMMA PrepareRoundOrder ==
  ASSUME FlowInv, NEW rk \in [Users -> Nat], NEW d, PrepareRound(rk, d), rank' = rk
  PROVE  /\ ToSet(players') = ToSet(players) /\ Len(players') = Len(players)
         /\ globalState' \in {"TurnLoop", "GameOver"}
         /\ TurnOrderFollowsRanks'
<1>1. PICK f \in RankOrders(players, rk) :
        players' = [i \in 1..Len(players) |-> players[f[i]]]
  BY DEF PrepareRound
<1>2. ToSet(players') = ToSet(players) /\ Len(players') = Len(players)
  BY <1>1, SortedRoster DEF FlowInv, FlowTypes
<1>3. globalState' \in {"TurnLoop", "GameOver"}
  BY PrepareRoundFlow
<1> DEFINE n == Len(players)
<1>4. n \in Nat /\ (\A i \in 1..n : players[i] \in Participants)
  BY RosterFacts DEF FlowInv, FlowTypes
<1>5. \A i \in 1..n : f[i] \in 1..n /\ players'[i] = players[f[i]]
  BY <1>1 DEF RankOrders
<1>6. \A i \in 1..n : SortKey(players', rank', i) = SortKey(players, rk, f[i])
  BY <1>2, <1>5 DEF SortKey
<1>7. \A i \in 1..n : SortKey(players, rk, f[i]) \in Nat
  BY <1>4, <1>5 DEF SortKey, Participants
<1>8. \A i, j \in 1..n :
        i < j => \/ SortKey(players, rk, f[i]) < SortKey(players, rk, f[j])
                 \/ SortKey(players, rk, f[i]) = SortKey(players, rk, f[j]) /\ f[i] < f[j]
  BY DEF RankOrders
<1>9. \A i, j \in 1..n :
        i < j => SortKey(players', rank', i) <= SortKey(players', rank', j)
  <2> SUFFICES ASSUME NEW i \in 1..n, NEW j \in 1..n, i < j
               PROVE  SortKey(players', rank', i) <= SortKey(players', rank', j)
    OBVIOUS
  <2>1. SortKey(players, rk, f[i]) <= SortKey(players, rk, f[j])
    BY <1>7, <1>8
  <2> QED
    BY <1>6, <2>1
<1>10. TurnOrderFollowsRanks'
  BY <1>2, <1>9 DEF TurnOrderFollowsRanks
<1> QED
  BY <1>2, <1>3, <1>10

-----------------------------------------------------------------------------
(* One lemma for each group of steps: what it preserves of RankInv *)

\* Steps that touch neither ranks nor the turn order; results may come in.
LEMMA UntouchedRanks ==
  ASSUME RankInv,
         UNCHANGED <<players, rank, mode, totalPlayers, gameData>>,
         globalState' \in {globalState, "RoundEndWait", "GameOver"},
         \/ pendingResults' = pendingResults
         \/ /\ globalState # "WaitingForHost"
            /\ DOMAIN pendingResults' \subseteq Competitors
            /\ \A u \in DOMAIN pendingResults' : pendingResults'[u] \in 1..MaxRank
  PROVE  RankInv'
<1>1. WaitingIsBlank' /\ MiniGameIsBlank'
  BY DEF RankInv, WaitingIsBlank, MiniGameIsBlank
<1>2. RanksHaveOwners' /\ RanksAreLow'
  BY DEF RankInv, RanksHaveOwners, RanksAreLow, Competitors
<1>3. TurnOrderFollowsRanks' /\ RanksAreEarned'
  BY DEF RankInv, TurnOrderFollowsRanks, RanksAreEarned, SortKey
<1> QED
  BY <1>1, <1>2, <1>3 DEF RankInv

\* A newcomer has no rank and goes to the end; the unranked stay behind the
\* ranked although their key has grown.
LEMMA JoinsKeepOrder ==
  ASSUME IInv, RankInv, NEW u \in Users, AddPlayer(u)
  PROVE  RankInv'
<1> DEFINE n == Len(players)
<1>1. /\ players' = Append(players, u) /\ u \notin ToSet(players)
      /\ UNCHANGED <<globalState, rank, mode, totalPlayers, gameData, pendingResults>>
  BY BossAssumption DEF AddPlayer, IsNewcomer, Competitors, hsmVars, miniVars, signalVars
<1>2. /\ Len(players') = n + 1
      /\ \A i \in 1..n : players'[i] = players[i]
      /\ players'[n + 1] = u
      /\ ToSet(players') = ToSet(players) \cup {u}
      /\ Roster(players)
  BY <1>1, ExtendedRoster DEF IInv, FlowInv, FlowTypes
<1>3. n \in Nat /\ (\A i \in 1..n : players[i] \in Participants)
  BY <1>2, RosterFacts
<1>4. rank \in [Users -> Nat] /\ totalPlayers \in Nat
  BY DEF IInv, MiniTypes
<1>5. rank[u] = 0
  BY <1>1, <1>4 DEF RankInv, RanksHaveOwners, Competitors
<1>6. WaitingIsBlank' /\ MiniGameIsBlank' /\ RanksAreEarned'
  BY <1>1 DEF RankInv, WaitingIsBlank, MiniGameIsBlank, RanksAreEarned
<1>7. RanksHaveOwners'
  BY <1>1, <1>2 DEF RankInv, RanksHaveOwners, Competitors
<1>8. RanksAreLow'
  BY <1>1, <1>2, <1>3, <1>4 DEF RankInv, RanksAreLow
<1>9. TurnOrderFollowsRanks'
  <2> SUFFICES ASSUME globalState = "TurnLoop",
                      NEW i \in 1..(n + 1), NEW j \in 1..(n + 1), i < j
               PROVE  SortKey(players', rank, i) <= SortKey(players', rank, j)
    BY <1>1, <1>2 DEF TurnOrderFollowsRanks
  <2>1. /\ i \in 1..n
        /\ \/ players[i] # Boss /\ rank[players[i]] > 0
              /\ SortKey(players', rank, i) = rank[players[i]]
              /\ SortKey(players, rank, i) = rank[players[i]]
              /\ rank[players[i]] \in Nat /\ rank[players[i]] < n + 100
           \/ /\ SortKey(players', rank, i) = n + 101
              /\ SortKey(players, rank, i) = n + 100
    <3>1. i \in 1..n
      BY <1>3
    <3>2. CASE players[i] # Boss /\ rank[players[i]] > 0
      <4>1. players[i] \in Users
        BY <1>3, <3>1, <3>2 DEF Participants
      <4>2. rank[players[i]] \in Nat /\ rank[players[i]] < n + 100
        BY <1>4, <4>1 DEF RankInv, RanksAreLow
      <4> QED
        BY <1>2, <3>1, <3>2, <4>2 DEF SortKey
    <3>3. CASE ~(players[i] # Boss /\ rank[players[i]] > 0)
      BY <1>2, <1>3, <3>1, <3>3 DEF SortKey
    <3> QED
      BY <3>1, <3>2, <3>3
  <2>2. CASE j = n + 1
    <3>1. SortKey(players', rank, j) = n + 101
      BY <1>2, <1>3, <1>5, <2>2 DEF SortKey
    <3> QED
      BY <1>3, <2>1, <3>1
  <2>3. CASE j \in 1..n
    <3>1. SortKey(players, rank, i) <= SortKey(players, rank, j)
      BY <2>1, <2>3 DEF RankInv, TurnOrderFollowsRanks
    <3>2. \/ /\ SortKey(players', rank, j) = rank[players[j]]
             /\ SortKey(players, rank, j) = rank[players[j]]
             /\ rank[players[j]] \in Nat /\ rank[players[j]] < n + 100
          \/ /\ SortKey(players', rank, j) = n + 101
             /\ SortKey(players, rank, j) = n + 100
      <4>1. CASE players[j] # Boss /\ rank[players[j]] > 0
        <5>1. players[j] \in Users
          BY <1>3, <2>3, <4>1 DEF Participants
        <5>2. rank[players[j]] \in Nat /\ rank[players[j]] < n + 100
          BY <1>4, <5>1 DEF RankInv, RanksAreLow
        <5> QED
          BY <1>2, <2>3, <4>1, <5>2 DEF SortKey
      <4>2. CASE ~(players[j] # Boss /\ rank[players[j]] > 0)
        BY <1>2, <1>3, <2>3, <4>2 DEF SortKey
      <4> QED
        BY <4>1, <4>2
    <3> QED
      BY <1>3, <2>1, <3>1, <3>2
  <2> QED
    BY <1>3, <2>2, <2>3
<1> QED
  BY <1>6, <1>7, <1>8, <1>9 DEF RankInv

\* Players are removed before there is anything to rank.
LEMMA RemovalsHaveNoRanks ==
  ASSUME IInv, RankInv, IInv', NEW u \in Users, RemovePlayer(u)
  PROVE  RankInv'
<1>1. /\ globalState = "WaitingForHost"
      /\ UNCHANGED <<globalState, rank, mode, totalPlayers, gameData, pendingResults>>
  BY DEF RemovePlayer, hsmVars, miniVars, signalVars
<1>2. rank = Unranked /\ gameData = {} /\ pendingResults = NoResults /\ totalPlayers = 0
  BY <1>1 DEF RankInv, WaitingIsBlank
<1>3. Len(players') \in Nat
  BY RosterFacts DEF IInv, FlowInv, FlowTypes
<1>4. (\A v \in Users : rank[v] = 0) /\ DOMAIN pendingResults = {}
  BY <1>2 DEF Unranked, NoResults
<1>5. WaitingIsBlank' /\ MiniGameIsBlank'
  BY <1>1, <1>2 DEF WaitingIsBlank, MiniGameIsBlank, Unranked, NoResults
<1>6. RanksHaveOwners' /\ RanksAreLow'
  BY <1>1, <1>2, <1>3, <1>4 DEF RanksHaveOwners, RanksAreLow
<1>7. TurnOrderFollowsRanks' /\ RanksAreEarned'
  BY <1>1 DEF TurnOrderFollowsRanks, RanksAreEarned
<1> QED
  BY <1>5, <1>6, <1>7 DEF RankInv

\* A mini-game opens with a clean slate.
LEMMA MiniGamesOpenBlank ==
  ASSUME IInv, RankInv, NEW t, NEW taken, EnterRoundMiniGame(t, taken),
         UNCHANGED pendingResults
  PROVE  RankInv'
<1>1. PICK m \in MiniGameModes :
        /\ mode' = m
        /\ totalPlayers' = Cardinality(Competitors)
        /\ gameData' = {}
        /\ rank' = Unranked
        /\ IF m = "none"
           THEN PrepareRound(Unranked, FALSE)
           ELSE Resting("RoundMiniGame") /\ UNCHANGED <<running, players>>
  BY DEF EnterRoundMiniGame, ClearedRanks
<1>2. Unranked \in [Users -> Nat] /\ \A u \in Users : Unranked[u] = 0
  BY DEF Unranked
<1>3. /\ ToSet(players') = ToSet(players) /\ Len(players') = Len(players)
      /\ globalState' \in {"RoundMiniGame", "TurnLoop", "GameOver"}
      /\ TurnOrderFollowsRanks'
      /\ globalState' = "TurnLoop" => mode' = "none"
  <2>1. CASE m = "none"
    BY <1>1, <1>2, <2>1, PrepareRoundOrder DEF IInv
  <2>2. CASE m # "none"
    BY <1>1, <2>2 DEF Resting, TurnOrderFollowsRanks
  <2> QED
    BY <2>1, <2>2
<1>4. Len(players) \in Nat /\ Cardinality(Competitors) <= Len(players)
  BY CompetitorsFit DEF IInv, FlowInv, FlowTypes, Competitors
<1>5. WaitingIsBlank' /\ MiniGameIsBlank' /\ RanksAreEarned'
  BY <1>1, <1>3 DEF WaitingIsBlank, MiniGameIsBlank, RanksAreEarned, Unranked
<1>6. RanksHaveOwners'
  BY <1>1, <1>2, <1>3 DEF RankInv, RanksHaveOwners, Competitors
<1>7. RanksAreLow'
  BY <1>1, <1>2, <1>3, <1>4 DEF RankInv, RanksAreLow
<1> QED
  BY <1>3, <1>5, <1>6, <1>7 DEF RankInv

\* The submission that completes a mini-game ranks those who played it.
LEMMA SubmissionsAreRanked ==
  ASSUME IInv, RankInv, NEW u \in Users, SubmitMiniGameData(u)
  PROVE  RankInv'
<1> DEFINE S == gameData \cup {u}
<1>1. /\ globalState = "RoundMiniGame" /\ mode = "frontend" /\ u \in Competitors
      /\ gameData' = S
      /\ UNCHANGED <<mode, totalPlayers, pendingResults>>
  BY DEF SubmitMiniGameData, Message, signalVars
<1>2. rank = Unranked /\ S \subseteq Competitors
  BY <1>1 DEF RankInv, MiniGameIsBlank, RanksHaveOwners
<1>3. /\ Len(players) \in Nat /\ Cardinality(Competitors) \in Nat
      /\ Cardinality(Competitors) <= Len(players)
      /\ Competitors \subseteq Users /\ IsFiniteSet(Competitors)
  BY CompetitorsFit, RosterFacts DEF IInv, FlowInv, FlowTypes, Competitors
<1>4. Cardinality(S) \in Nat /\ Cardinality(S) <= Len(players) /\ S \subseteq Users
  <2>1. IsFiniteSet(S) /\ Cardinality(S) <= Cardinality(Competitors)
    BY <1>2, <1>3, FS_Subset
  <2>2. Cardinality(S) \in Nat
    BY <2>1, FS_CardinalityType
  <2> QED
    BY <1>2, <1>3, <2>1, <2>2
<1>5. CASE Enough(resultsReceived + 1, totalPlayers)
  <2>1. PICK r \in Rankings(S) :
          /\ rank' = WithRanks(rank, r)
          /\ PrepareRound(WithRanks(rank, r), bossDefeated)
    BY <1>5 DEF SubmitMiniGameData
  <2>2. /\ DOMAIN r = S
        /\ \A v \in S : r[v] \in 1..Cardinality(S)
        /\ \A v, w \in S : r[v] = r[w] => v = w \/ r[v] = Cardinality(S)
    BY <1>4, RankingsFair
  <2> HIDE DEF S
  <2>3. \A v \in Users : IF v \in S THEN rank'[v] = r[v] ELSE rank'[v] = 0
    BY <1>2, <2>1, <2>2 DEF WithRanks, Unranked
  <2>4. \A v \in Users : rank'[v] \in Nat /\ rank'[v] <= Len(players)
                         /\ (rank'[v] > 0 => v \in S /\ rank'[v] <= Cardinality(S))
    <3> SUFFICES ASSUME NEW v \in Users
                 PROVE  rank'[v] \in Nat /\ rank'[v] <= Len(players)
                        /\ (rank'[v] > 0 => v \in S /\ rank'[v] <= Cardinality(S))
      OBVIOUS
    <3>1. CASE v \in S
      BY <1>3, <1>4, <2>2, <2>3, <3>1
    <3>2. CASE v \notin S
      BY <1>3, <2>3, <3>2
    <3> QED
      BY <3>1, <3>2
  <2>5. WithRanks(rank, r) \in [Users -> Nat]
    BY <2>1, <2>4 DEF WithRanks
  <2>6. /\ ToSet(players') = ToSet(players) /\ Len(players') = Len(players)
        /\ globalState' \in {"TurnLoop", "GameOver"}
        /\ TurnOrderFollowsRanks'
    BY <2>1, <2>5, PrepareRoundOrder DEF IInv
  <2>7. WaitingIsBlank' /\ MiniGameIsBlank'
    BY <2>6 DEF WaitingIsBlank, MiniGameIsBlank
  <2>8. RanksHaveOwners'
    BY <1>1, <1>2, <2>4, <2>6 DEF RankInv, RanksHaveOwners, Competitors
  <2>9. RanksAreLow'
    <3>1. \A v \in Users : rank'[v] < Len(players) + 100
      BY <1>3, <2>4
    <3> QED
      BY <1>1, <2>6, <3>1 DEF RankInv, RanksAreLow
  <2>10. RanksAreEarned'
    <3> SUFFICES ASSUME NEW v \in Users, NEW w \in Users, rank'[v] > 0
                 PROVE  /\ v \in S /\ rank'[v] <= Cardinality(S)
                        /\ rank'[v] = rank'[w] => v = w \/ rank'[v] = Cardinality(S)
      BY <1>1 DEF RanksAreEarned
    <3>1. v \in S /\ rank'[v] <= Cardinality(S)
      BY <2>4
    <3>2. ASSUME rank'[v] = rank'[w]
          PROVE  v = w \/ rank'[v] = Cardinality(S)
      <4>1. w \in S
        BY <2>4, <3>2
      <4> QED
        BY <2>2, <2>3, <3>1, <3>2, <4>1
    <3> QED
      BY <3>1, <3>2
  <2> QED
    BY <2>6, <2>7, <2>8, <2>9, <2>10 DEF RankInv
<1>6. CASE ~Enough(resultsReceived + 1, totalPlayers)
  <2>1. UNCHANGED <<globalState, players, rank>>
    BY <1>6 DEF SubmitMiniGameData, hsmVars
  <2>2. WaitingIsBlank' /\ MiniGameIsBlank' /\ TurnOrderFollowsRanks' /\ RanksAreEarned'
    BY <1>1, <2>1 DEF RankInv, WaitingIsBlank, MiniGameIsBlank, TurnOrderFollowsRanks,
                      RanksAreEarned
  <2>3. RanksHaveOwners' /\ RanksAreLow'
    BY <1>1, <1>2, <2>1 DEF RankInv, RanksHaveOwners, RanksAreLow, Competitors
  <2> QED
    BY <2>2, <2>3 DEF RankInv
<1> QED
  BY <1>5, <1>6

\* Results of the mini-game service, and the last rank for those it left out,
\* stay below the key of the unranked.
LEMMA OnlineRanksAreLow ==
  ASSUME LowRanks, IInv, RankInv, NEW expired \in BOOLEAN, OnlineResults(expired)
  PROVE  RankInv'
<1> DEFINE reported == WithRanks(rank, pendingResults)
           received == resultsReceived + Cardinality(DOMAIN pendingResults)
           missing  == IF expired /\ received < totalPlayers
                       THEN LeftOver(reported) ELSE {}
           final    == WithRanks(reported, [u \in missing |-> totalPlayers])
           counted  == received + Cardinality(missing)
<1>1. /\ globalState = "RoundMiniGame" /\ mode = "rpc"
      /\ rank' = final /\ pendingResults' = NoResults
      /\ UNCHANGED <<mode, totalPlayers, gameData>>
      /\ IF Enough(counted, totalPlayers)
         THEN PrepareRound(final, bossDefeated)
         ELSE UNCHANGED <<hsmVars, players, turnVars>>
  BY DEF OnlineResults
<1>2. missing \subseteq Competitors
  BY DEF LeftOver
<1>3. /\ Len(players) \in Nat /\ Len(players) >= 1
      /\ totalPlayers \in Nat /\ totalPlayers <= Len(players)
      /\ MaxRank \in Nat /\ MaxRank <= 100
      /\ rank \in [Users -> Nat]
  BY RosterFacts, BoundAssumption
  DEF LowRanks, IInv, FlowInv, FlowTypes, MiniTypes, RankInv, RanksAreLow
<1> HIDE DEF missing, received, counted
<1>4. \A u \in Users : final[u] = IF u \in missing THEN totalPlayers
                                 ELSE IF u \in DOMAIN pendingResults THEN pendingResults[u]
                                 ELSE rank[u]
  BY DEF WithRanks
<1>5. \A u \in Users : /\ final[u] \in Nat /\ final[u] < Len(players) + 100
                       /\ final[u] > 0 => u \in Competitors
  <2> SUFFICES ASSUME NEW u \in Users
               PROVE  /\ final[u] \in Nat /\ final[u] < Len(players) + 100
                      /\ final[u] > 0 => u \in Competitors
    OBVIOUS
  <2>1. CASE u \in missing
    BY <1>2, <1>3, <1>4, <2>1
  <2>2. CASE u \notin missing /\ u \in DOMAIN pendingResults
    <3>1. pendingResults[u] \in 1..MaxRank /\ u \in Competitors
      BY <2>2 DEF RankInv, RanksAreLow, RanksHaveOwners
    <3> QED
      BY <1>3, <1>4, <2>2, <3>1
  <2>3. CASE u \notin missing /\ u \notin DOMAIN pendingResults
    BY <1>3, <1>4, <2>3 DEF RankInv, RanksAreLow, RanksHaveOwners
  <2> QED
    BY <2>1, <2>2, <2>3
<1>6. final \in [Users -> Nat]
  BY <1>5 DEF WithRanks
<1> HIDE DEF final
<1>7. /\ ToSet(players') = ToSet(players) /\ Len(players') = Len(players)
      /\ globalState' \in {"RoundMiniGame", "TurnLoop", "GameOver"}
      /\ TurnOrderFollowsRanks'
  <2>1. CASE Enough(counted, totalPlayers)
    BY <1>1, <1>6, <2>1, PrepareRoundOrder DEF IInv
  <2>2. CASE ~Enough(counted, totalPlayers)
    BY <1>1, <2>2 DEF hsmVars, TurnOrderFollowsRanks
  <2> QED
    BY <2>1, <2>2
<1>8. WaitingIsBlank' /\ MiniGameIsBlank' /\ RanksAreEarned'
  BY <1>1, <1>7 DEF WaitingIsBlank, MiniGameIsBlank, RanksAreEarned
<1>9. DOMAIN pendingResults' = {}
  BY <1>1 DEF NoResults
<1>10. RanksHaveOwners' /\ RanksAreLow'
  BY <1>1, <1>3, <1>5, <1>7, <1>9 DEF RankInv, RanksHaveOwners, RanksAreLow, Competitors
<1> QED
  BY <1>7, <1>8, <1>10 DEF RankInv

-----------------------------------------------------------------------------
(* RankInv is inductive, given IInv *)

LEMMA InitRankInv == Init => RankInv
<1> SUFFICES ASSUME Init PROVE RankInv
  OBVIOUS
<1>1. Len(players) \in Nat
  BY RosterFacts, InitIInv DEF IInv, FlowInv, FlowTypes
<1>2. (\A u \in Users : rank[u] = 0) /\ DOMAIN pendingResults = {}
  BY DEF Init, Unranked, NoResults
<1>3. WaitingIsBlank /\ MiniGameIsBlank /\ TurnOrderFollowsRanks /\ RanksAreEarned
  BY DEF Init, WaitingIsBlank, MiniGameIsBlank, TurnOrderFollowsRanks, RanksAreEarned
<1>4. RanksHaveOwners /\ RanksAreLow
  BY <1>1, <1>2 DEF Init, RanksHaveOwners, RanksAreLow
<1> QED
  BY <1>3, <1>4 DEF RankInv

LEMMA StepRankInv ==
  ASSUME LowRanks
  PROVE  IInv /\ RankInv /\ [Next]_vars => RankInv'
<1> SUFFICES ASSUME IInv, RankInv, [Next]_vars PROVE RankInv'
  OBVIOUS
<1>1. IInv'
  BY StepIInv
<1>2. ASSUME NEW u \in Users, AddPlayer(u)
      PROVE  RankInv'
  BY <1>2, JoinsKeepOrder
<1>3. ASSUME NEW u \in Users, LeaveWaitingRoom(u) \/ KickPlayer(u)
      PROVE  RankInv'
  BY <1>1, <1>3, RemovalsHaveNoRanks DEF LeaveWaitingRoom, KickPlayer
<1>4. ASSUME NEW u \in Users, StartGame(u) \/ RollDice(u)
      PROVE  RankInv'
  BY <1>4, UntouchedRanks
  DEF StartGame, RollDice, PlayTurn, hsmVars, miniVars, signalVars
<1>5. ASSUME NEW u \in Users, SubmitMiniGameData(u)
      PROVE  RankInv'
  BY <1>5, SubmissionsAreRanked
<1>6. ASSUME NEW u \in Users, RoundReady(u)
      PROVE  RankInv'
  <2>1. UNCHANGED pendingResults
    BY <1>6 DEF RoundReady, signalVars
  <2>2. CASE Enough(readyReceived + 1, readyTotal)
    BY <1>6, <2>1, <2>2, MiniGamesOpenBlank DEF RoundReady
  <2>3. CASE ~Enough(readyReceived + 1, readyTotal)
    BY <1>6, <2>1, <2>3, UntouchedRanks DEF RoundReady, hsmVars, miniVars
  <2> QED
    BY <2>2, <2>3
<1>7. ASSUME NEW r \in CallbackResults, SignalResults(r)
      PROVE  RankInv'
  <2>1. /\ UNCHANGED <<players, rank, mode, totalPlayers, gameData, globalState>>
        /\ globalState # "WaitingForHost" /\ DOMAIN r \subseteq Competitors
        /\ pendingResults' =
             [u \in DOMAIN r \cup DOMAIN pendingResults |->
                IF u \in DOMAIN r THEN r[u] ELSE pendingResults[u]]
    BY <1>7 DEF SignalResults, hsmVars, miniVars
  <2>2. \A u \in DOMAIN r : r[u] \in 1..MaxRank
    BY <1>7 DEF CallbackResults
  <2>3. DOMAIN pendingResults' = DOMAIN r \cup DOMAIN pendingResults
    BY <2>1
  <2>4. /\ DOMAIN pendingResults' \subseteq Competitors
        /\ \A u \in DOMAIN pendingResults' : pendingResults'[u] \in 1..MaxRank
    BY <2>1, <2>2, <2>3 DEF RankInv, RanksHaveOwners, RanksAreLow
  <2> QED
    BY <2>1, <2>4, UntouchedRanks
<1>8. ASSUME SignalTrigger \/ MatchStop
      PROVE  RankInv'
  BY <1>8, UntouchedRanks DEF SignalTrigger, MatchStop, hsmVars, miniVars, signalVars
<1>9. ASSUME EndGame \/ EndRound \/ AutoRoll \/ IdleTick
      PROVE  RankInv'
  BY <1>9, UntouchedRanks
  DEF EndGame, EnterGameOver, EndRound, EnterRoundEndWait, Resting, AutoRoll, PlayTurn,
      IdleTick, hsmVars, miniVars, signalVars
<1>10. ASSUME NextTurn
       PROVE  RankInv'
  <2>1. globalState' = globalState
    BY <1>10 DEF NextTurn, TurnFinished, BeginTurn
  <2> QED
    BY <1>10, <2>1, UntouchedRanks DEF NextTurn, miniVars, signalVars
<1>11. ASSUME BeginMatch \/ ForceMiniGame
       PROVE  RankInv'
  <2>1. UNCHANGED pendingResults
    BY <1>11 DEF BeginMatch, ForceMiniGame, signalVars
  <2>2. \/ EnterRoundMiniGame(turn, turnsTaken)
        \/ EnterRoundMiniGame(NextIndex,
             [turnsTaken EXCEPT ![players[NextIndex + 1]] = @ + 1])
    BY <1>11 DEF BeginMatch, ForceMiniGame
  <2> QED
    BY <2>1, <2>2, MiniGamesOpenBlank
<1>12. ASSUME NEW expired \in BOOLEAN, OnlineResults(expired)
       PROVE  RankInv'
  BY <1>12, OnlineRanksAreLow
<1>13. ASSUME UNCHANGED vars
       PROVE  RankInv'
  BY <1>13, UntouchedRanks DEF vars, hsmVars, miniVars, signalVars
<1> QED
  BY <1>2, <1>3, <1>4, <1>5, <1>6, <1>7, <1>8, <1>9, <1>10, <1>11, <1>12, <1>13
  DEF Next, Event, MatchLoop, Ended

LEMMA RankInvAlways ==
  ASSUME LowRanks
  PROVE  Spec => []RankInv
<1>1. Spec => Init /\ [][Next]_vars
  BY DEF Spec
<1>2. IInv /\ RankInv /\ [Next]_vars => RankInv'
  BY StepRankInv
<1> QED
  BY <1>1, <1>2, IInvAlways, InitRankInv, PTL

-----------------------------------------------------------------------------
(* The theorems *)

\* In every round the turns go by the mini-game ranks, from the best to those
\* who have none, and a player who joins in the middle of it does not upset
\* that, as long as the mini-game service gives no rank above a hundred.
THEOREM TurnsGoByRank ==
  ASSUME LowRanks
  PROVE  Spec => []TurnOrderFollowsRanks
<1>1. RankInv => TurnOrderFollowsRanks
  BY DEF RankInv
<1> QED
  BY <1>1, RankInvAlways, PTL

\* After a mini-game in the clients only those who submitted data for it have a
\* rank, none above the number of submitters and none but the last one shared.
THEOREM RanksGoToPlayers ==
  ASSUME LowRanks
  PROVE  Spec => []RanksAreEarned
<1>1. RankInv => RanksAreEarned
  BY DEF RankInv
<1> QED
  BY <1>1, RankInvAlways, PTL

-----------------------------------------------------------------------------
(* What the waits count, and what it is worth *)

\* Only players of the match are recorded as having submitted or signalled, and
\* nobody is before the first mini-game.
RecordsHaveOwners ==
  /\ gameData \cup readyFrom \subseteq Competitors
  /\ globalState = "WaitingForHost" => gameData = {} /\ readyFrom = {}

\* The turns after a mini-game in the clients begin with enough submissions, and
\* with a rank for everyone who made one.
SubmittersAreRanked ==
  globalState = "TurnLoop" /\ mode = "frontend" =>
    resultsReceived >= totalPlayers /\ \A u \in gameData : rank[u] > 0

WaitInv == RecordsHaveOwners /\ SubmittersAreRanked

\* Who are as many as all of the finitely many players are all of them.
LEMMA AsManyAsAll ==
  ASSUME NEW S, NEW T, IsFiniteSet(T), S \subseteq T, Cardinality(S) >= Cardinality(T)
  PROVE  S = T
<1>1. S \in SUBSET T
  OBVIOUS
<1>2. IsFiniteSet(S) /\ Cardinality(S) <= Cardinality(T) /\ (Cardinality(T) = Cardinality(S) => T = S)
  BY <1>1, FS_Subset
<1>3. Cardinality(S) \in Nat /\ Cardinality(T) \in Nat
  BY <1>2, FS_CardinalityType
<1> QED
  BY <1>2, <1>3

\* Steps that record nothing and rank nobody, and do not begin the first turn.
LEMMA WaitsUnchanged ==
  ASSUME WaitInv, UNCHANGED <<gameData, mode, rank, resultsReceived, totalPlayers>>,
         Competitors \subseteq Competitors',
         readyFrom' = readyFrom \/ readyFrom' = {},
         globalState' \in {globalState, "RoundEndWait", "GameOver"}
  PROVE  WaitInv'
BY DEF WaitInv, RecordsHaveOwners, SubmittersAreRanked

\* A mini-game opens with no submissions; the signals of the last wait may stay.
LEMMA WaitsAtMiniGames ==
  ASSUME IInv, NEW t, NEW taken, EnterRoundMiniGame(t, taken),
         readyFrom' \subseteq Competitors
  PROVE  WaitInv'
<1>1. PICK m \in MiniGameModes :
        /\ mode' = m /\ gameData' = {}
        /\ IF m = "none"
           THEN PrepareRound(ClearedRanks, FALSE)
           ELSE Resting("RoundMiniGame") /\ UNCHANGED <<running, players>>
  BY DEF EnterRoundMiniGame
<1>2. ClearedRanks \in [Users -> Nat]
  BY DEF ClearedRanks, Unranked
<1>3. /\ Competitors' = Competitors
      /\ globalState' \in {"RoundMiniGame", "TurnLoop", "GameOver"}
      /\ globalState' = "TurnLoop" => mode' = "none"
  <2>1. CASE m = "none"
    <3>1. PrepareRound(ClearedRanks, FALSE)
      BY <1>1, <2>1
    <3>2. PICK f \in RankOrders(players, ClearedRanks) :
            players' = [i \in 1..Len(players) |-> players[f[i]]]
      BY <3>1 DEF PrepareRound
    <3>3. ToSet(players') = ToSet(players)
      BY <1>2, <3>2, SortedRoster DEF IInv, FlowInv, FlowTypes
    <3>4. globalState' \in {"TurnLoop", "GameOver"}
      BY <1>2, <3>1, PrepareRoundFlow DEF IInv
    <3> QED
      BY <1>1, <2>1, <3>3, <3>4 DEF Competitors
  <2>2. CASE m # "none"
    BY <1>1, <2>2 DEF Resting, Competitors
  <2> QED
    BY <2>1, <2>2
<1> QED
  BY <1>1, <1>3 DEF WaitInv, RecordsHaveOwners, SubmittersAreRanked

\* A submission that leads on to the turns was enough, and everyone is ranked
\* who made one.
LEMMA SubmissionCounted ==
  ASSUME IInv, WaitInv, NEW u \in Users, SubmitMiniGameData(u)
  PROVE  /\ WaitInv'
         /\ Competitors' = Competitors
         /\ globalState' = "TurnLoop" => resultsReceived' >= totalPlayers'
<1> DEFINE S == gameData \cup {u}
<1>1. /\ globalState = "RoundMiniGame" /\ u \in Competitors
      /\ gameData' = S /\ resultsReceived' = resultsReceived + 1
      /\ UNCHANGED <<totalPlayers, readyFrom>>
  BY DEF SubmitMiniGameData, Message, readyVars
<1>2. S \subseteq Competitors /\ readyFrom \subseteq Competitors
  BY <1>1 DEF WaitInv, RecordsHaveOwners
<1>3. CASE Enough(resultsReceived + 1, totalPlayers)
  <2>1. PICK r \in Rankings(S) :
          /\ rank' = WithRanks(rank, r)
          /\ PrepareRound(WithRanks(rank, r), bossDefeated)
    BY <1>3 DEF SubmitMiniGameData
  <2>2. S \subseteq Users
    BY DEF IInv, MiniTypes
  <2>3. DOMAIN r = S /\ \A v \in S : r[v] \in 1..Cardinality(S)
    BY <2>2, RankingsFair
  <2>4. WithRanks(rank, r) \in [Users -> Nat]
    BY <2>1, <2>2, RankingsType, WithRanksType DEF IInv, MiniTypes
  <2>5. PICK f \in RankOrders(players, WithRanks(rank, r)) :
          players' = [i \in 1..Len(players) |-> players[f[i]]]
    BY <2>1 DEF PrepareRound
  <2>6. ToSet(players') = ToSet(players)
    BY <2>4, <2>5, SortedRoster DEF IInv, FlowInv, FlowTypes
  <2>7. globalState' \in {"TurnLoop", "GameOver"}
    BY <2>1, <2>4, PrepareRoundFlow DEF IInv
  <2>8. \A v \in S : rank'[v] > 0
    <3> SUFFICES ASSUME NEW v \in S PROVE rank'[v] > 0
      OBVIOUS
    <3>1. rank'[v] = r[v] /\ r[v] \in 1..Cardinality(S)
      BY <2>1, <2>2, <2>3 DEF WithRanks
    <3>2. Cardinality(S) \in Nat
      BY <2>2, FS_Subset, FS_CardinalityType, UsersAssumption
    <3> QED
      BY <3>1, <3>2
  <2>9. resultsReceived' >= totalPlayers'
    BY <1>1, <1>3 DEF Enough
  <2> QED
    BY <1>1, <1>2, <2>6, <2>7, <2>8, <2>9
    DEF WaitInv, RecordsHaveOwners, SubmittersAreRanked, Competitors
<1>4. CASE ~Enough(resultsReceived + 1, totalPlayers)
  <2>1. UNCHANGED <<globalState, players>>
    BY <1>4 DEF SubmitMiniGameData, hsmVars
  <2> QED
    BY <1>1, <1>2, <2>1 DEF WaitInv, RecordsHaveOwners, SubmittersAreRanked, Competitors
<1> QED
  BY <1>3, <1>4

\* Applying online results leaves the same players in the turn order.
LEMMA OnlineKeepsRoster ==
  ASSUME IInv, NEW expired \in BOOLEAN, OnlineResults(expired)
  PROVE  /\ Competitors' = Competitors
         /\ globalState' \in {"RoundMiniGame", "TurnLoop", "GameOver"}
<1>1. IInv'
  BY OnlineSteps
<1>2. globalState = "RoundMiniGame" /\ rank' \in [Users -> Nat]
  BY <1>1 DEF OnlineResults, IInv, MiniTypes
<1>3. PICK final :
        /\ rank' = final
        /\ PrepareRound(final, bossDefeated) \/ UNCHANGED <<hsmVars, players>>
  BY DEF OnlineResults
<1>4. CASE PrepareRound(final, bossDefeated)
  <2>1. PICK f \in RankOrders(players, final) :
          players' = [i \in 1..Len(players) |-> players[f[i]]]
    BY <1>4 DEF PrepareRound
  <2>2. ToSet(players') = ToSet(players)
    BY <1>2, <1>3, <2>1, SortedRoster DEF IInv, FlowInv, FlowTypes
  <2>3. globalState' \in {"TurnLoop", "GameOver"}
    BY <1>2, <1>3, <1>4, PrepareRoundFlow DEF IInv
  <2> QED
    BY <2>2, <2>3 DEF Competitors
<1>5. CASE UNCHANGED <<hsmVars, players>>
  BY <1>2, <1>5 DEF hsmVars, Competitors
<1> QED
  BY <1>3, <1>4, <1>5

LEMMA InitWaitInv == Init => WaitInv
BY DEF Init, WaitInv, RecordsHaveOwners, SubmittersAreRanked

LEMMA StepWaitInv == IInv /\ WaitInv /\ [Next]_vars => WaitInv'
<1> SUFFICES ASSUME IInv, WaitInv, [Next]_vars PROVE WaitInv'
  OBVIOUS
<1>1. ASSUME NEW u \in Users, AddPlayer(u)
      PROVE  WaitInv'
  <2>1. players' = Append(players, u) /\ u \notin ToSet(players)
    BY <1>1, BossAssumption DEF AddPlayer, IsNewcomer, Competitors
  <2>2. ToSet(players') = ToSet(players) \cup {u}
    BY <2>1, ExtendedRoster DEF IInv, FlowInv, FlowTypes
  <2> QED
    BY <1>1, <2>2, WaitsUnchanged DEF AddPlayer, hsmVars, miniVars, readyVars, Competitors
<1>2. ASSUME NEW u \in Users, LeaveWaitingRoom(u) \/ KickPlayer(u)
      PROVE  WaitInv'
  BY <1>2 DEF LeaveWaitingRoom, KickPlayer, RemovePlayer, hsmVars, miniVars, readyVars,
              WaitInv, RecordsHaveOwners, SubmittersAreRanked
<1>3. ASSUME NEW u \in Users, StartGame(u) \/ RollDice(u)
      PROVE  WaitInv'
  BY <1>3, WaitsUnchanged
  DEF StartGame, RollDice, PlayTurn, hsmVars, miniVars, readyVars, Competitors
<1>4. ASSUME NEW u \in Users, SubmitMiniGameData(u)
      PROVE  WaitInv'
  BY <1>4, SubmissionCounted
<1>5. ASSUME NEW u \in Users, RoundReady(u)
      PROVE  WaitInv'
  <2>1. /\ globalState = "RoundEndWait" /\ readyFrom' = readyFrom \cup {u}
        /\ readyFrom' \subseteq Competitors
    BY <1>5 DEF RoundReady, Message, WaitInv, RecordsHaveOwners
  <2>2. CASE Enough(readyReceived + 1, readyTotal)
    BY <1>5, <2>1, <2>2, WaitsAtMiniGames DEF RoundReady
  <2>3. CASE ~Enough(readyReceived + 1, readyTotal)
    <3>1. UNCHANGED <<globalState, players, gameData>>
      BY <1>5, <2>3 DEF RoundReady, hsmVars, miniVars
    <3> QED
      BY <2>1, <3>1 DEF WaitInv, RecordsHaveOwners, SubmittersAreRanked, Competitors
  <2> QED
    BY <2>2, <2>3
<1>6. ASSUME \/ \E r \in CallbackResults : SignalResults(r)
             \/ SignalTrigger \/ MatchStop
      PROVE  WaitInv'
  BY <1>6, WaitsUnchanged
  DEF SignalResults, SignalTrigger, MatchStop, hsmVars, miniVars, readyVars, Competitors
<1>7. ASSUME EndGame \/ EndRound \/ AutoRoll \/ IdleTick
      PROVE  WaitInv'
  BY <1>7, WaitsUnchanged
  DEF EndGame, EnterGameOver, EndRound, EnterRoundEndWait, Resting, AutoRoll, PlayTurn,
      IdleTick, hsmVars, miniVars, readyVars, Competitors
<1>8. ASSUME NextTurn
      PROVE  WaitInv'
  <2>1. globalState' = globalState
    BY <1>8 DEF NextTurn, TurnFinished, BeginTurn
  <2> QED
    BY <1>8, <2>1, WaitsUnchanged DEF NextTurn, miniVars, readyVars, Competitors
<1>9. ASSUME BeginMatch \/ ForceMiniGame
      PROVE  WaitInv'
  <2>1. readyFrom' \subseteq Competitors
    BY <1>9 DEF BeginMatch, ForceMiniGame, readyVars, WaitInv, RecordsHaveOwners
  <2>2. \/ EnterRoundMiniGame(turn, turnsTaken)
        \/ EnterRoundMiniGame(NextIndex,
             [turnsTaken EXCEPT ![players[NextIndex + 1]] = @ + 1])
    BY <1>9 DEF BeginMatch, ForceMiniGame
  <2> QED
    BY <2>1, <2>2, WaitsAtMiniGames
<1>10. ASSUME NEW expired \in BOOLEAN, OnlineResults(expired)
       PROVE  WaitInv'
  <2>1. IInv'
    BY StepIInv
  <2>2. /\ globalState = "RoundMiniGame" /\ mode = "rpc"
        /\ UNCHANGED <<mode, gameData, readyFrom>>
    BY <1>10 DEF OnlineResults, readyVars
  <2>3. globalState' # "WaitingForHost" /\ Competitors' = Competitors
    BY <1>10, <2>2, OnlineKeepsRoster
  <2> QED
    BY <2>2, <2>3 DEF WaitInv, RecordsHaveOwners, SubmittersAreRanked
<1>11. ASSUME UNCHANGED vars
       PROVE  WaitInv'
  BY <1>11, WaitsUnchanged DEF vars, hsmVars, miniVars, readyVars, Competitors
<1> QED
  BY <1>1, <1>2, <1>3, <1>4, <1>5, <1>6, <1>7, <1>8, <1>9, <1>10, <1>11
  DEF Next, Event, MatchLoop, Ended

LEMMA WaitInvAlways == Spec => []WaitInv
<1>1. Spec => Init /\ [][Next]_vars
  BY DEF Spec
<1> QED
  BY <1>1, IInvAlways, InitWaitInv, StepWaitInv, PTL

\* The players are finitely many.
LEMMA FinitelyManyCompetitors ==
  ASSUME IInv
  PROVE  IsFiniteSet(Competitors)
BY RosterFacts DEF IInv, FlowInv, FlowTypes, Competitors

\* A mini-game in the clients goes on to the turns only when everybody has
\* submitted, if every submission counted came from another player and nobody
\* came late.
THEOREM SubmissionsAreAwaited == Spec => SubmissionsComplete
<1> DEFINE Complete ==
      globalState = "RoundMiniGame" /\ mode = "frontend" /\ globalState' = "TurnLoop"
        => (CountedOnce' => Competitors \subseteq gameData')
<1>1. IInv /\ WaitInv /\ [Next]_vars => [Complete]_vars
  <2> SUFFICES ASSUME IInv, WaitInv, Next, CountedOnce',
                      globalState = "RoundMiniGame", mode = "frontend", globalState' = "TurnLoop"
               PROVE  Competitors \subseteq gameData'
    OBVIOUS
  <2>1. PICK u \in Users : SubmitMiniGameData(u)
    BY DEF Next, Event, AddPlayer, LeaveWaitingRoom, KickPlayer, RemovePlayer, StartGame,
       RollDice, PlayTurn, RoundReady, SignalResults, SignalTrigger, MatchStop, MatchLoop,
       EndGame, NextTurn, EndRound, BeginMatch, AutoRoll, OnlineResults, ForceMiniGame,
       IdleTick, Ended, Triggered, TurnFinished, vars, hsmVars
  <2>2. /\ WaitInv' /\ Competitors' = Competitors
        /\ resultsReceived' >= totalPlayers'
    BY <2>1, SubmissionCounted
  <2>3. gameData' \subseteq Competitors'
    BY <2>2 DEF WaitInv, RecordsHaveOwners
  <2>4. Cardinality(gameData') >= Cardinality(Competitors')
    BY <2>2 DEF CountedOnce
  <2> QED
    BY <2>2, <2>3, <2>4, FinitelyManyCompetitors, AsManyAsAll
<1>2. Spec => [][Next]_vars
  BY DEF Spec
<1> QED
  BY <1>1, <1>2, IInvAlways, WaitInvAlways, PTL DEF SubmissionsComplete

\* The wait at the end of a round is over only when everybody is ready, if every
\* signal counted came from another player and nobody came late; only a trigger
\* of the debug panel cuts it short.
THEOREM SignalsAreAwaited == Spec => SignalsComplete
<1> DEFINE Complete ==
      globalState = "RoundEndWait" /\ globalState' # "RoundEndWait" /\ ~pendingTrigger
        => (readyReceived' = Cardinality(readyFrom') /\ readyTotal = Cardinality(Competitors)
              => Competitors \subseteq readyFrom')
<1>1. IInv /\ WaitInv /\ [Next]_vars => [Complete]_vars
  <2> SUFFICES ASSUME IInv, WaitInv, Next,
                      globalState = "RoundEndWait", globalState' # "RoundEndWait", ~pendingTrigger,
                      readyReceived' = Cardinality(readyFrom'),
                      readyTotal = Cardinality(Competitors)
               PROVE  Competitors \subseteq readyFrom'
    OBVIOUS
  <2>1. PICK u \in Users : RoundReady(u)
    BY DEF Next, Event, AddPlayer, LeaveWaitingRoom, KickPlayer, RemovePlayer, StartGame,
       RollDice, PlayTurn, SubmitMiniGameData, SignalResults, SignalTrigger, MatchStop, MatchLoop,
       EndGame, NextTurn, EndRound, BeginMatch, AutoRoll, OnlineResults, ForceMiniGame,
       IdleTick, Ended, Triggered, TurnFinished, vars, hsmVars
  <2>2. Enough(readyReceived + 1, readyTotal)
    BY <2>1 DEF RoundReady, hsmVars
  <2>3. /\ readyReceived' = readyReceived + 1
        /\ readyFrom' = readyFrom \cup {u} /\ u \in Competitors
    BY <2>1 DEF RoundReady, Message
  <2>4. readyFrom' \subseteq Competitors
    BY <2>3 DEF WaitInv, RecordsHaveOwners
  <2>5. Cardinality(readyFrom') >= Cardinality(Competitors)
    BY <2>2, <2>3 DEF Enough
  <2> QED
    BY <2>4, <2>5, FinitelyManyCompetitors, AsManyAsAll
<1>2. Spec => [][Next]_vars
  BY DEF Spec
<1> QED
  BY <1>1, <1>2, IInvAlways, WaitInvAlways, PTL DEF SignalsComplete

\* After a mini-game in the clients in which everybody was counted once, the
\* Boss acts last: everybody else has a rank, and no rank reaches the key of
\* those who have none.
THEOREM BossTakesTheLastTurn ==
  ASSUME LowRanks
  PROVE  Spec => []BossActsLast
<1>1. IInv /\ RankInv /\ WaitInv => BossActsLast
  <2> SUFFICES ASSUME IInv, RankInv, WaitInv, CountedOnce,
                      globalState = "TurnLoop", mode = "frontend"
               PROVE  players[Len(players)] = Boss
    BY DEF BossActsLast
  <2> DEFINE n == Len(players)
  <2>1. gameData \subseteq Competitors /\ resultsReceived >= totalPlayers
    BY DEF WaitInv, RecordsHaveOwners, SubmittersAreRanked
  <2>2. Cardinality(gameData) >= Cardinality(Competitors)
    BY <2>1 DEF CountedOnce
  <2>3. gameData = Competitors
    BY <2>1, <2>2, FinitelyManyCompetitors, AsManyAsAll
  <2>4. \A u \in Competitors : rank[u] > 0
    BY <2>3 DEF WaitInv, SubmittersAreRanked
  <2>5. Roster(players) /\ n \in Nat /\ n >= 1 /\ \A i \in 1..n : players[i] \in Participants
    BY RosterFacts DEF IInv, FlowInv, FlowTypes
  <2>6. \A x : x \in ToSet(players) <=> \E i \in 1..n : x = players[i]
    BY <2>5, ToSetOfSeq DEF Roster
  <2>7. PICK b \in 1..n : players[b] = Boss
    BY <2>5, <2>6 DEF Roster
  <2>8. SUFFICES ASSUME players[n] # Boss PROVE FALSE
    OBVIOUS
  <2>9. players[n] \in Users /\ players[n] \in Competitors
    BY <2>5, <2>6, <2>8 DEF Competitors, Participants
  <2>10. /\ rank[players[n]] > 0 /\ rank[players[n]] < n + 100
         /\ rank[players[n]] \in Nat
    BY <2>4, <2>9 DEF RankInv, RanksAreLow, IInv, MiniTypes
  <2>11. SortKey(players, rank, n) = rank[players[n]] /\ SortKey(players, rank, b) = n + 100
    BY <2>7, <2>8, <2>10 DEF SortKey
  <2>12. b < n
    BY <2>5, <2>7, <2>8
  <2>13. SortKey(players, rank, b) <= SortKey(players, rank, n)
    BY <2>5, <2>12 DEF RankInv, TurnOrderFollowsRanks
  <2> QED
    BY <2>5, <2>10, <2>11, <2>13
<1> QED
  BY <1>1, IInvAlways, RankInvAlways, WaitInvAlways, PTL

=============================================================================
