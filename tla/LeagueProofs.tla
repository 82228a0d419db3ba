---------------------------- MODULE LeagueProofs ----------------------------
(***************************************************************************)
(* Theorems about League for every value of its constants: types; that     *)
(* LeagueInvariant is inductive, so that the rosters of a league partition *)
(* its players and the trades map agrees with its two indexes; on top of   *)
(* it who owns a team, how many players and teams there may be, and that   *)
(* League implements Market.                                               *)
(***************************************************************************)
EXTENDS League, TLAPS, FiniteSetTheorems


-----------------------------------------------------------------------------
(* Type correctness.                                                       *)

\* The next ID of a kind that has not reached its bound is an ID of that kind.
LEMMA NextIDs ==
  ASSUME TypeOK
  PROVE  /\ maxLeagueID < MaxLeagues => maxLeagueID \in LeagueIDs
         /\ maxTeamID < MaxTeams => maxTeamID \in TeamIDs
         /\ maxTradeID < MaxTrades => maxTradeID \in TradeIDs
  BY BoundAssumption DEF TypeOK, LeagueIDs, TeamIDs, TradeIDs

\* Dropping trades keeps the types of the three variables that hold trades.
LEMMA DropTradesType ==
  ASSUME TypeOK, NEW gone, DropTrades(gone)
  PROVE  /\ trades' \in SUBSET Trade
         /\ sentTrades' \in [TeamIDs -> SUBSET Trade]
         /\ incomingTrades' \in [TeamIDs -> SUBSET Trade]
  BY DEF TypeOK, DropTrades, Without

\* So does putting a new one in.
LEMMA PutTradeType ==
  ASSUME TypeOK, NEW gone,
         NEW from \in TeamIDs, NEW to \in TeamIDs,
         NEW offered \in PlayerIDs, NEW requested \in PlayerIDs,
         PutTrade(NewTrade(from, to, offered, requested), gone)
  PROVE  /\ NewTrade(from, to, offered, requested) \in Trade
         /\ maxTradeID' \in 0 .. MaxTrades
         /\ trades' \in SUBSET Trade
         /\ sentTrades' \in [TeamIDs -> SUBSET Trade]
         /\ incomingTrades' \in [TeamIDs -> SUBSET Trade]
<1> DEFINE trade == NewTrade(from, to, offered, requested)
<1>1. trade \in Trade
  BY NextIDs DEF PutTrade, NewTrade, Trade
<1>2. trade.teamFrom = from /\ trade.teamTo = to
  BY DEF NewTrade
<1>3. maxTradeID' \in 0 .. MaxTrades
  BY BoundAssumption DEF TypeOK, PutTrade
<1>4. /\ trades' = (trades \ gone) \cup {trade}
      /\ sentTrades' = [Without(sentTrades, gone) EXCEPT
                          ![from] = @ \cup {trade}]
      /\ incomingTrades' = [Without(incomingTrades, gone) EXCEPT
                              ![to] = @ \cup {trade}]
  BY <1>2 DEF PutTrade
<1> QED
  BY <1>1, <1>3, <1>4 DEF TypeOK, Without

\* A league and its teams: the IDs in an action's parameters.
LEMMA LeaguesAndTeams ==
  ASSUME TypeOK
  PROVE  Leagues \subseteq LeagueIDs /\ Teams \subseteq TeamIDs
  BY BoundAssumption DEF TypeOK, Leagues, Teams, LeagueIDs, TeamIDs

\* Giving a user a new team keeps the types of the team variables.
LEMMA CreateTeamType ==
  ASSUME TypeOK, NEW u \in Users, NEW name \in TeamNames, NEW l \in LeagueIDs,
         CreateTeam(u, name, l)
  PROVE  /\ maxTeamID' \in 0 .. MaxTeams
         /\ teamName' \in [TeamIDs -> TeamNames \cup {NoName}]
         /\ leagueID' \in [TeamIDs -> LeagueIDs \cup {NoID}]
         /\ userTeams' \in [Users -> SUBSET TeamIDs]
         /\ leagueTeams' \in [LeagueIDs -> SUBSET TeamIDs]
  BY NextIDs, BoundAssumption DEF TypeOK, CreateTeam

\* A free-agent swap keeps the types of the rosters.
LEMMA SwapType ==
  ASSUME TypeOK, NEW from \in TeamIDs,
         NEW offered \in PlayerIDs, NEW requested \in PlayerIDs,
         SwapFreeAgent(from, offered, requested)
  PROVE  /\ players' \in [TeamIDs -> SUBSET PlayerIDs]
         /\ nonDrafted' \in [LeagueIDs -> SUBSET PlayerIDs]
  BY DEF TypeOK, SwapFreeAgent

\* The teams of a league can be counted.
LEMMA TeamsFinite ==
  ASSUME TypeOK, NEW l \in LeagueIDs
  PROVE  /\ IsFiniteSet(leagueTeams[l])
         /\ Cardinality(leagueTeams[l]) \in Nat
<1>1. IsFiniteSet(TeamIDs)
  BY FS_Interval, BoundAssumption DEF TeamIDs
<1>2. leagueTeams[l] \subseteq TeamIDs
  BY DEF TypeOK
<1> QED
  BY <1>1, <1>2, FS_Subset, FS_CardinalityType

\* A set named one element per index has as many elements as there are indices.
LEMMA OneEach ==
  ASSUME NEW I, NEW T, IsFiniteSet(I), NEW g \in [I -> T],
         \A i, j \in I : g[i] = g[j] => i = j, \A x \in T : \E i \in I : g[i] = x
  PROVE  IsFiniteSet(T) /\ Cardinality(T) = Cardinality(I)
<1>1. g \in Bijection(I, T)
  BY DEF Bijection, Injection, Surjection, IsInjective
<1> QED
  BY <1>1, FS_Bijection DEF ExistsBijection

\* The calls a draft adds to those of the league l: Rounds for each team.
NewPicks(l, new) ==
  /\ new \subseteq Pick /\ IsFiniteSet(new)
  /\ \A pick \in new : pick.team \in leagueTeams[l] /\ pick.draft = handOvers[l] + 1
  /\ \A t \in leagueTeams[l] : Cardinality({pick \in new : pick.team = t}) = Rounds

LEMMA DraftCalls ==
  ASSUME TypeOK, NEW l \in Leagues, DraftDone(l)
  PROVE  \E new : NewPicks(l, new) /\ picks' = [picks EXCEPT ![l] = @ \cup new]
<1> DEFINE n     == Rounds * Cardinality(leagueTeams[l])
           draft == handOvers[l] + 1
<1>1. l \in LeagueIDs
  BY LeaguesAndTeams
<1>2. n \in Nat
  BY <1>1, TeamsFinite, RoundAssumption
<1>3. draft \in DraftIDs
  BY <1>1, BoundAssumption DEF DraftDone, TypeOK, DraftIDs
<1>4. PICK order \in CallOrders(l), chosen \in [1 .. n -> PlayerIDs \cup {NoID}] :
         picks' = [picks EXCEPT ![l] = @ \cup
           {[draft |-> draft, turn |-> i, player |-> chosen[i], team |-> order[i]] :
              i \in 1 .. n}]
  BY DEF DraftDone
<1>5. /\ order \in [1 .. n -> leagueTeams[l]] /\ leagueTeams[l] \subseteq TeamIDs
      /\ \A t \in leagueTeams[l] :
           \E k \in 1 .. n : {i \in 1 .. n : order[i] = t} = k .. (k + Rounds - 1)
  BY <1>1 DEF CallOrders, TypeOK
<1> DEFINE Call(i) == [draft |-> draft, turn |-> i, player |-> chosen[i], team |-> order[i]]
           new     == {Call(i) : i \in 1 .. n}
<1>6. ASSUME NEW i \in 1 .. n
      PROVE  /\ Call(i) \in Pick
             /\ Call(i).team = order[i] /\ Call(i).turn = i /\ Call(i).draft = draft
  <2>1. order[i] \in TeamIDs /\ chosen[i] \in PlayerIDs \cup {NoID} /\ i \in Nat
    BY <1>2, <1>4, <1>5
  <2> QED
    BY <1>3, <2>1 DEF Pick
<1>7. IsFiniteSet(new)
  <2> DEFINE g == [i \in 1 .. n |-> Call(i)]
  <2>1. IsFiniteSet(1 .. n)
    BY <1>2, FS_Interval
  <2>2. g \in [1 .. n -> new] /\ \A x \in new : \E i \in 1 .. n : g[i] = x
    OBVIOUS
  <2>3. \A i, j \in 1 .. n : g[i] = g[j] => i = j
    BY <1>6
  <2> HIDE DEF g, new, n, draft
  <2> QED
    BY <2>1, <2>2, <2>3, OneEach
<1>8. ASSUME NEW t \in leagueTeams[l]
      PROVE  Cardinality({pick \in new : pick.team = t}) = Rounds
  <2> DEFINE mine == {i \in 1 .. n : order[i] = t}
             his  == {pick \in new : pick.team = t}
             g    == [i \in mine |-> Call(i)]
  <2>1. PICK k \in 1 .. n : mine = k .. (k + Rounds - 1)
    BY <1>5
  <2>2. IsFiniteSet(mine) /\ Cardinality(mine) = Rounds
    <3>1. k \in Int /\ k + Rounds - 1 \in Int
      BY <1>2, RoundAssumption
    <3>2. /\ IsFiniteSet(k .. (k + Rounds - 1))
          /\ Cardinality(k .. (k + Rounds - 1)) =
               IF k > k + Rounds - 1 THEN 0 ELSE (k + Rounds - 1) - k + 1
      BY <3>1, FS_Interval
    <3> HIDE DEF mine
    <3> QED
      BY <2>1, <3>1, <3>2, RoundAssumption
  <2>3. g \in [mine -> his]
    BY <1>6
  <2>4. \A x \in his : \E i \in mine : g[i] = x
    BY <1>6
  <2>5. \A i, j \in mine : g[i] = g[j] => i = j
    BY <1>6
  <2> HIDE DEF g, mine
  <2> QED
    BY <2>2, <2>3, <2>4, <2>5, OneEach
<1>9. picks' = [picks EXCEPT ![l] = @ \cup new]
  BY <1>4
<1>10. \A pick \in new : /\ pick \in Pick
                          /\ pick.team \in leagueTeams[l]
                          /\ pick.draft = draft
  BY <1>5, <1>6
<1> HIDE DEF new
<1>11. NewPicks(l, new)
  BY <1>7, <1>8, <1>10 DEF NewPicks
<1> QED
  BY <1>9, <1>11

\* One call of a draft thread: whatever becomes of it, it is made.
Called(l, pick) ==
  /\ picks' = [picks EXCEPT ![l] = @ \ {pick}]
  /\ \/ \E p \in nonDrafted[l] : GivePlayer(p, l, pick.team)
     \/ UNCHANGED rosterVars

LEMMA OneCall ==
  ASSUME NEW l, NEW draft, ChoosePlayer(l, draft)
  PROVE  \E pick \in picks[l] : Called(l, pick)
  BY DEF ChoosePlayer, Called

LEMMA TypeStep == TypeOK /\ [Next]_vars => TypeOK'
<1> SUFFICES ASSUME TypeOK, [Next]_vars PROVE TypeOK'
  OBVIOUS
<1> USE DEF idVars, leagueVars, teamVars, rosterVars, tradeVars, draftVars
<1>1. ASSUME NEW u \in Users, NEW name \in TeamNames, NEW size \in LeagueSizes,
             CreateLeague(u, name, size)
      PROVE  TypeOK'
  <2>1. maxLeagueID \in LeagueIDs /\ maxLeagueID' \in 0 .. MaxLeagues
    BY <1>1, NextIDs, BoundAssumption DEF CreateLeague, TypeOK
  <2>2. CreateTeam(u, name, maxLeagueID)
    BY <1>1 DEF CreateLeague
  <2> QED
    BY <1>1, <2>1, <2>2, CreateTeamType DEF CreateLeague, TypeOK
<1>2. ASSUME NEW u \in Users, NEW l \in Leagues, NEW name \in TeamNames,
             JoinLeague(u, l, name)
      PROVE  TypeOK'
  <2>1. CreateTeam(u, name, l) /\ l \in LeagueIDs
    BY <1>2, LeaguesAndTeams DEF JoinLeague
  <2> QED
    BY <1>2, <2>1, CreateTeamType DEF JoinLeague, TypeOK
<1>3. ASSUME NEW l \in Leagues, DraftDone(l)
      PROVE  TypeOK'
  <2>1. l \in LeagueIDs
    BY LeaguesAndTeams
  <2>2. PICK new : NewPicks(l, new) /\ picks' = [picks EXCEPT ![l] = @ \cup new]
    BY <1>3, DraftCalls
  <2>3. picks' \in [LeagueIDs -> SUBSET Pick]
    BY <2>1, <2>2 DEF NewPicks, TypeOK
  <2>4. handOvers' \in [LeagueIDs -> 0 .. MaxDrafts]
    BY <1>3, <2>1, BoundAssumption DEF DraftDone, TypeOK
  <2> QED
    BY <1>3, <2>3, <2>4 DEF DraftDone, TypeOK
<1>4. ASSUME NEW l \in Leagues, NEW draft \in DraftIDs, ChoosePlayer(l, draft)
      PROVE  TypeOK'
  <2>1. l \in LeagueIDs
    BY LeaguesAndTeams
  <2>2. PICK pick \in picks[l] : Called(l, pick)
    BY <1>4, OneCall
  <2>3. pick \in Pick
    BY <2>1 DEF TypeOK
  <2>4. picks' \in [LeagueIDs -> SUBSET Pick]
    BY <2>1, <2>2 DEF Called, TypeOK
  <2>5. /\ nonDrafted' \in [LeagueIDs -> SUBSET PlayerIDs]
        /\ players' \in [TeamIDs -> SUBSET PlayerIDs]
    <3>1. CASE \E p \in nonDrafted[l] : GivePlayer(p, l, pick.team)
      <4>1. PICK p \in nonDrafted[l] : GivePlayer(p, l, pick.team)
        BY <3>1
      <4>2. p \in PlayerIDs /\ pick.team \in TeamIDs
        BY <2>1, <2>3 DEF TypeOK, Pick
      <4> QED
        BY <2>1, <4>1, <4>2 DEF TypeOK, GivePlayer
    <3>2. CASE UNCHANGED rosterVars
      BY <3>2 DEF TypeOK
    <3> QED
      BY <2>2, <3>1, <3>2 DEF Called
  <2>6. up' \in BOOLEAN
    BY <1>4, Zenon DEF ChoosePlayer, TypeOK
  <2>7. UNCHANGED <<idVars, leagueVars, teamVars, tradeVars, handOvers, pendingRemoval>>
    BY <1>4 DEF ChoosePlayer
  <2> QED
    BY <2>4, <2>5, <2>6, <2>7 DEF TypeOK
<1>5. ASSUME NEW from \in TeamIDs,
             NEW offered \in PlayerIDs, NEW requested \in PlayerIDs,
             SwapCrashes(from, offered, requested)
      PROVE  TypeOK'
  BY <1>5 DEF SwapCrashes, TypeOK
<1>6. ASSUME NEW u \in Users, NEW from \in Teams, NEW to \in TeamIDs,
             NEW offered \in PlayerIDs, NEW requested \in PlayerIDs,
             RequestTrade(u, from, to, offered, requested)
      PROVE  TypeOK'
  <2>1. from \in TeamIDs
    BY LeaguesAndTeams
  <2>2. CASE SwapCrashes(from, offered, requested)
    BY <1>5, <2>1, <2>2
  <2>3. CASE /\ SwapFreeAgent(from, offered, requested)
             /\ UNCHANGED <<idVars, leagueVars, teamVars, tradeVars,
                            draftVars, pendingRemoval, up>>
    BY <2>1, <2>3, SwapType DEF TypeOK
  <2>4. CASE /\ PutTrade(NewTrade(from, to, offered, requested), {})
             /\ UNCHANGED <<maxLeagueID, maxTeamID, leagueVars, teamVars,
                            rosterVars, draftVars, pendingRemoval, up>>
    BY <2>1, <2>4, PutTradeType DEF TypeOK
  <2> QED
    BY <1>6, <2>2, <2>3, <2>4 DEF RequestTrade
<1>7. ASSUME NEW gone, DropTrades(gone),
             UNCHANGED <<idVars, leagueVars, teamVars, rosterVars, draftVars, up>>,
             pendingRemoval' \in [Users -> TradeIDs \cup {NoID}]
      PROVE  TypeOK'
  BY <1>7, DropTradesType DEF TypeOK
<1>8. ASSUME NEW u \in Users, NEW trade \in trades, RemoveTrade(u, trade)
      PROVE  TypeOK'
  BY <1>7, <1>8 DEF RemoveTrade, TypeOK
<1>9. ASSUME NEW u \in Users, NEW trade \in trades,
             NEW offered \in PlayerIDs, NEW requested \in PlayerIDs,
             NegotiateTrade(u, trade, offered, requested)
      PROVE  TypeOK'
  <2> DEFINE from == trade.teamTo
             to   == trade.teamFrom
  <2>1. from \in TeamIDs /\ to \in TeamIDs /\ trade.tradeID \in TradeIDs
    BY DEF TypeOK, Trade
  <2>2. CASE SwapCrashes(from, offered, requested)
    BY <1>5, <2>1, <2>2
  <2>3. CASE /\ SwapFreeAgent(from, offered, requested)
             /\ pendingRemoval' = [pendingRemoval EXCEPT ![u] = trade.tradeID]
             /\ UNCHANGED <<idVars, leagueVars, teamVars, tradeVars, draftVars, up>>
    BY <2>1, <2>3, SwapType DEF TypeOK
  <2>4. CASE /\ PutTrade(NewTrade(from, to, offered, requested), {trade})
             /\ UNCHANGED <<maxLeagueID, maxTeamID, leagueVars, teamVars,
                            rosterVars, draftVars, pendingRemoval, up>>
    BY <2>1, <2>4, PutTradeType DEF TypeOK
  <2>5. CASE /\ DropTrades({trade})
             /\ UNCHANGED <<idVars, leagueVars, teamVars, rosterVars,
                            draftVars, pendingRemoval, up>>
    BY <1>7, <2>5 DEF TypeOK
  <2> QED
    BY <1>9, <2>2, <2>3, <2>4, <2>5 DEF NegotiateTrade
<1>10. ASSUME NEW u \in Users, FinishNegotiate(u)
       PROVE  TypeOK'
  <2>1. pendingRemoval' \in [Users -> TradeIDs \cup {NoID}]
    BY <1>10 DEF FinishNegotiate, TypeOK
  <2> QED
    BY <1>7, <1>10, <2>1 DEF FinishNegotiate
<1>11. ASSUME NEW u \in Users, NEW trade \in trades, TradeAccept(u, trade)
       PROVE  TypeOK'
  <2>1. /\ trade.teamFrom \in TeamIDs
        /\ trade.incomingPlayerID \in PlayerIDs
        /\ trade.wantedPlayerID \in PlayerIDs
    BY DEF TypeOK, Trade
  <2>2. PICK mine \in userTeams[u] :
               players' = [players EXCEPT
                 ![mine] = (@ \ {trade.wantedPlayerID})
                              \cup {trade.incomingPlayerID},
                 ![trade.teamFrom] = (@ \ {trade.incomingPlayerID})
                              \cup {trade.wantedPlayerID}]
    BY <1>11 DEF TradeAccept
  <2>3. players' \in [TeamIDs -> SUBSET PlayerIDs]
    BY <2>1, <2>2 DEF TypeOK
  <2> QED
    BY <1>11, <2>3, DropTradesType DEF TradeAccept, TypeOK
<1>12. CASE ExpireTrades
  BY <1>7, <1>12 DEF ExpireTrades, TypeOK
<1>13. CASE UNCHANGED vars
  BY <1>13 DEF vars, TypeOK
<1> QED
  BY <1>1, <1>2, <1>3, <1>4, <1>6, <1>8, <1>9, <1>10, <1>11, <1>12, <1>13
  DEF Next

\* Every variable keeps its type: IDs stay under their bounds, and no handler
\* puts anything but teams, players and trades into the lists.
THEOREM TypeCorrect == Spec => []TypeOK
<1>1. Init => TypeOK
  BY BoundAssumption
  DEF Init, TypeOK, LeagueIDs, TeamIDs, TradeIDs
<1> QED
  BY <1>1, TypeStep, PTL DEF Spec


-----------------------------------------------------------------------------
(* The indexes of the trades.                                              *)

\* Dropping trades from the map and both lists keeps the three in step.
LEMMA DropTradesIndexed ==
  ASSUME TypeOK, LeagueShape, TradesIndexed, NEW gone, DropTrades(gone),
         UNCHANGED <<maxLeagueID, maxTradeID, leagueTeams>>
  PROVE  TradesIndexed'
<1>1. /\ trades' = trades \ gone
      /\ \A t \in TeamIDs : /\ sentTrades'[t] = sentTrades[t] \ gone
                            /\ incomingTrades'[t] = incomingTrades[t] \ gone
  BY DEF DropTrades, Without
<1>2. \A t \in TeamIDs :
        /\ sentTrades'[t] = {trade \in trades' : trade.teamFrom = t}
        /\ incomingTrades'[t] = {trade \in trades' : trade.teamTo = t}
  BY <1>1 DEF TradesIndexed
<1>3. Leagues' = Leagues
  BY DEF Leagues
<1> QED
  BY <1>1, <1>2, <1>3 DEF TradesIndexed, LeagueShape

\* A new trade between two teams of a league, under a fresh ID, keeps them in
\* step too.
LEMMA PutTradeIndexed ==
  ASSUME TypeOK, LeagueShape, TradesIndexed, NEW gone,
         NEW u \in Users, NEW from \in Teams, NEW to \in TeamIDs,
         NEW offered \in PlayerIDs, NEW requested \in PlayerIDs,
         MayOffer(u, from, to, offered, requested),
         PutTrade(NewTrade(from, to, offered, requested), gone),
         UNCHANGED <<maxLeagueID, leagueTeams>>
  PROVE  TradesIndexed'
<1> DEFINE new == NewTrade(from, to, offered, requested)
<1>1. /\ new.teamFrom = from
      /\ new.teamTo = to
      /\ new.tradeID = maxTradeID
  BY DEF NewTrade
<1>2. /\ maxTradeID' = maxTradeID + 1
      /\ maxTradeID \in Int
      /\ trades' = (trades \ gone) \cup {new}
      /\ sentTrades' = [Without(sentTrades, gone) EXCEPT ![from] = @ \cup {new}]
      /\ incomingTrades' = [Without(incomingTrades, gone) EXCEPT
                              ![to] = @ \cup {new}]
  BY <1>1 DEF PutTrade, TypeOK
<1>3. \A trade \in trades : trade.tradeID \in Int /\ trade.tradeID < maxTradeID
  BY DEF TypeOK, Trade, TradeIDs, TradesIndexed
<1>4. from \in TeamIDs
  BY LeaguesAndTeams
<1>5. ASSUME NEW t \in TeamIDs
      PROVE  /\ sentTrades'[t] = {trade \in trades' : trade.teamFrom = t}
             /\ incomingTrades'[t] = {trade \in trades' : trade.teamTo = t}
  <2>1. /\ sentTrades[t] = {trade \in trades : trade.teamFrom = t}
        /\ incomingTrades[t] = {trade \in trades : trade.teamTo = t}
    BY DEF TradesIndexed
  <2>2. /\ sentTrades'[t] = (sentTrades[t] \ gone)
                              \cup (IF t = from THEN {new} ELSE {})
        /\ incomingTrades'[t] = (incomingTrades[t] \ gone)
                              \cup (IF t = to THEN {new} ELSE {})
    BY <1>2, <1>4 DEF Without
  <2> QED
    BY <1>1, <1>2, <2>1, <2>2
<1>6. /\ from # to
      /\ \E l \in Leagues : {from, to} \subseteq leagueTeams[l]
  <2>1. from # to /\ leagueID[from] = leagueID[to] /\ requested \in players[to]
    BY DEF MayOffer
  <2>2. to \in Teams
    BY <2>1 DEF LeagueShape
  <2> QED
    BY <2>1, <2>2 DEF LeagueShape
<1>7. \A trade \in trades' :
        /\ trade.tradeID < maxTradeID'
        /\ trade.teamFrom # trade.teamTo
        /\ \E l \in Leagues : {trade.teamFrom, trade.teamTo} \subseteq leagueTeams[l]
  BY <1>1, <1>2, <1>3, <1>6 DEF TradesIndexed
<1>8. \A t1, t2 \in trades' : t1.tradeID = t2.tradeID => t1 = t2
  BY <1>1, <1>2, <1>3 DEF TradesIndexed
<1>9. Leagues' = Leagues /\ leagueTeams' = leagueTeams
  BY DEF Leagues
<1> QED
  BY <1>5, <1>7, <1>8, <1>9 DEF TradesIndexed

\* A new team has no trades, and the teams of a trade stay in their league.
LEMMA CreateTeamIndexed ==
  ASSUME TypeOK, LeagueShape, TradesIndexed,
         NEW u \in Users, NEW name \in TeamNames, NEW l \in LeagueIDs,
         CreateTeam(u, name, l), Leagues \subseteq Leagues',
         UNCHANGED <<maxTradeID, tradeVars>>
  PROVE  TradesIndexed'
<1>1. \A k \in LeagueIDs : leagueTeams[k] \subseteq leagueTeams'[k]
  BY DEF CreateTeam, TypeOK
<1>2. Leagues \subseteq LeagueIDs
  BY LeaguesAndTeams
<1>3. UNCHANGED <<maxTradeID, trades, sentTrades, incomingTrades>>
  BY DEF tradeVars
<1>4. \A trade \in trades :
        \E k \in Leagues' : {trade.teamFrom, trade.teamTo} \subseteq leagueTeams'[k]
  BY <1>1, <1>2 DEF TradesIndexed
<1> QED
  BY <1>3, <1>4 DEF TradesIndexed, LeagueShape

-----------------------------------------------------------------------------
(* The shape of the data and the rosters.                                  *)

\* Nothing that the two predicates speak of has changed.
LEMMA SameRosters ==
  ASSUME LeagueShape, RosterPartition,
         UNCHANGED <<maxLeagueID, maxTeamID, leagueTeams, leagueID,
                     rosterVars, draftVars>>
  PROVE  LeagueShape' /\ RosterPartition'
  BY DEF LeagueShape, RosterPartition, Partitioned, Leagues, Teams, rosterVars, draftVars

\* The IDs in use before and after a team is created.
LEMMA NewTeam ==
  ASSUME TypeOK, NEW u \in Users, NEW name \in TeamNames, NEW l \in LeagueIDs,
         CreateTeam(u, name, l)
  PROVE  /\ maxTeamID \in TeamIDs
         /\ maxTeamID \notin Teams
         /\ Teams' = Teams \cup {maxTeamID}
         /\ leagueID'[maxTeamID] = l
         /\ \A t \in Teams : leagueID'[t] = leagueID[t]
         /\ leagueTeams'[l] = leagueTeams[l] \cup {maxTeamID}
         /\ \A k \in LeagueIDs \ {l} : leagueTeams'[k] = leagueTeams[k]
<1>1. maxTeamID \in Int /\ maxTeamID >= 0 /\ maxTeamID \in TeamIDs
  BY NextIDs DEF TypeOK, CreateTeam
<1>2. maxTeamID \notin Teams /\ Teams' = Teams \cup {maxTeamID}
  BY <1>1 DEF CreateTeam, Teams
<1> QED
  BY <1>1, <1>2, LeaguesAndTeams DEF CreateTeam, TypeOK

LEMMA NewTeamShape ==
  ASSUME TypeOK, LeagueShape,
         NEW u \in Users, NEW name \in TeamNames, NEW l \in LeagueIDs,
         CreateTeam(u, name, l), l \in Leagues', Leagues \subseteq Leagues',
         UNCHANGED <<players, draftVars>>
  PROVE  LeagueShape'
<1>1. ASSUME NEW k \in LeagueIDs, NEW t \in leagueTeams'[k]
      PROVE  t \in Teams' /\ leagueID'[t] = k
  BY <1>1, NewTeam DEF LeagueShape
<1>2. ASSUME NEW t \in Teams'
      PROVE  leagueID'[t] \in Leagues' /\ t \in leagueTeams'[leagueID'[t]]
  <2>1. CASE t = maxTeamID
    BY <2>1, NewTeam
  <2>2. CASE t \in Teams
    BY <2>2, NewTeam, LeaguesAndTeams DEF LeagueShape
  <2> QED
    BY <1>2, <2>1, <2>2, NewTeam
<1>3. \A t \in TeamIDs \ Teams' : players'[t] = {}
  BY NewTeam DEF LeagueShape
<1>4. \A k \in LeagueIDs : leagueTeams[k] \subseteq leagueTeams'[k]
  BY NewTeam
<1>5. \A k \in LeagueIDs :
        /\ IsFiniteSet(picks'[k])
        /\ \A pick \in picks'[k] : /\ pick.team \in leagueTeams'[k]
                                   /\ pick.draft <= handOvers'[k]
  BY <1>4 DEF LeagueShape, draftVars
<1> QED
  BY <1>1, <1>2, <1>3, <1>5 DEF LeagueShape

\* A league that gets a team without players keeps its partition.
LEMMA NewTeamPartition ==
  ASSUME TypeOK, LeagueShape, RosterPartition,
         NEW u \in Users, NEW name \in TeamNames, NEW l \in LeagueIDs,
         CreateTeam(u, name, l), UNCHANGED players,
         NEW k \in Leagues, nonDrafted'[k] = nonDrafted[k]
  PROVE  Partitioned(k)'
<1>1. players[maxTeamID] = {}
  BY NewTeam DEF LeagueShape
<1>2. k \in LeagueIDs
  BY LeaguesAndTeams
<1>3. /\ leagueTeams[k] \subseteq leagueTeams'[k]
      /\ leagueTeams'[k] \subseteq leagueTeams[k] \cup {maxTeamID}
  BY <1>2, NewTeam
<1> QED
  BY <1>1, <1>3 DEF RosterPartition, Partitioned

LEMMA CreateLeagueStep ==
  ASSUME LeagueInvariant, NEW u \in Users, NEW name \in TeamNames,
         NEW size \in LeagueSizes, CreateLeague(u, name, size)
  PROVE  LeagueShape' /\ TradesIndexed' /\ RosterPartition'
<1> DEFINE l == maxLeagueID
<1> USE DEF LeagueInvariant
<1>1. l \in LeagueIDs /\ l \in Int /\ l >= 0 /\ l \notin Leagues
  BY NextIDs DEF CreateLeague, TypeOK, Leagues
<1>2. Leagues' = Leagues \cup {l}
  BY <1>1 DEF CreateLeague, Leagues
<1>3. CreateTeam(u, name, l)
  BY DEF CreateLeague
<1>4. LeagueShape'
  BY <1>1, <1>2, <1>3, NewTeamShape DEF CreateLeague
<1>5. TradesIndexed'
  BY <1>1, <1>2, <1>3, CreateTeamIndexed DEF CreateLeague
<1>6. ASSUME NEW k \in Leagues
      PROVE  nonDrafted'[k] = nonDrafted[k]
  BY <1>1, LeaguesAndTeams DEF CreateLeague, TypeOK
<1>7. leagueTeams'[l] = {maxTeamID} /\ players'[maxTeamID] = {}
  <2>1. leagueTeams[l] = {}
    <3>1. \A t \in leagueTeams[l] : l \in Leagues
      BY <1>1 DEF LeagueShape
    <3> QED
      BY <1>1, <3>1
  <2> QED
    BY <1>1, <1>3, <2>1, NewTeam DEF LeagueShape, CreateLeague
<1>8. nonDrafted'[l] = PlayerIDs
  BY <1>1 DEF CreateLeague, TypeOK
<1>9. ASSUME NEW k \in LeagueIDs, k = l
      PROVE  Partitioned(k)'
  BY <1>7, <1>8, <1>9 DEF Partitioned
<1>10. \A k \in Leagues : Partitioned(k)'
  BY <1>1, <1>3, <1>6, NewTeamPartition DEF CreateLeague
<1>11. RosterPartition'
  BY <1>1, <1>2, <1>9, <1>10 DEF RosterPartition
<1> QED
  BY <1>4, <1>5, <1>11

LEMMA JoinLeagueStep ==
  ASSUME LeagueInvariant, NEW u \in Users, NEW l \in Leagues,
         NEW name \in TeamNames, JoinLeague(u, l, name)
  PROVE  LeagueShape' /\ TradesIndexed' /\ RosterPartition'
<1> USE DEF LeagueInvariant
<1>1. CreateTeam(u, name, l) /\ l \in LeagueIDs /\ Leagues' = Leagues
  BY LeaguesAndTeams DEF JoinLeague, Leagues
<1>2. LeagueShape'
  BY <1>1, NewTeamShape DEF JoinLeague, rosterVars
<1>3. TradesIndexed'
  BY <1>1, CreateTeamIndexed DEF JoinLeague
<1>4. RosterPartition'
  BY <1>1, NewTeamPartition DEF RosterPartition, JoinLeague, rosterVars
<1> QED
  BY <1>2, <1>3, <1>4

-----------------------------------------------------------------------------
(* Players move inside one league.                                         *)

\* A step that moves players of the league l alone is right when it leaves l
\* partitioned: the teams of other leagues are other teams.
LEMMA OneLeague ==
  ASSUME LeagueInvariant, NEW l \in LeagueIDs,
         UNCHANGED <<maxLeagueID, leagueTeams>>,
         \A t \in TeamIDs \ leagueTeams[l] : players'[t] = players[t],
         \A k \in LeagueIDs \ {l} : nonDrafted'[k] = nonDrafted[k],
         Partitioned(l)'
  PROVE  RosterPartition'
<1>1. ASSUME NEW k \in Leagues, k # l
      PROVE  Partitioned(k)'
  <2>1. k \in LeagueIDs
    BY LeaguesAndTeams DEF LeagueInvariant
  <2>2. ASSUME NEW t \in leagueTeams[k]
        PROVE  players'[t] = players[t]
    BY <1>1, <2>1 DEF LeagueInvariant, LeagueShape, TypeOK
  <2>3. Partitioned(k)
    BY DEF LeagueInvariant, RosterPartition
  <2> QED
    BY <1>1, <2>1, <2>2, <2>3 DEF Partitioned
<1>2. Leagues' = Leagues
  BY DEF Leagues
<1> QED
  BY <1>1, <1>2 DEF RosterPartition

LEMMA SwapStep ==
  ASSUME LeagueInvariant, NEW from \in Teams,
         NEW offered \in PlayerIDs, NEW requested \in PlayerIDs,
         SwapFreeAgent(from, offered, requested),
         UNCHANGED <<idVars, leagueVars, teamVars, draftVars>>
  PROVE  LeagueShape' /\ RosterPartition'
<1> DEFINE l == leagueID[from]
<1> USE DEF LeagueInvariant
<1>1. /\ l \in Leagues
      /\ l \in LeagueIDs
      /\ from \in leagueTeams[l]
      /\ from \in TeamIDs
  BY LeaguesAndTeams DEF LeagueShape
<1>2. /\ players'[from] = (players[from] \ {offered}) \cup {requested}
      /\ \A t \in TeamIDs \ {from} : players'[t] = players[t]
      /\ nonDrafted'[l] = (nonDrafted[l] \ {requested}) \cup {offered}
      /\ \A k \in LeagueIDs \ {l} : nonDrafted'[k] = nonDrafted[k]
      /\ offered \in players[from]
      /\ requested \in nonDrafted[l]
  BY <1>1 DEF SwapFreeAgent, FreeAgent, TypeOK
<1>3. /\ UNCHANGED <<maxLeagueID, maxTeamID, leagueTeams, leagueID, draftVars>>
      /\ Leagues' = Leagues
      /\ Teams' = Teams
  BY DEF idVars, leagueVars, teamVars, Leagues, Teams
<1>4. leagueTeams[l] \subseteq TeamIDs
  BY <1>1 DEF TypeOK
<1>5. Partitioned(l)
  BY <1>1 DEF RosterPartition
<1>6. Partitioned(l)'
  <2>1. \A t \in leagueTeams[l] \ {from} : players'[t] = players[t]
    BY <1>2, <1>4
  <2>2. \A t1, t2 \in leagueTeams[l] :
          t1 # t2 => players'[t1] \cap players'[t2] = {}
    BY <1>1, <1>2, <1>5, <2>1 DEF Partitioned
  <2>3. \A t \in leagueTeams[l] : players'[t] \cap nonDrafted'[l] = {}
    BY <1>1, <1>2, <1>5, <2>1 DEF Partitioned
  <2>4. \A p \in PlayerIDs \ nonDrafted'[l] :
          \E t \in leagueTeams[l] : p \in players'[t]
    <3>1. ASSUME NEW p \in PlayerIDs, p \notin nonDrafted'[l], p # requested
          PROVE  \E t \in leagueTeams[l] : p \in players'[t]
      <4>1. PICK t \in leagueTeams[l] : p \in players[t]
        BY <1>2, <1>5, <3>1 DEF Partitioned
      <4>2. p \in players'[t]
        BY <1>2, <2>1, <3>1, <4>1
      <4> QED
        BY <4>2
    <3> QED
      BY <1>1, <1>2, <3>1
  <2> QED
    BY <1>3, <2>2, <2>3, <2>4 DEF Partitioned
<1>7. RosterPartition'
  BY <1>1, <1>2, <1>3, <1>6, OneLeague
<1>8. LeagueShape'
  BY <1>2, <1>3 DEF LeagueShape, draftVars
<1> QED
  BY <1>7, <1>8

LEMMA ChoosePlayerStep ==
  ASSUME LeagueInvariant, NEW l \in Leagues, NEW draft \in DraftIDs,
         ChoosePlayer(l, draft)
  PROVE  LeagueShape' /\ TradesIndexed' /\ RosterPartition'
<1> USE DEF LeagueInvariant
<1>1. PICK pick \in picks[l] : Called(l, pick)
  BY OneCall
<1>2. /\ l \in LeagueIDs
      /\ picks'[l] = picks[l] \ {pick}
      /\ \A k \in LeagueIDs \ {l} : picks'[k] = picks[k]
  BY <1>1, LeaguesAndTeams DEF Called, TypeOK
<1>3. /\ pick.team \in leagueTeams[l]
      /\ pick.team \in TeamIDs
      /\ pick.team \in Teams
  BY <1>2 DEF TypeOK, LeagueShape
<1>4. /\ UNCHANGED <<maxLeagueID, maxTeamID, maxTradeID, leagueTeams, leagueID,
                     trades, sentTrades, incomingTrades, handOvers>>
      /\ Leagues' = Leagues
      /\ Teams' = Teams
  BY DEF ChoosePlayer, idVars, leagueVars, teamVars, tradeVars, Leagues, Teams
<1>5. ASSUME NEW k \in LeagueIDs
      PROVE  /\ IsFiniteSet(picks'[k])
             /\ \A call \in picks'[k] : /\ call.team \in leagueTeams'[k]
                                        /\ call.draft <= handOvers'[k]
  <2>1. IsFiniteSet(picks[k]) /\ picks'[k] \subseteq picks[k]
    BY <1>2 DEF LeagueShape
  <2> QED
    BY <1>4, <2>1, FS_Subset DEF LeagueShape
<1>6. TradesIndexed'
  BY <1>4 DEF TradesIndexed
<1>7. CASE UNCHANGED rosterVars
  BY <1>4, <1>5, <1>6, <1>7
  DEF LeagueShape, RosterPartition, Partitioned, rosterVars
<1>8. ASSUME NEW p \in nonDrafted[l], GivePlayer(p, l, pick.team)
      PROVE  LeagueShape' /\ TradesIndexed' /\ RosterPartition'
  <2>1. /\ players'[pick.team] = players[pick.team] \cup {p}
        /\ \A t \in TeamIDs \ {pick.team} : players'[t] = players[t]
        /\ nonDrafted'[l] = nonDrafted[l] \ {p}
        /\ \A k \in LeagueIDs \ {l} : nonDrafted'[k] = nonDrafted[k]
    BY <1>2, <1>3, <1>8 DEF TypeOK, GivePlayer
  <2>2. leagueTeams[l] \subseteq TeamIDs /\ Partitioned(l)
    BY <1>2 DEF TypeOK, RosterPartition
  <2>3. Partitioned(l)'
    BY <1>3, <1>4, <1>8, <2>1, <2>2 DEF Partitioned
  <2>4. RosterPartition'
    BY <1>2, <1>3, <1>4, <2>1, <2>3, OneLeague
  <2>5. LeagueShape'
    BY <1>3, <1>4, <1>5, <2>1 DEF LeagueShape
  <2> QED
    BY <1>6, <2>4, <2>5
<1> QED
  BY <1>1, <1>7, <1>8 DEF Called

\* The result of a draft names teams of the league and moves no player yet.
LEMMA DraftDoneStep ==
  ASSUME LeagueInvariant, NEW l \in Leagues, DraftDone(l)
  PROVE  LeagueShape' /\ TradesIndexed' /\ RosterPartition'
<1> USE DEF LeagueInvariant
<1>1. l \in LeagueIDs
  BY LeaguesAndTeams
<1>2. PICK new : NewPicks(l, new) /\ picks' = [picks EXCEPT ![l] = @ \cup new]
  BY DraftCalls
<1>3. /\ picks'[l] = picks[l] \cup new
      /\ \A k \in LeagueIDs \ {l} : picks'[k] = picks[k]
      /\ handOvers'[l] = handOvers[l] + 1
      /\ \A k \in LeagueIDs \ {l} : handOvers'[k] = handOvers[k]
      /\ handOvers[l] \in Int
  BY <1>1, <1>2 DEF DraftDone, TypeOK
<1>4. /\ UNCHANGED <<maxLeagueID, maxTeamID, maxTradeID, leagueTeams, leagueID,
                     nonDrafted, players, trades, sentTrades, incomingTrades>>
      /\ Leagues' = Leagues
      /\ Teams' = Teams
  BY DEF DraftDone, idVars, leagueVars, teamVars, rosterVars, tradeVars,
         Leagues, Teams
<1>5. IsFiniteSet(picks'[l])
  <2>1. IsFiniteSet(picks[l]) /\ IsFiniteSet(new)
    BY <1>1, <1>2 DEF NewPicks, LeagueShape
  <2>2. IsFiniteSet(picks[l] \cup new)
    BY <2>1, FS_Union
  <2> QED
    BY <1>3, <2>2
<1>6. ASSUME NEW pick \in picks'[l]
      PROVE  pick.team \in leagueTeams[l] /\ pick.draft <= handOvers'[l]
  <2>1. CASE pick \in picks[l]
    <3>1. pick.team \in leagueTeams[l] /\ pick.draft <= handOvers[l]
      BY <1>1, <2>1 DEF LeagueShape
    <3>2. pick.draft \in Int
      BY <1>1, <2>1 DEF TypeOK, Pick, DraftIDs
    <3> QED
      BY <1>3, <3>1, <3>2
  <2>2. CASE pick \in new
    BY <1>2, <1>3, <2>2 DEF NewPicks
  <2> QED
    BY <1>3, <2>1, <2>2
<1>7. LeagueShape'
  BY <1>3, <1>4, <1>5, <1>6 DEF LeagueShape
<1> QED
  BY <1>4, <1>7 DEF TradesIndexed, RosterPartition, Partitioned

\* An accepted trade exchanges one player of each of two teams of a league.
LEMMA TradeAcceptStep ==
  ASSUME LeagueInvariant, NEW u \in Users, NEW trade \in trades,
         TradeAccept(u, trade)
  PROVE  LeagueShape' /\ TradesIndexed' /\ RosterPartition'
<1> DEFINE from == trade.teamFrom
           to   == trade.teamTo
           given  == trade.incomingPlayerID
           wanted == trade.wantedPlayerID
<1> USE DEF LeagueInvariant
<1>1. /\ from \in TeamIDs /\ to \in TeamIDs
      /\ given \in PlayerIDs /\ wanted \in PlayerIDs
  BY DEF TypeOK, Trade
<1>2. /\ from # to
      /\ given \in players[from]
      /\ wanted \in players[to]
  BY DEF TradeAccept, StillTheirs, TradesIndexed
<1>3. PICK l \in Leagues : {from, to} \subseteq leagueTeams[l]
  BY DEF TradesIndexed
<1>4. l \in LeagueIDs /\ from \in leagueTeams[l] /\ to \in leagueTeams[l]
  BY <1>3, LeaguesAndTeams
<1>5. PICK mine \in userTeams[u] :
        /\ trade \in incomingTrades[mine]
        /\ players' = [players EXCEPT
             ![mine] = (@ \ {wanted}) \cup {given},
             ![from] = (@ \ {given}) \cup {wanted}]
  BY DEF TradeAccept
<1>6. mine = to
  BY <1>5 DEF TradesIndexed, TypeOK
<1>7. /\ players'[to] = (players[to] \ {wanted}) \cup {given}
      /\ players'[from] = (players[from] \ {given}) \cup {wanted}
      /\ \A t \in TeamIDs \ {from, to} : players'[t] = players[t]
  BY <1>1, <1>2, <1>5, <1>6 DEF TypeOK
<1>8. /\ UNCHANGED <<maxLeagueID, maxTeamID, maxTradeID, leagueTeams, leagueID,
                     nonDrafted, draftVars>>
      /\ Leagues' = Leagues
      /\ Teams' = Teams
  BY DEF TradeAccept, idVars, leagueVars, teamVars, Leagues, Teams
<1>9. TradesIndexed'
  BY <1>8, DropTradesIndexed DEF TradeAccept
<1>10. leagueTeams[l] \subseteq TeamIDs /\ leagueTeams[l] \subseteq Teams
  BY <1>4 DEF TypeOK, LeagueShape
<1>11. Partitioned(l)'
  <2>1. Partitioned(l)
    BY DEF RosterPartition
  <2>2. \A t \in leagueTeams[l] \ {from, to} : players'[t] = players[t]
    BY <1>7, <1>10
  <2>3. \A t1, t2 \in leagueTeams[l] :
          t1 # t2 => players'[t1] \cap players'[t2] = {}
    BY <1>2, <1>4, <1>7, <2>1, <2>2 DEF Partitioned
  <2>4. \A t \in leagueTeams[l] : players'[t] \cap nonDrafted[l] = {}
    BY <1>2, <1>4, <1>7, <2>1, <2>2 DEF Partitioned
  <2>5. ASSUME NEW p \in PlayerIDs \ nonDrafted[l]
        PROVE  \E t \in leagueTeams[l] : p \in players'[t]
    <3>1. PICK t \in leagueTeams[l] : p \in players[t]
      BY <2>1 DEF Partitioned
    <3> QED
      BY <1>4, <1>7, <2>2, <3>1
  <2> QED
    BY <1>8, <2>3, <2>4, <2>5 DEF Partitioned
<1>12. RosterPartition'
  BY <1>4, <1>7, <1>8, <1>11, OneLeague
<1>13. \A t \in TeamIDs \ Teams : players'[t] = {}
  BY <1>4, <1>7, <1>10 DEF LeagueShape
<1>14. LeagueShape'
  BY <1>8, <1>13 DEF LeagueShape, draftVars
<1> QED
  BY <1>9, <1>12, <1>14

-----------------------------------------------------------------------------
(* The invariant.                                                          *)

LEMMA InvariantStep == LeagueInvariant /\ [Next]_vars => LeagueInvariant'
<1> SUFFICES ASSUME LeagueInvariant, [Next]_vars
             PROVE  LeagueShape' /\ TradesIndexed' /\ RosterPartition'
  BY TypeStep DEF LeagueInvariant
<1> USE DEF LeagueInvariant, idVars, leagueVars, teamVars, rosterVars, tradeVars
<1>1. ASSUME UNCHANGED <<maxLeagueID, maxTeamID, leagueTeams, leagueID,
                         rosterVars, draftVars>>
      PROVE  LeagueShape' /\ RosterPartition'
  BY <1>1, SameRosters
<1>2. ASSUME UNCHANGED <<maxLeagueID, maxTradeID, leagueTeams, tradeVars>>
      PROVE  TradesIndexed'
  BY <1>2 DEF TradesIndexed, Leagues
<1>3. ASSUME NEW gone, DropTrades(gone),
             UNCHANGED <<idVars, leagueVars, teamVars, rosterVars, draftVars>>
      PROVE  LeagueShape' /\ TradesIndexed' /\ RosterPartition'
  BY <1>1, <1>3, DropTradesIndexed
<1>4. ASSUME NEW u \in Users, NEW from \in Teams, NEW to \in TeamIDs,
             NEW offered \in PlayerIDs, NEW requested \in PlayerIDs, NEW gone,
             MayOffer(u, from, to, offered, requested),
             PutTrade(NewTrade(from, to, offered, requested), gone),
             UNCHANGED <<maxLeagueID, maxTeamID, leagueVars, teamVars,
                         rosterVars, draftVars, pendingRemoval, up>>
      PROVE  LeagueShape' /\ TradesIndexed' /\ RosterPartition'
  BY <1>1, <1>4, PutTradeIndexed
<1>5. ASSUME NEW from \in Teams,
             NEW offered \in PlayerIDs, NEW requested \in PlayerIDs,
             SwapFreeAgent(from, offered, requested),
             UNCHANGED <<idVars, leagueVars, teamVars, tradeVars, draftVars>>
      PROVE  LeagueShape' /\ TradesIndexed' /\ RosterPartition'
  BY <1>2, <1>5, SwapStep
<1>6. ASSUME NEW from \in Teams,
             NEW offered \in PlayerIDs, NEW requested \in PlayerIDs,
             SwapCrashes(from, offered, requested)
      PROVE  LeagueShape' /\ TradesIndexed' /\ RosterPartition'
  BY <1>1, <1>2, <1>6 DEF SwapCrashes
<1>7. ASSUME NEW u \in Users, NEW from \in Teams, NEW to \in TeamIDs,
             NEW offered \in PlayerIDs, NEW requested \in PlayerIDs,
             RequestTrade(u, from, to, offered, requested)
      PROVE  LeagueShape' /\ TradesIndexed' /\ RosterPartition'
  BY <1>4, <1>5, <1>6, <1>7 DEF RequestTrade
<1>8. ASSUME NEW u \in Users, NEW trade \in trades, RemoveTrade(u, trade)
      PROVE  LeagueShape' /\ TradesIndexed' /\ RosterPartition'
  BY <1>3, <1>8 DEF RemoveTrade
<1>9. ASSUME NEW u \in Users, NEW trade \in trades,
             NEW offered \in PlayerIDs, NEW requested \in PlayerIDs,
             NegotiateTrade(u, trade, offered, requested)
      PROVE  LeagueShape' /\ TradesIndexed' /\ RosterPartition'
  <2> DEFINE from == trade.teamTo
             to   == trade.teamFrom
  <2>1. from \in Teams /\ to \in TeamIDs
    <3>1. PICK l \in Leagues : from \in leagueTeams[l]
      BY DEF TradesIndexed
    <3>2. from \in Teams
      BY <3>1, LeaguesAndTeams DEF LeagueShape
    <3> QED
      BY <3>2 DEF TypeOK, Trade
  <2>2. CASE /\ SwapFreeAgent(from, offered, requested)
             /\ UNCHANGED <<idVars, leagueVars, teamVars, tradeVars, draftVars, up>>
    BY <1>5, <2>1, <2>2
  <2>3. CASE SwapCrashes(from, offered, requested)
    BY <1>6, <2>1, <2>3
  <2>4. CASE /\ MayOffer(u, from, to, offered, requested)
             /\ PutTrade(NewTrade(from, to, offered, requested), {trade})
             /\ UNCHANGED <<maxLeagueID, maxTeamID, leagueVars, teamVars,
                            rosterVars, draftVars, pendingRemoval, up>>
    BY <1>4, <2>1, <2>4
  <2>5. CASE /\ DropTrades({trade})
             /\ UNCHANGED <<idVars, leagueVars, teamVars, rosterVars,
                            draftVars, pendingRemoval, up>>
    BY <1>3, <2>5
  <2> QED
    BY <1>9, <2>2, <2>3, <2>4, <2>5 DEF NegotiateTrade
<1>10. ASSUME NEW u \in Users, FinishNegotiate(u)
       PROVE  LeagueShape' /\ TradesIndexed' /\ RosterPartition'
  BY <1>3, <1>10 DEF FinishNegotiate
<1>11. CASE ExpireTrades
  BY <1>3, <1>11 DEF ExpireTrades
<1>12. CASE UNCHANGED vars
  BY <1>1, <1>2, <1>12 DEF vars
<1> QED
  BY <1>7, <1>8, <1>9, <1>10, <1>11, <1>12, CreateLeagueStep, JoinLeagueStep,
     DraftDoneStep, ChoosePlayerStep, TradeAcceptStep
  DEF Next

LEMMA InvariantInit == Init => LeagueInvariant
<1> SUFFICES ASSUME Init PROVE LeagueInvariant
  OBVIOUS
<1>1. TypeOK
  BY BoundAssumption DEF Init, TypeOK, LeagueIDs, TeamIDs, TradeIDs
<1>2. Leagues = {} /\ Teams = {}
  BY DEF Init, Leagues, Teams
<1>3. LeagueShape
  BY <1>2, FS_EmptySet DEF Init, LeagueShape
<1> QED
  BY <1>1, <1>2, <1>3
  DEF Init, LeagueInvariant, TradesIndexed, RosterPartition

\* The data keeps its shape: all parts of the inductive invariant hold.
THEOREM InvariantHolds == Spec => []LeagueInvariant
  BY InvariantInit, InvariantStep, PTL DEF Spec

\* In every league each player is undrafted or on exactly one team, however many
\* users, leagues, players and trades there are.
THEOREM RostersPartition == Spec => []RosterPartition
<1>1. LeagueInvariant => RosterPartition
  BY DEF LeagueInvariant
<1> QED
  BY <1>1, InvariantHolds, PTL

\* The trades map and the lists of the teams always agree.
THEOREM TradesStayIndexed == Spec => []TradesIndexed
<1>1. LeagueInvariant => TradesIndexed
  BY DEF LeagueInvariant
<1> QED
  BY <1>1, InvariantHolds, PTL

-----------------------------------------------------------------------------
(* Who owns which team.                                                    *)

\* Every team is one user's, who has no other in its league, and no other team
\* of the league has its name.
Owned ==
  /\ \A u \in Users : userTeams[u] \subseteq Teams
  /\ \A t \in Teams : \E u \in Users : t \in userTeams[u]
  /\ \A u, v \in Users : u # v => userTeams[u] \cap userTeams[v] = {}
  /\ \A u \in Users : \A t, x \in userTeams[u] : leagueID[t] = leagueID[x] => t = x
  /\ \A t, x \in Teams :
       t # x /\ leagueID[t] = leagueID[x] => teamName[t] # teamName[x]

\* A team that joins a league where neither its owner nor its name is yet.
LEMMA NewTeamOwned ==
  ASSUME LeagueInvariant, Owned,
         NEW u \in Users, NEW name \in TeamNames, NEW l \in LeagueIDs,
         CreateTeam(u, name, l),
         \A t \in userTeams[u] : leagueID[t] # l,
         \A t \in Teams : leagueID[t] = l => teamName[t] # name
  PROVE  Owned'
<1> USE DEF LeagueInvariant
<1>1. /\ maxTeamID \in TeamIDs /\ maxTeamID \notin Teams /\ Teams' = Teams \cup {maxTeamID}
      /\ leagueID'[maxTeamID] = l /\ \A t \in Teams : leagueID'[t] = leagueID[t]
  BY NewTeam
<1>2. /\ teamName'[maxTeamID] = name
      /\ \A t \in Teams : teamName'[t] = teamName[t]
      /\ userTeams'[u] = userTeams[u] \cup {maxTeamID}
      /\ \A v \in Users \ {u} : userTeams'[v] = userTeams[v]
  BY <1>1, LeaguesAndTeams DEF CreateTeam, TypeOK
<1>3. \A t \in Teams' : \E v \in Users : t \in userTeams'[v]
  BY <1>1, <1>2 DEF Owned
<1>4. \A v \in Users : userTeams'[v] \subseteq Teams'
  BY <1>1, <1>2 DEF Owned
<1>5. \A v, w \in Users : v # w => userTeams'[v] \cap userTeams'[w] = {}
  BY <1>1, <1>2 DEF Owned
<1>6. ASSUME NEW v \in Users, NEW t \in userTeams'[v], NEW x \in userTeams'[v],
             leagueID'[t] = leagueID'[x]
      PROVE  t = x
  <2>1. CASE v = u
    BY <1>1, <1>2, <1>6, <2>1 DEF Owned
  <2>2. CASE v # u
    BY <1>1, <1>2, <1>6, <2>2 DEF Owned
  <2> QED
    BY <2>1, <2>2
<1>7. \A t, x \in Teams' : t # x /\ leagueID'[t] = leagueID'[x] => teamName'[t] # teamName'[x]
  BY <1>1, <1>2 DEF Owned
<1> QED
  BY <1>3, <1>4, <1>5, <1>6, <1>7 DEF Owned

LEMMA OwnedStep == LeagueInvariant /\ Owned /\ [Next]_vars => Owned'
<1> SUFFICES ASSUME LeagueInvariant, Owned, [Next]_vars PROVE Owned'
  OBVIOUS
<1>1. ASSUME NEW u \in Users, NEW name \in TeamNames, NEW size \in LeagueSizes,
             CreateLeague(u, name, size)
      PROVE  Owned'
  <2>1. maxLeagueID \in LeagueIDs /\ maxLeagueID \notin Leagues
    BY <1>1, NextIDs DEF LeagueInvariant, CreateLeague, TypeOK, Leagues
  <2>2. \A t \in Teams : leagueID[t] # maxLeagueID
    BY <2>1 DEF LeagueInvariant, LeagueShape
  <2> QED
    BY <1>1, <2>1, <2>2, NewTeamOwned DEF CreateLeague, Owned
<1>2. ASSUME NEW u \in Users, NEW l \in Leagues, NEW name \in TeamNames,
             JoinLeague(u, l, name)
      PROVE  Owned'
  <2>1. l \in LeagueIDs
    BY LeaguesAndTeams DEF LeagueInvariant
  <2>2. \A t \in Teams : leagueID[t] = l => teamName[t] # name
    BY <1>2 DEF LeagueInvariant, LeagueShape, JoinLeague, MayEnter
  <2> QED
    BY <1>2, <2>1, <2>2, NewTeamOwned DEF JoinLeague, MayEnter
<1>3. ASSUME UNCHANGED <<maxTeamID, teamVars>>
      PROVE  Owned'
  BY <1>3 DEF Owned, Teams, teamVars
<1>4. ASSUME NEW u \in Users, NEW from \in Teams, NEW to \in TeamIDs,
             NEW offered \in PlayerIDs, NEW requested \in PlayerIDs,
             RequestTrade(u, from, to, offered, requested)
      PROVE  Owned'
  BY <1>3, <1>4 DEF RequestTrade, SwapCrashes, idVars
<1>5. ASSUME NEW u \in Users, NEW trade \in trades,
             NEW offered \in PlayerIDs, NEW requested \in PlayerIDs,
             NegotiateTrade(u, trade, offered, requested)
      PROVE  Owned'
  BY <1>3, <1>5 DEF NegotiateTrade, SwapCrashes, idVars
<1>6. CASE \/ \E l \in Leagues : \/ DraftDone(l)
                              \/ \E draft \in DraftIDs : ChoosePlayer(l, draft)
           \/ \E u \in Users, trade \in trades :
                RemoveTrade(u, trade) \/ TradeAccept(u, trade)
           \/ \E u \in Users : FinishNegotiate(u)
           \/ ExpireTrades
  BY <1>3, <1>6
  DEF DraftDone, ChoosePlayer, RemoveTrade, TradeAccept, FinishNegotiate, ExpireTrades, idVars
<1>7. CASE UNCHANGED vars
  BY <1>3, <1>7 DEF vars, idVars
<1> QED
  BY <1>1, <1>2, <1>4, <1>5, <1>6, <1>7 DEF Next

\* createLeague, joinLeague and belongsToList: in its league a team is found by
\* its name among the teams of its owner and of nobody else.
THEOREM TeamsAreOwned == Spec => []TeamOwnership
<1>1. Init => Owned
  BY DEF Init, Owned, Teams
<1>2. LeagueInvariant /\ Owned => TeamOwnership
  <2> SUFFICES ASSUME LeagueInvariant, Owned, NEW t \in Teams
               PROVE  /\ t \in leagueTeams[leagueID[t]]
                      /\ \E u \in Users :
                           /\ t \in userTeams[u]
                           /\ \A v \in Users \ {u} :
                                \A x \in userTeams[v] :
                                  /\ x # t
                                  /\ leagueID[x] = leagueID[t] => teamName[x] # teamName[t]
                           /\ \A x \in userTeams[u] : leagueID[x] = leagueID[t] => x = t
    BY DEF TeamOwnership
  <2>1. PICK u \in Users : t \in userTeams[u]
    BY DEF Owned
  <2>2. ASSUME NEW v \in Users \ {u}, NEW x \in userTeams[v]
        PROVE  x # t /\ (leagueID[x] = leagueID[t] => teamName[x] # teamName[t])
    BY <2>1 DEF Owned
  <2>3. \A x \in userTeams[u] : leagueID[x] = leagueID[t] => x = t
    BY <2>1 DEF Owned
  <2>4. t \in leagueTeams[leagueID[t]]
    BY DEF LeagueInvariant, LeagueShape
  <2> QED
    BY <2>1, <2>2, <2>3, <2>4
<1> QED
  BY <1>1, <1>2, OwnedStep, InvariantHolds, PTL DEF Spec

-----------------------------------------------------------------------------
(* How many players a team gets.                                           *)

\* The calls choosePlayer that are still to be made for a team.
Due(calls, t) == {pick \in calls : pick.team = t}

Bounded(l, t) ==
  /\ IsFiniteSet(players[t])
  /\ Cardinality(players[t]) + Cardinality(Due(picks[l], t)) <= Rounds * handOvers[l]

RostersBounded == \A l \in LeagueIDs : \A t \in leagueTeams[l] : Bounded(l, t)

LEMMA DueIsFinite ==
  ASSUME NEW calls, IsFiniteSet(calls), NEW t
  PROVE  IsFiniteSet(Due(calls, t)) /\ Cardinality(Due(calls, t)) \in Nat
<1>1. Due(calls, t) \subseteq calls
  BY DEF Due
<1> QED
  BY <1>1, FS_Subset, FS_CardinalityType

\* What the drafts of a league hand to a team, before and after one more.
LEMMA Allowance ==
  ASSUME LeagueInvariant, NEW l \in LeagueIDs
  PROVE  /\ handOvers[l] \in Nat
         /\ Rounds * handOvers[l] \in Nat
         /\ Rounds * (handOvers[l] + 1) = Rounds * handOvers[l] + Rounds
<1>1. handOvers[l] \in Nat
  BY BoundAssumption DEF LeagueInvariant, TypeOK
<1>2. \A a, b \in Nat : a * b \in Nat /\ a * (b + 1) = a * b + a
  OBVIOUS
<1> QED
  BY <1>1, <1>2, RoundAssumption

\* Exchanging a player for another does not enlarge a roster.
LEMMA Exchange ==
  ASSUME NEW S, IsFiniteSet(S), NEW a \in S, NEW b
  PROVE  /\ IsFiniteSet((S \ {a}) \cup {b})
         /\ Cardinality((S \ {a}) \cup {b}) \in Nat /\ Cardinality(S) \in Nat
         /\ Cardinality((S \ {a}) \cup {b}) <= Cardinality(S)
<1>1. IsFiniteSet(S \ {a}) /\ Cardinality(S \ {a}) = Cardinality(S) - 1
  BY FS_RemoveElement
<1>2. /\ IsFiniteSet((S \ {a}) \cup {b})
      /\ Cardinality((S \ {a}) \cup {b}) =
           IF b \in S \ {a} THEN Cardinality(S \ {a}) ELSE Cardinality(S \ {a}) + 1
  BY <1>1, FS_AddElement
<1>3. Cardinality(S) \in Nat /\ Cardinality((S \ {a}) \cup {b}) \in Nat
  BY <1>2, FS_CardinalityType
<1> QED
  BY <1>1, <1>2, <1>3

LEMMA NewTeamBounded ==
  ASSUME LeagueInvariant, RostersBounded,
         NEW u \in Users, NEW name \in TeamNames, NEW l \in LeagueIDs,
         CreateTeam(u, name, l), UNCHANGED <<players, draftVars>>
  PROVE  RostersBounded'
<1> USE DEF LeagueInvariant
<1> SUFFICES ASSUME NEW k \in LeagueIDs, NEW t \in leagueTeams'[k]
             PROVE  Bounded(k, t)'
  BY DEF RostersBounded
<1>1. t \in leagueTeams[k] \/ t = maxTeamID
  BY NewTeam
<1>2. CASE t \in leagueTeams[k]
  BY <1>2 DEF RostersBounded, Bounded, draftVars
<1>3. CASE t = maxTeamID
  <2>1. players[t] = {}
    BY <1>3, NewTeam DEF LeagueShape
  <2>2. Due(picks[k], t) = {}
    BY <1>3, NewTeam DEF LeagueShape, Due
  <2>3. Rounds * handOvers[k] \in Nat
    BY Allowance
  <2>4. IsFiniteSet({}) /\ Cardinality({}) = 0
    BY FS_EmptySet
  <2> QED
    BY <2>1, <2>2, <2>3, <2>4 DEF Bounded, draftVars
<1> QED
  BY <1>1, <1>2, <1>3

\* A team whose roster did not grow while its calls stayed the same.
LEMMA NoLarger ==
  ASSUME LeagueInvariant, RostersBounded, UNCHANGED <<leagueTeams, draftVars>>,
         \A t \in TeamIDs : \/ players'[t] = players[t]
                            \/ \E a \in players[t], b \in PlayerIDs :
                                 players'[t] = (players[t] \ {a}) \cup {b}
  PROVE  RostersBounded'
<1> SUFFICES ASSUME NEW k \in LeagueIDs, NEW t \in leagueTeams[k]
             PROVE  Bounded(k, t)'
  BY DEF RostersBounded
<1>1. t \in TeamIDs /\ Bounded(k, t) /\ IsFiniteSet(picks[k])
  BY DEF LeagueInvariant, LeagueShape, TypeOK, RostersBounded
<1>2. Cardinality(Due(picks[k], t)) \in Nat /\ Rounds * handOvers[k] \in Nat
  BY <1>1, DueIsFinite, Allowance
<1>3. IsFiniteSet(players'[t]) /\ Cardinality(players'[t]) \in Nat /\ Cardinality(players[t]) \in Nat
      /\ Cardinality(players'[t]) <= Cardinality(players[t])
  <2>1. IsFiniteSet(players[t]) /\ Cardinality(players[t]) \in Nat
    BY <1>1, FS_CardinalityType DEF Bounded
  <2>2. CASE players'[t] = players[t]
    BY <2>1, <2>2
  <2>3. CASE \E a \in players[t], b \in PlayerIDs : players'[t] = (players[t] \ {a}) \cup {b}
    <3>1. PICK a \in players[t], b \in PlayerIDs : players'[t] = (players[t] \ {a}) \cup {b}
      BY <2>3
    <3>2. /\ IsFiniteSet((players[t] \ {a}) \cup {b})
          /\ Cardinality((players[t] \ {a}) \cup {b}) \in Nat
          /\ Cardinality((players[t] \ {a}) \cup {b}) <= Cardinality(players[t])
      BY <2>1, Exchange
    <3> QED
      BY <2>1, <3>1, <3>2
  <2> QED
    BY <1>1, <2>2, <2>3
<1>4. picks' = picks /\ handOvers' = handOvers
  BY DEF draftVars
<1> QED
  BY <1>1, <1>2, <1>3, <1>4 DEF Bounded

LEMMA SwapBounded ==
  ASSUME LeagueInvariant, RostersBounded, NEW from \in Teams,
         NEW offered \in PlayerIDs, NEW requested \in PlayerIDs,
         SwapFreeAgent(from, offered, requested), UNCHANGED <<leagueTeams, draftVars>>
  PROVE  RostersBounded'
<1>1. from \in TeamIDs
  BY LeaguesAndTeams DEF LeagueInvariant
<1>2. /\ players'[from] = (players[from] \ {offered}) \cup {requested}
      /\ \A t \in TeamIDs \ {from} : players'[t] = players[t]
      /\ offered \in players[from]
  BY <1>1 DEF LeagueInvariant, SwapFreeAgent, TypeOK
<1> QED
  BY <1>2, NoLarger

LEMMA TradeBounded ==
  ASSUME LeagueInvariant, RostersBounded, NEW u \in Users, NEW trade \in trades,
         TradeAccept(u, trade)
  PROVE  RostersBounded'
<1> DEFINE from == trade.teamFrom
           to   == trade.teamTo
           given  == trade.incomingPlayerID
           wanted == trade.wantedPlayerID
<1> USE DEF LeagueInvariant
<1>1. /\ from \in TeamIDs /\ to \in TeamIDs
      /\ given \in PlayerIDs /\ wanted \in PlayerIDs
  BY DEF TypeOK, Trade
<1>2. from # to /\ given \in players[from] /\ wanted \in players[to]
  BY DEF TradeAccept, StillTheirs, TradesIndexed
<1>3. PICK mine \in userTeams[u] :
        /\ trade \in incomingTrades[mine]
        /\ players' = [players EXCEPT
             ![mine] = (@ \ {wanted}) \cup {given},
             ![from] = (@ \ {given}) \cup {wanted}]
  BY DEF TradeAccept
<1>4. mine = to
  BY <1>3 DEF TradesIndexed, TypeOK
<1>5. /\ players'[to] = (players[to] \ {wanted}) \cup {given}
      /\ players'[from] = (players[from] \ {given}) \cup {wanted}
      /\ \A t \in TeamIDs \ {from, to} : players'[t] = players[t]
  BY <1>1, <1>2, <1>3, <1>4 DEF TypeOK
<1>6. UNCHANGED <<leagueTeams, draftVars>>
  BY DEF TradeAccept, leagueVars
<1> QED
  BY <1>1, <1>2, <1>5, <1>6, NoLarger

\* A draft adds Rounds calls for each team and moves no player yet.
LEMMA DraftDoneBounded ==
  ASSUME LeagueInvariant, RostersBounded, NEW l \in Leagues, DraftDone(l)
  PROVE  RostersBounded'
<1> USE DEF LeagueInvariant
<1>1. l \in LeagueIDs
  BY LeaguesAndTeams
<1>2. PICK new : NewPicks(l, new) /\ picks' = [picks EXCEPT ![l] = @ \cup new]
  BY DraftCalls
<1>3. /\ picks'[l] = picks[l] \cup new
      /\ \A k \in LeagueIDs \ {l} : picks'[k] = picks[k]
      /\ handOvers'[l] = handOvers[l] + 1
      /\ \A k \in LeagueIDs \ {l} : handOvers'[k] = handOvers[k]
  BY <1>1, <1>2 DEF DraftDone, TypeOK
<1>4. UNCHANGED <<leagueTeams, players>>
  BY DEF DraftDone, leagueVars, rosterVars
<1>5. ASSUME NEW t \in leagueTeams[l]
      PROVE  Bounded(l, t)'
  <2>1. Bounded(l, t) /\ IsFiniteSet(picks[l]) /\ IsFiniteSet(new)
    BY <1>1, <1>2 DEF RostersBounded, LeagueShape, NewPicks
  <2>2. Cardinality(Due(new, t)) = Rounds
    BY <1>2 DEF NewPicks, Due
  <2>3. Due(picks'[l], t) = Due(picks[l], t) \cup Due(new, t)
    BY <1>3 DEF Due
  <2>4. /\ IsFiniteSet(Due(picks[l], t)) /\ Cardinality(Due(picks[l], t)) \in Nat
        /\ IsFiniteSet(Due(new, t))
    BY <2>1, DueIsFinite
  <2> DEFINE both == Due(picks[l], t) \cap Due(new, t)
  <2>5. Cardinality(both) \in Nat
    BY <2>4, FS_Subset, FS_CardinalityType
  <2>6. Cardinality(Due(picks'[l], t)) =
          Cardinality(Due(picks[l], t)) + Rounds - Cardinality(both)
    BY <2>2, <2>3, <2>4, FS_Union
  <2>7. IsFiniteSet(players[t]) /\ Cardinality(players[t]) \in Nat /\ players'[t] = players[t]
    BY <1>4, <2>1, FS_CardinalityType DEF Bounded
  <2>8. Cardinality(players[t]) + Cardinality(Due(picks[l], t)) <= Rounds * handOvers[l]
    BY <2>1 DEF Bounded
  <2>9. /\ Rounds * handOvers[l] \in Nat
        /\ Rounds * handOvers'[l] = Rounds * handOvers[l] + Rounds
    BY <1>1, <1>3, Allowance
  <2> HIDE DEF both
  <2>10. Cardinality(players[t]) + Cardinality(Due(picks'[l], t)) <= Rounds * handOvers'[l]
    BY <2>4, <2>5, <2>6, <2>7, <2>8, <2>9, RoundAssumption
  <2> QED
    BY <2>7, <2>10 DEF Bounded
<1>6. \A k \in LeagueIDs \ {l} : \A t \in leagueTeams[k] : Bounded(k, t)'
  BY <1>3, <1>4 DEF RostersBounded, Bounded
<1> QED
  BY <1>4, <1>5, <1>6 DEF RostersBounded

\* A call takes one from what is due and gives the team at most one player.
LEMMA ChoosePlayerBounded ==
  ASSUME LeagueInvariant, RostersBounded, NEW l \in Leagues, NEW draft \in DraftIDs,
         ChoosePlayer(l, draft)
  PROVE  RostersBounded'
<1> USE DEF LeagueInvariant
<1>1. PICK pick \in picks[l] : Called(l, pick)
  BY OneCall
<1>2. /\ l \in LeagueIDs
      /\ picks'[l] = picks[l] \ {pick}
      /\ \A k \in LeagueIDs \ {l} : picks'[k] = picks[k]
      /\ UNCHANGED <<leagueTeams, handOvers>>
  BY <1>1, LeaguesAndTeams DEF Called, ChoosePlayer, TypeOK, leagueVars
<1>3. pick.team \in leagueTeams[l] /\ pick.team \in TeamIDs
  BY <1>2 DEF LeagueShape, TypeOK
<1>4. /\ \/ players'[pick.team] = players[pick.team]
         \/ \E p : players'[pick.team] = players[pick.team] \cup {p}
      /\ \A t \in TeamIDs \ {pick.team} : players'[t] = players[t]
  BY <1>1, <1>3 DEF Called, GivePlayer, TypeOK, rosterVars
<1>5. ASSUME NEW k \in LeagueIDs, NEW t \in leagueTeams[k]
      PROVE  Bounded(k, t)'
  <2>1. t \in TeamIDs /\ IsFiniteSet(players[t]) /\ Cardinality(players[t]) \in Nat /\ Bounded(k, t)
    BY FS_CardinalityType DEF TypeOK, RostersBounded, Bounded
  <2>2. IsFiniteSet(Due(picks[k], t)) /\ Cardinality(Due(picks[k], t)) \in Nat
    BY DueIsFinite DEF LeagueShape
  <2>3. CASE t # pick.team
    <3>1. Due(picks'[k], t) = Due(picks[k], t)
      BY <1>2, <2>3 DEF Due
    <3> QED
      BY <1>2, <1>4, <2>1, <2>3, <3>1 DEF Bounded
  <2>4. CASE t = pick.team
    <3>1. k = l
      BY <1>2, <1>3, <2>4 DEF LeagueShape
    <3>2. pick \in Due(picks[k], t) /\ Due(picks'[k], t) = Due(picks[k], t) \ {pick}
      BY <1>2, <2>4, <3>1 DEF Due
    <3>3. Cardinality(Due(picks'[k], t)) = Cardinality(Due(picks[k], t)) - 1
      BY <2>2, <3>2, FS_RemoveElement
    <3>4. /\ IsFiniteSet(players'[t]) /\ Cardinality(players'[t]) \in Nat
          /\ Cardinality(players'[t]) <= Cardinality(players[t]) + 1
      <4>1. CASE players'[t] = players[t]
        BY <2>1, <4>1
      <4>2. ASSUME NEW p, players'[t] = players[t] \cup {p}
            PROVE  /\ IsFiniteSet(players'[t]) /\ Cardinality(players'[t]) \in Nat
                   /\ Cardinality(players'[t]) <= Cardinality(players[t]) + 1
        <5>1. /\ IsFiniteSet(players[t] \cup {p})
              /\ Cardinality(players[t] \cup {p}) \in
                   {Cardinality(players[t]), Cardinality(players[t]) + 1}
          BY <2>1, FS_AddElement
        <5> QED
          BY <2>1, <4>2, <5>1
      <4> QED
        BY <1>4, <2>4, <4>1, <4>2
    <3>5. Cardinality(players[t]) + Cardinality(Due(picks[k], t)) <= Rounds * handOvers[k]
      BY <2>1 DEF Bounded
    <3>6. Rounds * handOvers[k] \in Nat /\ handOvers' = handOvers
      BY <1>2, Allowance
    <3>7. Cardinality(players'[t]) + Cardinality(Due(picks'[k], t)) <= Rounds * handOvers'[k]
      BY <2>1, <2>2, <3>3, <3>4, <3>5, <3>6
    <3> QED
      BY <3>4, <3>7 DEF Bounded
  <2> QED
    BY <2>3, <2>4
<1> QED
  BY <1>2, <1>5 DEF RostersBounded

LEMMA BoundedStep == LeagueInvariant /\ RostersBounded /\ [Next]_vars => RostersBounded'
<1> SUFFICES ASSUME LeagueInvariant, RostersBounded, [Next]_vars PROVE RostersBounded'
  OBVIOUS
<1> USE DEF leagueVars, rosterVars, draftVars
<1>1. ASSUME NEW u \in Users, NEW name \in TeamNames, NEW size \in LeagueSizes,
             CreateLeague(u, name, size)
      PROVE  RostersBounded'
  <2>1. maxLeagueID \in LeagueIDs
    BY <1>1, NextIDs DEF LeagueInvariant, CreateLeague
  <2> QED
    BY <1>1, <2>1, NewTeamBounded DEF CreateLeague
<1>2. ASSUME NEW u \in Users, NEW l \in Leagues, NEW name \in TeamNames,
             JoinLeague(u, l, name)
      PROVE  RostersBounded'
  BY <1>2, LeaguesAndTeams, NewTeamBounded DEF LeagueInvariant, JoinLeague
<1>3. ASSUME UNCHANGED <<leagueTeams, players, draftVars>>
      PROVE  RostersBounded'
  BY <1>3 DEF RostersBounded, Bounded
<1>4. ASSUME NEW u \in Users, NEW from \in Teams, NEW to \in TeamIDs,
             NEW offered \in PlayerIDs, NEW requested \in PlayerIDs,
             RequestTrade(u, from, to, offered, requested)
      PROVE  RostersBounded'
  BY <1>3, <1>4, SwapBounded DEF RequestTrade, SwapCrashes
<1>5. ASSUME NEW u \in Users, NEW trade \in trades,
             NEW offered \in PlayerIDs, NEW requested \in PlayerIDs,
             NegotiateTrade(u, trade, offered, requested)
      PROVE  RostersBounded'
  <2>1. trade.teamTo \in Teams
    <3>1. PICK l \in Leagues : trade.teamTo \in leagueTeams[l]
      BY DEF LeagueInvariant, TradesIndexed
    <3> QED
      BY <3>1, LeaguesAndTeams DEF LeagueInvariant, LeagueShape
  <2> QED
    BY <1>3, <1>5, <2>1, SwapBounded DEF NegotiateTrade, SwapCrashes
<1>6. CASE \/ \E u \in Users, trade \in trades : RemoveTrade(u, trade)
           \/ \E u \in Users : FinishNegotiate(u)
           \/ ExpireTrades
  BY <1>3, <1>6 DEF RemoveTrade, FinishNegotiate, ExpireTrades
<1>7. CASE UNCHANGED vars
  BY <1>3, <1>7 DEF vars
<1> QED
  BY <1>1, <1>2, <1>4, <1>5, <1>6, <1>7, DraftDoneBounded, ChoosePlayerBounded, TradeBounded
  DEF Next

\* choosePlayer, requestTradeAux and tradeAccept: no team ever has more players
\* than the drafts that handed over give it, Rounds each, also counting the calls
\* they still have to make, however many did and whoever's calls come first.
THEOREM RostersStayBounded == Spec => []RosterBounded
<1>1. Init => RostersBounded
  BY DEF Init, RostersBounded
<1>2. LeagueInvariant /\ RostersBounded => RosterBounded
  BY LeaguesAndTeams DEF LeagueInvariant, RostersBounded, RosterBounded, Bounded, Due
<1> QED
  BY <1>1, <1>2, BoundedStep, InvariantHolds, PTL DEF Spec


-----------------------------------------------------------------------------
(* Who holds a player.                                                     *)

LEMMA HolderIsTeam ==
  ASSUME NEW these, NEW roster, NEW p, NEW t \in these, p \in roster[t],
         \A t1, t2 \in these : t1 # t2 => roster[t1] \cap roster[t2] = {}
  PROVE  HolderIn(these, roster, p) = t
<1> DEFINE h == CHOOSE x \in these : p \in roster[x]
<1>1. h \in these /\ p \in roster[h]
  OBVIOUS
<1>2. h = t
  BY <1>1
<1> QED
  BY <1>2 DEF HolderIn

LEMMA HolderIsNobody ==
  ASSUME NEW these, NEW roster, NEW p, \A t \in these : p \notin roster[t]
  PROVE  HolderIn(these, roster, p) = NoID
  BY DEF HolderIn

\* A player of a partitioned league is held by the team that has it, by nobody
\* if it is undrafted.
LEMMA HolderNow ==
  ASSUME LeagueInvariant, NEW l \in Leagues, NEW p \in PlayerIDs
  PROVE  /\ \A t \in leagueTeams[l] : p \in players[t] => Holder[l][p] = t
         /\ p \in nonDrafted[l] => Holder[l][p] = NoID
<1>1. l \in LeagueIDs
  BY LeaguesAndTeams DEF LeagueInvariant
<1>2. Holder[l][p] = HolderIn(leagueTeams[l], players, p)
  BY <1>1 DEF Holder
<1>3. Partitioned(l)
  BY DEF LeagueInvariant, RosterPartition
<1>4. ASSUME NEW t \in leagueTeams[l], p \in players[t]
      PROVE  Holder[l][p] = t
  BY <1>2, <1>3, <1>4, HolderIsTeam DEF Partitioned
<1>5. ASSUME p \in nonDrafted[l]
      PROVE  Holder[l][p] = NoID
  BY <1>2, <1>3, <1>5, HolderIsNobody DEF Partitioned
<1> QED
  BY <1>4, <1>5

\* A player is held by the same team as before when the same teams have it.
LEMMA HolderSame ==
  ASSUME NEW these, NEW more, NEW roster1, NEW roster2, NEW p,
         these \subseteq more,
         \A t \in these : p \in roster1[t] <=> p \in roster2[t],
         \A t \in more \ these : p \notin roster2[t],
         \A t1, t2 \in these : t1 # t2 => roster1[t1] \cap roster1[t2] = {}
  PROVE  HolderIn(more, roster2, p) = HolderIn(these, roster1, p)
<1>1. CASE \E t \in these : p \in roster1[t]
  <2>1. PICK t \in these : p \in roster1[t]
    BY <1>1
  <2>2. HolderIn(these, roster1, p) = t
    BY <2>1, HolderIsTeam
  <2>3. \A x \in more : p \in roster2[x] <=> x = t
    BY <2>1
  <2>4. HolderIn(more, roster2, p) = t
    <3> DEFINE h == CHOOSE x \in more : p \in roster2[x]
    <3>1. h \in more /\ p \in roster2[h]
      BY <2>1, <2>3
    <3>2. h = t
      BY <2>3, <3>1
    <3> QED
      BY <2>1, <2>3, <3>2 DEF HolderIn
  <2> QED
    BY <2>2, <2>4
<1>2. CASE ~ \E t \in these : p \in roster1[t]
  BY <1>2, HolderIsNobody
<1> QED
  BY <1>1, <1>2

-----------------------------------------------------------------------------
(* The steps.                                                              *)

\* Teams of one league share no player, also where there are no teams.
LEMMA Disjoint ==
  ASSUME LeagueInvariant, NEW l \in LeagueIDs
  PROVE  \A t1, t2 \in leagueTeams[l] : t1 # t2 => players[t1] \cap players[t2] = {}
<1>1. CASE l \in Leagues
  BY <1>1 DEF LeagueInvariant, RosterPartition, Partitioned
<1>2. CASE l \notin Leagues
  BY <1>2 DEF LeagueInvariant, LeagueShape
<1> QED
  BY <1>1, <1>2

\* Players of leagues a step does not touch keep their holders.
LEMMA HolderKept ==
  ASSUME LeagueInvariant, NEW l \in LeagueIDs, UNCHANGED leagueTeams,
         \A t \in leagueTeams[l] : players'[t] = players[t]
  PROVE  \A p \in PlayerIDs : Holder'[l][p] = Holder[l][p]
<1>1. ASSUME NEW p \in PlayerIDs
      PROVE  HolderIn(leagueTeams'[l], players', p)
               = HolderIn(leagueTeams[l], players, p)
  BY Disjoint, HolderSame
<1> QED
  BY <1>1 DEF Holder

\* When no roster and no team changes, no holder does.
LEMMA QuietStep ==
  ASSUME UNCHANGED <<leagueTeams, players>>
  PROVE  Holder' = Holder
  BY DEF Holder

\* A new team holds nobody.
LEMMA NewTeamHolder ==
  ASSUME LeagueInvariant,
         NEW u \in Users, NEW name \in TeamNames, NEW l \in LeagueIDs,
         CreateTeam(u, name, l), UNCHANGED players
  PROVE  Holder' = Holder
<1> USE DEF LeagueInvariant
<1>1. players[maxTeamID] = {}
  BY NewTeam DEF LeagueShape
<1>2. ASSUME NEW k \in LeagueIDs, NEW p \in PlayerIDs
      PROVE  HolderIn(leagueTeams'[k], players', p)
               = HolderIn(leagueTeams[k], players, p)
  <2>1. /\ leagueTeams[k] \subseteq leagueTeams'[k]
        /\ leagueTeams'[k] \subseteq leagueTeams[k] \cup {maxTeamID}
    BY NewTeam
  <2>2. \A t \in leagueTeams'[k] \ leagueTeams[k] : p \notin players'[t]
    BY <1>1, <2>1
  <2> QED
    BY <2>1, <2>2, Disjoint, HolderSame
<1> QED
  BY <1>2 DEF Holder

\* Holders that differ from the old ones as an exchange says.
LEMMA ExchangeHolders ==
  ASSUME NEW l \in LeagueIDs, NEW p \in PlayerIDs, NEW q \in PlayerIDs,
         Holder[l][p] # Holder[l][q],
         Holder'[l][p] = Holder[l][q], Holder'[l][q] = Holder[l][p],
         \A x \in PlayerIDs \ {p, q} : Holder'[l][x] = Holder[l][x],
         \A k \in LeagueIDs \ {l} : \A x \in PlayerIDs :
           Holder'[k][x] = Holder[k][x]
  PROVE  M!MarketNext
<1>1. /\ Holder = [k \in LeagueIDs |-> [x \in PlayerIDs |-> Holder[k][x]]]
      /\ Holder' = [k \in LeagueIDs |-> [x \in PlayerIDs |-> Holder'[k][x]]]
  BY DEF Holder
<1> HIDE DEF Holder
<1>2. Holder' = [Holder EXCEPT ![l][p] = Holder[l][q], ![l][q] = Holder[l][p]]
  <2> DEFINE new == [Holder EXCEPT ![l][p] = Holder[l][q],
                                   ![l][q] = Holder[l][p]]
  <2>1. new = [k \in LeagueIDs |-> new[k]]
    BY <1>1
  <2>2. ASSUME NEW k \in LeagueIDs \ {l} PROVE new[k] = Holder'[k]
    <3>1. new[k] = Holder[k]
      BY <1>1
    <3>2. Holder[k] = [x \in PlayerIDs |-> Holder[k][x]]
      BY <1>1
    <3>3. Holder'[k] = [x \in PlayerIDs |-> Holder'[k][x]]
      BY <1>1
    <3> QED
      BY <3>1, <3>2, <3>3
  <2>3. new[l] = Holder'[l]
    <3> DEFINE row == Holder[l]
               row2 == [row EXCEPT ![p] = Holder[l][q], ![q] = Holder[l][p]]
    <3>1. row = [x \in PlayerIDs |-> row[x]]
      BY <1>1
    <3>2. new[l] = row2
      BY <1>1
    <3>3. row2 = [x \in PlayerIDs |-> Holder'[l][x]]
      BY <3>1
    <3>4. Holder'[l] = [x \in PlayerIDs |-> Holder'[l][x]]
      BY <1>1
    <3> QED
      BY ONLY <3>2, <3>3, <3>4
  <2> HIDE DEF new
  <2>4. \A k \in LeagueIDs : new[k] = Holder'[k]
    BY <2>2, <2>3
  <2>5. Holder' = [k \in LeagueIDs |-> Holder'[k]]
    BY <1>1
  <2>6. new = Holder'
    BY ONLY <2>1, <2>4, <2>5
  <2> QED
    BY <2>6 DEF new
<1> QED
  BY <1>2 DEF M!MarketNext, M!Exchange

LEMMA SwapExchanges ==
  ASSUME LeagueInvariant, NEW from \in Teams,
         NEW offered \in PlayerIDs, NEW requested \in PlayerIDs,
         SwapFreeAgent(from, offered, requested), UNCHANGED leagueTeams
  PROVE  M!MarketNext
<1> USE DEF LeagueInvariant
<1>0. PICK l \in Leagues : l = leagueID[from]
  BY DEF LeagueShape
<1>1. /\ l \in Leagues /\ l \in LeagueIDs
      /\ from \in leagueTeams[l] /\ from \in TeamIDs
      /\ leagueTeams[l] \subseteq TeamIDs
  BY <1>0, LeaguesAndTeams DEF LeagueShape, TypeOK
<1>2. /\ players'[from] = (players[from] \ {offered}) \cup {requested}
      /\ \A t \in TeamIDs \ {from} : players'[t] = players[t]
      /\ offered \in players[from]
      /\ requested \in nonDrafted[l]
  BY <1>0, <1>1 DEF SwapFreeAgent, FreeAgent, TypeOK
<1>3. \A t1, t2 \in leagueTeams[l] : t1 # t2 => players[t1] \cap players[t2] = {}
  BY <1>1, Disjoint
<1>4. \A t \in leagueTeams[l] : requested \notin players[t]
  BY <1>1, <1>2 DEF RosterPartition, Partitioned
<1>5. Holder[l][offered] = from /\ Holder[l][requested] = NoID
  BY <1>1, <1>2, HolderNow
<1>6. \A x \in PlayerIDs :
        Holder'[l][x] = HolderIn(leagueTeams[l], players', x)
  BY <1>1 DEF Holder
<1>7. \A t1, t2 \in leagueTeams[l] :
        t1 # t2 => players'[t1] \cap players'[t2] = {}
  BY <1>1, <1>2, <1>3, <1>4
<1>8. HolderIn(leagueTeams[l], players', requested) = from
  <2>1. from \in leagueTeams[l] /\ requested \in players'[from]
    BY <1>1, <1>2
  <2>2. ASSUME NEW t \in leagueTeams[l], requested \in players'[t]
        PROVE  HolderIn(leagueTeams[l], players', requested) = t
    BY <1>7, <2>2, HolderIsTeam
  <2> QED
    BY <2>1, <2>2
<1>9. HolderIn(leagueTeams[l], players', offered) = NoID
  <2>1. \A t \in leagueTeams[l] : offered \notin players'[t]
    BY <1>1, <1>2, <1>3, <1>4
  <2> QED
    BY <2>1, HolderIsNobody
<1>10. ASSUME NEW x \in PlayerIDs \ {offered, requested}
       PROVE  Holder'[l][x] = Holder[l][x]
  <2>1. \A t \in leagueTeams[l] : x \in players[t] <=> x \in players'[t]
    BY <1>1, <1>2
  <2>2. HolderIn(leagueTeams[l], players', x)
          = HolderIn(leagueTeams[l], players, x)
    BY <1>3, <2>1, HolderSame
  <2> QED
    BY <1>1, <2>2 DEF Holder
<1>11. ASSUME NEW k \in LeagueIDs \ {l}, NEW x \in PlayerIDs
       PROVE  Holder'[k][x] = Holder[k][x]
  <2>1. \A t \in leagueTeams[k] : players'[t] = players[t]
    BY <1>0, <1>1, <1>2 DEF LeagueShape, TypeOK
  <2> QED
    BY <2>1, HolderKept
<1>12. from # NoID
  BY <1>1, BoundAssumption DEF TeamIDs, NoID
<1> QED
  BY <1>1, <1>5, <1>6, <1>8, <1>9, <1>10, <1>11, <1>12, ExchangeHolders

LEMMA AcceptExchanges ==
  ASSUME LeagueInvariant, NEW u \in Users, NEW trade \in trades,
         TradeAccept(u, trade)
  PROVE  M!MarketNext
<1> DEFINE from == trade.teamFrom
           to   == trade.teamTo
           given  == trade.incomingPlayerID
           wanted == trade.wantedPlayerID
<1> USE DEF LeagueInvariant
<1>1. /\ from \in TeamIDs /\ to \in TeamIDs
      /\ given \in PlayerIDs /\ wanted \in PlayerIDs
  BY DEF TypeOK, Trade
<1>2. /\ from # to
      /\ given \in players[from]
      /\ wanted \in players[to]
  BY DEF TradeAccept, StillTheirs, TradesIndexed
<1>3. PICK l \in Leagues : {from, to} \subseteq leagueTeams[l]
  BY DEF TradesIndexed
<1>4. /\ l \in LeagueIDs /\ from \in leagueTeams[l] /\ to \in leagueTeams[l]
      /\ leagueTeams' = leagueTeams
      /\ leagueTeams[l] \subseteq TeamIDs
  BY <1>3, LeaguesAndTeams DEF TradeAccept, leagueVars, TypeOK
<1>5. PICK mine \in userTeams[u] :
        /\ trade \in incomingTrades[mine]
        /\ players' = [players EXCEPT
             ![mine] = (@ \ {wanted}) \cup {given},
             ![from] = (@ \ {given}) \cup {wanted}]
  BY DEF TradeAccept
<1>6. mine = to
  BY <1>5 DEF TradesIndexed, TypeOK
<1>7. /\ players'[to] = (players[to] \ {wanted}) \cup {given}
      /\ players'[from] = (players[from] \ {given}) \cup {wanted}
      /\ \A t \in TeamIDs \ {from, to} : players'[t] = players[t]
  BY <1>1, <1>2, <1>5, <1>6 DEF TypeOK
<1>8. \A t1, t2 \in leagueTeams[l] : t1 # t2 => players[t1] \cap players[t2] = {}
  BY <1>4, Disjoint
<1>9. Holder[l][given] = from /\ Holder[l][wanted] = to
  BY <1>1, <1>2, <1>4, HolderNow
<1>10. \A t1, t2 \in leagueTeams[l] :
         t1 # t2 => players'[t1] \cap players'[t2] = {}
  BY <1>2, <1>4, <1>7, <1>8
<1>11. Holder'[l][given] = to /\ Holder'[l][wanted] = from
  <2>1. given \in players'[to] /\ wanted \in players'[from]
    BY <1>7
  <2> HIDE DEF given, wanted, from, to
  <2>2. HolderIn(leagueTeams[l], players', given) = to
    BY <1>4, <1>10, <2>1, HolderIsTeam
  <2>3. HolderIn(leagueTeams[l], players', wanted) = from
    BY <1>4, <1>10, <2>1, HolderIsTeam
  <2> QED
    BY <1>1, <1>4, <2>2, <2>3 DEF Holder
<1>12. ASSUME NEW x \in PlayerIDs \ {given, wanted}
       PROVE  Holder'[l][x] = Holder[l][x]
  <2>1. \A t \in leagueTeams[l] : x \in players[t] <=> x \in players'[t]
    BY <1>4, <1>7
  <2>2. HolderIn(leagueTeams[l], players', x)
          = HolderIn(leagueTeams[l], players, x)
    BY <1>8, <2>1, HolderSame
  <2> QED
    BY <1>4, <2>2 DEF Holder
<1>13. ASSUME NEW k \in LeagueIDs \ {l}, NEW x \in PlayerIDs
       PROVE  Holder'[k][x] = Holder[k][x]
  <2>1. ASSUME NEW t \in leagueTeams[k]
        PROVE  players'[t] = players[t]
    <3>1. t \in TeamIDs /\ leagueID[t] = k
      BY DEF LeagueShape, TypeOK
    <3>2. leagueID[from] = l /\ leagueID[to] = l
      BY <1>4 DEF LeagueShape
    <3> QED
      BY <1>7, <3>1, <3>2
  <2> QED
    BY <1>4, <2>1, HolderKept
<1> HIDE DEF given, wanted, from, to
<1> QED
  BY <1>1, <1>2, <1>4, <1>9, <1>11, <1>12, <1>13, ExchangeHolders

LEMMA ChoosePicks ==
  ASSUME LeagueInvariant, NEW l \in Leagues, NEW draft \in DraftIDs,
         ChoosePlayer(l, draft)
  PROVE  M!MarketNext \/ Holder' = Holder
<1> USE DEF LeagueInvariant
<1>1. l \in LeagueIDs
  BY LeaguesAndTeams
<1>2. PICK pick \in picks[l] : Called(l, pick)
  BY OneCall
<1>3. leagueTeams' = leagueTeams /\ leagueTeams[l] \subseteq TeamIDs
  BY <1>1 DEF ChoosePlayer, leagueVars, TypeOK
<1>4. CASE UNCHANGED rosterVars
  BY <1>3, <1>4, QuietStep DEF rosterVars
<1>5. ASSUME NEW p \in nonDrafted[l], GivePlayer(p, l, pick.team)
      PROVE  M!MarketNext \/ Holder' = Holder
  <2> DEFINE t == pick.team
  <2>0. p \in PlayerIDs /\ t \in leagueTeams[l] /\ t \in TeamIDs
    BY <1>1 DEF LeagueShape, TypeOK
  <2>1. /\ players'[t] = players[t] \cup {p}
        /\ \A x \in TeamIDs \ {t} : players'[x] = players[x]
    BY <1>5, <2>0 DEF GivePlayer, TypeOK
  <2>2. /\ \A t1, t2 \in leagueTeams[l] :
             t1 # t2 => players[t1] \cap players[t2] = {}
        /\ \A x \in leagueTeams[l] : p \notin players[x]
    BY <1>1, <1>5, Disjoint DEF RosterPartition, Partitioned
  <2>3. Holder[l][p] = NoID
    BY <2>0, <1>5, HolderNow
  <2>4. Holder'[l][p] = t
    <3>1. \A t1, t2 \in leagueTeams[l] :
            t1 # t2 => players'[t1] \cap players'[t2] = {}
      BY <2>0, <1>3, <2>1, <2>2
    <3>2. HolderIn(leagueTeams[l], players', p) = t
      <4>1. t \in leagueTeams[l] /\ p \in players'[t]
        BY <2>0, <2>1
      <4> HIDE DEF t
      <4> QED
        BY <3>1, <4>1, HolderIsTeam
    <3> QED
      BY <1>1, <2>0, <1>3, <3>2 DEF Holder
  <2>5. ASSUME NEW x \in PlayerIDs \ {p}
        PROVE  Holder'[l][x] = Holder[l][x]
    <3>1. \A y \in leagueTeams[l] : x \in players[y] <=> x \in players'[y]
      BY <1>3, <2>1
    <3>2. HolderIn(leagueTeams[l], players', x)
            = HolderIn(leagueTeams[l], players, x)
      BY <2>2, <3>1, HolderSame
    <3> QED
      BY <1>1, <1>3, <3>2 DEF Holder
  <2>6. ASSUME NEW k \in LeagueIDs \ {l}, NEW x \in PlayerIDs
        PROVE  Holder'[k][x] = Holder[k][x]
    <3>1. \A y \in leagueTeams[k] : players'[y] = players[y]
      BY <1>1, <2>0, <2>1 DEF LeagueShape, TypeOK
    <3> QED
      BY <1>3, <3>1, HolderKept
  <2>7. /\ Holder = [k \in LeagueIDs |-> [x \in PlayerIDs |-> Holder[k][x]]]
        /\ Holder' = [k \in LeagueIDs |-> [x \in PlayerIDs |-> Holder'[k][x]]]
    BY DEF Holder
  <2> HIDE DEF t
  <2>8. Holder' = [Holder EXCEPT ![l][p] = t]
    BY <1>1, <2>0, <2>4, <2>5, <2>6, <2>7
  <2> QED
    BY <1>1, <2>0, <2>3, <2>8 DEF M!MarketNext, M!PickFree
<1> QED
  BY <1>2, <1>4, <1>5 DEF Called

LEMMA MarketStep == LeagueInvariant /\ [Next]_vars => [M!MarketNext]_Holder
<1> SUFFICES ASSUME LeagueInvariant, [Next]_vars
             PROVE  M!MarketNext \/ Holder' = Holder
  OBVIOUS
<1> USE DEF LeagueInvariant, idVars, leagueVars, teamVars, rosterVars, tradeVars
<1>1. ASSUME NEW u \in Users, NEW name \in TeamNames, NEW size \in LeagueSizes,
             CreateLeague(u, name, size)
      PROVE  Holder' = Holder
  BY <1>1, NextIDs, NewTeamHolder DEF CreateLeague
<1>2. ASSUME NEW u \in Users, NEW l \in Leagues, NEW name \in TeamNames,
             JoinLeague(u, l, name)
      PROVE  Holder' = Holder
  BY <1>2, LeaguesAndTeams, NewTeamHolder DEF JoinLeague
<1>3. ASSUME NEW l \in Leagues, DraftDone(l)
      PROVE  Holder' = Holder
  BY <1>3, QuietStep DEF DraftDone
<1>4. ASSUME NEW u \in Users, NEW from \in Teams, NEW to \in TeamIDs,
             NEW offered \in PlayerIDs, NEW requested \in PlayerIDs,
             RequestTrade(u, from, to, offered, requested)
      PROVE  M!MarketNext \/ Holder' = Holder
  BY <1>4, SwapExchanges, QuietStep DEF RequestTrade, SwapCrashes
<1>5. ASSUME NEW u \in Users, NEW trade \in trades, RemoveTrade(u, trade)
      PROVE  Holder' = Holder
  BY <1>5, QuietStep DEF RemoveTrade
<1>6. ASSUME NEW u \in Users, NEW trade \in trades,
             NEW offered \in PlayerIDs, NEW requested \in PlayerIDs,
             NegotiateTrade(u, trade, offered, requested)
      PROVE  M!MarketNext \/ Holder' = Holder
  <2>1. trade.teamTo \in Teams
    <3>1. PICK l \in Leagues : trade.teamTo \in leagueTeams[l]
      BY DEF TradesIndexed
    <3> QED
      BY <3>1, LeaguesAndTeams DEF LeagueShape
  <2> QED
    BY <1>6, <2>1, SwapExchanges, QuietStep DEF NegotiateTrade, SwapCrashes
<1>7. ASSUME NEW u \in Users, FinishNegotiate(u)
      PROVE  Holder' = Holder
  BY <1>7, QuietStep DEF FinishNegotiate
<1>8. CASE ExpireTrades
  BY <1>8, QuietStep DEF ExpireTrades
<1>9. CASE UNCHANGED vars
  BY <1>9, QuietStep DEF vars
<1> QED
  BY <1>1, <1>2, <1>3, <1>4, <1>5, <1>6, <1>7, <1>8, <1>9,
     ChoosePicks, AcceptExchanges
  DEF Next

\* The handlers implement the market: every step picks one free player,
\* exchanges two players' holders, or leaves all players where they are.
THEOREM LeagueImplementsMarket == Spec => MarketRefinement
<1>1. Init => M!MarketInit
  BY DEF Init, Holder, HolderIn, M!MarketInit
<1>2. LeagueInvariant /\ [Next]_vars => [M!MarketNext]_Holder
  BY MarketStep
<1> QED
  BY <1>1, <1>2, InvariantHolds, PTL DEF Spec, MarketRefinement, M!MarketSpec

-----------------------------------------------------------------------------
(* The size of a league.                                                   *)

LEMMA CapacityStep ==
  LeagueInvariant /\ LeagueNotOverfull /\ [Next]_vars => LeagueNotOverfull'
<1> SUFFICES ASSUME LeagueInvariant, LeagueNotOverfull, [Next]_vars
             PROVE  LeagueNotOverfull'
  OBVIOUS
<1> USE DEF LeagueInvariant, idVars, leagueVars, teamVars, rosterVars, tradeVars
<1>1. ASSUME NEW u \in Users, NEW name \in TeamNames, NEW l \in LeagueIDs,
             CreateTeam(u, name, l)
      PROVE  /\ Cardinality(leagueTeams'[l]) = Cardinality(leagueTeams[l]) + 1
             /\ Cardinality(leagueTeams[l]) \in Nat
             /\ \A k \in LeagueIDs \ {l} : leagueTeams'[k] = leagueTeams[k]
  <2>1. maxTeamID \notin leagueTeams[l]
    BY <1>1, NewTeam DEF LeagueShape
  <2>2. leagueTeams'[l] = leagueTeams[l] \cup {maxTeamID}
    BY <1>1, NewTeam
  <2> QED
    BY <1>1, <2>1, <2>2, NewTeam, TeamsFinite, FS_AddElement
<1>2. ASSUME NEW u \in Users, NEW name \in TeamNames, NEW size \in LeagueSizes,
             CreateLeague(u, name, size)
      PROVE  LeagueNotOverfull'
  <2>1. /\ maxLeagueID \in LeagueIDs
        /\ maxLeagueID \notin Leagues
        /\ Leagues' = Leagues \cup {maxLeagueID}
    <3>1. maxLeagueID \in LeagueIDs /\ maxLeagueID \in Int /\ maxLeagueID >= 0
      BY <1>2, NextIDs DEF CreateLeague, TypeOK
    <3> QED
      BY <1>2, <3>1 DEF CreateLeague, Leagues
  <2>2. CreateTeam(u, name, maxLeagueID)
    BY <1>2 DEF CreateLeague
  <2>3. leagueTeams[maxLeagueID] = {}
    BY <2>1 DEF LeagueShape
  <2>4. Cardinality(leagueTeams'[maxLeagueID]) = 1
    <3>1. Cardinality(leagueTeams'[maxLeagueID])
            = Cardinality(leagueTeams[maxLeagueID]) + 1
      BY <1>1, <2>1, <2>2
    <3>2. Cardinality(leagueTeams[maxLeagueID]) = 0
      BY <2>3, FS_EmptySet
    <3> QED
      BY <3>1, <3>2
  <2>5. ASSUME NEW l \in Leagues', maxSize'[l] >= 1
        PROVE  Cardinality(leagueTeams'[l]) <= maxSize'[l]
    <3>1. CASE l = maxLeagueID
      <4>1. maxSize'[l] \in Int
        BY <1>2, <2>1, <3>1, SizeAssumption DEF CreateLeague, TypeOK
      <4> QED
        BY <2>4, <2>5, <3>1, <4>1
    <3>2. CASE l \in Leagues
      <4>1. l \in LeagueIDs \ {maxLeagueID}
        BY <2>1, <3>2, LeaguesAndTeams
      <4>2. maxSize'[l] = maxSize[l] /\ leagueTeams'[l] = leagueTeams[l]
        BY <1>1, <1>2, <2>1, <2>2, <4>1 DEF CreateLeague, TypeOK
      <4> QED
        BY <2>5, <3>2, <4>2 DEF LeagueNotOverfull
    <3> QED
      BY <2>1, <2>5, <3>1, <3>2
  <2> QED
    BY <2>5 DEF LeagueNotOverfull
<1>3. ASSUME NEW u \in Users, NEW l \in Leagues, NEW name \in TeamNames,
             JoinLeague(u, l, name)
      PROVE  LeagueNotOverfull'
  <2>1. /\ CreateTeam(u, name, l)
        /\ l \in LeagueIDs
        /\ Leagues' = Leagues
        /\ maxSize' = maxSize
        /\ Cardinality(leagueTeams[l]) # maxSize[l]
    BY <1>3, LeaguesAndTeams DEF JoinLeague, HasRoom, Leagues
  <2>2. ASSUME NEW k \in Leagues, maxSize[k] >= 1
        PROVE  Cardinality(leagueTeams'[k]) <= maxSize[k]
    <3>1. k \in LeagueIDs /\ maxSize[k] \in Int
      <4>1. k \in LeagueIDs
        BY LeaguesAndTeams
      <4>2. maxSize[k] \in LeagueSizes \cup {NoID}
        BY <4>1 DEF TypeOK
      <4>3. CASE maxSize[k] \in LeagueSizes
        BY <4>1, <4>3, SizeAssumption
      <4>4. CASE maxSize[k] = NoID
        BY <4>1, <4>4 DEF NoID
      <4> QED
        BY <4>1, <4>2, <4>3, <4>4
    <3>2. Cardinality(leagueTeams[k]) <= maxSize[k]
      BY <2>2 DEF LeagueNotOverfull
    <3> QED
      BY <1>1, <2>1, <3>1, <3>2
  <2> QED
    BY <2>1, <2>2 DEF LeagueNotOverfull
<1>4. ASSUME UNCHANGED <<maxLeagueID, maxSize, leagueTeams>>
      PROVE  LeagueNotOverfull'
  BY <1>4 DEF LeagueNotOverfull, Leagues
<1>5. ASSUME NEW u \in Users, NEW from \in Teams, NEW to \in TeamIDs,
             NEW offered \in PlayerIDs, NEW requested \in PlayerIDs,
             RequestTrade(u, from, to, offered, requested)
      PROVE  LeagueNotOverfull'
  BY <1>4, <1>5 DEF RequestTrade, SwapCrashes
<1>6. ASSUME NEW u \in Users, NEW trade \in trades,
             NEW offered \in PlayerIDs, NEW requested \in PlayerIDs,
             NegotiateTrade(u, trade, offered, requested)
      PROVE  LeagueNotOverfull'
  BY <1>4, <1>6 DEF NegotiateTrade, SwapCrashes
<1>7. CASE \/ \E l \in Leagues : \/ DraftDone(l)
                              \/ \E draft \in DraftIDs : ChoosePlayer(l, draft)
           \/ \E u \in Users, trade \in trades :
                RemoveTrade(u, trade) \/ TradeAccept(u, trade)
           \/ \E u \in Users : FinishNegotiate(u)
           \/ ExpireTrades
  BY <1>4, <1>7
  DEF DraftDone, ChoosePlayer, RemoveTrade, TradeAccept, FinishNegotiate,
      ExpireTrades
<1>8. CASE UNCHANGED vars
  BY <1>4, <1>8 DEF vars
<1> QED
  BY <1>2, <1>3, <1>5, <1>6, <1>7, <1>8 DEF Next

\* joinLeague's test that the size is not reached is enough: the teams come one
\* at a time, so a league of at least one team is never overfull.
THEOREM CapacityRespected == Spec => []LeagueNotOverfull
<1>1. Init => LeagueNotOverfull
  BY DEF Init, LeagueNotOverfull, Leagues
<1> QED
  BY <1>1, CapacityStep, InvariantHolds, PTL DEF Spec

=============================================================================
