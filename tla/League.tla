------------------------------- MODULE League -------------------------------
(***************************************************************************)
(* The game data the server keeps in memory (server.c): the leagues with   *)
(* their teams and undrafted players, the players of every team, and the   *)
(* pending trades with the two lists that index them.  Every handler that  *)
(* changes them is one action.  A call the code answers with -1 leaves the *)
(* data alone, so it is the action being disabled.                         *)
(*                                                                         *)
(* A handler runs under saveMutex and is one atomic step, except where the *)
(* code itself gives the mutex back half-way: the free-agent branch of     *)
(* requestTradeAux (server.c:198).  What follows it in negotiateTrade is a *)
(* step of its own here; the mutex is the subject of SaveMutex.            *)
(*                                                                         *)
(* IDs stay below the TABLE_ENTRIES of a HashMap, where a HashMap is a     *)
(* function of the ID (HashMapADT models what happens beyond).  A list is  *)
(* the set of its elements: no handler below depends on their order.       *)
(***************************************************************************)
EXTENDS Integers, Sequences, FiniteSets

CONSTANTS
  Users,        \* registered, logged-in users: one server thread serves each
  TeamNames,    \* the names users give their teams
  NoName,       \* the name of a team that does not exist yet
  PlayerIDs,    \* players[0 .. MAX_PLAYERS-1]
  Rounds,       \* picks per team in a draft, 2 in the code
  LeagueSizes,  \* the values of maxSize a user may ask for
  MaxLeagues, MaxTeams, MaxTrades,  \* bounds: how many of each are ever created
  MaxDrafts     \* bound: how many drafts of one league hand over

ASSUME NameAssumption  == NoName \notin TeamNames
ASSUME SizeAssumption  == LeagueSizes \subseteq Int
ASSUME RoundAssumption == Rounds \in Nat
ASSUME BoundAssumption == /\ MaxLeagues \in Nat
                          /\ MaxTeams \in Nat
                          /\ MaxTrades \in Nat
                          /\ MaxDrafts \in Nat

NoID == -1

LeagueIDs == 0 .. (MaxLeagues - 1)
TeamIDs   == 0 .. (MaxTeams - 1)
TradeIDs  == 0 .. (MaxTrades - 1)

Trade == [tradeID : TradeIDs, teamFrom : TeamIDs, teamTo : TeamIDs,
          incomingPlayerID : PlayerIDs, wantedPlayerID : PlayerIDs]

DraftIDs  == 1 .. MaxDrafts

\* A call choosePlayer(player, team) that a draft thread makes as its turn-th;
\* NoID stands for any number that is no player's.
Pick == [draft : DraftIDs, turn : Nat, player : PlayerIDs \cup {NoID}, team : TeamIDs]

VARIABLES
  maxLeagueID, maxTeamID, maxTradeID,  \* the next ID of each kind
  maxSize,         \* league -> number of teams it was created for
  leagueTeams,     \* league -> its teams (League.teams)
  nonDrafted,      \* league -> players of no team (nonDraftedPlayers)
  teamName,        \* team -> name
  leagueID,        \* team -> its league
  players,         \* team -> its players
  userTeams,       \* user -> teams (User.teams)
  trades,          \* the trades map
  sentTrades,      \* team -> trades it proposed
  incomingTrades,  \* team -> trades proposed to it
  picks,           \* league -> choosePlayer calls its drafts have still to make
  handOvers,       \* history: league -> how many drafts have begun those calls
  pendingRemoval,  \* user -> trade its negotiateTrade will still remove
  up               \* FALSE once the server process has crashed

idVars     == <<maxLeagueID, maxTeamID, maxTradeID>>
leagueVars == <<maxSize, leagueTeams>>
teamVars   == <<teamName, leagueID, userTeams>>
rosterVars == <<nonDrafted, players>>
tradeVars  == <<trades, sentTrades, incomingTrades>>
draftVars  == <<picks, handOvers>>
vars == <<idVars, leagueVars, teamVars, rosterVars, tradeVars,
          draftVars, pendingRemoval, up>>

Leagues == 0 .. (maxLeagueID - 1)
Teams   == 0 .. (maxTeamID - 1)

TypeOK ==
  /\ maxLeagueID \in 0 .. MaxLeagues
  /\ maxTeamID \in 0 .. MaxTeams
  /\ maxTradeID \in 0 .. MaxTrades
  /\ maxSize \in [LeagueIDs -> LeagueSizes \cup {NoID}]
  /\ leagueTeams \in [LeagueIDs -> SUBSET TeamIDs]
  /\ nonDrafted \in [LeagueIDs -> SUBSET PlayerIDs]
  /\ teamName \in [TeamIDs -> TeamNames \cup {NoName}]
  /\ leagueID \in [TeamIDs -> LeagueIDs \cup {NoID}]
  /\ players \in [TeamIDs -> SUBSET PlayerIDs]
  /\ userTeams \in [Users -> SUBSET TeamIDs]
  /\ trades \in SUBSET Trade
  /\ sentTrades \in [TeamIDs -> SUBSET Trade]
  /\ incomingTrades \in [TeamIDs -> SUBSET Trade]
  /\ picks \in [LeagueIDs -> SUBSET Pick]
  /\ handOvers \in [LeagueIDs -> 0 .. MaxDrafts]
  /\ pendingRemoval \in [Users -> TradeIDs \cup {NoID}]
  /\ up \in BOOLEAN

Init ==
  /\ maxLeagueID = 0 /\ maxTeamID = 0 /\ maxTradeID = 0
  /\ maxSize = [l \in LeagueIDs |-> NoID]
  /\ leagueTeams = [l \in LeagueIDs |-> {}]
  /\ nonDrafted = [l \in LeagueIDs |-> {}]
  /\ teamName = [t \in TeamIDs |-> NoName]
  /\ leagueID = [t \in TeamIDs |-> NoID]
  /\ players = [t \in TeamIDs |-> {}]
  /\ userTeams = [u \in Users |-> {}]
  /\ trades = {}
  /\ sentTrades = [t \in TeamIDs |-> {}]
  /\ incomingTrades = [t \in TeamIDs |-> {}]
  /\ picks = [l \in LeagueIDs |-> {}]
  /\ handOvers = [l \in LeagueIDs |-> 0]
  /\ pendingRemoval = [u \in Users |-> NoID]
  /\ up = TRUE

-----------------------------------------------------------------------------
(* Helpers of the handlers.                                                *)

\* belongsToList(user->teams, team): the lists compare teams by name.
Belongs(u, team) == \E t \in userTeams[u] : teamName[t] = teamName[team]

\* A user's thread is free for the next request.
Idle(u) == up /\ pendingRemoval[u] = NoID

\* createTeam, the league it is put in and the user it is given to.
CreateTeam(u, name, l) ==
  /\ maxTeamID < MaxTeams
  /\ maxTeamID' = maxTeamID + 1
  /\ teamName' = [teamName EXCEPT ![maxTeamID] = name]
  /\ leagueID' = [leagueID EXCEPT ![maxTeamID] = l]
  /\ userTeams' = [userTeams EXCEPT ![u] = @ \cup {maxTeamID}]
  /\ leagueTeams' = [leagueTeams EXCEPT ![l] = @ \cup {maxTeamID}]

\* The trades in gone leave the map and both lists that name them.
Without(index, gone) == [t \in TeamIDs |-> index[t] \ gone]

\* Mutant: the sender's list is forgotten.
DropTrades_KeepsSent(gone) ==
  /\ trades' = trades \ gone
  /\ sentTrades' = sentTrades
  /\ incomingTrades' = Without(incomingTrades, gone)

DropTrades(gone) ==
  /\ trades' = trades \ gone
  /\ sentTrades' = Without(sentTrades, gone)
  /\ incomingTrades' = Without(incomingTrades, gone)

\* What requestTradeAux asks before it creates a trade: line 204, after the
\* tests that from and to exist and differ and that no free agent is wanted.
FreeAgent(from, requested) == requested \in nonDrafted[leagueID[from]]

MayOffer(u, from, to, offered, requested) ==
  /\ from # to
  /\ ~ FreeAgent(from, requested)
  /\ Belongs(u, from)
  /\ offered \in players[from]
  /\ requested \in players[to]
  /\ leagueID[from] = leagueID[to]

NewTrade(from, to, offered, requested) ==
  [tradeID |-> maxTradeID, teamFrom |-> from, teamTo |-> to,
   incomingPlayerID |-> offered, wantedPlayerID |-> requested]

\* A new trade enters the map and both lists while those in gone leave.
PutTrade(trade, gone) ==
  /\ maxTradeID < MaxTrades
  /\ maxTradeID' = maxTradeID + 1
  /\ trades' = (trades \ gone) \cup {trade}
  /\ sentTrades' = [Without(sentTrades, gone) EXCEPT
                      ![trade.teamFrom] = @ \cup {trade}]
  /\ incomingTrades' = [Without(incomingTrades, gone) EXCEPT
                          ![trade.teamTo] = @ \cup {trade}]

\* Mutant: the offered player is given back and kept.
SwapFreeAgent_KeepsPlayer(from, offered, requested) ==
  /\ FreeAgent(from, requested)
  /\ offered \in players[from]
  /\ players' = [players EXCEPT ![from] = @ \cup {requested}]
  /\ nonDrafted' = [nonDrafted EXCEPT
                      ![leagueID[from]] = (@ \ {requested}) \cup {offered}]

\* The free-agent branch of requestTradeAux: the team's player goes back to
\* the undrafted ones and the requested one joins the team.  Nobody asks
\* whether the user owns the team.
SwapFreeAgent(from, offered, requested) ==
  /\ FreeAgent(from, requested)
  /\ offered \in players[from]
  /\ players' = [players EXCEPT ![from] = (@ \ {offered}) \cup {requested}]
  /\ nonDrafted' = [nonDrafted EXCEPT
                      ![leagueID[from]] = (@ \ {requested}) \cup {offered}]

\* The same branch when the team has no such player: removeFromList returns
\* NULL, NULL enters nonDraftedPlayers, and the comparison of the second
\* removeFromList dereferences it.
SwapCrashes(from, offered, requested) ==
  /\ FreeAgent(from, requested)
  /\ offered \notin players[from]
  /\ up' = FALSE
  /\ UNCHANGED <<idVars, leagueVars, teamVars, rosterVars, tradeVars,
                 draftVars, pendingRemoval>>

-----------------------------------------------------------------------------
(* Leagues and their teams.                                                *)

CreateLeague(u, name, size) ==
  /\ Idle(u)
  /\ maxLeagueID < MaxLeagues
  /\ maxLeagueID' = maxLeagueID + 1
  /\ maxSize' = [maxSize EXCEPT ![maxLeagueID] = size]
  /\ nonDrafted' = [nonDrafted EXCEPT ![maxLeagueID] = PlayerIDs]
  /\ CreateTeam(u, name, maxLeagueID)
  /\ UNCHANGED <<maxTradeID, players, tradeVars, draftVars, pendingRemoval, up>>

\* Mutant: one team too many.
HasRoom_OneMore(l) == Cardinality(leagueTeams[l]) <= maxSize[l]

HasRoom(l) == Cardinality(leagueTeams[l]) # maxSize[l]

\* Mutant: the user's other teams are not looked at.
MayEnter_Twice(u, l, name) == \A t \in leagueTeams[l] : teamName[t] # name

MayEnter(u, l, name) ==
  /\ \A t \in userTeams[u] : leagueID[t] # l
  /\ \A t \in leagueTeams[l] : teamName[t] # name

JoinLeague(u, l, name) ==
  /\ Idle(u)
  /\ HasRoom(l)
  /\ MayEnter(u, l, name)
  /\ CreateTeam(u, name, l)
  /\ UNCHANGED <<maxLeagueID, maxTradeID, maxSize, rosterVars, tradeVars,
                 draftVars, pendingRemoval, up>>

-----------------------------------------------------------------------------
(* The end of a draft: every team of a full league has joined it with no   *)
(* players (joinDraft), Rounds players were picked for each team, none     *)
(* twice (the draft thread's playersAux array) unless the ID was no        *)
(* player's, and the choosePlayer calls that hand them over are about to   *)
(* start.  They are made team after team in the order of the draft's       *)
(* array, which is the order of a list that every save and load turns      *)
(* around, so it is left open.                                             *)
(* joinDraft looks for players once, without a lock: a second draft that   *)
(* began before the first handed over hands over too (DraftJoin).          *)
(* A league too large for the players never gets here: its draft thread    *)
(* leaves the bounds of its arrays (servstub.c:445).                       *)

CallOrders(l) ==
  LET n == Rounds * Cardinality(leagueTeams[l])
  IN  {order \in [1 .. n -> leagueTeams[l]] :
         \A t \in leagueTeams[l] :
           \E k \in 1 .. n :
             {i \in 1 .. n : order[i] = t} = k .. (k + Rounds - 1)}

DraftDone(l) ==
  LET n     == Rounds * Cardinality(leagueTeams[l])
      draft == handOvers[l] + 1
  IN  /\ up
      /\ Cardinality(leagueTeams[l]) = maxSize[l]
      /\ n <= Cardinality(PlayerIDs)
      /\ handOvers[l] > 0 \/ \A t \in leagueTeams[l] : players[t] = {}
      /\ handOvers[l] < MaxDrafts
      /\ handOvers' = [handOvers EXCEPT ![l] = draft]
      /\ \E order \in CallOrders(l), chosen \in [1 .. n -> PlayerIDs \cup {NoID}] :
           /\ \A i, j \in 1 .. n : chosen[i] = chosen[j] => i = j \/ chosen[i] = NoID
           /\ picks' = [picks EXCEPT ![l] = @ \cup
                {[draft |-> draft, turn |-> i, player |-> chosen[i], team |-> order[i]] :
                   i \in 1 .. n}]
      /\ UNCHANGED <<idVars, leagueVars, teamVars, rosterVars, tradeVars,
                     pendingRemoval, up>>

\* The call a draft thread of the league makes next.
IsNext(pick, l, draft) ==
  /\ pick.draft = draft
  /\ \A other \in picks[l] : other.draft = draft => pick.turn <= other.turn

\* The player leaves the undrafted ones for the team.
GivePlayer(p, l, t) ==
  /\ nonDrafted' = [nonDrafted EXCEPT ![l] = @ \ {p}]
  /\ players' = [players EXCEPT ![t] = @ \cup {p}]

\* Mutant: the draft thread stops at a call that fails.
ChoosePlayer_Stops(l, draft) ==
  \E pick \in picks[l] :
    /\ up
    /\ IsNext(pick, l, draft)
    /\ picks' = [picks EXCEPT ![l] = @ \ {pick}]
    /\ pick.player \in nonDrafted[l] /\ GivePlayer(pick.player, l, pick.team)
    /\ UNCHANGED <<idVars, leagueVars, teamVars, tradeVars, handOvers,
                   pendingRemoval, up>>

\* The draft thread ignores the -1 of a player that is no longer undrafted.  For
\* an ID that is no player's a pointer is read outside the array: the list is
\* searched for what it points to, which may be nowhere or a player's number.
ChoosePlayer(l, draft) ==
  \E pick \in picks[l] :
    /\ up
    /\ IsNext(pick, l, draft)
    /\ picks' = [picks EXCEPT ![l] = @ \ {pick}]
    /\ \/ /\ \E p \in nonDrafted[l] :
               pick.player \in {p, NoID} /\ GivePlayer(p, l, pick.team)
          /\ UNCHANGED up
       \/ pick.player \notin nonDrafted[l] /\ UNCHANGED <<rosterVars, up>>
       \/ pick.player = NoID /\ up' = FALSE /\ UNCHANGED rosterVars
    /\ UNCHANGED <<idVars, leagueVars, teamVars, tradeVars, handOvers,
                   pendingRemoval>>

-----------------------------------------------------------------------------
(* Trades.                                                                 *)

RequestTrade(u, from, to, offered, requested) ==
  /\ Idle(u)
  /\ \/ /\ from # to
        /\ SwapFreeAgent(from, offered, requested)
        /\ UNCHANGED <<idVars, leagueVars, teamVars, tradeVars,
                       draftVars, pendingRemoval, up>>
     \/ from # to /\ SwapCrashes(from, offered, requested)
     \/ /\ MayOffer(u, from, to, offered, requested)
        /\ PutTrade(NewTrade(from, to, offered, requested), {})
        /\ UNCHANGED <<maxLeagueID, maxTeamID, leagueVars, teamVars,
                       rosterVars, draftVars, pendingRemoval, up>>

RemoveTrade(u, trade) ==
  /\ Idle(u)
  /\ Belongs(u, trade.teamFrom) \/ Belongs(u, trade.teamTo)
  /\ DropTrades({trade})
  /\ UNCHANGED <<idVars, leagueVars, teamVars, rosterVars,
                 draftVars, pendingRemoval, up>>

\* The receiver of a trade answers it with one of its own.  Whatever becomes
\* of the counter-offer, the trade it answers is removed.
NegotiateTrade(u, trade, offered, requested) ==
  LET from == trade.teamTo
      to   == trade.teamFrom
  IN  /\ Idle(u)
      /\ Belongs(u, from)
      /\ \/ \* a free agent: the mutex is given back before the removal
            /\ SwapFreeAgent(from, offered, requested)
            /\ pendingRemoval' = [pendingRemoval EXCEPT ![u] = trade.tradeID]
            /\ UNCHANGED <<idVars, leagueVars, teamVars, tradeVars, draftVars, up>>
         \/ SwapCrashes(from, offered, requested)
         \/ /\ MayOffer(u, from, to, offered, requested)
            /\ PutTrade(NewTrade(from, to, offered, requested), {trade})
            /\ UNCHANGED <<maxLeagueID, maxTeamID, leagueVars, teamVars,
                           rosterVars, draftVars, pendingRemoval, up>>
         \/ \* the counter-offer was refused
            /\ ~ FreeAgent(from, requested)
            /\ ~ MayOffer(u, from, to, offered, requested)
            /\ DropTrades({trade})
            /\ UNCHANGED <<idVars, leagueVars, teamVars, rosterVars,
                           draftVars, pendingRemoval, up>>

\* Mutant: a trade that is gone already leaves the call unfinished.
FinishNegotiate_NeedsTrade(u) ==
  /\ up
  /\ \E trade \in trades :
       /\ trade.tradeID = pendingRemoval[u]
       /\ DropTrades({trade})
  /\ pendingRemoval' = [pendingRemoval EXCEPT ![u] = NoID]
  /\ UNCHANGED <<idVars, leagueVars, teamVars, rosterVars, draftVars, up>>

\* The removal the free-agent branch left for later, if the trade is there.
FinishNegotiate(u) ==
  /\ up
  /\ pendingRemoval[u] # NoID
  /\ DropTrades({trade \in trades : trade.tradeID = pendingRemoval[u]})
  /\ pendingRemoval' = [pendingRemoval EXCEPT ![u] = NoID]
  /\ UNCHANGED <<idVars, leagueVars, teamVars, rosterVars, draftVars, up>>

\* Mutant: only the proposer's player is looked up.
StillTheirs_OneSided(trade) == trade.incomingPlayerID \in players[trade.teamFrom]

\* Both players are still where they were when the trade was proposed.
StillTheirs(trade) ==
  /\ trade.incomingPlayerID \in players[trade.teamFrom]
  /\ trade.wantedPlayerID \in players[trade.teamTo]

\* The players change teams; the receiving team is the user's own one whose
\* incomingTrades holds the trade.
TradeAccept(u, trade) ==
  LET from == trade.teamFrom
  IN  /\ Idle(u)
      /\ StillTheirs(trade)
      /\ \E mine \in userTeams[u] :
           /\ trade \in incomingTrades[mine]
           /\ players' = [players EXCEPT
                ![mine] = (@ \ {trade.wantedPlayerID})
                             \cup {trade.incomingPlayerID},
                ![from] = (@ \ {trade.incomingPlayerID})
                             \cup {trade.wantedPlayerID}]
      /\ DropTrades({trade})
      /\ UNCHANGED <<idVars, leagueVars, teamVars, nonDrafted,
                     draftVars, pendingRemoval, up>>

\* Mutant: the last trade of a pass is passed over.
ExpireTrades_Before ==
  /\ up
  /\ \E last \in trades :
       DropTrades({trade \in trades : trade.tradeID < last.tradeID})
  /\ UNCHANGED <<idVars, leagueVars, teamVars, rosterVars,
                 draftVars, pendingRemoval, up>>

\* One pass of expiryDateThread: a trade created earlier expires no later.
ExpireTrades ==
  /\ up
  /\ \E last \in trades :
       DropTrades({trade \in trades : trade.tradeID <= last.tradeID})
  /\ UNCHANGED <<idVars, leagueVars, teamVars, rosterVars,
                 draftVars, pendingRemoval, up>>

-----------------------------------------------------------------------------
Next ==
  \/ \E u \in Users, name \in TeamNames, size \in LeagueSizes :
       CreateLeague(u, name, size)
  \/ \E u \in Users, l \in Leagues, name \in TeamNames : JoinLeague(u, l, name)
  \/ \E l \in Leagues : DraftDone(l)
  \/ \E l \in Leagues, draft \in DraftIDs : ChoosePlayer(l, draft)
  \/ \E u \in Users, from \in Teams, to \in TeamIDs,
        offered \in PlayerIDs, requested \in PlayerIDs :
       RequestTrade(u, from, to, offered, requested)
  \/ \E u \in Users, trade \in trades : RemoveTrade(u, trade)
  \/ \E u \in Users, trade \in trades,
        offered \in PlayerIDs, requested \in PlayerIDs :
       NegotiateTrade(u, trade, offered, requested)
  \/ \E u \in Users : FinishNegotiate(u)
  \/ \E u \in Users, trade \in trades : TradeAccept(u, trade)
  \/ ExpireTrades

Spec == Init /\ [][Next]_vars

\* expiryDateThread runs every second; the handler thread that left a trade
\* for later and a draft thread have nothing to wait for but saveMutex.
FairSpec ==
  /\ Spec
  /\ WF_vars(ExpireTrades)
  /\ \A u \in Users : WF_vars(FinishNegotiate(u))
  /\ \A l \in LeagueIDs, draft \in DraftIDs : WF_vars(l \in Leagues /\ ChoosePlayer(l, draft))

-----------------------------------------------------------------------------
(* Properties.                                                             *)

\* The undrafted players and the rosters of a league partition its players.
Partitioned(l) ==
  /\ \A t1, t2 \in leagueTeams[l] :
       t1 # t2 => players[t1] \cap players[t2] = {}
  /\ \A t \in leagueTeams[l] : players[t] \cap nonDrafted[l] = {}
  /\ \A p \in PlayerIDs \ nonDrafted[l] :
       \E t \in leagueTeams[l] : p \in players[t]

\* In every league each player is either undrafted or on exactly one team,
\* whatever drafts, free-agent swaps and stale trades do to it.
RosterPartition == \A l \in Leagues : Partitioned(l)

\* The trades map and the two lists kept in the teams tell the same story, and
\* a trade has an ID of its own and is between two different teams of one
\* league: removeTradeAux, tradeAccept and expiryDateThread each take a trade
\* out of all three.
TradesIndexed ==
  /\ \A t \in TeamIDs :
       /\ sentTrades[t] = {trade \in trades : trade.teamFrom = t}
       /\ incomingTrades[t] = {trade \in trades : trade.teamTo = t}
  /\ \A trade \in trades :
       /\ trade.tradeID < maxTradeID
       /\ trade.teamFrom # trade.teamTo
       /\ \E l \in Leagues : {trade.teamFrom, trade.teamTo} \subseteq leagueTeams[l]
  /\ \A t1, t2 \in trades : t1.tradeID = t2.tradeID => t1 = t2

\* What else the data looks like between two calls; with it the two properties
\* above are inductive.  A league's teams are exactly the teams that name it, a
\* team that does not exist has no players, a draft hands its players to teams
\* of its league and makes each call once.
LeagueShape ==
  /\ \A l \in LeagueIDs : \A t \in leagueTeams[l] : t \in Teams /\ leagueID[t] = l
  /\ \A t \in Teams : leagueID[t] \in Leagues /\ t \in leagueTeams[leagueID[t]]
  /\ \A t \in TeamIDs \ Teams : players[t] = {}
  /\ \A l \in LeagueIDs : /\ IsFiniteSet(picks[l])
                           /\ \A pick \in picks[l] : /\ pick.team \in leagueTeams[l]
                                                      /\ pick.draft <= handOvers[l]

LeagueInvariant == TypeOK /\ LeagueShape /\ TradesIndexed /\ RosterPartition

\* A user has at most one team in a league, every team has one user, and a
\* name finds that team among the user's teams of its league: what
\* belongsToList (it compares names) needs to be right inside a league.
TeamOwnership ==
  \A t \in Teams :
    /\ t \in leagueTeams[leagueID[t]]
    /\ \E u \in Users :
         /\ t \in userTeams[u]
         /\ \A v \in Users \ {u} :
              \A x \in userTeams[v] :
                x # t /\ (leagueID[x] = leagueID[t] => teamName[x] # teamName[t])
         /\ \A x \in userTeams[u] : leagueID[x] = leagueID[t] => x = t

\* A league created for at least one team never has more teams than it was
\* created for, although joinLeague only tests that the size is not reached.
LeagueNotOverfull ==
  \A l \in Leagues :
    maxSize[l] >= 1 => Cardinality(leagueTeams[l]) <= maxSize[l]

\* No team gets more players than the drafts of its league hand it, Rounds from
\* each, however their calls mix: nothing else adds a player to a roster, trades
\* and swaps leave its size alone.
RosterBounded ==
  \A l \in Leagues : \A t \in leagueTeams[l] :
    Cardinality(players[t]) + Cardinality({pick \in picks[l] : pick.team = t})
      <= Rounds * handOvers[l]

\* The one of these teams that has a player, NoID if none has.
HolderIn(these, roster, p) ==
  IF \E t \in these : p \in roster[t]
    THEN CHOOSE t \in these : p \in roster[t]
    ELSE NoID

Holder == [l \in LeagueIDs |->
             [p \in PlayerIDs |-> HolderIn(leagueTeams[l], players, p)]]

M == INSTANCE Market WITH
       MarketLeagues <- LeagueIDs, MarketTeams <- TeamIDs,
       MarketPlayers <- PlayerIDs, Free <- NoID, holder <- Holder

\* The handlers implement the abstract market: a player is picked free or
\* exchanged for one other, never duplicated, dropped or moved alone, also by
\* a trade accepted after other trades moved its players.
MarketRefinement == M!MarketSpec

\* A trade that nobody answers ends all the same: every trade leaves the lists.
EveryTradeEnds ==
  \A id \in TradeIDs :
    (\E trade \in trades : trade.tradeID = id)
      ~> (~ up \/ \A trade \in trades : trade.tradeID # id)

\* Every call of a draft that ended is made, however many swaps and calls of
\* another draft interfere.
DraftIsApplied ==
  \A l \in LeagueIDs : \A draft \in DraftIDs :
    (\E pick \in picks[l] : pick.draft = draft)
      ~> (~ up \/ \A pick \in picks[l] : pick.draft # draft)

\* The trade a free-agent negotiation answers is gone once the call is over,
\* accepted, expired or removed while the mutex was free.
NegotiatedTradeEnds ==
  \A u \in Users : \A id \in TradeIDs :
    pendingRemoval[u] = id
      ~> \/ ~ up
         \/ /\ pendingRemoval[u] # id
            /\ \A trade \in trades : trade.tradeID # id

=============================================================================
