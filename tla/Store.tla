-------------------------------- MODULE Store -------------------------------
(***************************************************************************)
(* The database on disk (dbms.c): four files that saveThread and shutDown  *)
(* write anew under saveMutex, and that load reads when the server starts. *)
(* Composed with Season, whose state is lost when the process ends.        *)
(*                                                                         *)
(* A file is what its records say, and nothing while it is not there.  It  *)
(* is empty from its fopen to its fclose, as what save writes fits the     *)
(* buffer of the stream, but for Leagues: save moves in that file, and     *)
(* every fseek writes what the buffer holds.                               *)
(***************************************************************************)
EXTENDS Season

CONSTANT Faults  \* what may go wrong besides a crash between two saves

ASSUME FaultAssumption == Faults \subseteq {"tornSave", "freedSave"}

Files == {"Teams", "Trades", "Users", "Leagues"}

\* The orders in which save removes, opens and closes them; between the last
\* two it writes Leagues.
RemoveOrder == <<"Teams", "Users", "Trades", "Leagues">>
OpenOrder   == <<"Teams", "Trades", "Users", "Leagues">>

CloseOrder  == <<"Teams", "Trades", "Users", "Leagues">>

VARIABLES
  there,    \* the files that exist
  disk,     \* what they hold
  step,     \* the next step of save, 0 when nobody is in it
  leaving,  \* shutDown: "no", "saving", or "freed" once it has freed the data
  saved,    \* history: the data at the end of the last save or load
  torn      \* history: the files are what an unfinished save left

storeVars == <<there, disk, step, leaving, saved, torn>>
memoryVars == <<vars, seasonVars>>

\* What a restart brings back: of the scores, those of players with a team.
Kept == [l \in LeagueIDs |-> [p \in PlayerIDs |->
           IF \E t \in leagueTeams[l] : p \in players[t] THEN score[l][p] ELSE 0]]

Data == [maxSize |-> maxSize, leagueTeams |-> leagueTeams,
         nonDrafted |-> nonDrafted, teamName |-> teamName,
         leagueID |-> leagueID, players |-> players, userTeams |-> userTeams,
         trades |-> trades, sentTrades |-> sentTrades,
         incomingTrades |-> incomingTrades, points |-> points,
         score |-> Kept]

Nothing == [f \in Files |-> IF f = "Trades" THEN {} ELSE << >>]

StoreInit ==
  /\ SeasonInit
  /\ there = Files
  /\ disk = Nothing
  /\ step = 0
  /\ leaving = "no"
  /\ saved = Data
  /\ torn = FALSE

-----------------------------------------------------------------------------
(* save                                                                    *)

\* What save writes.  The teams, and the trades in their incomingTrades, are
\* found through the leagues.
SavedTeams == UNION {leagueTeams[l] : l \in Leagues}

Written ==
  [f \in Files |->
     CASE f = "Users" -> userTeams
       [] f = "Leagues" -> [l \in Leagues |-> [size |-> maxSize[l], score |-> score[l]]]
       [] f = "Teams" -> [t \in SavedTeams |->
                            [name |-> teamName[t], league |-> leagueID[t],
                             points |-> points[t], players |-> players[t]]]
       [] f = "Trades" -> UNION {{[trade EXCEPT !.teamTo = t] : trade \in incomingTrades[t]}
                                   : t \in SavedTeams}]

\* saveThread gets the mutex.
StartSave ==
  /\ up /\ step = 0 /\ leaving = "no"
  /\ step' = 1
  /\ UNCHANGED <<memoryVars, there, disk, leaving, saved, torn>>

RemoveFile ==
  /\ up /\ step \in 1 .. 4
  /\ there' = there \ {RemoveOrder[step]}
  /\ disk' = [disk EXCEPT ![RemoveOrder[step]] = Nothing[RemoveOrder[step]]]
  /\ step' = step + 1
  /\ UNCHANGED <<memoryVars, leaving, saved, torn>>

OpenFile ==
  /\ up /\ step \in 5 .. 8
  /\ there' = there \cup {OpenOrder[step - 4]}
  /\ step' = step + 1
  /\ UNCHANGED <<memoryVars, disk, leaving, saved, torn>>

\* The leagues reach their file one after the other.  A record that is only
\* half there is read as a whole one is: with no team, it names no league.
WriteLeagues ==
  /\ up /\ step = 9 /\ leaving # "freed"
  /\ \E written \in SUBSET Leagues :
       /\ DOMAIN disk["Leagues"] \subseteq written
       /\ disk' = [disk EXCEPT !["Leagues"] = [l \in written |-> Written["Leagues"][l]]]
       /\ step' = IF written = Leagues THEN 10 ELSE 9
  /\ UNCHANGED <<memoryVars, there, leaving, saved, torn>>

\* The last fclose ends the save; shutDown frees the data next.
CloseFile ==
  LET f == CloseOrder[step - 9]
  IN  /\ up /\ step \in 10 .. 13 /\ leaving # "freed"
      /\ disk' = [disk EXCEPT ![f] = Written[f]]
      /\ \/ step < 13 /\ step' = step + 1 /\ UNCHANGED <<leaving, saved, torn>>
         \/ /\ step = 13
            /\ step' = 0
            /\ saved' = Data
            /\ torn' = FALSE
            /\ leaving' = IF leaving = "saving" THEN "freed" ELSE leaving
      /\ UNCHANGED <<memoryVars, there>>

-----------------------------------------------------------------------------
(* How the process ends.                                                   *)

\* SIGINT or SIGTSTP: shutDown gets the mutex and saves.
ShutDown ==
  /\ up /\ step = 0 /\ leaving = "no"
  /\ leaving' = "saving"
  /\ step' = 1
  /\ UNCHANGED <<memoryVars, there, disk, saved, torn>>

\* shutDown has unlocked the mutex and not called exit yet: saveThread gets it
\* and begins to save what was freed.  It gets no further than the files: the
\* lists it reads next are gone.
SaveFreed ==
  /\ up /\ step = 0 /\ leaving = "freed"
  /\ "freedSave" \in Faults
  /\ step' = 1
  /\ UNCHANGED <<memoryVars, there, disk, leaving, saved, torn>>

Die ==
  /\ up' = FALSE
  /\ step' = 0
  /\ leaving' = "no"
  /\ torn' = (torn \/ step # 0)
  /\ UNCHANGED <<idVars, leagueVars, teamVars, rosterVars, tradeVars,
                 draftVars, pendingRemoval, seasonVars, there, disk, saved>>

Exit == up /\ leaving = "freed" /\ Die

\* The process is killed, or crashes, outside the handlers of League.
Kill ==
  /\ up /\ leaving # "freed"
  /\ step = 0 \/ "tornSave" \in Faults
  /\ Die

-----------------------------------------------------------------------------
(* load                                                                    *)

\* Mutant: a league that no team names is passed over.
LoadSucceeds_AnyLeague ==
  /\ there \in {{}, Files}
  /\ \A trade \in disk["Trades"] :
       {trade.teamFrom, trade.teamTo} \subseteq DOMAIN disk["Teams"]

\* load starts with nothing when no file is there, gives up when some are
\* missing or a league has no team, and crashes on a trade without its teams.
LoadSucceeds ==
  /\ there \in {{}, Files}
  /\ \A trade \in disk["Trades"] :
       {trade.teamFrom, trade.teamTo} \subseteq DOMAIN disk["Teams"]
  /\ DOMAIN disk["Leagues"]
       \subseteq {disk["Teams"][t].league : t \in DOMAIN disk["Teams"]}

\* The ID after the greatest one read.
NextAfter(ids) == IF ids = {} THEN 0 ELSE Max(ids) + 1

\* The teams, and the leagues they name with the players they leave undrafted.
LoadTeams(file) ==
  LET read  == {file[t].league : t \in DOMAIN file}
      Of(l) == {t \in DOMAIN file : file[t].league = l}
  IN  /\ maxTeamID' = NextAfter(DOMAIN file)
      /\ maxLeagueID' = NextAfter(read)
      /\ teamName' = [t \in TeamIDs |-> IF t \in DOMAIN file THEN file[t].name ELSE NoName]
      /\ leagueID' = [t \in TeamIDs |-> IF t \in DOMAIN file THEN file[t].league ELSE NoID]
      /\ points' = [t \in TeamIDs |-> IF t \in DOMAIN file THEN file[t].points ELSE 0]
      /\ players' = [t \in TeamIDs |-> IF t \in DOMAIN file THEN file[t].players ELSE {}]
      /\ leagueTeams' = [l \in LeagueIDs |-> Of(l)]
      /\ nonDrafted' = [l \in LeagueIDs |->
           IF l \in read THEN PlayerIDs \ UNION {file[t].players : t \in Of(l)} ELSE {}]

\* Mutant: the two teams of a trade are read in the wrong order.
LoadTrades_Swapped(file) ==
  /\ maxTradeID' = NextAfter({trade.tradeID : trade \in file})
  /\ trades' = file
  /\ sentTrades' = [t \in TeamIDs |-> {trade \in file : trade.teamTo = t}]
  /\ incomingTrades' = [t \in TeamIDs |-> {trade \in file : trade.teamFrom = t}]

LoadTrades(file) ==
  /\ maxTradeID' = NextAfter({trade.tradeID : trade \in file})
  /\ trades' = file
  /\ sentTrades' = [t \in TeamIDs |-> {trade \in file : trade.teamFrom = t}]
  /\ incomingTrades' = [t \in TeamIDs |-> {trade \in file : trade.teamTo = t}]

\* The sizes and the scores of the players that have a team.  The size of a
\* league the file does not name is whatever malloc left there.
LoadLeagues(file) ==
  /\ \E garbage \in LeagueSizes \cup {NoID} :
       maxSize' = [l \in LeagueIDs |->
         IF l \in DOMAIN file THEN file[l].size
         ELSE IF l < maxLeagueID' THEN garbage ELSE NoID]
  /\ score' = [l \in LeagueIDs |-> [p \in PlayerIDs |->
       IF l \in DOMAIN file /\ \E t \in leagueTeams'[l] : p \in players'[t]
         THEN file[l].score[p] ELSE 0]]

\* A user the file does not name is no longer registered.
LoadUsers(file) ==
  userTeams' = [u \in Users |-> IF u \in DOMAIN file THEN file[u] ELSE {}]

\* main calls load; drafts and half-done negotiations are gone.
Restart ==
  /\ ~ up
  /\ LoadSucceeds
  /\ up' = TRUE
  /\ there' = Files
  /\ LoadTeams(disk["Teams"])
  /\ LoadTrades(disk["Trades"])
  /\ LoadLeagues(disk["Leagues"])
  /\ LoadUsers(disk["Users"])
  /\ picks' = [l \in LeagueIDs |-> {}]
  /\ handOvers' = [l \in LeagueIDs |-> 0]
  /\ pendingRemoval' = [u \in Users |-> NoID]
  /\ saved' = Data'
  /\ UNCHANGED <<matchesPlayed, disk, step, leaving, torn>>

-----------------------------------------------------------------------------
\* The handlers and the matches use the data while nobody saves it.
Play == step = 0 /\ leaving = "no" /\ SeasonNext /\ UNCHANGED storeVars

StoreNext ==
  \/ Play
  \/ StartSave \/ RemoveFile \/ OpenFile \/ WriteLeagues \/ CloseFile
  \/ ShutDown \/ SaveFreed \/ Exit \/ Kill
  \/ Restart

StoreSpec == StoreInit /\ [][StoreNext]_<<memoryVars, storeVars>>

-----------------------------------------------------------------------------
(* Properties.                                                             *)

\* A server whose last save ended comes back with the data of its last
\* save: every league, roster, trade, owner, point and score of a player with a
\* team, though load rebuilds the undrafted players and the leagues from the
\* teams alone.
RestartRestores == [][Restart /\ ~ torn => Data' = saved]_<<memoryVars, storeVars>>

\* Whatever moment of a save the server dies at, if it comes back it is with
\* the teams of the last save or with those of the save it died in, never with
\* some of them.  It comes back with none only from files that save had emptied
\* and written nothing to; once a league is written, and until the teams are, it
\* does not come back at all.
RestartIsWhole ==
  [][Restart => \/ leagueTeams' = saved.leagueTeams /\ players' = saved.players
                \/ leagueTeams' = leagueTeams /\ players' = players
                \/ torn /\ disk = Nothing
    ]_<<memoryVars, storeVars>>

\* ... and the data it comes back with agrees: no player is lost or in two
\* places, the trades are in the map and in both lists, and no user is given a
\* team that is not there (load would list it as NULL).
LoadedAgrees ==
  /\ RosterPartition
  /\ TradesIndexed
  /\ up => \A u \in Users : userTeams[u] \subseteq Teams

=============================================================================
