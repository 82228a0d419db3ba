------------------------------- MODULE Season -------------------------------
(***************************************************************************)
(* The points of a season: League together with the scores the players of  *)
(* every league have earned (each league has copies of its own, made by    *)
(* arrayToList when it is created) and the points of the teams.  playMatch *)
(* adds the scores of one match file to both.                              *)
(***************************************************************************)
EXTENDS League, FiniteSetsExt

CONSTANTS
  MatchFiles,  \* the five lines of a match file: player -> score
  MaxMatches   \* bound: matches played

ASSUME MatchAssumption == /\ MatchFiles \subseteq [PlayerIDs -> Int]
                          /\ MaxMatches \in Nat
ASSUME PlayerAssumption == IsFiniteSet(PlayerIDs)

VARIABLES
  score,         \* league -> player -> Player.score
  points,        \* team -> Team.points
  matchesPlayed  \* match files renamed after playMatch

seasonVars == <<score, points, matchesPlayed>>

\* What playMatch adds up, line by line of the file.
Sum(f, S) == MapThenSumSet(LAMBDA x : f[x], S)

SeasonInit ==
  /\ Init
  /\ score = [l \in LeagueIDs |-> [p \in PlayerIDs |-> 0]]
  /\ points = [t \in TeamIDs |-> 0]
  /\ matchesPlayed = 0

\* Mutant: undrafted players score too.
PlayMatch_EverybodyScores(file) ==
  /\ up
  /\ matchesPlayed < MaxMatches
  /\ matchesPlayed' = matchesPlayed + 1
  /\ score' = [l \in LeagueIDs |-> [p \in PlayerIDs |-> score[l][p] + file[p]]]
  /\ points' = [t \in TeamIDs |-> points[t] + Sum(file, players[t])]
  /\ UNCHANGED vars

\* Only players of a team score; the file's scores go to the player and, summed
\* over its players, to the team.
PlayMatch(file) ==
  /\ up
  /\ matchesPlayed < MaxMatches
  /\ matchesPlayed' = matchesPlayed + 1
  /\ score' = [l \in LeagueIDs |-> [p \in PlayerIDs |->
                 IF \E t \in leagueTeams[l] : p \in players[t]
                   THEN score[l][p] + file[p] ELSE score[l][p]]]
  /\ points' = [t \in TeamIDs |-> points[t] + Sum(file, players[t])]
  /\ UNCHANGED vars

SeasonNext ==
  \/ Next /\ UNCHANGED seasonVars
  \/ \E file \in MatchFiles : PlayMatch(file)

SeasonSpec == SeasonInit /\ [][SeasonNext]_<<vars, seasonVars>>

-----------------------------------------------------------------------------
\* No point is lost or counted twice: the points of a league's teams are the
\* scores of its players, wherever drafts, swaps and trades took the players
\* between the matches.
PointsMatchScores ==
  \A l \in Leagues :
    Sum(points, leagueTeams[l]) = Sum(score[l], PlayerIDs)

=============================================================================
