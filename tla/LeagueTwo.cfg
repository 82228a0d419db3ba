\* Two leagues, of one team and of two, three users, two trades and two matches.
SPECIFICATION SeasonSpec
CONSTANTS
  Users = {u1, u2, u3}
  TeamNames = {n1, n2}
  NoName = NoName
  PlayerIDs = {p0, p1}
  p0 = p0
  p1 = p1
  Rounds = 1
  LeagueSizes = {1, 2}
  MaxLeagues = 2
  MaxTeams = 3
  MaxTrades = 2
  MaxDrafts = 1
  MatchFiles <- OneMatch
  MaxMatches = 2
SYMMETRY Symmetry
INVARIANTS TeamOwnership TradesIndexed LeagueNotOverfull PointsMatchScores
CHECK_DEADLOCK FALSE
