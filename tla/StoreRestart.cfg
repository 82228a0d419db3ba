\* The server is killed at any moment, also in a save, or is shut down.
SPECIFICATION StoreSpec
CONSTANTS
  Users = {u1, u2}
  TeamNames = {n1, n2}
  NoName = NoName
  PlayerIDs = {p0, p1, p2}
  Rounds = 1
  LeagueSizes = {2}
  MaxLeagues = 1
  MaxTeams = 2
  MaxTrades = 1
  MaxDrafts = 1
  MatchFiles <- ScoringMatch
  MaxMatches = 1
  Faults = {"tornSave", "freedSave"}
SYMMETRY Symmetry
INVARIANT LoadedAgrees
PROPERTIES RestartRestores RestartIsWhole
CHECK_DEADLOCK FALSE
