\* A league whose draft hands over twice; without symmetry, for liveness.
SPECIFICATION FairSpec
CONSTANTS
  Users = {u1, u2}
  TeamNames = {n1, n2}
  NoName = NoName
  PlayerIDs = {p0, p1, p2}
  Rounds = 1
  LeagueSizes = {2}
  MaxLeagues = 1
  MaxTeams = 2
  MaxTrades = 1
  MaxDrafts = 2
INVARIANTS RosterPartition RosterBounded
PROPERTIES MarketRefinement EveryTradeEnds DraftIsApplied NegotiatedTradeEnds
CHECK_DEADLOCK FALSE
