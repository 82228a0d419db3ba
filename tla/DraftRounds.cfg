\* A user may quit and come back, with a pipe that blocks, one client may stop
\* reading, and late users are asked again.
SPECIFICATION FairSpec
CONSTANTS
  NTeams = 2
  MAX_PLAYERS = 2
  Rounds = 1
  Polls = 2
  MaxJoins = 3
  MaxPrompts = 2
  Silent = {1}
INVARIANTS RandomPickExists PicksAreGone
PROPERTIES DraftFollowsBoard PicksEnd
CHECK_DEADLOCK FALSE
