\* A user asked to choose who is late and comes back with a pipe that blocks.
SPECIFICATION FairSpec
CONSTANTS
  NTeams = 2
  MAX_PLAYERS = 3
  Rounds = 1
  Polls = 2
  MaxJoins = 3
  MaxPrompts = 1
  Silent = {}
PROPERTY TurnEnds
CHECK_DEADLOCK FALSE
