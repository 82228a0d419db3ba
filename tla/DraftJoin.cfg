\* Two teams, whose users may leave and come back three times between them.
SPECIFICATION FairSpec
CONSTANTS
  NTeams = 2
  MaxJoins = 5
INVARIANTS DraftStartsFull OneDraft
PROPERTY DraftBegins
CHECK_DEADLOCK FALSE
