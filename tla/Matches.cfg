\* Two files and two leagues; the server ends once, at any point.
SPECIFICATION FairSpec
CONSTANTS
  Files = {m1, m2}
  Leagues = {l1, l2}
  NoFile = NoFile
  MaxEnds = 1
INVARIANTS CountedOnce HiddenHasCounted
PROPERTY EveryFileIsHidden
CHECK_DEADLOCK FALSE
