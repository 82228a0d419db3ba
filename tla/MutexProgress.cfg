\* Every kind of call.  No deadlock check: a leaked mutex stops the server.
SPECIFICATION FairSpec
CONSTANTS
  Threads = {t1, t2, t3}
  Ops = {"plain", "signUp", "swap"}
INVARIANTS LockIsOwed ExclusionUnlessReopened
PROPERTY LockProgress
CHECK_DEADLOCK FALSE
