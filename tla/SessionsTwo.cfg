SPECIFICATION FairSpec
CONSTANTS
  NClients = 2
  Users = {u1}
  NoUser = NoUser
INVARIANTS SessionsTypeOK OneSession ConnectedHasClient
PROPERTIES EveryoneIsAnswered SweepsGoOn
CHECK_DEADLOCK FALSE
