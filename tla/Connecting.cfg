\* Two clients, over each of the four transports.
SPECIFICATION FairSpec
CONSTANTS
  NClients = 2
  Transports = {"fifo", "msgqueue", "socket", "shmem"}
  Chunk = 1
INVARIANTS NoSharedChannel IDsInBounds
PROPERTY EveryoneConnects
CHECK_DEADLOCK FALSE
