\* Two workers, two descriptors for three connections; with and without failures.
SPECIFICATION FairSpec
CONSTANTS
  QUEUE_SIZE = 3
  Items <- QueuedItems
  NoItem = 0
  Threads = {w1, w2}
  Main = Main
  Conns = {1, 2, 3}
  NoConn = NoConn
  Nobody = Nobody
  Fds = {4, 5}
  MaxAccepts = 4
  Return = "idle"
INVARIANTS
  PoolAgrees
  OneOwner
  Isolated
PROPERTIES
  ImplementsService
  
\* All connections are served in the end.
CHECK_DEADLOCK FALSE
