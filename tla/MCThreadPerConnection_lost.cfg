\* A descriptor for each connection.
SPECIFICATION FairSpec
CONSTANTS
  Threads = {1, 2, 3}
  Conns = {1, 2, 3}
  NoConn = NoConn
  Nobody = Nobody
  Fds = {4, 5, 6}
  MaxAccepts = 3
  Return = "end"
PROPERTIES
  EveryClientAnswered
\* Threads end, and wait for ever if they have lost their connection.
CHECK_DEADLOCK FALSE
