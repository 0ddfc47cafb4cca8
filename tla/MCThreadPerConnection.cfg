\* Three threads, two descriptors for three connections; with and without failures.
SPECIFICATION FairSpec
CONSTANTS
  Threads = {1, 2, 3}
  Conns = {1, 2, 3}
  NoConn = NoConn
  Nobody = Nobody
  Fds = {4, 5}
  MaxAccepts = 3
  Return = "end"
INVARIANTS
  TypeOK
  
  
PROPERTIES
  ReceivedIsAnswered
\* Threads end, and wait for ever if they have lost their connection.
CHECK_DEADLOCK FALSE
