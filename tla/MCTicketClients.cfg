\* Three clients, one of which may be killed.
SPECIFICATION FairSpec
CONSTANTS
  Clients = {c1, c2, c3}
  NoClient = NoClient
  MaxFiles = 2
  MaxLeaves = 1
INVARIANTS
  TypeOK
  ToldIsFound
  
  

  
\* main may stop serving for ever, and clients may all be done.
CHECK_DEADLOCK FALSE
