\* Two requests; files and replies that are empty, fill a buffer, or need two.
SPECIFICATION FairSpec
CONSTANTS
  Loops = 2
  BufSize = 2
  FileSizes = {0, 2, 3}
  OutSizes = {0, 1, 3}
  Timeout = 2
INVARIANTS
  TypeOK
  WholeOnly
  DownOnlyAfterTimeout
  PatienceIsSpent
PROPERTIES
  EveryRequestEnds
  ClientEndsInTime
\* The client ends, or the server waits for bytes that never come.
CHECK_DEADLOCK FALSE
