\* Two workers, three tickets of every kind, uploads during grading, a position query.
SPECIFICATION WSpec
CONSTANTS
  QUEUE_SIZE = 3
  Items = {t1, t2, t3}
  NoItem = NoItem
  Workers = {w1, w2}
  Main = Main
  NoThread = NoThread
  MaxQueries = 1
  Home = Home
  Verdicts = {"correct", "wrong", "nocompile", "crash"}
SYMMETRY Symmetry
INVARIANTS
  WTypeOK
  FilesInPlace
  
  

  
\* The process may end, or main may be stuck: the system really stops.
CHECK_DEADLOCK FALSE
