\* An upload during grading.
SPECIFICATION WSpec
CONSTANTS
  QUEUE_SIZE = 3
  Items = {t1, t2}
  NoItem = NoItem
  Workers = {w1, w2}
  Main = Main
  NoThread = NoThread
  MaxQueries = 0
  Home = Home
  Verdicts = {"correct", "wrong", "nocompile", "crash"}
INVARIANTS
  AnswerIsVerdict
\* The process may end, or main may be stuck: the system really stops.
CHECK_DEADLOCK FALSE
