\* One status query of a queued ticket.
SPECIFICATION FairSpec
CONSTANTS
  QUEUE_SIZE = 3
  Items = {t1, t2, t3}
  NoItem = NoItem
  Workers = {w1, w2}
  Main = Main
  NoThread = NoThread
  MaxQueries = 1
PROPERTIES
  EveryTicketGraded
\* know_position may keep the mutex for ever: the system really stops.
CHECK_DEADLOCK FALSE
