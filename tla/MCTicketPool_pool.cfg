\* Two workers, a ring of three slots, four tickets (the ring fills and wraps), a query.
SPECIFICATION PoolSpec
CONSTANTS
  QUEUE_SIZE = 3
  Items = {t1, t2, t3, t4}
  NoItem = NoItem
  Workers = {w1, w2}
  Main = Main
  NoThread = NoThread
  MaxQueries = 1
INVARIANTS
  IInv
  MainSleepsOnlyWhenFull
  PositionTold
PROPERTIES
  ImplementsService
  GradedUnlessAsked
  WorkConserving
\* know_position may keep the mutex for ever: the system really stops.
CHECK_DEADLOCK FALSE
