\* Three tickets in a ring of three slots, and one end of the process.
SPECIFICATION FairSpec
CONSTANTS
  QUEUE_SIZE = 3
  Items <- Tickets
  NoItem = 0
  MaxStops = 1
INVARIANTS
  SnapTypeOK
  SaveKeepsAllButNewest
  RestoredIsKnown
  WaitingIsQueued
PROPERTIES
  EventuallySaved
CHECK_DEADLOCK FALSE
