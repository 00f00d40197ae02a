\* Three events for two ids and the two filters of a descriptor whose number
\* equals an id, so that addresses run out and are reused.
CONSTANTS
  Events = {e1, e2, e3}
  MaxId = 2
  Streams = {1}
  Data = {d1}
  MaxEvents = 2
  NULL = NULL
SPECIFICATION FairSpec
INVARIANTS TypeOK RegisteredAlive OneShotOnce
PROPERTIES ImplementsService AcceptedIsDelivered
CHECK_DEADLOCK FALSE
