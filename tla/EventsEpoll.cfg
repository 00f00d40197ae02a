\* Three events, two one-shot descriptors (so that addresses and descriptors
\* run out and are reused), two streams, batches of two.
CONSTANTS
  Events = {e1, e2, e3}
  EventFds = {f1, f2}
  Streams = {s1, s2}
  Data = {d1}
  MaxEvents = 2
  NULL = NULL
SPECIFICATION FairSpec
INVARIANTS TypeOK RegisteredAlive HeldIsDisarmed OpenFdHasOneEvent EventsAccountedFor
PROPERTIES ImplementsService AcceptedIsDelivered
CHECK_DEADLOCK FALSE
