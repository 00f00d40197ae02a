\* Three calls of setTimeout, one of them without a function, and two timer
\* ids, so that the manager also has to refuse.
CONSTANTS
  Ids <- MCIds
  Streams <- MCStreams
  Data <- MCData
  Kqueue = FALSE
  Callbacks <- MCCallbacks
  Functions <- MCFunctions
  c1 = c1
  c2 = c2
  c3 = c3
  NULL = NULL
SPECIFICATION TimersFairSpec
INVARIANTS TimersTypeOK SetIsArmed RunningOwnsItsEntry
PROPERTIES RunsOnceUnlessCleared SetFires
CHECK_DEADLOCK FALSE
