CONSTANTS
  Base = 4
  CharSigned = TRUE
  Packets <- MCPackets
  MaxPackets = 3
  Capacity = 4
SPECIFICATION Spec
INVARIANTS FramesIntact
CHECK_DEADLOCK FALSE
