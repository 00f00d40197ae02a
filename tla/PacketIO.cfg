CONSTANTS
  Base = 4
  CharSigned = FALSE
  Packets <- MCPackets
  MaxPackets = 3
  Capacity = 4
SPECIFICATION FairSpec
INVARIANTS FramesIntact
PROPERTIES PartsOnlyAtEnd SentIsReceived
CHECK_DEADLOCK FALSE
