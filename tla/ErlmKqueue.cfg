CONSTANTS
  p1 = p1
  p2 = p2
  p3 = p3
  c1 = c1
  c2 = c2
  array = array
  second = second
  pairs = pairs
  text = text
  misnamed = misnamed
  output = output
  pid = pid
  NULL = NULL
  Streams <- MCStreams
  Data <- MCData
  PortOf <- MCPortOf
  ArgsOf <- MCArgsOf
  Ids <- CountedIds
  Kqueue = TRUE
  Callbacks = {c1, c2}
  Functions = {c1, c2}
  Packets = {p1, p2, p3}
  Messages = {array, text, pid}
  MaxTurns = 6
  Faults = FALSE
SPECIFICATION ErlmSpec
INVARIANTS WrittenInOrder PendingNotFreed SetIsArmed
CHECK_DEADLOCK FALSE
