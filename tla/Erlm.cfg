CONSTANTS
  p1 = p1
  p2 = p2
  p3 = p3
  c1 = c1
  c2 = c2
  array = array
  second = second
  pairs = pairs
  text = text
  misnamed = misnamed
  output = output
  pid = pid
  NULL = NULL
  Streams <- MCStreams
  Data <- MCData
  PortOf <- MCPortOf
  ArgsOf <- MCArgsOf
  Ids <- OneId
  Kqueue = FALSE
  Callbacks = {c1}
  Functions = {c1}
  Packets = {p1, p2, p3}
  Messages = {array, second, text, misnamed}
  MaxTurns = 4
  Faults = TRUE
SPECIFICATION ErlmSpec
INVARIANTS ErlmTypeOK InputsApplied LookupsFind WrittenInOrder PendingNotFreed
PROPERTIES ErlmKeepsTimers
CHECK_DEADLOCK FALSE
