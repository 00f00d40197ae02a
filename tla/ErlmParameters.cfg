CONSTANTS
  p1 = p1
  p2 = p2
  p3 = p3
  c1 = c1
  c2 = c2
  array = array
  second = second
  pairs = pairs
  text = text
  misnamed = misnamed
  output = output
  pid = pid
  NULL = NULL
  Streams <- MCStreams
  Data <- MCData
  PortOf <- MCPortOf
  ArgsOf <- MCArgsOf
  Ids <- OneId
  Kqueue = FALSE
  Callbacks = {}
  Functions = {}
  Packets = {p1}
  Messages = {array, second, text}
  MaxTurns = 4
  Faults = FALSE
SPECIFICATION ErlmSpec
INVARIANTS ParametersApplied
CHECK_DEADLOCK FALSE
