\* Two ports at most, and room for ten values on the stack: six for a call and
\* its enumerator, one for a name and three for arguments.
CONSTANTS
  NULL = NULL
  Bytes <- MCBytes
  Spelled <- MCSpelled
  ElementNames <- MCElementNames
  Word = 16
  Reserve = 10
  MaxNesting = 4
  MaxPorts = 2
  Programs <- MCPrograms
  Names = {"a", "x"}
  Terms <- MCTerms
  Values <- MCValues
  MaxCalls = 2
  Arguments <- MCArguments
  MaxArgs = 4
SPECIFICATION Spec
INVARIANTS StartsIffListable EchoIsRecognizable ReturnsIffStable
PROPERTIES CallsAsAbstracted OptionsAsAsked
CHECK_DEADLOCK FALSE
