------------------------------- MODULE MCErlm -------------------------------
(* Model-checking instances of Erlm.                                       *)
EXTENDS Erlm, TLC

CONSTANTS
  p1, p2, p3, \* packets
  c1, c2,     \* callbacks
  array,      \* a message with several parameters for an input port
  second,     \* another one
  pairs,      \* its parameters are one pair: {Port, [{a, 1}]}
  text,       \* they are a string or small integers: {Port, [3]}
  misnamed,   \* it names no port
  output,     \* it names an output port
  pid         \* one of its parameters is a process identifier

MCPortOf ==
  [m \in Messages |->
     CASE m = misnamed -> "unknown" [] m = output -> "output" [] OTHER -> "input"]

(* What the conversion and the value stack make of their parameters.       *)
MCSpelled ==
  [w \in {"undefined", "null", "true", "false"} |->
     CASE w = "undefined" -> <<1, 1>> [] w = "null" -> <<1, 2>>
       [] w = "true"      -> <<2, 1>> [] w = "false" -> <<2, 2>>]

Stack == INSTANCE ValueStack
           WITH Bytes <- 1..3, Word <- 16, Spelled <- MCSpelled, ElementNames <- {},
                Reserve <- 64, MaxNesting <- 3

MCArgsOf ==
  [m \in Messages |-> Stack!ArgsKind(
     CASE m = pairs -> Stack!List(<<Stack!Tuple(<<Stack!Atom(<<1>>), Stack!Integer(1)>>)>>)
       [] m = text  -> Stack!List(<<Stack!Integer(3)>>)
       [] m = pid   -> Stack!Tuple(<<Stack!Pid>>)
       [] OTHER     -> Stack!Tuple(<<Stack!Integer(-1), Stack!Binary(<<2>>)>>))]

MCStreams == {0, 1}
OneId == {4}
(* A count from 1, as the ids of the kqueue backend.                       *)
CountedIds == {1, 2}
MCData == Packets \cup {NULL}
=============================================================================
