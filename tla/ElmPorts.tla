------------------------------- MODULE ElmPorts -------------------------------
(***************************************************************************)
(* main and do_something (src/src/erlm.c): the command line, and what is   *)
(* done to the value stack from the evaluation of the program to the       *)
(* handling of messages, with the helpers of duk_elm.c, duk_util.c and     *)
(* duk_erlang.c in full.  Erlm keeps of it the abstraction InputCall, and  *)
(* here it is shown to be one.                                             *)
(*                                                                         *)
(* The program is an Elm worker.  The send function of an input port may   *)
(* give its first argument, or any value, to an output port.               *)
(***************************************************************************)
EXTENDS ValueStack, InputCall, CommandLine

CONSTANTS
  MaxPorts, \* the ports that are listed at most (MAX_PORT_COUNT, 128)
  Programs, \* the files given to erlm
  Names,    \* the names of ports Erlang uses
  Terms,    \* the parameters it sends, and
  Values,   \* the values JavaScript sends
  MaxCalls, \* a bound on the messages
  NULL

(* A file evaluates to its exports, or does not; the worker function of    *)
(* the first export returns an app, or Error.  Elm makes an app an object, *)
(* with an object of its ports if there are any.                           *)
IsApp(app) ==
  LET ports == Property(app, "ports")
      named == Properties(ports)
  IN \/ app \in {Undefined, Error}
     \/ /\ app.type = "object"
        /\ ports = Undefined \/ (ports.type = "object" /\ ports # app)
        /\ named \in Seq(Range(named))
        /\ \A i \in DOMAIN named :
             named[i][1] # "ports" /\ named[i][2].type \notin {"undefined", "null"}
        /\ \A i, j \in DOMAIN named : named[i][1] = named[j][1] => i = j

ASSUME PortsAssumption ==
  /\ MaxPorts \in Nat \ {0} /\ MaxCalls \in Nat
  /\ \A p \in Programs : /\ DOMAIN p = {"file", "exports", "app"}
                         /\ p.file \in {"evaluates", "throws", "unreadable"}
                         /\ IsApp(p.app)
  /\ \A t \in Terms : IsTerm(t)
  /\ \A v \in Values : IsValue(v)

VARIABLES
  pc,         \* where main and do_something are
  program,    \* the file named on the command line
  verbose, no_run,
  machine,    \* the value stack between two steps
  subscribed, \* history: the ports subscribed, in order
  calls,      \* the number of messages handled
  last,       \* history: the last message and what its send was given
  output      \* history: the last value sent to an output port, its packet

static == <<program, verbose, no_run, lineVars>>
history == <<subscribed, calls, last, output>>
vars == <<pc, static, machine, history>>

Init ==
  /\ LineInit
  /\ pc = "main" /\ program = NULL /\ verbose = FALSE /\ no_run = FALSE
  /\ machine = Machine(<<>>)
  /\ subscribed = <<>> /\ calls = 0 /\ last = NULL /\ output = NULL

(* An exception outside of a protected call is fatal.                      *)
Continue(m, where) ==
  /\ machine' = m
  /\ pc' = IF m.thrown THEN "fatal" ELSE where

-----------------------------------------------------------------------------
(* The next argument of the command line.                                  *)
Argument(arg) ==
  /\ pc = "main"
  /\ argparse_parse(arg)
  /\ pc' = IF parsed' = "reading" THEN "main" ELSE "exited"
  /\ UNCHANGED <<program, verbose, no_run, machine, history>>

(* After the last argument, do_something is called with the file.          *)
main ==
  /\ pc = "main"
  /\ LineEnds
  /\ pc' = IF parsed' = "file" THEN "eval" ELSE "exited"
  /\ program' \in IF parsed' = "file" THEN Programs ELSE {NULL}
  /\ no_run' = (counts.n > 0) /\ verbose' = (counts.v > 0)
  /\ UNCHANGED <<machine, history>>

(* The evaluation.  A file that throws leaves its error on the stack, and  *)
(* an error of the worker function is what remains of a call of it.        *)
Evaluate ==
  /\ pc = "eval"
  /\ CASE program.file = "unreadable" -> Continue(machine, "exited")
       [] program.file = "throws"     -> Continue(duk_push(machine, Error), "exited")
       [] OTHER ->
            Continue(duk_elm_peval_file(machine, program.exports, program.app),
                     IF program.app = Error THEN "exited"
                     ELSE IF verbose THEN "print" ELSE "evaluated")
  /\ UNCHANGED <<static, history>>

duk_elm_is_input_port(v) ==
  IsObject(v) /\ Property(v, "send") # Undefined

duk_elm_is_output_port(v) ==
  /\ IsObject(v)
  /\ Property(v, "subscribe") # Undefined /\ Property(v, "unsubscribe") # Undefined

IsPort(kind, v) ==
  IF kind = "input" THEN duk_elm_is_input_port(v) ELSE duk_elm_is_output_port(v)

(* The loop of duk_elm_get_input_ports and duk_elm_get_output_ports over   *)
(* an enumerator on the top.  At the limit, `dropped' values are popped.   *)
ListTurn(listing, kind, dropped) ==
  LET m    == listing.machine
      next == duk_next(m, Height(m), TRUE)
      port == At(next, -1)
  IN IF listing.over \/ ~HasNext(m, Height(m)) THEN listing
     ELSE IF Len(listing.ports) >= MaxPorts
     THEN [machine |-> duk_pop_n(next, dropped), ports |-> listing.ports, over |-> TRUE]
     ELSE [machine |-> duk_pop_n(next, 2),
           ports   |-> IF IsPort(kind, port)
                       THEN Append(listing.ports, At(next, -2).name) ELSE listing.ports,
           over    |-> FALSE]

ListFrom(m, kind, left, dropped) ==
  LET first  == [machine |-> m, ports |-> <<>>, over |-> FALSE]
      listed == Iterate(LAMBDA listing, n : ListTurn(listing, kind, dropped), first, Len(left))
  IN [machine |-> duk_pop_n(listed.machine, 2), ports |-> listed.ports]

(* -1 is returned before anything is pushed, or with the value of "ports". *)
ListPorts(m, kind, dropped) ==
  LET ports == duk_get_prop_string(m, "ports")
      left  == Properties(At(ports, -1))
  IN IF ~IsObject(At(m, -1)) THEN [machine |-> m, ports |-> <<>>]
     ELSE IF ~IsObject(At(ports, -1)) THEN [machine |-> ports, ports |-> <<>>]
     ELSE ListFrom(duk_enum(ports, left), kind, left, dropped)

(* Mutant: the name and the value of the port that is given up are left.   *)
InputLeavesPair(m) == ListPorts(m, "input", 0)

(* At the limit, the name and the value are popped, ...                    *)
duk_elm_get_input_ports(m) == ListPorts(m, "input", 2)

(* ... or are not.                                                         *)
duk_elm_get_output_ports(m) == ListPorts(m, "output", 0)

erlm_print_ports_info ==
  /\ pc = "print"
  /\ Continue(duk_elm_get_output_ports(duk_elm_get_input_ports(machine).machine).machine,
              "evaluated")
  /\ UNCHANGED <<static, history>>

(* The loop of erlm_subscribe_all_output_ports, with the ports on the top. *)
SubscribePort(m, name) ==
  LET subscribe == duk_get_prop_string(duk_get_prop_string(m, name), "subscribe")
      handler   == duk_push(subscribe, Function("erlm_output_port_handler"))
  IN duk_pop_n(duk_call(handler, 1, Undefined), 2)

SubscribePorts(m, names) ==
  Iterate(LAMBDA subscribing, n : SubscribePort(subscribing, names[n]), m, Len(names))

erlm_subscribe_all_output_ports ==
  /\ pc = "evaluated"
  /\ IF no_run THEN Continue(machine, "exited") /\ UNCHANGED subscribed
     ELSE LET listed == duk_elm_get_output_ports(machine)
              ports  == duk_get_prop_string(listed.machine, "ports")
              done   == duk_pop_n(SubscribePorts(ports, listed.ports), 1)
          IN /\ Continue(done, "loop")
             /\ subscribed' = IF done.thrown THEN <<>> ELSE listed.ports
  /\ UNCHANGED <<static, calls, last, output>>

-----------------------------------------------------------------------------
(* The function lookups of erlm_handle_input_event end with, and the call. *)
(* A send that is no function makes the protected call fail.               *)
Lookups(m, name) ==
  duk_get_prop_string(duk_get_prop_string(duk_get_prop_string(m, "ports"), name), "send")

(* The lookups, the conversion and the call for the message {name, term},  *)
(* which returns `returned', a value Erlang got from an output port.       *)
HandleMessage(name, term, returned) ==
  LET found == Lookups(machine, name)
      args  == IF found.thrown \/ ~Supported(term) THEN Throw(found)
               ELSE duk_util_unroll_array(PushTerm(found, term))
      value == duk_erlang_push_term(term)
      count == ArgCount(value)
      runs  == ~args.thrown /\ At(args, -count - 1).type = "function"
  IN /\ Continue(duk_pop_n(duk_pcall(args, count, IF runs THEN Undefined ELSE Error), 3),
                 IF runs THEN "send" ELSE "loop")
     /\ last' = [name |-> name, term |-> term, returned |-> returned,
                 args |-> IF runs THEN SubSeq(args.stack, Height(args) - count + 1, Height(args))
                          ELSE NULL]

erlm_handle_input_event(name, term) ==
  /\ pc = "loop" /\ calls < MaxCalls
  /\ calls' = calls + 1
  /\ HandleMessage(name, term, NULL)
  /\ UNCHANGED <<static, subscribed, output>>

(* Erlang sends what it got from an output port back to an input port.     *)
SendBack(name) ==
  /\ pc = "loop" /\ calls < MaxCalls /\ output # NULL
  /\ Nested(TermParts, Tuple(<<output.packet>>))
  /\ calls' = calls + 1
  /\ HandleMessage(name, Tuple(<<output.packet>>), output.value)
  /\ UNCHANGED <<static, subscribed, output>>

(* The packet erlm_output_port_handler makes of its argument, which is on  *)
(* a stack of its own: this, this[0] and its portName are pushed and       *)
(* popped, then the stash and the events manager.                          *)
PacketOf(value) ==
  LET this  == duk_push(Machine(<<value>>), Array(<<Undefined>>))
      named == duk_push(duk_push(this, Function("erlm_output_port_handler")), String(<<>>))
      stash == duk_push(duk_push(duk_pop_n(named, 3), Object(<<>>)), Number(0))
  IN duk_erlang_get_term(At(duk_pop_n(stash, 2), -1))

(* The program sends a value to an output port from a send function.  An   *)
(* echo is its first argument, which comes from the term `of'.             *)
Emit(value, of) ==
  /\ pc = "send" /\ subscribed # <<>>
  /\ output' = [value |-> value, packet |-> PacketOf(value), of |-> of]
  /\ pc' = "loop"
  /\ UNCHANGED <<static, machine, subscribed, calls, last>>

Echo == pc = "send" /\ last.args # <<>> /\ Emit(last.args[1], last.term)

SendReturns ==
  /\ pc = "send"
  /\ pc' = "loop"
  /\ UNCHANGED <<static, machine, history>>

Next ==
  \/ \E arg \in Arguments : Argument(arg)
  \/ main
  \/ Evaluate \/ erlm_print_ports_info \/ erlm_subscribe_all_output_ports
  \/ \E name \in Names, term \in Terms : erlm_handle_input_event(name, term)
  \/ \E name \in Names : SendBack(name)
  \/ \E value \in Values : Emit(value, NULL)
  \/ Echo \/ SendReturns

Spec == Init /\ [][Next]_vars

-----------------------------------------------------------------------------
(* main runs the file exactly when the whole command line was read and     *)
(* names one, and with the options that are on at its end.                 *)
OptionsAsAsked ==
  [][pc = "main" /\ pc' # "main" =>
       LET asked == IF parsed' \in {"file", "usage"} THEN argv ELSE argv'
       IN /\ (parsed' = "file") =
               /\ Cardinality(FilesIn(asked)) = 1
               /\ \A i \in BeforeEnd(asked) : Known(asked[i])
               /\ Asked(asked, Options[1], 1) = {} /\ Negated(asked, Options[1], 1) = {}
          /\ pc' = "eval" => /\ no_run' = On(asked, Options[2])
                             /\ verbose' = On(asked, Options[3])]_vars

Ports == Property(program.app, "ports")

(* The output ports among the first properties of the ports.               *)
OutputsUpto(i) == {j \in 1..i : duk_elm_is_output_port(Properties(Ports)[j][2])}

(* The ports of the app can be listed: it is an object with ports, and no  *)
(* property comes after the last output port there is room for.            *)
Listable ==
  /\ program.file = "evaluates" /\ program.app # Error
  /\ Properties(program.exports) # <<>>
  /\ IsObject(program.app) /\ IsObject(Ports)
  /\ \A i \in DOMAIN Properties(Ports) : Cardinality(OutputsUpto(i - 1)) < MaxPorts

(* The k-th port subscribed is the k-th output port.                       *)
OutputsSubscribed ==
  LET outputs == OutputsUpto(Len(Properties(Ports)))
  IN /\ Len(subscribed) = Cardinality(outputs)
     /\ \A i \in outputs : subscribed[Cardinality(OutputsUpto(i))] = Properties(Ports)[i][1]

(* The loop is reached exactly with a program whose ports can be listed,   *)
(* whether or not they are printed before; then each output port has been  *)
(* subscribed once, and the app alone is on the stack.                     *)
StartsIffListable ==
  calls = 0 =>
    /\ pc = "loop" => /\ Listable
                      /\ OutputsSubscribed
                      /\ machine.stack = <<program.app>>
    /\ pc = "fatal" => ~Listable

-----------------------------------------------------------------------------
(* The abstraction InputCall makes of the stack, the ports and parameters. *)
Kinds(stack) ==
  [i \in DOMAIN stack |-> IF stack[i] = program.app THEN "app"
                          ELSE IF stack[i] = Ports THEN "ports" ELSE "result"]

PortKind(name) ==
  LET port == Property(Ports, name)
  IN CASE port = Undefined                             -> "unknown"
       [] Property(port, "send").type = "function"     -> "input"
       [] OTHER                                        -> "output"

(* Each message kills the process, runs a send function and leaves the     *)
(* stack as InputCall, and with it Erlm, says.                             *)
CallsAsAbstracted ==
  [][calls' # calls =>
       LET port   == PortKind(last'.name)
           args   == ArgsKind(last'.term)
           failed == Failure(Kinds(machine.stack), port, args)
       IN /\ (pc' = "fatal") = (failed # "none")
          /\ failed = "none" =>
               /\ (pc' = "send") = SendRuns(port, args)
               /\ Kinds(machine'.stack) = StackAfter(Kinds(machine.stack), args)]_vars

-----------------------------------------------------------------------------
(* A term that goes through the program comes back in the same order, with *)
(* numbers as floats, tuples as lists and texts as strings, and nothing    *)
(* but the fields of a list of pairs is lost.                              *)
EchoIsRecognizable ==
  output # NULL /\ output.of # NULL => output.packet = Echoed(output.of.elements[1])

(* A value the program sends and Erlang sends back is the same again       *)
(* exactly when it is made of numbers, texts and arrays that hold at least *)
(* one number.                                                             *)
ReturnsIffStable ==
  last # NULL /\ last.returned # NULL /\ last.args # NULL =>
    (last.args = <<last.returned>>) = Stable(last.returned)
=============================================================================
