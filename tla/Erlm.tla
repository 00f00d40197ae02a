-------------------------------- MODULE Erlm --------------------------------
(***************************************************************************)
(* The main program (src/src/erlm.c): an Elm worker between an Erlang      *)
(* port, on descriptors 0 and 1, and the events manager.                   *)
(*                                                                         *)
(* do_something evaluates the program, subscribes its output ports and     *)
(* descriptor 0, and takes a bounded number of turns of                    *)
(*   events_wait; duk_timers_handle_event; erlm_handle_input_event;        *)
(*   erlm_handle_output_event.                                             *)
(* JavaScript runs during the evaluation, in a timer callback, and in the  *)
(* send function of an input port; there it sets and clears timers and     *)
(* sends packets to output ports.                                          *)
(***************************************************************************)
EXTENDS DukTimers, InputCall, Functions

CONSTANTS
  Packets,  \* what the program sends to its output ports, each sent once
  Messages, \* the tuples {Port, Parameters} Erlang sends, each sent once
  PortOf,   \* message -> the kind of the port it names
  ArgsOf,   \* message -> what duk_erlang_push_term makes of its parameters
  MaxTurns, \* the bound of the loop (10 in the code)
  Faults    \* whether epoll_ctl may refuse a descriptor and epoll_wait fail

ASSUME ErlmAssumption ==
  /\ Streams = {0, 1}
  /\ Data = Packets \cup {NULL} /\ NULL \notin Packets
  /\ NULL \notin Messages
  /\ PortOf \in [Messages -> PortKinds]
  /\ ArgsOf \in [Messages -> ArgsKinds]
  /\ MaxTurns \in Nat
  /\ Faults \in BOOLEAN

VARIABLES
  pc,      \* where do_something is
  turns,   \* i, the turns of the loop begun so far
  sent,    \* history: the messages Erlang has sent
  stdin,   \* those erlm has not read
  begun,   \* Erlang has written a part of the packet after them
  closed,  \* it has closed the port
  buffer,  \* what erlm_handle_input_event's buffer holds after a read
  eof,     \* history: a read found the port closed
  stack,   \* the Duktape value stack between two events
  applied, \* history: the messages whose port's send got their parameters
  emitted, \* history: the packets sent to output ports
  written, \* the packets written to descriptor 1
  freed    \* the packets given to free()

inputVars  == <<sent, stdin, begun, closed, buffer, eof, stack, applied>>
outputVars == <<emitted, written, freed>>
erlmVars   == <<serviceVars, timersVars, pc, turns, inputVars, outputVars>>

Input == [type |-> "read", id |-> 0, data |-> NULL]
Output(p) == [type |-> "write", id |-> 1, data |-> p]

ErlmInit ==
  /\ TimersInit
  /\ pc = "eval" /\ turns = 0
  /\ sent = <<>> /\ stdin = <<>> /\ begun = FALSE /\ closed = FALSE
  /\ buffer = NULL /\ eof = FALSE
  /\ stack = <<"app">> /\ applied = <<>>
  /\ emitted = <<>> /\ written = <<>> /\ freed = {}

-----------------------------------------------------------------------------
(* A subscription is refused when the manager does not accept it.          *)
TrySubscribe(e) ==
  \/ Subscribe(e)
  \/ Refuse /\ (Faults \/ ~Accepts(e))

(* duk_elm_peval_file fails, or --no-run was given.                        *)
EvalEnds ==
  /\ pc = "eval"
  /\ pc' = "exited"
  /\ UNCHANGED <<serviceVars, timersVars, turns, inputVars, outputVars>>

(* duk_elm_get_output_ports gives no count for a worker without ports, and *)
(* stops at MAX_PORT_COUNT; both leave the wrong value on the stack, where *)
(* erlm_subscribe_all_output_ports looks up "ports" and throws, unprotected*)
PortsNotFound ==
  /\ fatal' = "lookup"
  /\ UNCHANGED <<serviceVars, timeoutCallbacks, event, current, status, pc>>

(* The ports are subscribed, which JavaScript alone takes note of.         *)
erlm_listen_input_event ==
  /\ TrySubscribe(Input)
  /\ pc' = "loop"
  /\ UNCHANGED timersVars

Start ==
  /\ pc = "eval"
  /\ PortsNotFound \/ erlm_listen_input_event
  /\ UNCHANGED <<turns, inputVars, outputVars>>

(* Descriptor 0 is readable when there is a packet, or a part of one, or   *)
(* the port is closed.                                                     *)
Readable(e) == e = Input => stdin # <<>> \/ begun \/ closed

(* Mutant: one turn too many.                                              *)
OneTurnMore(e) ==
  /\ pc = "loop" /\ turns <= MaxTurns
  /\ Readable(e)
  /\ Wait(e)
  /\ turns' = turns + 1
  /\ pc' = "dispatch"
  /\ UNCHANGED <<inputVars, outputVars>>

Turn(e) ==
  /\ pc = "loop" /\ turns < MaxTurns
  /\ Readable(e)
  /\ Wait(e)
  /\ turns' = turns + 1
  /\ pc' = "dispatch"
  /\ UNCHANGED <<inputVars, outputVars>>

(* The turns are over, or events_wait fails (EINTR).                       *)
LoopEnds ==
  /\ pc = "loop" /\ (turns = MaxTurns \/ Faults)
  /\ pc' = "exited"
  /\ UNCHANGED <<serviceVars, timersVars, turns, inputVars, outputVars>>

TimerEvent ==
  /\ pc = "dispatch"
  /\ HandleTimer
  /\ pc' = IF current' = NULL THEN "loop" ELSE "callback"
  /\ UNCHANGED <<turns, inputVars, outputVars>>

-----------------------------------------------------------------------------
(* erlm_handle_input_event.                                                *)

(* io_read_packet2 waits for the rest of a packet.                         *)
WaitsForRest == pc = "dispatch" /\ event = Input /\ stdin = <<>> /\ ~closed

(* What the buffer holds when io_read_packet2 returns: the next message.   *)
(* When the port is closed, it is what an earlier call left there, with a  *)
(* part of the next packet over it if Erlang wrote one: any message, or    *)
(* none.                                                                   *)
Received ==
  IF stdin # <<>> THEN {Head(stdin)}
  ELSE IF begun /\ ~eof THEN Messages \cup {NULL}
  ELSE {buffer}

(* Mutant: a message that cannot be applied is skipped.                    *)
SkipOnFailure(m) ==
  IF Failure(stack, PortOf[m], ArgsOf[m]) # "none"
  THEN pc' = "loop" /\ UNCHANGED <<fatal, stack, applied>>
  ELSE /\ stack' = StackAfter(stack, ArgsOf[m])
       /\ pc' = IF SendRuns(PortOf[m], ArgsOf[m]) THEN "send" ELSE "loop"
       /\ applied' = IF SendRuns(PortOf[m], ArgsOf[m]) /\ ArgsOf[m] = "array"
                     THEN Append(applied, m) ELSE applied
       /\ UNCHANGED fatal

(* The effect on the value stack is defined in InputCall.                  *)
Apply(m) ==
  /\ fatal' = Failure(stack, PortOf[m], ArgsOf[m])
  /\ IF fatal' # "none"
     THEN UNCHANGED <<pc, stack, applied>>
     ELSE /\ stack' = StackAfter(stack, ArgsOf[m])
          /\ pc' = IF SendRuns(PortOf[m], ArgsOf[m]) THEN "send" ELSE "loop"
          /\ applied' = IF SendRuns(PortOf[m], ArgsOf[m]) /\ ArgsOf[m] = "array"
                        THEN Append(applied, m) ELSE applied

(* Mutant: a closed descriptor 0 is only unsubscribed.                     *)
UnsubscribeAtEof ==
  /\ pc = "dispatch" /\ event = Input
  /\ event' = NULL
  /\ \/ /\ stdin # <<>>
        /\ stdin' = Tail(stdin) /\ buffer' = Head(stdin)
        /\ Apply(Head(stdin))
        /\ UNCHANGED <<eof, serviceVars>>
     \/ /\ stdin = <<>> /\ closed
        /\ EndSubscription(Input)
        /\ eof' = TRUE /\ pc' = "loop"
        /\ UNCHANGED <<stdin, buffer, fatal, stack, applied>>
  /\ UNCHANGED <<timeoutCallbacks, current, status, turns, sent, begun, closed, outputVars>>

InputEvent ==
  /\ pc = "dispatch" /\ event = Input /\ ~WaitsForRest
  /\ event' = NULL
  /\ buffer' \in Received
  /\ IF stdin # <<>>
     THEN stdin' = Tail(stdin) /\ UNCHANGED eof
     ELSE eof' = TRUE /\ UNCHANGED stdin
  /\ \/ buffer' # NULL /\ Apply(buffer')
     \/ \* the buffer of a failed read holds no term: erl_decode returns NULL
        /\ stdin = <<>>
        /\ fatal' = "decode"
        /\ UNCHANGED <<pc, stack, applied>>
  /\ UNCHANGED <<serviceVars, timeoutCallbacks, current, status, turns,
                 sent, begun, closed, outputVars>>

(* duk_pcall is protected: the send function may as well throw.            *)
SendReturns ==
  /\ pc = "send"
  /\ pc' = "loop"
  /\ UNCHANGED <<serviceVars, timersVars, turns, inputVars, outputVars>>

-----------------------------------------------------------------------------
(* Mutants: the subscription is not ended, the packet is not freed.        *)
WriteWithoutUnsubscribe ==
  /\ pc = "dispatch" /\ event # NULL /\ event.id = 1 /\ event.type = "write"
  /\ event' = NULL
  /\ written' = IF closed THEN written ELSE Append(written, event.data)
  /\ freed' = freed \cup {event.data}
  /\ pc' = "loop"
  /\ UNCHANGED <<serviceVars, timeoutCallbacks, current, status, fatal, turns,
                 inputVars, emitted>>

WriteWithoutFree ==
  /\ pc = "dispatch" /\ event # NULL /\ event.id = 1 /\ event.type = "write"
  /\ event' = NULL
  /\ written' = IF closed THEN written ELSE Append(written, event.data)
  /\ EndSubscription(event)
  /\ pc' = "loop"
  /\ UNCHANGED <<timeoutCallbacks, current, status, fatal, turns, inputVars,
                 emitted, freed>>

(* erlm_handle_output_event.  Writing to a closed port raises SIGPIPE, and *)
(* fails where that is ignored.                                            *)
OutputEvent ==
  /\ pc = "dispatch" /\ event # NULL /\ event.id = 1 /\ event.type = "write"
  /\ event' = NULL
  /\ \/ /\ written' = IF closed THEN written ELSE Append(written, event.data)
        /\ freed' = freed \cup {event.data}
        /\ EndSubscription(event)
        /\ pc' = "loop"
        /\ UNCHANGED fatal
     \/ /\ closed
        /\ fatal' = "sigpipe"
        /\ UNCHANGED <<serviceVars, pc, written, freed>>
  /\ UNCHANGED <<timeoutCallbacks, current, status, turns, inputVars, emitted>>

-----------------------------------------------------------------------------
(* JavaScript.                                                             *)
JsRuns == pc \in {"eval", "callback", "send"}

SetTimeout(c) ==
  /\ JsRuns
  /\ duk_timers_set_timeout(c)
  /\ UNCHANGED <<pc, turns, inputVars, outputVars>>

ClearTimeout(id) ==
  /\ JsRuns
  /\ duk_timers_clear_timeout(id)
  /\ UNCHANGED <<pc, turns, inputVars, outputVars>>

(* The result of events_subscribe_write is not looked at.  During the      *)
(* evaluation no port has a subscriber yet.                                *)
erlm_output_port_handler(p) ==
  /\ pc \in {"callback", "send"}
  /\ p \notin Range(emitted)
  /\ emitted' = Append(emitted, p)
  /\ TrySubscribe(Output(p))
  /\ UNCHANGED <<timersVars, pc, turns, inputVars, written, freed>>

(* Mutant: a protected call that leaves out the delete when it fails.      *)
CallbackProtected ==
  /\ pc = "callback"
  /\ \/ CallbackReturns
     \/ /\ current' = NULL
        /\ UNCHANGED <<timeoutCallbacks, event, status, fatal, serviceVars>>
  /\ pc' = "loop"
  /\ UNCHANGED <<turns, inputVars, outputVars>>

CallbackEnds ==
  /\ pc = "callback"
  /\ \/ CallbackReturns /\ pc' = "loop"
     \/ CallbackThrows /\ UNCHANGED pc
  /\ UNCHANGED <<turns, inputVars, outputVars>>

-----------------------------------------------------------------------------
(* The Erlang side, which may write a packet in parts: the runtime writes  *)
(* what the pipe has room for.                                             *)
ErlangBegins ==
  /\ ~closed /\ ~begun /\ Messages \ Range(sent) # {}
  /\ begun' = TRUE
  /\ UNCHANGED <<serviceVars, timersVars, pc, turns, sent, stdin, closed, buffer,
                 eof, stack, applied, outputVars>>

ErlangSends(m) ==
  /\ ~closed /\ m \notin Range(sent)
  /\ sent' = Append(sent, m)
  /\ stdin' = Append(stdin, m)
  /\ begun' = FALSE
  /\ UNCHANGED <<serviceVars, timersVars, pc, turns, closed, buffer, eof,
                 stack, applied, outputVars>>

ErlangCloses ==
  /\ ~closed
  /\ closed' = TRUE
  /\ UNCHANGED <<serviceVars, timersVars, pc, turns, sent, stdin, begun, buffer, eof,
                 stack, applied, outputVars>>

Stopped == pc = "exited" \/ fatal # "none"

(* What do_something does by itself, but for waiting.                      *)
Progress ==
  \/ EvalEnds \/ Start
  \/ TimerEvent \/ InputEvent \/ OutputEvent
  \/ SendReturns \/ CallbackEnds
  \/ LoopEnds

ErlmNext ==
  /\ ~Stopped
  /\ \/ Progress
     \/ \E e \in armed : Turn(e)
     \/ \E c \in Callbacks : SetTimeout(c)
     \/ \E id \in Ids \cup {-1} : ClearTimeout(id)
     \/ \E p \in Packets : erlm_output_port_handler(p)
     \/ \E m \in Messages : ErlangSends(m)
     \/ ErlangBegins \/ ErlangCloses

ErlmSpec == ErlmInit /\ [][ErlmNext]_erlmVars

(* The process runs, JavaScript ends, timers expire, descriptor 1 becomes  *)
(* writable again, and epoll_wait reports its ready list in turn.          *)
ErlmFairSpec ==
  /\ ErlmSpec
  /\ WF_erlmVars(~Stopped /\ Progress)
  /\ \A e \in {Input} \cup {Output(p) : p \in Packets} \cup {Timer(id) : id \in Ids} :
       SF_erlmVars(~Stopped /\ e \in armed /\ Turn(e))

-----------------------------------------------------------------------------
(* The type invariant of the variables of this module.                     *)
ErlmTypeOK ==
  /\ TimersTypeOK
  /\ pc \in {"eval", "loop", "dispatch", "callback", "send", "exited"}
  /\ turns \in 0..MaxTurns
  /\ sent \in Seq(Messages) /\ stdin \in Seq(Messages) /\ applied \in Seq(Messages)
  /\ buffer \in Messages \cup {NULL}
  /\ begun \in BOOLEAN /\ closed \in BOOLEAN /\ eof \in BOOLEAN
  /\ stack \in Seq({"app", "ports", "port", "send", "result"})
  /\ emitted \in Seq(Packets) /\ written \in Seq(Packets)
  /\ freed \subseteq Packets

(* The elements of s are elements of t, in the same order.                 *)
InOrder(s, t) ==
  \A i, j \in DOMAIN s : i < j =>
    \E k, l \in DOMAIN t : k < l /\ t[k] = s[i] /\ t[l] = s[j]

(* Erlang gets packets in the order the program sent them, and none twice, *)
(* whichever packets are lost on the way.                                  *)
WrittenInOrder == InOrder(written, emitted)

(* No event the loop will be given points to a freed packet.               *)
PendingNotFreed ==
  \A p \in Packets : Output(p) \in armed \cup {event} => p \notin freed

Read == SubSeq(sent, 1, Len(sent) - Len(stdin))

Applicable(m) == PortOf[m] = "input" /\ ArgsOf[m] = "array"

(* While the process lives and the port is open, each message read that    *)
(* names an input port and carries an array has reached the program, once  *)
(* and in order, whatever other messages came before it.                   *)
InputsApplied ==
  ~eof /\ fatal = "none" =>
    /\ Range(applied) = {m \in Range(Read) : Applicable(m)}
    /\ InOrder(applied, Read)

(* The value stack is balanced: once the loop runs, a lookup only fails    *)
(* for a message with an unknown port, or after one whose parameters are   *)
(* no array, unless a part of a packet has been taken for a message.       *)
LookupsFind ==
  fatal = "lookup" /\ turns > 0 /\ ~(begun /\ eof) =>
    \E m \in Range(Read) : PortOf[m] = "unknown" \/ ~Unrolled(ArgsOf[m])

(* The program uses timers as DukTimers says, and the events manager with  *)
(* the obligations of its callers: in particular every call of             *)
(* events_unsubscribe ends the subscription of its own event.              *)
ErlmKeepsTimers == TimersSpec

(* A pending packet is eventually taken from the queue and freed, or the   *)
(* process stops, or it ends up waiting for the rest of a packet Erlang    *)
(* never finishes.                                                         *)
PendingIsTaken ==
  \/ \A p \in Packets : Output(p) \in armed ~> (p \in freed \/ Stopped)
  \/ <>[]WaitsForRest

(* When Erlang closes the port, the process stops: an exhausted descriptor *)
(* 0 is always ready and uses up the turns.                                *)
ClosedStops == closed ~> Stopped

-----------------------------------------------------------------------------
(* What comments of the program promise and it does not do.                *)

(* Each packet sent to an output port is written or waits to be.           *)
NoOutputLost ==
  ~closed => \A p \in Range(emitted) :
    p \in Range(written) \/ Output(p) \in armed \cup {event}

(* Each message for an input port is given to send with its parameters.    *)
ParametersApplied ==
  ~eof /\ fatal = "none" =>
    applied = SelectSeq(Read, LAMBDA m : PortOf[m] = "input")

(* Each message is given to send once.                                     *)
AppliedOnce == IsInjective(applied)
=============================================================================
