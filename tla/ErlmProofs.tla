------------------------------ MODULE ErlmProofs ------------------------------
(***************************************************************************)
(* Proofs about the main program, for every program and every conversation *)
(* with Erlang, and for both backends of the events manager.               *)
(***************************************************************************)
EXTENDS Erlm, DukTimersProofs, SequenceTheorems

(* Between events_wait and the handlers, the subscription of the event the *)
(* loop holds can not have ended, and no JavaScript runs.                  *)
DispatchInv ==
  event # NULL =>
    /\ pc = "dispatch"
    /\ event \in held
    /\ ~OneShot(event) => event \in armed

-----------------------------------------------------------------------------
LEMMA StreamEvents ==
  /\ Input \in Event /\ ~OneShot(Input) /\ Input.type = "read" /\ Input # NULL
  /\ \A p \in Packets : /\ Output(p) \in Event /\ ~OneShot(Output(p))
                        /\ Output(p).id = 1 /\ Output(p).data = p
                        /\ Output(p).type = "write" /\ Output(p) # NULL
BY ErlmAssumption, TimersAssumption
   DEF Input, Output, Event, OneShot, OneShotTypes, StreamTypes

LEMMA InitDispatch == ErlmInit => TimersInit /\ DispatchInv
BY DEF ErlmInit, TimersInit, duk_timers_register, DispatchInv

(* Every step of the program is one of the timers and their host, or none  *)
(* of their business.                                                      *)
LEMMA StepIsTimersStep ==
  ASSUME DispatchInv, ErlmNext
  PROVE  TimersNext \/ UNCHANGED <<serviceVars, timersVars>>
<1> USE DEF erlmVars
<1>1. fatal = "none"
  BY DEF ErlmNext, Stopped
<1>2. ASSUME NEW e \in Event, ~OneShot(e), TrySubscribe(e), UNCHANGED timersVars
      PROVE  TimersNext \/ UNCHANGED <<serviceVars, timersVars>>
  BY <1>1, <1>2 DEF TrySubscribe, Refuse, HostSubscribes, TimersNext
<1>3. CASE EvalEnds \/ LoopEnds \/ SendReturns
  BY <1>3 DEF EvalEnds, LoopEnds, SendReturns
<1>4. CASE Start
  <2>1. CASE fatal' = "lookup" /\ UNCHANGED <<serviceVars, timeoutCallbacks, event, current, status>>
    BY <1>1, <2>1 DEF HostDies, TimersNext, Fatal
  <2>2. CASE TrySubscribe(Input) /\ UNCHANGED timersVars
    BY <1>2, <2>2, StreamEvents
  <2> QED
    BY <1>4, <2>1, <2>2 DEF Start, PortsNotFound, erlm_listen_input_event
<1>5. CASE \E e \in armed : Turn(e)
  BY <1>1, <1>5 DEF Turn, TimersNext
<1>6. CASE TimerEvent
  BY <1>1, <1>6 DEF TimerEvent, TimersNext
<1>7. CASE InputEvent
  <2>1. /\ event # NULL /\ event.type # "timer" /\ event' = NULL
        /\ UNCHANGED <<serviceVars, timeoutCallbacks, current, status>>
    BY <1>7, StreamEvents DEF InputEvent
  <2>2. fatal' \in Fatal
    BY <1>1, <1>7 DEF InputEvent, Apply, Failure, Fatal
  <2> QED
    BY <1>1, <2>1, <2>2 DEF HandleOther, TimersNext
<1>8. CASE OutputEvent
  <2>1. /\ event # NULL /\ event.type # "timer" /\ event' = NULL
        /\ event \in held \cap armed
        /\ UNCHANGED <<timeoutCallbacks, current, status>>
    BY <1>8 DEF OutputEvent, DispatchInv, OneShot, OneShotTypes
  <2>2. fatal' \in Fatal
    BY <1>1, <1>8 DEF OutputEvent, Fatal
  <2>3. Unsubscribe(event) \/ UNCHANGED serviceVars
    BY <1>8, <2>1 DEF OutputEvent, Unsubscribe
  <2> QED
    BY <1>1, <2>1, <2>2, <2>3 DEF HandleOther, TimersNext
<1>9. CASE \E c \in Callbacks : SetTimeout(c)
  BY <1>1, <1>9 DEF SetTimeout, TimersNext
<1>10. CASE \E id \in Ids \cup {-1} : ClearTimeout(id)
  BY <1>1, <1>10 DEF ClearTimeout, TimersNext
<1>11. ASSUME NEW p \in Packets, erlm_output_port_handler(p)
       PROVE  TimersNext \/ UNCHANGED <<serviceVars, timersVars>>
  BY <1>2, <1>11, StreamEvents DEF erlm_output_port_handler
<1>12. CASE CallbackEnds
  BY <1>1, <1>12 DEF CallbackEnds, TimersNext
<1>13. CASE ErlangBegins \/ ErlangCloses \/ \E m \in Messages : ErlangSends(m)
  BY <1>13 DEF ErlangSends, ErlangBegins, ErlangCloses
<1> QED
  BY <1>3, <1>4, <1>5, <1>6, <1>7, <1>8, <1>9, <1>10, <1>11, <1>12, <1>13
     DEF ErlmNext, Progress

LEMMA NextDispatch ==
  ASSUME DispatchInv, [ErlmNext]_erlmVars
  PROVE  DispatchInv'
<1>1. CASE UNCHANGED erlmVars
  BY <1>1 DEF erlmVars, serviceVars, timersVars, DispatchInv
<1>2. ASSUME NEW e \in armed, Turn(e)
      PROVE  DispatchInv'
  BY <1>2 DEF Turn, Wait, Deliver, DispatchInv
<1>3. CASE TimerEvent \/ InputEvent \/ OutputEvent
  BY <1>3 DEF TimerEvent, HandleTimer, InputEvent, OutputEvent, DispatchInv
<1>4. CASE event' = event /\ pc # "dispatch"
  BY <1>4 DEF DispatchInv
<1>5. CASE ErlangBegins \/ ErlangCloses \/ \E m \in Messages : ErlangSends(m)
  BY <1>5 DEF ErlangSends, ErlangBegins, ErlangCloses, serviceVars, timersVars, DispatchInv
<1>6. CASE \E c \in Callbacks : SetTimeout(c)
  BY <1>4, <1>6 DEF SetTimeout, duk_timers_set_timeout, JsRuns
<1>7. CASE \E id \in Ids \cup {-1} : ClearTimeout(id)
  BY <1>4, <1>7 DEF ClearTimeout, duk_timers_clear_timeout, JsRuns
<1>8. CASE \E p \in Packets : erlm_output_port_handler(p)
  BY <1>4, <1>8 DEF erlm_output_port_handler, timersVars
<1>9. CASE EvalEnds \/ Start \/ SendReturns \/ CallbackEnds \/ LoopEnds
  BY <1>4, <1>9
     DEF EvalEnds, Start, PortsNotFound, erlm_listen_input_event,
         SendReturns, CallbackEnds, LoopEnds, CallbackReturns, CallbackThrows, timersVars
<1> QED
  BY <1>1, <1>2, <1>3, <1>5, <1>6, <1>7, <1>8, <1>9 DEF ErlmNext, Progress

-----------------------------------------------------------------------------
(* The main program is a host of the timers that keeps the obligations of  *)
(* the events manager's callers.                                           *)
THEOREM ErlmIsTimersHost == ErlmSpec => ErlmKeepsTimers
<1>1. DispatchInv /\ [ErlmNext]_erlmVars
        => [TimersNext]_<<serviceVars, timersVars>>
  BY StepIsTimersStep DEF erlmVars
<1> QED
  BY <1>1, InitDispatch, NextDispatch, PTL DEF ErlmSpec, TimersSpec, ErlmKeepsTimers

(* So what is proved of the timers holds in the program.                   *)
THEOREM ErlmTimers ==
  ErlmSpec => []SetIsArmed /\ []RunningOwnsItsEntry /\ RunsOnceUnlessCleared
BY ErlmIsTimersHost, NoTimerLost, CallbackOwnsItsEntry, CallbackRunsOnce
   DEF ErlmKeepsTimers

-----------------------------------------------------------------------------
(* The output side.  Packets that wait are packets that were sent and have *)
(* not been freed; there is at most one, and it was sent after all that    *)
(* have been written.                                                      *)
IsPending(p) == Output(p) \in armed

USE DEF InOrder

OutputTypes ==
  /\ emitted \in Seq(Packets) /\ written \in Seq(Packets)
  /\ \A e \in armed : e.type = "write" => \E p \in Packets : e = Output(p)

OnePending ==
  \A p, q \in Packets : IsPending(p) /\ IsPending(q) => p = q

KnownPackets ==
  /\ \A p \in Packets : IsPending(p) \/ p \in freed => p \in Range(emitted)
  /\ \A i \in DOMAIN written : written[i] \in Range(emitted)

WaitingNotFreed ==
  \A p \in Packets : IsPending(p) => p \notin freed

WrittenBeforePending ==
  \A p \in Packets, i \in DOMAIN written : IsPending(p) =>
    \E k, l \in DOMAIN emitted :
      k < l /\ emitted[k] = written[i] /\ emitted[l] = p

OutputInv ==
  /\ OutputTypes
  /\ OnePending
  /\ KnownPackets
  /\ WaitingNotFreed
  /\ WrittenBeforePending
  /\ WrittenInOrder

LEMMA InitOutput == ErlmInit => OutputInv
BY DEF ErlmInit, TimersInit, ServiceInit, OutputInv, OutputTypes, OnePending,
   KnownPackets, WaitingNotFreed, WrittenBeforePending, WrittenInOrder, IsPending, Range

(* A step that adds no write event and leaves the packets alone.           *)
LEMMA OutputUnchanged ==
  ASSUME OutputInv, UNCHANGED outputVars,
         \A e \in armed' : e.type = "write" => e \in armed
  PROVE  OutputInv'
<1>1. \A p \in Packets : IsPending(p)' => IsPending(p)
  BY StreamEvents DEF IsPending, Output
<1> QED
  BY <1>1 DEF OutputInv, outputVars, OutputTypes, OnePending, KnownPackets,
     WaitingNotFreed, WrittenBeforePending, WrittenInOrder

(* All write events are in the slot of descriptor 1.                       *)
LEMMA OutputSlot ==
  ASSUME NEW p \in Packets, NEW q \in Packets, Output(q) \in armed
  PROVE  Output(q) \in Slot(Output(p))
BY StreamEvents DEF Slot, SameSlot

(* A packet that is sent comes after all others.                           *)
LEMMA EmitStep ==
  ASSUME OutputInv, NEW p \in Packets, erlm_output_port_handler(p)
  PROVE  OutputInv'
<1>1. /\ p \notin Range(emitted) /\ emitted' = Append(emitted, p)
      /\ written' = written /\ freed' = freed /\ emitted \in Seq(Packets)
  BY DEF erlm_output_port_handler, OutputInv, OutputTypes
<1>2. /\ emitted' \in Seq(Packets)
      /\ Len(emitted') = Len(emitted) + 1
      /\ emitted'[Len(emitted) + 1] = p
      /\ \A k \in DOMAIN emitted : k \in DOMAIN emitted' /\ emitted'[k] = emitted[k]
      /\ Len(emitted) + 1 \in DOMAIN emitted'
      /\ \A k \in DOMAIN emitted : k < Len(emitted) + 1
  BY <1>1
<1>3. \A q \in Range(emitted) : q \in Range(emitted')
  BY <1>2 DEF Range
<1>4. p \in Range(emitted')
  BY <1>2 DEF Range
<1>5. WrittenInOrder'
  BY <1>1, <1>2 DEF OutputInv, WrittenInOrder
<1>6. CASE armed' = armed
  <2>1. OutputTypes' /\ OnePending' /\ WaitingNotFreed'
    BY <1>1, <1>2, <1>6 DEF OutputInv, OutputTypes, OnePending, WaitingNotFreed, IsPending
  <2>2. KnownPackets'
    BY <1>1, <1>3, <1>6 DEF OutputInv, KnownPackets, IsPending
  <2>3. WrittenBeforePending'
    BY <1>1, <1>2, <1>6 DEF OutputInv, WrittenBeforePending, IsPending
  <2> QED
    BY <1>5, <2>1, <2>2, <2>3 DEF OutputInv
<1>7. CASE armed' = (armed \ Slot(Output(p))) \cup {Output(p)}
  <2>1. \A q \in Packets : IsPending(q)' => q = p
    BY <1>7, OutputSlot, StreamEvents DEF IsPending
  <2>2. OutputTypes' /\ OnePending'
    BY <1>1, <1>2, <1>7, <2>1 DEF OutputInv, OutputTypes, OnePending
  <2>3. KnownPackets'
    BY <1>1, <1>3, <1>4, <2>1 DEF OutputInv, KnownPackets
  <2>4. WaitingNotFreed'
    BY <1>1, <2>1 DEF OutputInv, KnownPackets, WaitingNotFreed
  <2>5. WrittenBeforePending'
    <3> SUFFICES ASSUME NEW i \in DOMAIN written
                 PROVE  \E k, l \in DOMAIN emitted' :
                          k < l /\ emitted'[k] = written[i] /\ emitted'[l] = p
      BY <1>1, <2>1 DEF WrittenBeforePending
    <3>1. PICK k \in DOMAIN emitted : emitted[k] = written[i]
      BY DEF OutputInv, KnownPackets, Range
    <3> QED
      BY <1>2, <3>1
  <2> QED
    BY <1>5, <2>2, <2>3, <2>4, <2>5 DEF OutputInv
<1> QED
  BY <1>6, <1>7 DEF erlm_output_port_handler, TrySubscribe, Subscribe, Refuse, serviceVars

(* A packet that is written follows those written before; nothing else     *)
(* waits then.                                                             *)
LEMMA OutputStep ==
  ASSUME OutputInv, DispatchInv, OutputEvent
  PROVE  OutputInv'
<1>1. CASE UNCHANGED <<serviceVars, outputVars>>
  BY <1>1, OutputUnchanged DEF serviceVars
<1>2. CASE /\ written' = IF closed THEN written ELSE Append(written, event.data)
           /\ freed' = freed \cup {event.data}
           /\ EndSubscription(event)
  <2>1. event \in armed /\ event.type = "write" /\ emitted' = emitted
    BY DEF OutputEvent, DispatchInv, OneShot, OneShotTypes
  <2>2. PICK p \in Packets : event = Output(p)
    BY <2>1 DEF OutputInv, OutputTypes
  <2>3. event.data = p /\ IsPending(p)
    BY <2>1, <2>2, StreamEvents DEF IsPending
  <2>4. armed' = armed \ Slot(Output(p))
    BY <1>2, <2>2 DEF EndSubscription
  <2>5. \A q \in Packets : ~IsPending(q)'
    BY <2>4, OutputSlot DEF IsPending
  <2>6. p \in Range(emitted)
    BY <2>3 DEF OutputInv, KnownPackets
  <2>7. OnePending' /\ WaitingNotFreed' /\ WrittenBeforePending'
    BY <2>5 DEF OnePending, WaitingNotFreed, WrittenBeforePending
  <2>8. CASE closed
    <3>1. OutputTypes' /\ WrittenInOrder'
      BY <1>2, <2>1, <2>4, <2>8 DEF OutputInv, OutputTypes, WrittenInOrder
    <3>2. KnownPackets'
      BY <1>2, <2>1, <2>3, <2>5, <2>6, <2>8 DEF OutputInv, KnownPackets
    <3> QED
      BY <2>7, <3>1, <3>2 DEF OutputInv
  <2>9. CASE ~closed
    <3>1. /\ written' = Append(written, p) /\ written \in Seq(Packets)
          /\ emitted \in Seq(Packets)
      BY <1>2, <2>3, <2>9 DEF OutputInv, OutputTypes
    <3>2. /\ written' \in Seq(Packets)
          /\ DOMAIN written' = DOMAIN written \cup {Len(written) + 1}
          /\ written'[Len(written) + 1] = p
          /\ \A i \in DOMAIN written : written'[i] = written[i] /\ i <= Len(written)
          /\ DOMAIN written \subseteq Nat /\ Len(written) \in Nat
      BY <3>1
    <3>3. OutputTypes'
      BY <2>1, <2>4, <3>2 DEF OutputInv, OutputTypes
    <3>4. KnownPackets'
      BY <1>2, <2>1, <2>3, <2>5, <2>6, <3>2 DEF OutputInv, KnownPackets
    <3>5. WrittenInOrder'
      <4> SUFFICES ASSUME NEW i \in DOMAIN written', NEW j \in DOMAIN written', i < j
                   PROVE  \E k, l \in DOMAIN emitted :
                            k < l /\ emitted[k] = written'[i] /\ emitted[l] = written'[j]
        BY <2>1 DEF WrittenInOrder
      <4>1. i \in DOMAIN written /\ written'[i] = written[i]
        BY <3>2
      <4>2. CASE j \in DOMAIN written
        BY <3>2, <4>1, <4>2 DEF OutputInv, WrittenInOrder
      <4>3. CASE j = Len(written) + 1
        BY <2>3, <3>2, <4>1, <4>3 DEF OutputInv, WrittenBeforePending
      <4> QED
        BY <3>2, <4>2, <4>3
    <3> QED
      BY <2>7, <3>3, <3>4, <3>5 DEF OutputInv
  <2> QED
    BY <2>8, <2>9
<1> QED
  BY <1>1, <1>2 DEF OutputEvent, outputVars

LEMMA NextOutput ==
  ASSUME OutputInv, DispatchInv, [ErlmNext]_erlmVars
  PROVE  OutputInv'
<1>1. CASE UNCHANGED <<serviceVars, outputVars>>
  BY <1>1, OutputUnchanged DEF serviceVars
<1>2. ASSUME NEW e \in armed, Turn(e)
      PROVE  OutputInv'
  BY <1>2, OutputUnchanged DEF Turn, Wait, Deliver
<1>3. CASE OutputEvent
  BY <1>3, OutputStep
<1>4. ASSUME NEW c \in Callbacks, SetTimeout(c)
      PROVE  OutputInv'
  <2>1. \A e \in armed' : e \in armed \/ e.type = "timer"
    BY <1>4, TimerIsEvent DEF SetTimeout, duk_timers_set_timeout, Post, Refuse, serviceVars
  <2> QED
    BY <1>4, <2>1, OutputUnchanged DEF SetTimeout
<1>5. CASE Start
  <2>1. \A e \in armed' : e \in armed \/ e.type = "read"
    BY <1>5, StreamEvents
       DEF Start, PortsNotFound, erlm_listen_input_event, TrySubscribe,
           Subscribe, Refuse, serviceVars
  <2> QED
    BY <1>5, <2>1, OutputUnchanged DEF Start, PortsNotFound, erlm_listen_input_event
<1>6. ASSUME NEW p \in Packets, erlm_output_port_handler(p)
      PROVE  OutputInv'
  BY <1>6, EmitStep
<1>7. CASE TimerEvent \/ InputEvent \/ CallbackEnds
  BY <1>1, <1>7 DEF TimerEvent, HandleTimer, duk_timers_handle_event, InputEvent,
     CallbackEnds, CallbackReturns, CallbackThrows
<1>8. CASE EvalEnds \/ LoopEnds \/ SendReturns \/ ErlangBegins \/ ErlangCloses
  BY <1>1, <1>8 DEF EvalEnds, LoopEnds, SendReturns, ErlangBegins, ErlangCloses
<1>9. CASE \/ \E m \in Messages : ErlangSends(m)
           \/ \E id \in Ids \cup {-1} : ClearTimeout(id)
  BY <1>1, <1>9 DEF ErlangSends, ClearTimeout, duk_timers_clear_timeout
<1>10. CASE UNCHANGED erlmVars
  BY <1>1, <1>10 DEF erlmVars
<1> QED
  BY <1>2, <1>3, <1>4, <1>5, <1>6, <1>7, <1>8, <1>9, <1>10 DEF ErlmNext, Progress

(* No event points to a freed packet, so no packet is written or freed a   *)
(* second time.                                                            *)
THEOREM NoUseAfterFree == ErlmSpec => []PendingNotFreed
<1>1. OutputInv /\ DispatchInv => PendingNotFreed
  BY StreamEvents DEF OutputInv, WaitingNotFreed, IsPending, DispatchInv, PendingNotFreed
<1> QED
  BY <1>1, InitDispatch, InitOutput, NextDispatch, NextOutput, PTL DEF ErlmSpec

(* Erlang gets the packets in the order they were sent.                    *)
THEOREM OutputInOrder == ErlmSpec => []WrittenInOrder
<1>1. OutputInv => WrittenInOrder
  BY DEF OutputInv
<1> QED
  BY <1>1, InitDispatch, InitOutput, NextDispatch, NextOutput, PTL DEF ErlmSpec

-----------------------------------------------------------------------------
(* The input side, for every sequence of messages, and the types.  What    *)
(* has been read is a prefix of what Erlang has sent; what has been        *)
(* applied follows from what has been read; the value stack is balanced    *)
(* until a message is read whose parameters are not unrolled, and the next *)
(* one ends the process.  A part of a packet before the end of file may    *)
(* stand for any message, and nothing is said of what comes after it.      *)
StackNames == {"app", "ports", "port", "send", "result"}

InputTypes ==
  /\ sent \in Seq(Messages) /\ stdin \in Seq(Messages)
  /\ applied \in Seq(Messages)
  /\ stack \in Seq(StackNames)
  /\ buffer \in Messages \cup {NULL}

(* The messages in the pipe are the last ones sent.                        *)
StdinIsTail ==
  /\ Len(stdin) <= Len(sent)
  /\ \A i \in 1..Len(stdin) : stdin[i] = sent[Len(sent) - Len(stdin) + i]

(* The handler only gets to the end of the pipe when Erlang has closed it. *)
EofWhenClosed == eof => closed

(* It has decoded a part of a packet that Erlang began before it closed.   *)
Torn == begun /\ eof

BufferRead == buffer # NULL => Torn \/ buffer \in Range(Read)

Spoils(m) == ~Unrolled(ArgsOf[m])
Balanced == Torn \/ stack = <<"app">> \/ \E m \in Range(Read) : Spoils(m)

EvalTakesNoTurn == pc = "eval" => turns = 0

InputInv ==
  /\ InputTypes
  /\ StdinIsTail
  /\ EofWhenClosed
  /\ BufferRead
  /\ Balanced
  /\ EvalTakesNoTurn
  /\ LookupsFind
  /\ InputsApplied

-----------------------------------------------------------------------------
LEMMA PrefixFacts ==
  ASSUME NEW s \in Seq(Messages), NEW n \in 0..Len(s)
  PROVE  /\ SubSeq(s, 1, n) \in Seq(Messages)
         /\ Len(SubSeq(s, 1, n)) = n
         /\ DOMAIN SubSeq(s, 1, n) = 1..n
         /\ \A i \in 1..n : SubSeq(s, 1, n)[i] = s[i]
<1>1. n \in Nat /\ \A i \in 1..n : s[i] \in Messages
  OBVIOUS
<1>2. /\ SubSeq(s, 1, n) \in Seq(Messages)
      /\ Len(SubSeq(s, 1, n)) = IF 1 <= n THEN n - 1 + 1 ELSE 0
      /\ \A i \in 1..(n - 1 + 1) : SubSeq(s, 1, n)[i] = s[1 + i - 1]
  BY <1>1, SubSeqProperties
<1>3. Len(SubSeq(s, 1, n)) = n
  BY <1>1, <1>2
<1>4. \A i \in 1..n : SubSeq(s, 1, n)[i] = s[i]
  BY <1>1, <1>2
<1> QED
  BY <1>2, <1>3, <1>4, LenProperties

LEMMA ReadFacts ==
  ASSUME InputTypes, StdinIsTail
  PROVE  /\ Read \in Seq(Messages)
         /\ Len(sent) \in Nat /\ Len(stdin) \in Nat
         /\ Len(Read) = Len(sent) - Len(stdin)
         /\ DOMAIN Read = 1..Len(Read)
         /\ \A i \in 1..Len(Read) : Read[i] = sent[i]
<1>1. /\ sent \in Seq(Messages)
      /\ Len(sent) \in Nat /\ Len(stdin) \in Nat
      /\ Len(sent) - Len(stdin) \in 0..Len(sent)
  BY DEF InputTypes, StdinIsTail
<1> QED
  BY <1>1, PrefixFacts DEF Read

LEMMA InitInput == ErlmInit => InputInv
<1> SUFFICES ASSUME ErlmInit PROVE InputInv
  OBVIOUS
<1>1. /\ sent = <<>> /\ stdin = <<>> /\ applied = <<>> /\ stack = <<"app">>
      /\ buffer = NULL /\ turns = 0 /\ fatal = "none" /\ eof = FALSE
  BY DEF ErlmInit, TimersInit, duk_timers_register
<1>2. InputTypes
  BY <1>1 DEF InputTypes, StackNames
<1>3. StdinIsTail
  BY <1>1 DEF StdinIsTail
<1>4. Len(Read) = 0 /\ DOMAIN Read = 1..Len(Read)
  BY <1>1, <1>2, <1>3, ReadFacts
<1>5. Range(Read) = {} /\ Range(applied) = {}
  BY <1>1, <1>4 DEF Range
<1>6. InputsApplied
  BY <1>1, <1>5 DEF InputsApplied, InOrder
<1> QED
  BY <1>1, <1>2, <1>3, <1>6
     DEF InputInv, EofWhenClosed, BufferRead, Balanced, EvalTakesNoTurn, LookupsFind

(* A step that reads nothing and leaves the value stack alone.             *)
LEMMA InputUnchanged ==
  ASSUME InputInv, UNCHANGED <<buffer, eof, stack, applied>>,
         closed => closed', Torn => Torn',
         Read' = Read, InputTypes', StdinIsTail', EvalTakesNoTurn',
         fatal' = "lookup" /\ turns' > 0 => fatal = "lookup" /\ turns > 0,
         fatal' = "none" => fatal = "none"
  PROVE  InputInv'
<1>1. BufferRead' /\ Balanced' /\ EofWhenClosed'
  BY DEF InputInv, BufferRead, Balanced, EofWhenClosed
<1>2. LookupsFind'
  BY DEF InputInv, LookupsFind, Torn
<1>3. InputsApplied'
  BY DEF InputInv, InputsApplied, Applicable
<1> QED
  BY <1>1, <1>2, <1>3 DEF InputInv

LEMMA NothingSentOrRead ==
  ASSUME InputInv, UNCHANGED inputVars, EvalTakesNoTurn',
         fatal' = "lookup" /\ turns' > 0 => fatal = "lookup" /\ turns > 0,
         fatal' = "none" => fatal = "none"
  PROVE  InputInv'
<1>1. Read' = Read
  BY DEF inputVars, Read
<1>2. InputTypes' /\ StdinIsTail'
  BY DEF inputVars, InputInv, InputTypes, StdinIsTail
<1> QED
  BY <1>1, <1>2, InputUnchanged DEF inputVars, Torn

(* A message that is sent goes to the end of the pipe.                     *)
LEMMA SendsStep ==
  ASSUME InputInv, NEW m \in Messages, ErlangSends(m)
  PROVE  InputInv'
<1>1. /\ sent' = Append(sent, m) /\ stdin' = Append(stdin, m)
      /\ UNCHANGED <<pc, turns, buffer, eof, stack, applied, fatal>>
      /\ sent \in Seq(Messages) /\ stdin \in Seq(Messages)
      /\ Len(stdin) <= Len(sent)
  BY DEF ErlangSends, timersVars, InputInv, InputTypes, StdinIsTail
<1>2. /\ sent' \in Seq(Messages) /\ Len(sent') = Len(sent) + 1
      /\ \A i \in 1..Len(sent) : sent'[i] = sent[i]
      /\ sent'[Len(sent) + 1] = m /\ Len(sent) \in Nat
  BY <1>1
<1>3. /\ stdin' \in Seq(Messages) /\ Len(stdin') = Len(stdin) + 1
      /\ \A i \in 1..Len(stdin) : stdin'[i] = stdin[i]
      /\ stdin'[Len(stdin) + 1] = m /\ Len(stdin) \in Nat
  BY <1>1
<1>4. InputTypes'
  BY <1>1, <1>2, <1>3 DEF InputInv, InputTypes
<1>5. StdinIsTail'
  <2>1. \A i \in 1..Len(stdin) : stdin[i] = sent[Len(sent) - Len(stdin) + i]
    BY DEF InputInv, StdinIsTail
  <2>2. ASSUME NEW i \in 1..Len(stdin) + 1
        PROVE  stdin'[i] = sent'[Len(sent) - Len(stdin) + i]
    <3>1. CASE i = Len(stdin) + 1
      BY <1>1, <1>2, <1>3, <3>1
    <3>2. CASE i \in 1..Len(stdin)
      <4>1. Len(sent) - Len(stdin) + i \in 1..Len(sent)
        BY <1>1, <1>2, <1>3, <3>2
      <4> QED
        BY <1>2, <1>3, <2>1, <3>2, <4>1
    <3> QED
      BY <1>3, <3>1, <3>2
  <2>3. /\ Len(stdin') <= Len(sent')
        /\ 1..Len(stdin') = 1..Len(stdin) + 1
        /\ Len(sent') - Len(stdin') = Len(sent) - Len(stdin)
    BY <1>1, <1>2, <1>3
  <2> QED
    BY <2>2, <2>3 DEF StdinIsTail
<1>6. Read' = Read
  <2> DEFINE n == Len(sent) - Len(stdin)
  <2>1. /\ n \in 0..Len(sent) /\ n \in 0..Len(sent')
        /\ Read = SubSeq(sent, 1, n) /\ Read' = SubSeq(sent', 1, n)
    BY <1>1, <1>2, <1>3 DEF Read
  <2>2. \A i \in 1..n : sent'[i] = sent[i]
    BY <1>2, <2>1
  <2> HIDE DEF n
  <2>3. /\ Read \in Seq(Messages) /\ Len(Read) = n
        /\ \A i \in 1..n : Read[i] = sent[i]
    BY <1>1, <2>1, PrefixFacts
  <2>4. /\ Read' \in Seq(Messages) /\ Len(Read') = n
        /\ \A i \in 1..n : Read'[i] = sent'[i]
    BY <1>2, <2>1, PrefixFacts
  <2>5. \A i \in 1..Len(Read) : Read[i] = Read'[i]
    BY <2>2, <2>3, <2>4
  <2> QED
    BY <2>3, <2>4, <2>5, SeqEqual
<1>7. EvalTakesNoTurn'
  BY <1>1 DEF InputInv, EvalTakesNoTurn
<1>8. ~Torn /\ closed' = closed
  BY DEF ErlangSends, InputInv, EofWhenClosed, Torn
<1> QED
  BY <1>1, <1>4, <1>5, <1>6, <1>7, <1>8, InputUnchanged

(* What is read is the first message of the pipe.                          *)
LEMMA ReadStep ==
  ASSUME InputInv, stdin # <<>>, stdin' = Tail(stdin), sent' = sent
  PROVE  /\ Head(stdin) \in Messages
         /\ stdin' \in Seq(Messages) /\ StdinIsTail'
         /\ Read \in Seq(Messages) /\ Len(Read) \in Nat
         /\ DOMAIN Read = 1..Len(Read)
         /\ DOMAIN Read' = 1..Len(Read) + 1
         /\ \A i \in 1..Len(Read) : Read'[i] = Read[i]
         /\ Read'[Len(Read) + 1] = Head(stdin)
         /\ Range(Read') = Range(Read) \cup {Head(stdin)}
<1>1. /\ stdin \in Seq(Messages) /\ sent \in Seq(Messages)
      /\ Len(stdin) \in Nat /\ Len(sent) \in Nat /\ Len(stdin) <= Len(sent)
      /\ \A i \in 1..Len(stdin) : stdin[i] = sent[Len(sent) - Len(stdin) + i]
  BY DEF InputInv, InputTypes, StdinIsTail
<1>2. /\ Len(stdin) >= 1 /\ Head(stdin) = stdin[1] /\ Head(stdin) \in Messages
      /\ stdin' \in Seq(Messages) /\ Len(stdin') = Len(stdin) - 1
      /\ \A i \in 1..Len(stdin') : stdin'[i] = stdin[i + 1]
  BY <1>1, HeadTailProperties, EmptySeq
<1>3. StdinIsTail'
  BY <1>1, <1>2 DEF StdinIsTail
<1>4. /\ Read \in Seq(Messages)
      /\ Len(Read) = Len(sent) - Len(stdin)
      /\ DOMAIN Read = 1..Len(Read)
      /\ \A i \in 1..Len(Read) : Read[i] = sent[i]
  BY ReadFacts DEF InputInv
<1>6. /\ Len(Read') = Len(sent) - Len(stdin')
      /\ DOMAIN Read' = 1..Len(Read')
      /\ \A i \in 1..Len(Read') : Read'[i] = sent[i]
  <2>1. Read' = SubSeq(sent, 1, Len(sent) - Len(stdin'))
    BY DEF Read
  <2>2. Len(sent) - Len(stdin') \in 0..Len(sent)
    BY <1>1, <1>2
  <2> QED
    BY <1>1, <2>1, <2>2, PrefixFacts
<1>7. Len(Read') = Len(Read) + 1 /\ Len(Read) \in Nat
  BY <1>1, <1>2, <1>4, <1>6
<1>8. /\ \A i \in 1..Len(Read) : Read'[i] = Read[i]
      /\ Read'[Len(Read) + 1] = Head(stdin)
  <2>1. \A i \in 1..Len(Read) : Read'[i] = Read[i]
    BY <1>4, <1>6, <1>7
  <2>2. stdin[1] = sent[Len(sent) - Len(stdin) + 1]
    BY <1>1, <1>2
  <2>3. Read'[Len(Read) + 1] = sent[Len(Read) + 1]
    BY <1>6, <1>7
  <2> QED
    BY <1>2, <1>4, <2>1, <2>2, <2>3
<1>9. Range(Read') = Range(Read) \cup {Head(stdin)}
  <2>1. DOMAIN Read' = 1..Len(Read) + 1
    BY <1>6, <1>7
  <2>2. 1..Len(Read) + 1 = 1..Len(Read) \cup {Len(Read) + 1}
    BY <1>7
  <2>3. Range(Read') = {Read'[i] : i \in 1..Len(Read) \cup {Len(Read) + 1}}
    BY <2>1, <2>2 DEF Range
  <2>4. Range(Read) = {Read[i] : i \in 1..Len(Read)}
    BY <1>4 DEF Range
  <2>5. Range(Read') = {Read'[i] : i \in 1..Len(Read)} \cup {Read'[Len(Read) + 1]}
    BY <2>3
  <2>6. {Read'[i] : i \in 1..Len(Read)} = {Read[i] : i \in 1..Len(Read)}
    BY <1>8
  <2> QED
    BY <1>8, <2>4, <2>5, <2>6
<1> QED
  BY <1>2, <1>3, <1>4, <1>6, <1>7, <1>8, <1>9

-----------------------------------------------------------------------------
(* Three values are popped: the right number for unrolled parameters, one  *)
(* too few for others.                                                     *)
LEMMA StackAfterFacts ==
  ASSUME NEW s \in Seq(StackNames), NEW args \in ArgsKinds
  PROVE  /\ StackAfter(s, args) \in Seq(StackNames)
         /\ Unrolled(args) => StackAfter(s, args) = s
<1> DEFINE top == <<"ports", "port">>
                    \o (IF Unrolled(args) THEN <<>> ELSE <<"send">>) \o <<"result">>
           n == IF Unrolled(args) THEN Len(s) ELSE Len(s) + 1
<1>1. /\ top \in Seq(StackNames)
      /\ Len(top) = IF Unrolled(args) THEN 3 ELSE 4
  <2>1. /\ <<"ports", "port">> \in Seq(StackNames) /\ <<"result">> \in Seq(StackNames)
        /\ <<>> \in Seq(StackNames) /\ <<"send">> \in Seq(StackNames)
    BY DEF StackNames
  <2>2. CASE Unrolled(args)
    BY <2>1, <2>2
  <2>3. CASE ~Unrolled(args)
    BY <2>1, <2>3
  <2> QED
    BY <2>2, <2>3
<1>2. Called(s, args) = s \o top
  <2>1. /\ <<"ports", "port">> \in Seq(StackNames) /\ <<"result">> \in Seq(StackNames)
        /\ <<>> \in Seq(StackNames) /\ <<"send">> \in Seq(StackNames)
    BY DEF StackNames
  <2> DEFINE mid == IF Unrolled(args) THEN <<>> ELSE <<"send">>
  <2>2. Called(s, args) = ((s \o <<"ports", "port">>) \o mid) \o <<"result">>
    BY DEF Called
  <2>3. mid \in Seq(StackNames)
    BY <2>1
  <2>4. top = (<<"ports", "port">> \o mid) \o <<"result">>
    OBVIOUS
  <2> HIDE DEF mid, top
  <2>5. (s \o <<"ports", "port">>) \o mid = s \o (<<"ports", "port">> \o mid)
    BY <2>1, <2>3, ConcatAssociative
  <2>6. <<"ports", "port">> \o mid \in Seq(StackNames)
    BY <2>1, <2>3, ConcatProperties
  <2>7. (s \o (<<"ports", "port">> \o mid)) \o <<"result">>
          = s \o ((<<"ports", "port">> \o mid) \o <<"result">>)
    <3> DEFINE called == <<"ports", "port">> \o mid
               result == <<"result">>
    <3>1. called \in Seq(StackNames) /\ result \in Seq(StackNames)
      BY <2>1, <2>6
    <3> HIDE DEF called, result
    <3>2. (s \o called) \o result = s \o (called \o result)
      BY <3>1, ConcatAssociative
    <3> QED
      BY ONLY <3>2 DEF called, result
  <2> QED
    BY <2>2, <2>4, <2>5, <2>7
<1> HIDE DEF top
<1>3. /\ s \o top \in Seq(StackNames) /\ Len(s \o top) = Len(s) + Len(top)
      /\ \A i \in 1..Len(s) + Len(top) :
           (s \o top)[i] = IF i <= Len(s) THEN s[i] ELSE top[i - Len(s)]
  BY <1>1, ConcatProperties
<1>4. n \in Nat /\ n <= Len(s \o top) /\ n = Len(s \o top) - 3 /\ Len(s) \in Nat
  BY <1>1, <1>3
<1>5. StackAfter(s, args) = SubSeq(s \o top, 1, n)
  BY <1>2, <1>4 DEF StackAfter
<1>6. \A i \in 1..n : (s \o top)[i] \in StackNames
  BY <1>3, <1>4
<1>7. Unrolled(args) => n = Len(s)
  OBVIOUS
<1> HIDE DEF n
<1>8. /\ SubSeq(s \o top, 1, n) \in Seq(StackNames)
      /\ Len(SubSeq(s \o top, 1, n)) = IF 1 <= n THEN n - 1 + 1 ELSE 0
      /\ \A i \in 1..(n - 1 + 1) : SubSeq(s \o top, 1, n)[i] = (s \o top)[1 + i - 1]
  BY <1>4, <1>6, SubSeqProperties
<1>9. Len(SubSeq(s \o top, 1, n)) = n
      /\ \A i \in 1..n : SubSeq(s \o top, 1, n)[i] = (s \o top)[i]
  BY <1>4, <1>8
<1>10. ASSUME Unrolled(args)
       PROVE  SubSeq(s \o top, 1, n) = s
  <2>1. /\ Len(SubSeq(s \o top, 1, n)) = Len(s)
        /\ \A i \in 1..Len(s) : SubSeq(s \o top, 1, n)[i] = s[i]
    BY <1>1, <1>3, <1>4, <1>7, <1>9, <1>10
  <2> QED
    BY <1>8, <2>1, SeqEqual
<1> QED
  BY <1>5, <1>8, <1>10

(* Applying a message that has been read, from the buffer or now.          *)
LEMMA ApplyFacts ==
  ASSUME InputTypes, Balanced, NEW m \in Messages, Apply(m), fatal = "none"
  PROVE  /\ stack' \in Seq(StackNames)
         /\ applied' = applied \/ applied' = Append(applied, m)
         /\ fatal' = "none" =>
              applied' = IF Applicable(m) THEN Append(applied, m) ELSE applied
         /\ Torn \/ stack' = <<"app">> \/ Spoils(m) \/ \E n \in Range(Read) : Spoils(n)
         /\ fatal' = "lookup" =>
              Torn \/ PortOf[m] = "unknown" \/ \E n \in Range(Read) : Spoils(n)
         /\ pc' \in {pc, "send", "loop"}
<1>1. PortOf[m] \in PortKinds /\ ArgsOf[m] \in ArgsKinds
  BY ErlmAssumption
<1>2. stack \in Seq(StackNames)
  BY DEF InputTypes
<1>3. fatal' = Failure(stack, PortOf[m], ArgsOf[m])
  BY DEF Apply
<1>4. fatal' = "lookup" => LookupFails(stack, PortOf[m])
  BY <1>1, <1>3 DEF Failure
<1>5. stack = <<"app">> => stack[Len(stack)] = "app"
  OBVIOUS
<1>6. fatal' = "lookup" =>
        Torn \/ PortOf[m] = "unknown" \/ \E n \in Range(Read) : Spoils(n)
  BY <1>4, <1>5 DEF LookupFails, Balanced
<1>7. CASE fatal' # "none"
  BY <1>2, <1>6, <1>7 DEF Apply, Balanced
<1>8. CASE fatal' = "none"
  <2>1. PortOf[m] # "unknown" /\ ArgsOf[m] # "unsupported" /\ ArgsOf[m] # "long"
    BY <1>1, <1>3, <1>8 DEF Failure, LookupFails
  <2>2. /\ stack' = StackAfter(stack, ArgsOf[m])
        /\ pc' = IF SendRuns(PortOf[m], ArgsOf[m]) THEN "send" ELSE "loop"
        /\ applied' = IF SendRuns(PortOf[m], ArgsOf[m]) /\ ArgsOf[m] = "array"
                      THEN Append(applied, m) ELSE applied
    BY <1>8 DEF Apply
  <2>3. stack' \in Seq(StackNames) /\ (Unrolled(ArgsOf[m]) => stack' = stack)
    BY <1>1, <1>2, <2>2, StackAfterFacts
  <2>4. SendRuns(PortOf[m], ArgsOf[m]) /\ ArgsOf[m] = "array" <=> Applicable(m)
    BY DEF SendRuns, Unrolled, Applicable
  <2> QED
    BY <1>6, <1>8, <2>2, <2>3, <2>4 DEF Spoils, Balanced
<1> QED
  BY <1>7, <1>8

(* What is read next is applied or not, and is the last in order.          *)
LEMMA AppliedStep ==
  ASSUME InputInv, fatal = "none", ~eof,
         stdin # <<>>, stdin' = Tail(stdin), sent' = sent,
         applied' = IF Applicable(Head(stdin)) THEN Append(applied, Head(stdin))
                    ELSE applied
  PROVE  InputsApplied'
<1> DEFINE m == Head(stdin)
<1>1. /\ m \in Messages /\ Len(Read) \in Nat
      /\ DOMAIN Read = 1..Len(Read)
      /\ DOMAIN Read' = 1..Len(Read) + 1
      /\ \A i \in 1..Len(Read) : Read'[i] = Read[i]
      /\ Read'[Len(Read) + 1] = m
      /\ Range(Read') = Range(Read) \cup {m}
  BY ReadStep
<1>2. /\ Range(applied) = {x \in Range(Read) : Applicable(x)}
      /\ InOrder(applied, Read)
      /\ applied \in Seq(Messages)
  BY DEF InputInv, InputsApplied, InputTypes
<1> HIDE DEF m, InOrder
<1>3. CASE ~Applicable(m)
  <2>1. applied' = applied
    BY <1>3 DEF m
  <2>2. Range(applied') = {x \in Range(Read') : Applicable(x)}
    BY <1>1, <1>2, <1>3, <2>1
  <2>3. ASSUME NEW i \in DOMAIN applied, NEW j \in DOMAIN applied, i < j
        PROVE  \E k, l \in DOMAIN Read' :
                 k < l /\ Read'[k] = applied[i] /\ Read'[l] = applied[j]
    <3>1. PICK k \in DOMAIN Read, l \in DOMAIN Read :
            k < l /\ Read[k] = applied[i] /\ Read[l] = applied[j]
      BY <1>2, <2>3 DEF InOrder
    <3> QED
      BY <1>1, <3>1
  <2>4. InOrder(applied', Read')
    BY <2>1, <2>3 DEF InOrder
  <2> QED
    BY <2>2, <2>4 DEF InputsApplied, Applicable, InOrder
<1>4. CASE Applicable(m)
  <2>1. applied' = Append(applied, m)
    BY <1>4 DEF m
  <2>2. /\ DOMAIN applied = 1..Len(applied) /\ Len(applied) \in Nat
        /\ DOMAIN applied' = 1..Len(applied) + 1
        /\ \A i \in 1..Len(applied) : applied'[i] = applied[i]
        /\ applied'[Len(applied) + 1] = m
    BY <1>1, <1>2, <2>1
  <2>3. Range(applied') = Range(applied) \cup {m}
    BY <2>2 DEF Range
  <2>4. Range(applied') = {x \in Range(Read') : Applicable(x)}
    BY <1>1, <1>2, <1>4, <2>3
  <2>5. ASSUME NEW i \in DOMAIN applied', NEW j \in DOMAIN applied', i < j
        PROVE  \E k, l \in DOMAIN Read' :
                 k < l /\ Read'[k] = applied'[i] /\ Read'[l] = applied'[j]
    <3>1. i \in DOMAIN applied /\ applied'[i] = applied[i]
      BY <2>2, <2>5
    <3>2. CASE j \in DOMAIN applied
      BY <1>1, <1>2, <2>2, <2>5, <3>1, <3>2 DEF InOrder
    <3>3. CASE j = Len(applied) + 1
      <4>1. applied[i] \in Range(Read)
        BY <1>2, <3>1 DEF Range
      <4>2. PICK k \in DOMAIN Read : Read[k] = applied[i]
        BY <4>1 DEF Range
      <4>3. k \in DOMAIN Read' /\ Len(Read) + 1 \in DOMAIN Read' /\ k < Len(Read) + 1
        BY <1>1
      <4> QED
        BY <1>1, <2>2, <3>1, <3>3, <4>2, <4>3
    <3> QED
      BY <2>2, <3>2, <3>3
  <2>6. InOrder(applied', Read')
    BY <2>5 DEF InOrder
  <2> QED
    BY <2>4, <2>6 DEF InputsApplied, Applicable, InOrder
<1> QED
  BY <1>3, <1>4

LEMMA InputStep ==
  ASSUME InputInv, InputEvent, fatal = "none"
  PROVE  InputInv'
<1>1. /\ pc = "dispatch" /\ sent' = sent /\ turns' = turns
      /\ begun' = begun /\ closed' = closed
      /\ InputTypes /\ Balanced /\ BufferRead /\ EofWhenClosed
      /\ applied \in Seq(Messages)
  BY DEF InputEvent, InputInv, InputTypes
<1>2. CASE stdin # <<>>
  <2> DEFINE m == Head(stdin)
  <2>1. stdin' = Tail(stdin) /\ buffer' = m /\ eof' = eof /\ Apply(m)
    BY <1>2 DEF InputEvent, Received
  <2>2. /\ m \in Messages /\ stdin' \in Seq(Messages) /\ StdinIsTail'
        /\ Range(Read') = Range(Read) \cup {m}
    BY <1>1, <1>2, <2>1, ReadStep
  <2> HIDE DEF m
  <2>3. /\ stack' \in Seq(StackNames)
        /\ applied' = applied \/ applied' = Append(applied, m)
        /\ fatal' = "none" =>
             applied' = IF Applicable(m) THEN Append(applied, m) ELSE applied
        /\ Torn \/ stack' = <<"app">> \/ Spoils(m) \/ \E n \in Range(Read) : Spoils(n)
        /\ fatal' = "lookup" =>
             Torn \/ PortOf[m] = "unknown" \/ \E n \in Range(Read) : Spoils(n)
        /\ pc' \in {pc, "send", "loop"}
    BY <1>1, <2>1, <2>2, ApplyFacts
  <2>4. InputTypes'
    <3>1. Append(applied, m) \in Seq(Messages)
      BY <1>1, <2>2, AppendProperties
    <3> QED
      BY <1>1, <2>1, <2>2, <2>3, <3>1 DEF InputTypes
  <2>5. Torn' = Torn /\ EofWhenClosed'
    BY <1>1, <2>1 DEF Torn, EofWhenClosed
  <2>6. BufferRead' /\ Balanced' /\ EvalTakesNoTurn'
    BY <1>1, <2>1, <2>2, <2>3, <2>5 DEF BufferRead, Balanced, Spoils, EvalTakesNoTurn
  <2>7. LookupsFind'
    BY <2>2, <2>3, <2>5 DEF LookupsFind, Spoils, Torn
  <2>8. InputsApplied'
    <3>1. CASE eof \/ fatal' # "none"
      BY <2>1, <3>1 DEF InputsApplied
    <3>2. CASE ~eof /\ fatal' = "none"
      BY <1>1, <1>2, <2>1, <2>3, <3>2, AppliedStep DEF m
    <3> QED
      BY <3>1, <3>2
  <2> QED
    BY <2>2, <2>4, <2>5, <2>6, <2>7, <2>8 DEF InputInv
<1>3. CASE stdin = <<>>
  <2>1. /\ eof' = TRUE /\ stdin' = stdin /\ closed
        /\ buffer' \in IF begun /\ ~eof THEN Messages \cup {NULL} ELSE {buffer}
    BY <1>3 DEF InputEvent, WaitsForRest, Received
  <2>2. Read' = Read /\ StdinIsTail'
    BY <1>1, <2>1 DEF Read, InputInv, StdinIsTail
  <2>3. InputsApplied' /\ EofWhenClosed'
    BY <1>1, <2>1 DEF InputsApplied, EofWhenClosed
  <2>4. Torn' <=> begun
    BY <1>1, <2>1 DEF Torn
  <2>5. buffer' \in Messages \cup {NULL}
    BY <1>1, <2>1 DEF InputTypes
  <2>6. BufferRead'
    <3>1. CASE begun
      BY <2>4, <3>1 DEF BufferRead
    <3>2. CASE ~begun
      BY <1>1, <2>1, <2>2, <3>2 DEF BufferRead, Torn
    <3> QED
      BY <3>1, <3>2
  <2>7. CASE fatal' = "decode" /\ UNCHANGED <<pc, stack, applied>>
    <3>1. InputTypes' /\ EvalTakesNoTurn' /\ LookupsFind'
      BY <1>1, <2>1, <2>5, <2>7 DEF InputTypes, EvalTakesNoTurn, LookupsFind
    <3>2. Balanced'
      BY <1>1, <2>2, <2>4, <2>7 DEF Balanced, Torn, Spoils
    <3> QED
      BY <2>2, <2>3, <2>6, <3>1, <3>2 DEF InputInv
  <2>8. CASE buffer' # NULL /\ Apply(buffer')
    <3>1. buffer' \in Messages
      BY <2>5, <2>8
    <3>2. /\ stack' \in Seq(StackNames)
          /\ applied' = applied \/ applied' = Append(applied, buffer')
          /\ Torn \/ stack' = <<"app">> \/ Spoils(buffer') \/ \E n \in Range(Read) : Spoils(n)
          /\ fatal' = "lookup" =>
               Torn \/ PortOf[buffer'] = "unknown" \/ \E n \in Range(Read) : Spoils(n)
          /\ pc' \in {pc, "send", "loop"}
      BY <1>1, <2>8, <3>1, ApplyFacts
    <3>3. InputTypes'
      <4>1. Append(applied, buffer') \in Seq(Messages)
        BY <1>1, <3>1, AppendProperties
      <4> QED
        BY <1>1, <2>1, <2>5, <3>2, <4>1 DEF InputTypes
    <3>4. EvalTakesNoTurn'
      BY <1>1, <3>2 DEF EvalTakesNoTurn
    <3>5. Balanced' /\ LookupsFind'
      <4>1. CASE begun
        BY <2>1, <2>4, <1>1, <4>1 DEF Balanced, LookupsFind
      <4>2. CASE ~begun
        <5>1. buffer' \in Range(Read) /\ ~Torn
          BY <2>2, <2>4, <2>6, <2>8, <4>2 DEF BufferRead, Torn
        <5> QED
          BY <2>2, <3>2, <5>1 DEF Balanced, LookupsFind, Spoils
      <4> QED
        BY <4>1, <4>2
    <3> QED
      BY <2>2, <2>3, <2>6, <3>3, <3>4, <3>5 DEF InputInv
  <2> QED
    BY <1>3, <2>7, <2>8 DEF InputEvent
<1> QED
  BY <1>2, <1>3

LEMMA NextInput ==
  ASSUME InputInv, [ErlmNext]_erlmVars
  PROVE  InputInv'
<1>1. CASE UNCHANGED erlmVars
  BY <1>1, NothingSentOrRead DEF erlmVars, timersVars, InputInv, EvalTakesNoTurn
<1>2. CASE ErlmNext
  <2>0. fatal = "none"
    BY <1>2 DEF ErlmNext, Stopped
  <2>1. ASSUME UNCHANGED <<inputVars, turns>>, pc' # "eval" \/ pc' = pc,
               fatal' = "lookup" => turns = 0
        PROVE  InputInv'
    <3>1. EvalTakesNoTurn'
      BY <2>1 DEF InputInv, EvalTakesNoTurn
    <3> QED
      BY <2>0, <2>1, <3>1, NothingSentOrRead
  <2>2. CASE \E e \in armed : Turn(e)
    <3>1. /\ UNCHANGED inputVars /\ pc' = "dispatch" /\ fatal' = fatal
      BY <2>2 DEF Turn, Wait
    <3> QED
      BY <2>0, <3>1, NothingSentOrRead DEF EvalTakesNoTurn
  <2>3. CASE Start
    <3>1. turns = 0
      BY <2>3 DEF Start, InputInv, EvalTakesNoTurn
    <3>2. UNCHANGED <<inputVars, turns>> /\ (pc' # "eval" \/ pc' = pc)
      BY <2>3 DEF Start, PortsNotFound, erlm_listen_input_event
    <3> QED
      BY <2>1, <3>1, <3>2
  <2>4. CASE InputEvent
    BY <2>0, <2>4, InputStep
  <2>5. CASE \E m \in Messages : ErlangSends(m)
    BY <2>5, SendsStep
  <2>6. CASE ErlangCloses
    <3>1. Read' = Read /\ InputTypes' /\ StdinIsTail' /\ EvalTakesNoTurn' /\ Torn' = Torn
      BY <2>6 DEF ErlangCloses, timersVars, Read, InputInv, InputTypes, StdinIsTail,
                  EvalTakesNoTurn, Torn
    <3> QED
      BY <2>6, <3>1, InputUnchanged DEF ErlangCloses, timersVars
  <2>7. CASE EvalEnds \/ LoopEnds \/ SendReturns
    BY <2>0, <2>1, <2>7 DEF EvalEnds, LoopEnds, SendReturns, timersVars
  <2>8. CASE TimerEvent
    BY <2>0, <2>1, <2>8 DEF TimerEvent, HandleTimer, duk_timers_handle_event
  <2>9. CASE OutputEvent
    BY <2>0, <2>1, <2>9 DEF OutputEvent
  <2>10. CASE CallbackEnds
    BY <2>0, <2>1, <2>10 DEF CallbackEnds, CallbackReturns, CallbackThrows
  <2>11. CASE \E c \in Callbacks : SetTimeout(c)
    BY <2>0, <2>1, <2>11 DEF SetTimeout, duk_timers_set_timeout
  <2>12. CASE \E id \in Ids \cup {-1} : ClearTimeout(id)
    BY <2>0, <2>1, <2>12 DEF ClearTimeout, duk_timers_clear_timeout
  <2>13. CASE \E p \in Packets : erlm_output_port_handler(p)
    BY <2>0, <2>1, <2>13 DEF erlm_output_port_handler, timersVars
  <2>14. CASE ErlangBegins
    <3>1. Read' = Read /\ InputTypes' /\ StdinIsTail' /\ EvalTakesNoTurn' /\ (Torn => Torn')
      BY <2>14 DEF ErlangBegins, timersVars, Read, InputInv, InputTypes, StdinIsTail,
                   EvalTakesNoTurn, Torn
    <3> QED
      BY <2>14, <3>1, InputUnchanged DEF ErlangBegins, timersVars
  <2> QED
    BY <1>2, <2>2, <2>3, <2>4, <2>5, <2>6, <2>7, <2>8, <2>9, <2>10, <2>11, <2>12, <2>13, <2>14
       DEF ErlmNext, Progress
<1> QED
  BY <1>1, <1>2

-----------------------------------------------------------------------------
(* The value stack is balanced: once the loop runs, a lookup only fails    *)
(* for a message with an unknown port, or after one whose parameters are   *)
(* no array, unless a part of a packet has been taken for a message.       *)
THEOREM StackBalanced == ErlmSpec => []LookupsFind
<1>1. InputInv => LookupsFind
  BY DEF InputInv
<1> QED
  BY <1>1, InitInput, NextInput, PTL DEF ErlmSpec

(* The messages for input ports that carry an array are applied once and   *)
(* in the order they were sent, whatever comes between them.               *)
THEOREM AppliedInOrder == ErlmSpec => []InputsApplied
<1>1. InputInv => InputsApplied
  BY DEF InputInv
<1> QED
  BY <1>1, InitInput, NextInput, PTL DEF ErlmSpec

(* The variables the invariants above leave out.                           *)
RestTypes ==
  /\ pc \in {"eval", "loop", "dispatch", "callback", "send", "exited"}
  /\ turns \in 0..MaxTurns
  /\ begun \in BOOLEAN /\ closed \in BOOLEAN /\ eof \in BOOLEAN
  /\ freed \subseteq Packets

LEMMA InitRest == ErlmInit => RestTypes
<1>1. 0 \in 0..MaxTurns
  BY ErlmAssumption
<1> QED
  BY <1>1 DEF ErlmInit, RestTypes

LEMMA NextRest ==
  ASSUME RestTypes, OutputInv, DispatchInv, [ErlmNext]_erlmVars
  PROVE  RestTypes'
<1>1. CASE UNCHANGED erlmVars
  BY <1>1 DEF erlmVars, inputVars, outputVars, RestTypes
<1>2. CASE \E e \in armed : Turn(e)
  <2>1. turns' = turns + 1 /\ turns < MaxTurns /\ pc' = "dispatch"
    BY <1>2 DEF Turn
  <2>2. turns' \in 0..MaxTurns
    BY <2>1, ErlmAssumption DEF RestTypes
  <2> QED
    BY <1>2, <2>1, <2>2 DEF Turn, RestTypes, inputVars, outputVars
<1>3. CASE InputEvent
  BY <1>3 DEF InputEvent, Apply, RestTypes, outputVars
<1>4. CASE OutputEvent
  <2>1. event \in armed /\ event.type = "write"
    BY <1>4 DEF OutputEvent, DispatchInv, OneShot, OneShotTypes
  <2>2. PICK p \in Packets : event = Output(p)
    BY <2>1 DEF OutputInv, OutputTypes
  <2>3. event.data \in Packets
    BY <2>2, StreamEvents
  <2> QED
    BY <1>4, <2>3 DEF OutputEvent, RestTypes, inputVars
<1>5. CASE EvalEnds \/ LoopEnds \/ SendReturns
  BY <1>5 DEF EvalEnds, LoopEnds, SendReturns, RestTypes, inputVars, outputVars
<1>6. CASE Start
  BY <1>6 DEF Start, PortsNotFound, erlm_listen_input_event, RestTypes, inputVars, outputVars
<1>7. CASE TimerEvent \/ CallbackEnds
  BY <1>7 DEF TimerEvent, CallbackEnds, CallbackThrows, RestTypes, inputVars, outputVars
<1>8. CASE ErlangBegins \/ ErlangCloses \/ \E m \in Messages : ErlangSends(m)
  BY <1>8 DEF ErlangSends, ErlangBegins, ErlangCloses, RestTypes, outputVars
<1>9. CASE \/ \E c \in Callbacks : SetTimeout(c)
           \/ \E id \in Ids \cup {-1} : ClearTimeout(id)
  BY <1>9 DEF SetTimeout, ClearTimeout, RestTypes, inputVars, outputVars
<1>10. CASE \E p \in Packets : erlm_output_port_handler(p)
  BY <1>10 DEF erlm_output_port_handler, RestTypes, inputVars
<1> QED
  BY <1>1, <1>2, <1>3, <1>4, <1>5, <1>6, <1>7, <1>8, <1>9, <1>10 DEF ErlmNext, Progress

(* The type invariant of the main program.                                 *)
THEOREM ErlmTypes == ErlmSpec => []ErlmTypeOK
<1>1. ErlmSpec => []TimersTypeOK
  BY ErlmIsTimersHost, TimersTypes DEF ErlmKeepsTimers
<1>2. TimersTypeOK /\ InputInv /\ OutputInv /\ RestTypes => ErlmTypeOK
  <2> SUFFICES ASSUME TimersTypeOK, InputInv, OutputInv, RestTypes PROVE ErlmTypeOK
    OBVIOUS
  <2> QED
    BY DEF ErlmTypeOK, InputInv, InputTypes, OutputInv, OutputTypes, RestTypes, StackNames
<1> QED
  BY <1>1, <1>2, InitDispatch, InitOutput, InitInput, InitRest,
     NextDispatch, NextOutput, NextInput, NextRest, PTL DEF ErlmSpec
=============================================================================
