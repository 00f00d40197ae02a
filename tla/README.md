# A verification project for erlm

erlm runs an Elm program (a `Platform.program` worker compiled to JavaScript)
as an Erlang port: packets that arrive on descriptor 0 are given to the
program's input ports, what the program sends to its output ports is written
to descriptor 1, and `setTimeout` and `clearTimeout` are provided on top of a
small events library. The program is single threaded. What makes it hard is
not parallelism but the order of callbacks: JavaScript runs inside handlers and
calls back into the events library, the kernel reports events when it likes,
system calls fail one by one, and one value stack, one output slot and one
table of callbacks are shared by all of it.

## Inventory

| Part | Source | State | Operations |
| --- | --- | --- | --- |
| events manager, epoll | `src/src/events.c:8-174`, `events.h` | the event records on the heap, the eventfds and timerfds that are open, the interest list of the epoll instance and which `EPOLLONESHOT` entries are disarmed | `events_create_manager`, `events_send_custom`, `events_send_timeout`, `events_subscribe_read`, `events_subscribe_write`, `events_unsubscribe`, `events_wait`, `events_free` |
| events manager, kqueue | `src/src/events.c:176-283` | the event records, the next id, the knotes of the kernel | the same |
| timers | `src/src/duk_timers.c` | `stash.timeoutCallbacks`, from timer id to callback | `setTimeout`, `clearTimeout`, `duk_timers_handle_event` |
| main program | `src/src/erlm.c` | the loop counter, the value stack between two events, the packet buffer, the packets that wait for descriptor 1 | evaluation, subscriptions, the loop, the three handlers, `erlm_output_port_handler` |
| packets | `src/src/io.c` | what has been read of a packet | `io_read`, `io_read_packet2`, `io_write`, `io_write_packet2` |
| command line | `main` in `erlm.c`, `src/lib/argparse` | the counts of `struct erlm_config`, the files kept | short and long options, negations, `--`, help, usage |
| Elm ports | `src/src/duk_elm.c` | the value stack | listing input and output ports, evaluation of the program |
| Duktape helpers | `src/src/duk_util.c` | the value stack | evaluation of a file, `duk_util_unroll_array` |
| term conversion | `src/src/duk_erlang.c` | none (a function of a term or a value) | `duk_erlang_get_term`, `duk_erlang_push_term` |
| Duktape | `src/lib/duktape` | the value stack and its reserve | the eleven calls of the stack API erlm makes; vendored |
| acutest | `src/lib/acutest` | | vendored, tests only |
| erl_interface, the kernel, the Erlang VM | outside | | |

How they interact. `do_something` (erlm.c:196) creates the manager, registers
the timers, evaluates the program, subscribes the output ports and descriptor
0, and then takes ten turns of: wait for one event, offer it to
`duk_timers_handle_event`, `erlm_handle_input_event` and
`erlm_handle_output_event` in this order. The callbacks of timers and the
`send` function of an input port run JavaScript, which may set and clear timers
and send to output ports; the latter runs `erlm_output_port_handler`, which
subscribes descriptor 1 with the packet as the payload of the event. The loop
never calls `events_free`.

What makes each part correct, in short:

- *events manager*: a pointer in the kernel never dangles; a one-shot event is
  delivered once; a descriptor belongs to one event and is closed once; every
  event is registered, held by the client or freed; what was accepted is
  delivered. The client must end a subscription before it frees its event and
  must not unsubscribe the same event twice.
- *timers*: a callback that was accepted is called once unless it is cleared,
  never after `clearTimeout`, and a dispatch does not take away another timer.
- *main program*: packets leave in order, once, and are not used after they
  are freed; messages reach their port in order, once; the value stack is
  balanced between events; it stops when the port is closed.
- *packets*: what is received is what was sent, complete and in order.
- *Elm ports, helpers, conversion*: each function leaves on the value stack what
  its caller pops, on every path; a worker is subscribed on all its output ports
  and the app is on the top when the loop begins; a term that goes through the
  program, or a value that goes through Erlang, comes back recognizably.
- *command line*: the file is run with the options on that were asked for last.

The hazards behind these properties are listed with their lines in
`PROJECT.json`.

## Modules

| Module | What it is |
| --- | --- |
| `EventService` | what `events.h` promises: a set of armed events and a set of events in the hands of the client. `Kqueue` chooses between the two backends where they differ |
| `EventsEpoll` | the epoll backend in detail; implements `EventService` |
| `EventsEpollProofs` | its invariants and the refinement, proved |
| `EventsKqueue` | the kqueue backend in detail; implements `EventService` with `Kqueue = TRUE` |
| `EventsKqueueProofs` | its invariants and the refinement, proved |
| `DukTimers` | `EventService` and `duk_timers.c` under any host loop |
| `DukTimersProofs` | proofs about it |
| `InputCall` | what one message does to the value stack, by the kinds of its port and parameters |
| `Erlm` | the main program, on top of `DukTimers` and `InputCall` |
| `ErlmProofs` | proofs about it |
| `Recursion` | loops of so many turns, and functions of values that are made of values, as recursive functions with a finite domain |
| `RecursionTheorems` | induction over what a value is made of, and that such functions exist and are what their definitions say |
| `TermConversion` | `duk_erlang.c`: Erlang terms to JavaScript values and back |
| `ValueStack` | the calls of the Duktape stack API, and `duk_util.c` and `duk_elm_peval_file` made of them |
| `ValueStackProofs` | what each call and helper leaves on the stack, and what the two conversions do to terms and values of any depth, proved |
| `CommandLine` | argparse, one argument at a time, and the options of `main` |
| `ElmPorts` | `main` and `do_something` on the value stack: the command line, the evaluation, the ports, the messages. Composes the three modules above and shows `InputCall` to be an abstraction of them |
| `ElmPortsProofs` | proofs about it |
| `PacketIO`, `PacketIOProofs` | `io.c` over a pipe, and its header arithmetic |
| `MC*` | instances for TLC |

**EventService** has the variables `armed` and `held`. An event is a record of
`struct event`; a stream event names its descriptor, a one-shot event a fresh
id. A *slot* is what the kernel keeps one registration for: the descriptor in
epoll, the descriptor and the filter in kqueue. A second subscription of a slot
is refused by epoll (`EEXIST`, events.c:142) and takes the place of the first in
kqueue (`EV_ADD`, events.c:250). Posting an event may be refused.

**EventsEpoll** keeps the heap (`heap`), the descriptors (`open`), the interest
list (`interest`), the `EPOLLONESHOT` entries already reported (`disarmed`) and
the descriptors the kernel would report (`ready`). Each function of the API is an
action that contains all it does: `events_send_timeout` for instance has the
branch to `events_send_raw_custom` for a timeout that is not positive, the
success, the leak of the event when the timerfd cannot be created or set
(events.c:87-95) and the clean failure of `epoll_ctl`. The failure of
`epoll_ctl` in `events_send_raw_custom` frees the event in the callee and the
caller (events.c:39, 59, 77): the flag `doubleFreed` records it and the process
goes no further. `TimerExpires` and `StreamChanges` are the kernel's. In the
refinement, an event is armed when its descriptor is registered and not
disarmed, and the heap addresses disappear.

**EventsKqueue** keeps the heap, the count of ids (`nextId`), the event of each
knote by filter and identifier (`knotes`), the slots the kernel would report
(`ready`) and the client's descriptors that are open. Each call either registers
its event or fails (`KeventFails`): the code looks at no result, so an id is
returned and the event stays allocated for ever. `events_send_custom` makes two
calls and may fail between them. `events_free` of a read event closes the
descriptor, which ends the write subscription of the same descriptor too; the
client may also close and open descriptors (tests/events.c does). In the
refinement an event is armed when a knote has it.

**DukTimers** adds `timeoutCallbacks`, the `event` the loop has received and not
yet handled, the event whose callback is running (`current`), the reason the
process has died for (`fatal`), and a history of each call of `setTimeout`
(`status`). A dispatch is two steps, before and after the callback, since
JavaScript sets and clears timers in between. `Wait`, `HandleTimer`,
`HandleOther`, `HostSubscribes` and `HostDies` are a most general host: `Erlm`
is shown to be one.

**Erlm** follows `do_something` with a program counter: `eval`, `loop`,
`dispatch` (an event is being offered to the handlers), `callback` (a timer
callback runs), `send` (the send function of an input port runs), `exited`. The
value stack is modelled by the names of what is left on it between events: the
Elm worker at the bottom, and what an unbalanced handler leaves above it.
`buffer` is the content of the packet buffer of `erlm_handle_input_event`; the
buffer is an uninitialized local array of a function that is called from the
same place each time, so that after a failed read it holds the last message or
something that is no term: both outcomes are in `InputEvent`. Erlang writes a
packet at once (`ErlangSends`) or begins it (`ErlangBegins`) and finishes it
later or never. A packet that is begun makes descriptor 0 readable, and
`io_read_packet2` then waits: `WaitsForRest` holds and nothing of the process
moves until Erlang goes on or closes the port. If it closes it, the part lies over
the last message in the buffer and the handler, which looks at no result, decodes
that: any message or none (`Received`). What
`duk_erlang_push_term` makes of the parameters of a message is a constant,
`ArgsOf`, with the values `InputCall` tells apart: an array, an array without
elements (a list of pairs), a string (any iolist, so also a list of small
integers), another value, an array too long for the stack, or a term that cannot
be pushed. The instances compute it from terms with `ValueStack`. Writing to a closed
port is either fatal (`SIGPIPE`) or fails, for a process that ignores the
signal.

**InputCall** states for one message what kills the process (a lookup on the
wrong value or of an unknown port, an unsupported term, too many values on the
stack), whether the send function runs, and what is left on the stack.

**ElmPorts** executes the calls behind it one after another on a machine: a stack
of values and whether an exception was thrown. `ValueStack` has the API calls by
their effect (a push beyond the reserve throws, as `DUK__CHECK_SPACE` does) and
the helpers of `duk_util.c` as compositions of them; `TermConversion` has the two
conversions. These, like the loops, are written with `Recursion`: the function for a
term is defined on all terms within it, layer by layer, which are at most
`MaxNesting` layers. The steps are those
between which something else can happen: reading an argument (`Argument`),
`main`, the evaluation, the listing of the ports with `--verbose`, the
subscriptions, one message, and what JavaScript does in a send function: send a
value to an output port (`Emit`), send back its argument (`Echo`) or return.
`SendBack` is an Erlang process that returns what it got. The programs are those
that evaluate to an app with or without ports, throw, or cannot be read.

**CommandLine** reads `argv` with the early ends of argparse: an option it does not
know prints the usage, help exits at once, `--` makes the rest files.

**PacketIO** has one writer and one reader and a pipe of bytes. A byte has
`Base` values; the header is two of them. `CharSigned` says whether the
compiler's `char` is signed, which io.c:24 depends on. `bytes` is what the
reader's buffer begins with and `result` what `io_read_packet2` returned last: at
end of file -1 within a header and 0 within a body, which is also the result of
an empty packet.

## Runs

`CHECK_DEADLOCK FALSE` is set in every run because the systems stop: the
process exits or dies, the allocator aborts after a double free, a model runs
out of callbacks, messages and packets (each is used once) or the pipe has
nothing more to carry.

| Run | Question | Bounds, and why they are enough |
| --- | --- | --- |
| `epoll` | who owns events and descriptors; does the backend keep the promises of `events.h`, and does it deliver what it accepted | 3 events, 2 one-shot descriptors, 2 streams, batches of 2, one payload. Addresses and descriptors run out and are reused, two events of each kind can be pending, and a batch can mix them. No symmetry (liveness) |
| `kqueue` | the same for kqueue | 3 events, ids up to 2, one descriptor with two filters whose number equals an id, batches of 2: knotes of all four filters compete for addresses, and a descriptor is closed and opened again |
| `timers` | does the table of callbacks stay right, and is every accepted callback called | 3 calls of `setTimeout`, one without a function; 2 ids, so that the third is refused |
| `loop` | output packets, messages, and the use of the timers and the events manager | 3 packets, 1 timer, 4 messages in any order (two arrays, a text, one to no port), 4 turns, failing epoll calls: two packets compete for descriptor 1 while a third follows, and every message meets the stack that another one left |
| `kqueue_loop` | output packets and timers on kqueue | 3 packets, 2 timers with the ids 1 and 2, which equal descriptors, 3 messages (an array, a text, one with a pid), timers that are not registered |
| `progress` | does the loop go on, but where it waits for a packet that is not finished | 3 messages (an array, a text, one to an output port), 2 packets, a timer, 5 turns: outputs wait for descriptor 1 while messages arrive, whole or in parts, and the port is closed |
| `ports` | the command line; which programs reach the loop; is `InputCall` an abstraction of the calls; what conversion preserves | 4 arguments of 12; apps with up to 3 ports where 2 can be listed, and without; 21 parameters with every case of the conversion nested once and too deep, the byte 0 among them; a reserve of 10 values, which calls with more than 3 arguments exceed; 9 values; 2 messages after one another, enough for a stack left unbalanced to be used |
| `packets` | framing, and what a return of `io_read_packet2` says of the buffer | bytes of two bits, packets of the lengths 0, 1, 2, 9 and 18, so that each byte of the header takes values in both halves and a length of 18 does not fit 4 bits; 3 packets, a pipe of 4 bytes, so that reads and writes are cut everywhere |
| `output_lost`, `parameters`, `replay`, `packets_signed` | the disagreements below | the smallest instance that shows each |

`MaxTurns` is 10 in the code. Nothing in the loop depends on the turns taken
but its end, so smaller numbers bound the runs; the proofs are for every number.

### Disagreements

1. `NoOutputLost`: a packet sent while another waits is dropped (erlm.c:71). On
   kqueue the older one is.
2. `ParametersApplied`: parameters that erl_interface takes for an iolist are
   pushed as a string, and it is the string that gets called (erlm.c:151-152).
   The three pops then leave a value on the stack, and the next message is fatal.
   A list of pairs is passed as no arguments.
3. `AppliedOnce`: at end of file the last message is applied again
   (erlm.c:135).
4. `FramesIntact` with `CharSigned`: lengths with a low byte of 128 or more are
   refused and the body is taken for headers (io.c:24).

The process also exits after ten events while the port is open (erlm.c:229).
No document says otherwise, so it is part of the model (`LoopEnds`) and not a
disagreement.

## Fairness

- `EventsEpoll`: a timerfd expires (`TimerExpires`), and a descriptor that stays
  ready is reported to a client that keeps calling `events_wait`: epoll_wait
  moves the entries it reports to the end of its ready list. Nothing is assumed
  of the calls that register or free.
- `EventsKqueue`: the same: timers expire, and each one-shot knote that stays ready
  is in one of the batches of a client that keeps calling `events_wait`. That no
  call of kevent fails is a condition of `AcceptedIsDelivered`, not a fairness.
- `DukTimers`: the loop takes its steps and callbacks end (weak fairness). An
  armed timer is delivered (strong fairness, since `Wait` is enabled only
  between two dispatches), for the reason above.
- `Erlm`: weak fairness of what the process does by itself (evaluation,
  handlers, the end of callbacks), strong fairness of the delivery of each event
  that is armed: timers expire and descriptor 1 becomes writable because Erlang
  reads its port. Nothing is assumed of JavaScript beyond termination, nor of
  Erlang: it need not send, finish a packet it began, nor close. So `PendingIsTaken`
  has the case of a loop that waits for ever for the rest of a packet (io.c:8).
- `PacketIO`: both ends keep calling and read and write return.

## Proofs

All theorems are for every value of the constants that satisfies the named
assumptions (`EpollAssumption`, `NullAssumption`, `KqueueAssumption`,
`KqueueNullAssumption`, `ServiceAssumption`, `TimersAssumption`,
`ErlmAssumption`, `PacketAssumption`), and for both backends
where `Kqueue` is one of them.

- **EventsEpollProofs.** The inductive invariant `IInv` joins the five
  invariants of the run with three facts they need: what the client holds is
  allocated and has a descriptor (`HeldAlive`), the type of an event tells
  whether its id is a one-shot descriptor (`KindOfId`: closing a descriptor
  cannot hit a stream), and only registered descriptors are disarmed
  (`DisarmedRegistered`: a new registration is armed). There is one lemma for
  each kind of call; `EpollTypes`, `NoDanglingRegistration`, `OneShotOnce`,
  `DescriptorsOwned` and `EventsOwned` follow.
  Under `IInv`, every step of the backend is one of
  `EventService` or leaves its variables alone (`EpollImplementsService`). The
  delicate steps are `events_free` (the event freed is not one that may still
  be delivered, by `HeldIsDisarmed` and `OpenFdHasOneEvent`) and `events_wait`
  (disarming the descriptors of the batch removes exactly its one-shot events).
- **EventsKqueueProofs.** The invariant `KInv` adds to the three invariants of the
  run that ids are counted (`IdsCounted`): no event has an id that is still to
  come, so a new one-shot event shares its slot with none, even where an earlier
  call failed and left its event allocated. `events_free` is the call that needs
  care (`FreeFacts`): the knote of a one-shot event is gone when the client has
  it, the client has ended the subscription of a write event, and that of a read
  event goes with its descriptor, together with the write subscription of the
  same descriptor. `KqueueTypes`, `NoDanglingKnote` and `KqueueOneShotOnce`
  follow.
  Under `KInv`, every step of the backend is one of
  `EventService` or leaves its variables alone (`KqueueImplementsService`): a call
  that fails is a refusal, also where only the second call of
  `events_send_custom` does; a subscription takes the place of the one in its
  slot; freeing one of two events with the same content is a stutter, or the
  closing of a stream.
- **DukTimersProofs.** The invariant `TInv` adds to the types that a running
  callback's event is held, so that its id is not given out again; that a
  callback is stored under at most one id; and that the status of a callback
  agrees with where it is stored. `NoTimerLost`, `CallbackOwnsItsEntry` and the
  action property `CallbackRunsOnce` follow.
- **ErlmProofs.** `ErlmIsTimersHost` maps every step of the main program to a
  step of the general host of `DukTimers`; the step that needs care is
  `erlm_handle_output_event`, whose `events_unsubscribe` has to find the
  subscription of its own event: the event being handled is still armed,
  because descriptor 1 is a stream and nothing replaces its subscription during
  a dispatch. So `ErlmTimers` has the timers' properties for the program.
  `NoUseAfterFree` and `OutputInOrder` use `OutputInv`: there is at most one
  pending packet, its position among the packets sent is behind those of all
  packets written, and packets are freed only when written.
  `InputInv` says that the pipe holds the last messages sent
  (`StdinIsTail`, so that reading appends one to `Read`), that the buffer holds
  one already read, and that the value stack is `<<"app">>` unless a message has
  been read whose parameters are not unrolled (`Balanced`, by `StackAfterFacts`:
  popping three values is right for unrolled parameters only). A message that is
  read is the last of `Read`, so it can follow all that were applied
  (`AppliedStep`). What is said of the buffer and the stack ends where a part of a
  packet has been taken for a message (`Torn`); that takes a closed port with
  nothing left in the pipe (`EofWhenClosed`), so that no message is read after it.
  `StackBalanced`, `AppliedInOrder` and, with the invariants of `ErlmProofs` and of
  the timers, `ErlmTypes` follow.
- **PacketIOProofs.** `HeaderReadOrRefused` and `HeaderRoundTrip`: a header is
  read as it was written, or as a negative length where `char` is signed.
  `PacketsIntact` is `FramesIntact` for unsigned bytes, by the invariant
  `PacketInv`: let S be the frames of all packets sent, one after the other. The
  reader's buffer, the pipe and what the writer has not written yet are the rest
  of S after the first n bytes (`Flow`), and unless nothing more comes (`Over`) or
  a packet did not fit its header, n is where the frame of the next packet begins
  or, while its body is read, two bytes after (`AtFrame`). A new packet extends S
  (`AddFrame`), a read or write moves bytes from one part to the one before
  (`MoveBytes`), and a body that is complete is its packet, cut to the length the
  header gives (`BytesDone`, `HeaderModulo`, `BodyIsPacket`).
  `PartsAtEndOnly` is `PartsOnlyAtEnd`, from the same invariant: when
  `io_read_packet2` returns, the buffer begins with the next packet and the result
  is its length, or the writer has closed the pipe and it begins with a proper part
  of the next packet. The result 0 alone tells an empty packet and such a part
  not apart.

- **RecursionTheorems.** Lemmas, which say nothing of erlm and on which the next
  two modules rest. A definition by recursion over parts has a value
  wherever parts are not nested for ever (`RecursionExists`), by the
  well-foundedness of the numbers: first on the things of rank 0, then of rank
  1, and so on. What holds of a thing when it holds of its parts holds of all
  (`PartsInduction`). `Recursively` defines a function anew for each thing, on
  what is within that thing; `NestedUnfolds` is that these functions agree, so
  that the function at a thing is what its definition says from the function at
  the parts. It needs a rank that falls from a thing to its parts: the number of
  layers after the last one a part is in (`LayersRanked`). The module is
  instantiated for each loop and each recursive function that is reasoned about.
- **ValueStackProofs.** What is on the stack after each call of the API and each
  helper, as long as there is room, and that an exception goes through all of
  them (`Thrown`). `Evaluated` is `duk_elm_peval_file`; `UnrollAll` is the loop
  of `duk_util_unroll_array`, for any number of elements, by an invariant of its
  turns (`UnrollsSoFar`): after k of them the enumerator has the elements after
  the k-th and the first k lie above it, or the stack is full.
  About the conversions: from `NestedUnfolds`, what each is at a term from what it
  is at the parts (`PushIs`, `GetIs`, `IolistIs`, `TextIs` and so on), then by
  induction over the parts that a supported term becomes a value
  (`PushIsValue`) and back what `Echoed` says (`EchoIsPush`), with null for an
  iolist that has a byte 0 (`IolistPushed`); that the term of a
  value is one Erlang may send (`GetIsTerm`; no pair in it has an atom, so none is
  named like an element, `NoNames`); and that it becomes the same value
  exactly if it is `Stable` (`ReturnIsStable`). The last one rests on which arrays
  are iolists to Erlang: those of texts, and of no stable value that is not a text
  itself (`TextsAreIolists`), because a number comes back as a float, which no
  iolist has, and the bytes of a text come back as that text (`FlattenSingles`).
  A list of pairs comes from objects only, so no array returns as one.
- **ElmPortsProofs.** `StartsExactly` is `StartsIffListable` and `CallsCorrect` is
  `CallsAsAbstracted`. Both follow from the invariant `StartInv`: what is on the
  value stack at each place of `do_something`. It is needed because what the
  listings leave decides later: when a listing ends early, the value of "ports"
  or an enumerator is above the app (`PortsLost`), the next listing or the lookup
  of "ports" is done on that, and only then does something throw. The loops are
  followed turn by turn (`ListsAll`, `SubscribeAll`): the first `MaxPorts` ports
  of a kind are listed and the next property after them is the one that is left
  on the stack. In the loop, the app is alone or below the object of its ports,
  which a message whose parameters are not unrolled leaves there.
  `HandledIs` has each way a message can go, `CallStep` compares them with
  `InputCall`.
  `EchoCorrect` and `ReturnsCorrect` are `EchoIsRecognizable` and
  `ReturnsIffStable`, from the invariant `MessageInv`: while a send function runs,
  its arguments are the elements of the converted parameters (`GivenIs`: no value
  of the stack below them, nor the enumerator, is among them), the last packet is
  the term of the last value (`PacketIs`: what the handler pushes before the
  conversion it has popped), and a message that Erlang sends back is that term.
  `LineAsAsked` is `OptionsAsAsked`, for lines of any length, clusters of any
  letters and any names. Its invariant `LineInv` says what a count is: the most by
  which the option is ahead of its negation in some end of the line read so far,
  and 0 for the empty end (`IsCount`). Without the maximum it is not inductive:
  that a count is positive says nothing of what is left after the next negation.
  `CountAppend` is that one argument more moves every end alike and adds an
  empty one, which is what the clamp of `argparse_getvalue` comes to;
  `ClusterStep` follows the letters of a short argument, `NameIs` has the
  long names.

What the constants of `ElmPorts` are assumed to be (`PortsAssumption`,
`ConversionAssumption`, `ReserveAssumption`, `NestingAssumption`,
`LineAssumption`): an argument is of one of the four forms; the app is
absent, an error or an object whose "ports", if it has any, is another object,
with names that differ from each other and from "ports" and values that are not
undefined or null, as Elm makes it; the terms Erlang sends and the values
JavaScript sends are made of the kinds of `TermConversion` (`IsTerm`, `IsValue`)
and are at most `MaxNesting` deep, any number; the bytes of texts are small
integers, no pair is named like an element of an array, and the words JavaScript and Erlang share differ; the stack has room
for five values, which `erlm_subscribe_all_output_ports` needs (64 in Duktape).

Only model-checked: the liveness properties (`AcceptedIsDelivered`, `SetFires`,
`PendingIsTaken`, `ClosedStops`, `SentIsReceived`), which are beyond the prover
together with ENABLED and fairness. Every safety property of a passing run is
proved.

## Not modelled

- Duktape itself. `src/lib/duktape` is 99,000 of the repository's 102,000 lines,
  generated from the Duktape sources and unchanged here: parser, compiler,
  bytecode interpreter, garbage collector and built-ins. erlm uses eleven calls
  of its stack API, and `ValueStack` has those by their effect. JavaScript is a
  nondeterministic caller: an exception of a timer callback is fatal, one of a
  send function is caught. The short-lived values `duk_next` pushes beside name
  and value, and those `duk_erlang_get_term` pushes for nested values in the
  handler's own frame, do not count against the reserve.
- acutest, a test framework, and the parts of argparse for options with values,
  groups and flags, which erlm does not use.
- The wrap of `events_next_id` of kqueue after 2^31 ids: `MaxId` bounds it.
- Terms: NUL bytes in atoms, binaries and strings (`duk_push_string` stops at one);
  the integer 0 in a list is modelled, it makes null of an iolist. Improper lists,
  integers of several words (unsupported, like a pid), sparse arrays and values
  that are no data, which Elm's encoders do not make. Lists of pairs with a name in
  `ElementNames`: their properties are put on an array (duk_erlang.c:136), where
  an atom that spells an index makes an element, at whatever place, and "length" sets the
  length or throws. `IsTerm` leaves them out (`NamesNoElement`). An app whose `ports` is not
  an object is not made by Elm either.
- The mapping of a program file (duk_util.c:41-47): reading a file succeeds or
  fails; a file of whole pages has no NUL at its end.
- malloc never fails in the program's eyes (its results are not checked); the
  size of an allocation (`sizeof(packet)`, erlm.c:67) is below the level of the
  model.
- The text that `--verbose`, usage and errors print; what they do to the value
  stack and to the exit is in `ElmPorts`.
- The bytes of a packet in `Erlm`: it has whole packets and begun ones, and
  `PacketIO` has the bytes, with lengths and cuts. What `erl_decode` makes of a part
  over an older message is any message or none. `Erlm` has the command line
  and the listing of ports as nondeterministic outcomes (`EvalEnds`,
  `PortsNotFound`), which `ElmPorts` determines.

## Plan

Done: `EventService`, `EventsEpoll`, `EventsKqueue`, `DukTimers`, `Erlm`,
`PacketIO`, `InputCall`, `TermConversion`, `ValueStack`, `CommandLine`,
`ElmPorts`, their instances, and the proofs above. Left: pairs named like elements
of an array, which need values with elements at any places.
