---------------------------- MODULE EventsKqueue ----------------------------
(***************************************************************************)
(* The kqueue backend of the events manager (src/src/events.c, lines       *)
(* 176-283).  The kernel keeps one knote for each filter and identifier;   *)
(* the ids of one-shot events are a count.  No result of kevent() is       *)
(* looked at: a call that fails still returns an id, and leaves an event   *)
(* that is never delivered.                                                *)
(*                                                                         *)
(* Every call of the API is one action.  What the kernel does by itself    *)
(* and what the client does to its descriptors are actions of their own.   *)
(***************************************************************************)
EXTENDS Integers, FiniteSets

CONSTANTS
  Events,    \* the addresses malloc can return for a struct event
  MaxId,     \* the bound of events_next_id
  Streams,   \* the descriptors a client subscribes
  Data,      \* the payloads (void *data)
  MaxEvents, \* the bound a client passes to events_wait
  NULL       \* no event

ASSUME KqueueAssumption ==
  /\ MaxId \in Nat /\ MaxEvents \in Nat \ {0}
  /\ NULL \notin Events

VARIABLES
  heap,    \* address -> the struct event malloced there, NULL when free
  nextId,  \* events_next_id
  knotes,  \* slot -> the event (udata) of its knote, or NULL
  ready,   \* the slots whose knote the kernel would report
  open,    \* the client's descriptors that are open
  held,    \* the events events_wait gave to the client, not yet freed
  failed   \* history: a call of kevent() has failed

vars == <<heap, nextId, knotes, ready, open, held, failed>>

-----------------------------------------------------------------------------
OneShotTypes == {"custom", "timer"}
StreamTypes  == {"read", "write"}

Ids == 1..MaxId

EventRecord == [type : OneShotTypes, id : Ids, data : Data]
                 \cup [type : StreamTypes, id : Streams, data : Data]

ASSUME KqueueNullAssumption == NULL \notin EventRecord

(* The filter of a knote goes with the type of its event.                  *)
OneShotSlots == OneShotTypes \X Ids
StreamSlots  == StreamTypes \X Streams
Slots == OneShotSlots \cup StreamSlots

Slot(e) == <<e.type, e.id>>
StreamSlotsOf(fd) == StreamTypes \X {fd}

Free == {a \in Events : heap[a] = NULL}
Registered == {s \in Slots : knotes[s] # NULL}

(* knotes without those of the slots in gone.                              *)
Without(gone) == [s \in Slots |-> IF s \in gone THEN NULL ELSE knotes[s]]

events_create_manager ==
  /\ heap = [a \in Events |-> NULL]
  /\ nextId = 0
  /\ knotes = [s \in Slots |-> NULL]
  /\ ready = {} /\ held = {} /\ open = Streams
  /\ failed = FALSE

(* malloc and the assignments to the event.                                *)
Allocate(a, e) ==
  /\ a \in Free
  /\ heap' = [heap EXCEPT ![a] = e]
  /\ UNCHANGED <<open, held>>

(* EV_ADD: a knote of the same slot gets the new event in place of its own.*)
Added(a, e) ==
  /\ knotes' = [knotes EXCEPT ![Slot(e)] = a]
  /\ UNCHANGED failed

KeventFails ==
  /\ failed' = TRUE
  /\ UNCHANGED <<knotes, ready>>

NewOneShot(a, type, data) ==
  /\ nextId < MaxId
  /\ nextId' = nextId + 1
  /\ Allocate(a, [type |-> type, id |-> nextId + 1, data |-> data])

(* Mutant: the event is not triggered.                                     *)
SendWithoutTrigger(data) ==
  \E a \in Events :
    LET e == [type |-> "custom", id |-> nextId + 1, data |-> data]
    IN /\ NewOneShot(a, "custom", data)
       /\ \/ Added(a, e) /\ UNCHANGED ready
          \/ KeventFails

(* Two calls of kevent: one adds the event, one triggers it.               *)
events_send_custom(data) ==
  \E a \in Events :
    LET e == [type |-> "custom", id |-> nextId + 1, data |-> data]
    IN /\ NewOneShot(a, "custom", data)
       /\ \/ Added(a, e) /\ ready' = ready \cup {Slot(e)}
          \/ KeventFails
          \/ /\ knotes' = [knotes EXCEPT ![Slot(e)] = a]
             /\ failed' = TRUE
             /\ UNCHANGED ready

events_send_timeout(data) ==
  \E a \in Events :
    LET e == [type |-> "timer", id |-> nextId + 1, data |-> data]
    IN /\ NewOneShot(a, "timer", data)
       /\ \/ Added(a, e) /\ UNCHANGED ready
          \/ KeventFails

(* A descriptor that is not open is refused (EBADF).                       *)
Subscribe(type, fd, data) ==
  \E a \in Events :
    LET e == [type |-> type, id |-> fd, data |-> data]
    IN /\ Allocate(a, e)
       /\ \/ fd \in open /\ Added(a, e) /\ UNCHANGED ready
          \/ KeventFails
       /\ UNCHANGED nextId

events_subscribe_read(fd, data)  == Subscribe("read", fd, data)
events_subscribe_write(fd, data) == Subscribe("write", fd, data)

(* Mutant: the event is freed, and the client still has it.                *)
UnsubscribeFrees(a) ==
  /\ a \in held /\ heap[a].type \in StreamTypes
  /\ knotes[Slot(heap[a])] = a
  /\ knotes' = Without({Slot(heap[a])})
  /\ ready' = ready \ {Slot(heap[a])}
  /\ heap' = [heap EXCEPT ![a] = NULL]
  /\ UNCHANGED <<nextId, open, held, failed>>

(* Mutant: the filters are mixed up.                                       *)
UnsubscribeOther(a) ==
  /\ a \in held /\ heap[a].type \in StreamTypes
  /\ knotes[Slot(heap[a])] = a
  /\ LET other == StreamSlotsOf(heap[a].id) \ {Slot(heap[a])}
     IN /\ knotes' = Without(other)
        /\ ready' = ready \ other
  /\ UNCHANGED <<heap, nextId, open, held, failed>>

(* EV_DELETE of whatever event is registered for the filter and descriptor *)
(* of a stream event; nothing for other events.  The client does not       *)
(* unsubscribe an event twice.                                             *)
events_unsubscribe(a) ==
  /\ a \in held /\ heap[a].type \in StreamTypes
  /\ knotes[Slot(heap[a])] = a
  /\ knotes' = Without({Slot(heap[a])})
  /\ ready' = ready \ {Slot(heap[a])}
  /\ UNCHANGED <<heap, nextId, open, held, failed>>

(* The kernel drops the knotes of a descriptor that is closed.             *)
CloseDescriptor(fd) ==
  /\ open' = open \ {fd}
  /\ knotes' = Without(StreamSlotsOf(fd))
  /\ ready' = ready \ StreamSlotsOf(fd)

(* Mutant: the descriptor of a read event is left open.                    *)
FreeWithoutClose(a) ==
  /\ a \in held
  /\ heap[a].type = "write" => knotes[Slot(heap[a])] # a
  /\ heap' = [heap EXCEPT ![a] = NULL]
  /\ held' = held \ {a}
  /\ UNCHANGED <<nextId, knotes, ready, open, failed>>

(* The client has ended the subscription of a write event; that of a read  *)
(* event ends with its descriptor, which is the client's.                  *)
events_free(a) ==
  /\ a \in held
  /\ heap[a].type = "write" => knotes[Slot(heap[a])] # a
  /\ heap' = [heap EXCEPT ![a] = NULL]
  /\ held' = held \ {a}
  /\ IF heap[a].type = "read"
     THEN CloseDescriptor(heap[a].id)
     ELSE UNCHANGED <<open, knotes, ready>>
  /\ UNCHANGED <<nextId, failed>>

(* Mutant: the one-shot events are not EV_ONESHOT.                         *)
WaitWithoutOneShot(batch) ==
  /\ batch # {} /\ batch \subseteq Registered \cap ready
  /\ Cardinality(batch) <= MaxEvents
  /\ held' = held \cup {knotes[s] : s \in batch}
  /\ UNCHANGED <<heap, nextId, knotes, ready, open, failed>>

(* kevent(): the events of a batch of knotes that are ready; those of      *)
(* EV_ONESHOT are deleted.                                                 *)
events_wait(batch) ==
  /\ batch # {} /\ batch \subseteq Registered \cap ready
  /\ Cardinality(batch) <= MaxEvents
  /\ held' = held \cup {knotes[s] : s \in batch}
  /\ knotes' = Without(batch \cap OneShotSlots)
  /\ ready' = ready \ (batch \cap OneShotSlots)
  /\ UNCHANGED <<heap, nextId, open, failed>>

-----------------------------------------------------------------------------
(* The kernel.                                                             *)
TimerExpires(id) ==
  /\ <<"timer", id>> \in Registered \ ready
  /\ ready' = ready \cup {<<"timer", id>>}
  /\ UNCHANGED <<heap, nextId, knotes, open, held, failed>>

StreamChanges(s) ==
  /\ s \in Registered
  /\ ready' = IF s \in ready THEN ready \ {s} ELSE ready \cup {s}
  /\ UNCHANGED <<heap, nextId, knotes, open, held, failed>>

(* The client.                                                             *)
ClientOpens(fd) ==
  /\ fd \notin open
  /\ open' = open \cup {fd}
  /\ UNCHANGED <<heap, nextId, knotes, ready, held, failed>>

ClientCloses(fd) ==
  /\ fd \in open
  /\ CloseDescriptor(fd)
  /\ UNCHANGED <<heap, nextId, held, failed>>

Init == events_create_manager

Next ==
  \/ \E data \in Data :
       \/ events_send_custom(data)
       \/ events_send_timeout(data)
       \/ \E fd \in Streams : \/ events_subscribe_read(fd, data)
                              \/ events_subscribe_write(fd, data)
  \/ \E a \in Events : events_unsubscribe(a) \/ events_free(a)
  \/ \E batch \in SUBSET Slots : events_wait(batch)
  \/ \E id \in Ids : TimerExpires(id)
  \/ \E s \in StreamSlots : StreamChanges(s)
  \/ \E fd \in Streams : ClientOpens(fd) \/ ClientCloses(fd)

Spec == Init /\ [][Next]_vars

(* Timers expire, and a client that keeps calling events_wait is given     *)
(* every one-shot event that is ready: kevent takes the knotes it reports  *)
(* to the end of its list.                                                 *)
FairSpec ==
  /\ Spec
  /\ \A id \in Ids : WF_vars(TimerExpires(id))
  /\ \A s \in OneShotSlots :
       WF_vars(\E batch \in SUBSET Slots : s \in batch /\ events_wait(batch))

-----------------------------------------------------------------------------
(* The type invariant of the variables above.                              *)
TypeOK ==
  /\ heap \in [Events -> EventRecord \cup {NULL}]
  /\ nextId \in 0..MaxId
  /\ knotes \in [Slots -> Events \cup {NULL}]
  /\ ready \subseteq Slots
  /\ open \subseteq Streams
  /\ held \subseteq Events \ Free
  /\ failed \in BOOLEAN

(* kqueue never holds a dangling pointer, and never reports an event under *)
(* the filter or the descriptor of another: the event of a knote is        *)
(* allocated and is one of the knote's slot.  events_free keeps it so only *)
(* because it closes the descriptor of a read event.                       *)
RegisteredAlive ==
  \A s \in Registered : heap[knotes[s]] # NULL /\ Slot(heap[knotes[s]]) = s

(* One id, one event, one delivery: ids are not shared, whichever calls    *)
(* failed, and a one-shot event the client holds is no longer registered.  *)
OneShotOnce ==
  \A a, b \in Events \ Free :
    heap[a].type \in OneShotTypes =>
      /\ heap[b].type \in OneShotTypes /\ heap[b].id = heap[a].id => a = b
      /\ a \in held => knotes[Slot(heap[a])] = NULL

(* As long as no call of kevent fails, the event of every id that          *)
(* events_send_custom and events_send_timeout return is delivered.         *)
AcceptedIsDelivered ==
  \A id \in Ids :
    <>(nextId >= id) =>
      <>(failed \/ \E a \in held : heap[a].type \in OneShotTypes /\ heap[a].id = id)

(* The backend implements the promises of events.h: a failed call is one   *)
(* that is refused, and events_free ends the subscriptions of the          *)
(* descriptor it closes.                                                   *)
Service == INSTANCE EventService
             WITH Kqueue <- TRUE,
                  armed  <- {heap[knotes[s]] : s \in Registered},
                  held   <- {heap[a] : a \in held}

ImplementsService == Service!ServiceSpec
=============================================================================
