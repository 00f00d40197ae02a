----------------------------- MODULE EventsEpoll -----------------------------
(***************************************************************************)
(* The Linux backend of the events manager (src/src/events.c, lines        *)
(* 13-172): struct event records on the heap, eventfd and timerfd          *)
(* descriptors, and the interest list of one epoll instance.               *)
(*                                                                         *)
(* Every call of the API is one action: the program is single threaded and *)
(* nothing can observe the manager in the middle of a call.  What the      *)
(* kernel does by itself (a timer expires, a stream becomes ready or busy) *)
(* are actions of their own.                                               *)
(***************************************************************************)
EXTENDS Integers, FiniteSets

CONSTANTS
  Events,    \* the addresses malloc can return for a struct event
  EventFds,  \* the descriptors eventfd() and timerfd_create() can return
  Streams,   \* the descriptors a client subscribes
  Data,      \* the payloads (void *data)
  MaxEvents, \* the bound a client passes to events_wait
  NULL       \* no event, no id

ASSUME EpollAssumption ==
  /\ EventFds \cap Streams = {}
  /\ NULL \notin Events \cup EventFds \cup Streams
  /\ MaxEvents \in Nat \ {0}

VARIABLES
  heap,        \* address -> the struct event malloced there, NULL when free
  open,        \* the eventfds and timerfds that are open
  interest,    \* descriptor -> the event of its epoll registration, or NULL
  disarmed,    \* the EPOLLONESHOT registrations that have been reported
  ready,       \* the descriptors the kernel would report
  held,        \* the events events_wait gave to the client, not yet freed
  doubleFreed  \* free() was called twice on the same event

vars == <<heap, open, interest, disarmed, ready, held, doubleFreed>>

-----------------------------------------------------------------------------
Fds == EventFds \cup Streams
OneShotTypes == {"custom", "timer"}
StreamTypes  == {"read", "write"}

(* An event gets its id only with its descriptor: NULL stands for the      *)
(* uninitialized id of an event whose descriptor could not be created.     *)
EventRecord == [type : OneShotTypes \cup StreamTypes,
                id   : Fds \cup {NULL},
                data : Data]

ASSUME NullAssumption == NULL \notin EventRecord

Free   == {a \in Events : heap[a] = NULL}
Closed == EventFds \ open

events_create_manager ==
  /\ heap = [a \in Events |-> NULL]
  /\ interest = [fd \in Fds |-> NULL]
  /\ open = {} /\ disarmed = {} /\ ready = {} /\ held = {}
  /\ doubleFreed = FALSE

(* malloc, the assignments to the event, and epoll_ctl(EPOLL_CTL_ADD).     *)
Register(a, type, fd, data) ==
  /\ a \in Free
  /\ heap' = [heap EXCEPT ![a] = [type |-> type, id |-> fd, data |-> data]]
  /\ interest' = [interest EXCEPT ![fd] = a]
  /\ UNCHANGED <<disarmed, held, doubleFreed>>

(* What a call that returns -1 and has cleaned up after itself changes.    *)
Refused == UNCHANGED vars

(* Mutant: the eventfd is not written.                                     *)
SendWithoutWrite(type, data) ==
  \/ \E a \in Events, fd \in Closed :
       /\ Register(a, type, fd, data)
       /\ open' = open \cup {fd}
       /\ UNCHANGED ready
  \/ Refused

(* A fresh eventfd, written at once so that it is ready.  When eventfd()   *)
(* fails the caller frees the event; when epoll_ctl() fails both this      *)
(* function and its caller free it.                                        *)
events_send_raw_custom(type, data) ==
  \/ \E a \in Events, fd \in Closed :
       /\ Register(a, type, fd, data)
       /\ open' = open \cup {fd}
       /\ ready' = ready \cup {fd}
  \/ Refused
  \/ /\ Free # {} /\ Closed # {}
     /\ doubleFreed' = TRUE
     /\ UNCHANGED <<heap, open, interest, disarmed, ready, held>>

events_send_custom(data) == events_send_raw_custom("custom", data)

(* Mutant: epoll_ctl() fails and the timerfd stays open.                   *)
StartTimerWithoutClose(data) ==
  \/ \E a \in Events, fd \in Closed :
       /\ Register(a, "timer", fd, data)
       /\ open' = open \cup {fd}
       /\ UNCHANGED ready
  \/ \E fd \in Closed :
       /\ open' = open \cup {fd}
       /\ UNCHANGED <<heap, interest, disarmed, ready, held, doubleFreed>>

(* A positive timeout: the timerfd is not ready until it expires.  When it *)
(* cannot be created or set, the function returns without freeing the      *)
(* event; when epoll_ctl() fails it closes the timerfd and frees it.       *)
StartTimer(data) ==
  \/ \E a \in Events, fd \in Closed :
       /\ Register(a, "timer", fd, data)
       /\ open' = open \cup {fd}
       /\ UNCHANGED ready
  \/ \E a \in Free :
       /\ heap' = [heap EXCEPT ![a] =
                     [type |-> "timer", id |-> NULL, data |-> data]]
       /\ UNCHANGED <<open, interest, disarmed, ready, held, doubleFreed>>
  \/ Refused

events_send_timeout(timeout, data) ==
  \/ timeout <= 0 /\ events_send_raw_custom("timer", data)
  \/ timeout > 0 /\ StartTimer(data)

(* Mutant: a refused subscription keeps its event.                         *)
SubscribeWithoutFree(type, fd, data) ==
  \/ /\ interest[fd] = NULL
     /\ \E a \in Events : Register(a, type, fd, data)
     /\ UNCHANGED <<open, ready>>
  \/ \E a \in Free :
       /\ heap' = [heap EXCEPT ![a] = [type |-> type, id |-> fd, data |-> data]]
       /\ UNCHANGED <<open, interest, disarmed, ready, held, doubleFreed>>

(* Mutant: a second subscription modifies the first.                       *)
SubscribeReplaces(type, fd, data) ==
  \/ /\ \E a \in Events : Register(a, type, fd, data)
     /\ UNCHANGED <<open, ready>>
  \/ Refused

(* epoll_ctl() refuses a descriptor that is already registered (EEXIST).   *)
Subscribe(type, fd, data) ==
  \/ /\ interest[fd] = NULL
     /\ \E a \in Events : Register(a, type, fd, data)
     /\ UNCHANGED <<open, ready>>
  \/ Refused

events_subscribe_read(fd, data)  == Subscribe("read", fd, data)
events_subscribe_write(fd, data) == Subscribe("write", fd, data)

(* EPOLL_CTL_DEL of whatever is registered under the event's descriptor.   *)
(* The client does not unsubscribe the same event twice: the second call   *)
(* would end a newer subscription of the descriptor.                       *)
events_unsubscribe(a) ==
  /\ a \in held /\ interest[heap[a].id] = a
  /\ interest' = [interest EXCEPT ![heap[a].id] = NULL]
  /\ disarmed' = disarmed \ {heap[a].id}
  /\ UNCHANGED <<heap, open, ready, held, doubleFreed>>

(* Mutant: the descriptor of a timer is not closed.                        *)
FreeWithoutClose(a) ==
  LET fd == heap[a].id
      closing == heap[a].type = "custom"
  IN /\ a \in held
     /\ heap[a].type \in StreamTypes => interest[fd] # a
     /\ heap' = [heap EXCEPT ![a] = NULL]
     /\ held' = held \ {a}
     /\ IF closing
        THEN /\ open' = open \ {fd}
             /\ interest' = [interest EXCEPT ![fd] = NULL]
             /\ disarmed' = disarmed \ {fd}
             /\ ready' = ready \ {fd}
        ELSE UNCHANGED <<open, interest, disarmed, ready>>
     /\ UNCHANGED doubleFreed

(* Closing the descriptor of a one-shot event also ends its registration.  *)
(* The client has ended a subscription before it frees its event.          *)
events_free(a) ==
  LET fd == heap[a].id
      closing == heap[a].type \in OneShotTypes
  IN /\ a \in held
     /\ ~closing => interest[fd] # a
     /\ heap' = [heap EXCEPT ![a] = NULL]
     /\ held' = held \ {a}
     /\ IF closing
        THEN /\ open' = open \ {fd}
             /\ interest' = [interest EXCEPT ![fd] = NULL]
             /\ disarmed' = disarmed \ {fd}
             /\ ready' = ready \ {fd}
        ELSE UNCHANGED <<open, interest, disarmed, ready>>
     /\ UNCHANGED doubleFreed

Armed == {fd \in Fds : interest[fd] # NULL /\ fd \notin disarmed}

(* Mutants: registrations without EPOLLONESHOT, all with EPOLLONESHOT.     *)
WaitAndDisarm(batch, oneshot) ==
  /\ batch # {} /\ batch \subseteq Armed \cap ready
  /\ Cardinality(batch) <= MaxEvents
  /\ held' = held \cup {interest[fd] : fd \in batch}
  /\ disarmed' = disarmed \cup (batch \cap oneshot)
  /\ UNCHANGED <<heap, open, interest, ready, doubleFreed>>

WaitWithoutOneShot(batch) == WaitAndDisarm(batch, {})
WaitAllOneShot(batch) == WaitAndDisarm(batch, Fds)

(* epoll_wait(): the events of a batch of ready descriptors.               *)
events_wait(batch) ==
  /\ batch # {} /\ batch \subseteq Armed \cap ready
  /\ Cardinality(batch) <= MaxEvents
  /\ held' = held \cup {interest[fd] : fd \in batch}
  /\ disarmed' = disarmed \cup (batch \cap EventFds)
  /\ UNCHANGED <<heap, open, interest, ready, doubleFreed>>

-----------------------------------------------------------------------------
(* The kernel.                                                             *)
TimerExpires(fd) ==
  /\ fd \in open \ ready
  /\ \E a \in Events \ Free : heap[a].id = fd /\ heap[a].type = "timer"
  /\ ready' = ready \cup {fd}
  /\ UNCHANGED <<heap, open, interest, disarmed, held, doubleFreed>>

StreamChanges(fd) ==
  /\ ready' = IF fd \in ready THEN ready \ {fd} ELSE ready \cup {fd}
  /\ UNCHANGED <<heap, open, interest, disarmed, held, doubleFreed>>

Init == events_create_manager

(* After a double free the allocator aborts the process.                   *)
Next ==
  /\ ~doubleFreed
  /\ \/ \E data \in Data :
          \/ events_send_custom(data)
          \/ \E timeout \in {0, 1} : events_send_timeout(timeout, data)
          \/ \E fd \in Streams : \/ events_subscribe_read(fd, data)
                                 \/ events_subscribe_write(fd, data)
     \/ \E a \in Events : events_unsubscribe(a) \/ events_free(a)
     \/ \E batch \in SUBSET Fds : events_wait(batch)
     \/ \E fd \in EventFds : TimerExpires(fd)
     \/ \E fd \in Streams : StreamChanges(fd)

Spec == Init /\ [][Next]_vars

(* Timers expire, and a client that keeps calling events_wait is given     *)
(* every descriptor that stays ready: epoll_wait moves the entries it      *)
(* reports behind those it has not reported yet.                           *)
FairSpec ==
  /\ Spec
  /\ \A fd \in EventFds :
       /\ WF_vars(TimerExpires(fd))
       /\ WF_vars(\E batch \in SUBSET Fds : fd \in batch /\ events_wait(batch))

-----------------------------------------------------------------------------
(* The type invariant of the variables above.                              *)
TypeOK ==
  /\ heap \in [Events -> EventRecord \cup {NULL}]
  /\ open \subseteq EventFds
  /\ interest \in [Fds -> Events \cup {NULL}]
  /\ disarmed \subseteq EventFds
  /\ ready \subseteq Fds
  /\ held \subseteq Events
  /\ doubleFreed \in BOOLEAN

(* epoll never holds a dangling pointer: the event of every registration   *)
(* is still allocated and carries the registered descriptor, so events_wait*)
(* returns live events whose id is the descriptor that became ready.       *)
RegisteredAlive ==
  \A fd \in Fds : interest[fd] # NULL =>
    heap[interest[fd]] # NULL /\ heap[interest[fd]].id = fd

(* A one-shot event is delivered at most once (EPOLLONESHOT): while the    *)
(* client holds it, its descriptor can not be reported again, although it  *)
(* is still registered and still readable.                                 *)
HeldIsDisarmed ==
  \A fd \in EventFds : interest[fd] \in held => fd \in disarmed

(* No descriptor is lost or shared: the id of an allocated one-shot event  *)
(* is an open descriptor, and every open eventfd or timerfd is the id of   *)
(* exactly one event.  So events_free can close it, and closes it once.    *)
IdOf(a, fd) == heap[a] # NULL /\ heap[a].id = fd

OpenFdHasOneEvent ==
  /\ \A a \in Events, fd \in EventFds : IdOf(a, fd) => fd \in open
  /\ \A fd \in open : \E a \in Events :
       IdOf(a, fd) /\ \A b \in Events : IdOf(b, fd) => b = a

(* No event is lost: an allocated event is registered or in the hands of   *)
(* the client.  The only leak is the one of events_send_timeout when the   *)
(* timerfd cannot be created or set.                                       *)
EventsAccountedFor ==
  \A a \in Events : heap[a] # NULL =>
    \/ a \in held
    \/ heap[a].id # NULL /\ interest[heap[a].id] = a
    \/ heap[a].id = NULL /\ heap[a].type = "timer"

(* Every one-shot event the manager accepted is eventually delivered: an   *)
(* eventfd because it is written before the call returns, a timerfd        *)
(* because it expires.                                                     *)
AcceptedIsDelivered ==
  \A fd \in EventFds : fd \in Armed ~> (interest[fd] \in held \/ doubleFreed)

(* The backend implements the promises of events.h.                        *)
Service == INSTANCE EventService
             WITH Ids    <- EventFds,
                  Kqueue <- FALSE,
                  armed  <- {heap[interest[fd]] : fd \in Armed},
                  held   <- {heap[a] : a \in held}

ImplementsService == Service!ServiceSpec
=============================================================================
