--------------------------- MODULE EventsEpollProofs ---------------------------
(***************************************************************************)
(* Proofs about the epoll backend, for every set of addresses,             *)
(* descriptors and payloads and every batch size: its invariants, and that *)
(* it implements the promises of events.h.                                 *)
(***************************************************************************)
EXTENDS EventsEpoll, TLAPS

(* What the client holds is allocated and has a descriptor.                *)
HeldAlive ==
  \A a \in held : heap[a] # NULL /\ heap[a].id # NULL

(* One-shot events live on eventfds and timerfds, the others on streams.   *)
KindOfId ==
  \A a \in Events : heap[a] # NULL /\ heap[a].id # NULL =>
    (heap[a].type \in OneShotTypes <=> heap[a].id \in EventFds)

(* Only a registered descriptor is disarmed.                               *)
DisarmedRegistered ==
  \A fd \in disarmed : interest[fd] # NULL

(* The inductive invariant.                                                *)
IInv ==
  /\ TypeOK
  /\ RegisteredAlive
  /\ HeldAlive
  /\ KindOfId
  /\ DisarmedRegistered
  /\ HeldIsDisarmed
  /\ OpenFdHasOneEvent
  /\ EventsAccountedFor

-----------------------------------------------------------------------------
USE DEF Fds, OneShotTypes, StreamTypes, EventRecord, IdOf

(* The descriptor of a fresh eventfd or timerfd has no registration.       *)
LEMMA ClosedIsUnregistered ==
  ASSUME IInv, NEW fd \in Closed
  PROVE  interest[fd] = NULL
BY EpollAssumption DEF IInv, TypeOK, RegisteredAlive, OpenFdHasOneEvent, Closed

(* Registering a new event under an unregistered descriptor preserves the  *)
(* invariant, when a one-shot event comes with a newly opened descriptor.  *)
LEMMA RegisterStep ==
  ASSUME IInv,
         NEW a \in Events, NEW fd \in Fds, NEW data \in Data,
         NEW type \in OneShotTypes \cup StreamTypes,
         interest[fd] = NULL,
         Register(a, type, fd, data),
         \/ type \in OneShotTypes /\ fd \in Closed /\ open' = open \cup {fd}
         \/ type \in StreamTypes /\ fd \in Streams /\ open' = open,
         ready' \subseteq Fds
  PROVE  IInv'
<1> DEFINE e == [type |-> type, id |-> fd, data |-> data]
<1>1. e \in EventRecord /\ e # NULL
  BY NullAssumption
<1>2. /\ heap' = [heap EXCEPT ![a] = e]
      /\ interest' = [interest EXCEPT ![fd] = a]
      /\ heap[a] = NULL
      /\ UNCHANGED <<disarmed, held, doubleFreed>>
  BY DEF Register, Free
<1>3. fd # NULL /\ a # NULL /\ e.id = fd /\ e.type = type
  BY EpollAssumption
<1> HIDE DEF e
<1>4. TypeOK'
  BY <1>1, <1>2 DEF IInv, TypeOK, Closed
<1>5. heap'[a] = e /\ \A b \in Events : b # a => heap'[b] = heap[b]
  BY <1>2 DEF IInv, TypeOK
<1>6. interest'[fd] = a /\ \A g \in Fds : g # fd => interest'[g] = interest[g]
  BY <1>2 DEF IInv, TypeOK
<1>7. RegisteredAlive'
  BY <1>1, <1>2, <1>3, <1>5, <1>6 DEF IInv, TypeOK, RegisteredAlive
<1>8. a \notin held
  BY <1>2 DEF IInv, HeldAlive
<1>9. HeldAlive'
  BY <1>2, <1>5, <1>8 DEF IInv, TypeOK, HeldAlive
<1>10. KindOfId'
  BY <1>3, <1>5, EpollAssumption DEF IInv, KindOfId, Closed
<1>11. DisarmedRegistered'
  BY <1>2, <1>3, <1>6 DEF IInv, TypeOK, DisarmedRegistered
<1>12. HeldIsDisarmed'
  BY <1>2, <1>6, <1>8 DEF IInv, HeldIsDisarmed
<1>13. OpenFdHasOneEvent'
  BY <1>1, <1>2, <1>3, <1>5, EpollAssumption
     DEF IInv, TypeOK, OpenFdHasOneEvent, Closed
<1>14. EventsAccountedFor'
  BY <1>2, <1>3, <1>5, <1>6, NullAssumption, EpollAssumption
     DEF IInv, TypeOK, EventsAccountedFor
<1> QED
  BY <1>4, <1>7, <1>9, <1>10, <1>11, <1>12, <1>13, <1>14 DEF IInv

(* Freshly posted events, the leak of a failing timerfd, and refusals.     *)
LEMMA PostStep ==
  ASSUME IInv, NEW type \in OneShotTypes, NEW data \in Data,
         \/ events_send_raw_custom(type, data)
         \/ type = "timer" /\ StartTimer(data)
  PROVE  IInv'
<1>1. ASSUME NEW a \in Events, NEW fd \in Closed,
             Register(a, type, fd, data),
             open' = open \cup {fd},
             ready' = ready \cup {fd} \/ ready' = ready
      PROVE  IInv'
  <2>1. fd \in EventFds /\ ready' \subseteq Fds
    BY <1>1 DEF Closed, IInv, TypeOK
  <2>2. interest[fd] = NULL
    BY ClosedIsUnregistered
  <2> QED
    BY <1>1, <2>1, <2>2, RegisterStep
<1>2. ASSUME NEW a \in Free,
             heap' = [heap EXCEPT ![a] =
                        [type |-> "timer", id |-> NULL, data |-> data]],
             UNCHANGED <<open, interest, disarmed, ready, held, doubleFreed>>
      PROVE  IInv'
  <2> DEFINE e == [type |-> "timer", id |-> NULL, data |-> data]
  <2>1. e \in EventRecord /\ e # NULL /\ e.id = NULL /\ e.type = "timer"
    BY NullAssumption
  <2> HIDE DEF e
  <2>2. /\ a \in Events /\ heap[a] = NULL
        /\ heap'[a] = e
        /\ \A b \in Events : b # a => heap'[b] = heap[b]
        /\ heap' \in [Events -> EventRecord \cup {NULL}]
    BY <1>2, <2>1 DEF e, Free, IInv, TypeOK
  <2>3. TypeOK' /\ DisarmedRegistered' /\ HeldIsDisarmed'
    BY <1>2, <2>2 DEF IInv, TypeOK, DisarmedRegistered, HeldIsDisarmed
  <2>4. RegisteredAlive'
    BY <1>2, <2>2 DEF IInv, TypeOK, RegisteredAlive
  <2>5. HeldAlive' /\ KindOfId'
    BY <1>2, <2>1, <2>2 DEF IInv, TypeOK, HeldAlive, KindOfId
  <2>6. OpenFdHasOneEvent'
    BY <1>2, <2>1, <2>2, EpollAssumption DEF IInv, TypeOK, OpenFdHasOneEvent
  <2>7. EventsAccountedFor'
    BY <1>2, <2>1, <2>2 DEF IInv, TypeOK, EventsAccountedFor
  <2> QED
    BY <2>3, <2>4, <2>5, <2>6, <2>7 DEF IInv
<1>3. ASSUME UNCHANGED <<heap, open, interest, disarmed, ready, held>>,
             doubleFreed' \in BOOLEAN
      PROVE  IInv'
  BY <1>3 DEF IInv, TypeOK, RegisteredAlive, HeldAlive, KindOfId,
       DisarmedRegistered, HeldIsDisarmed, OpenFdHasOneEvent, EventsAccountedFor
<1>4. Refused => IInv'
  BY <1>3 DEF Refused, vars, IInv, TypeOK
<1> QED
  BY <1>1, <1>2, <1>3, <1>4 DEF events_send_raw_custom, StartTimer

LEMMA SubscribeStep ==
  ASSUME IInv, NEW type \in StreamTypes, NEW fd \in Streams, NEW data \in Data,
         Subscribe(type, fd, data)
  PROVE  IInv'
<1>1. CASE Refused
  BY <1>1 DEF Refused, vars, IInv, TypeOK, RegisteredAlive, HeldAlive, KindOfId,
       DisarmedRegistered, HeldIsDisarmed, OpenFdHasOneEvent, EventsAccountedFor
<1>2. ASSUME NEW a \in Events, interest[fd] = NULL,
             Register(a, type, fd, data), UNCHANGED <<open, ready>>
      PROVE  IInv'
  <2>1. ready' \subseteq Fds
    BY <1>2 DEF IInv, TypeOK
  <2> QED
    BY <1>2, <2>1, RegisterStep
<1> QED
  BY <1>1, <1>2 DEF Subscribe

(* Ending a registration: the event stays in the hands of the client.      *)
LEMMA UnsubscribeStep ==
  ASSUME IInv, NEW a \in Events, events_unsubscribe(a)
  PROVE  IInv'
<1> DEFINE fd == heap[a].id
<1>1. /\ a \in held /\ interest[fd] = a /\ fd \in Fds
      /\ interest' = [interest EXCEPT ![fd] = NULL]
      /\ disarmed' = disarmed \ {fd}
      /\ UNCHANGED <<heap, open, ready, held, doubleFreed>>
  BY DEF events_unsubscribe, IInv, TypeOK, HeldAlive
<1> HIDE DEF fd
<1>2. interest'[fd] = NULL /\ \A g \in Fds : g # fd => interest'[g] = interest[g]
  BY <1>1 DEF IInv, TypeOK
<1>3. TypeOK'
  BY <1>1 DEF IInv, TypeOK
<1>4. RegisteredAlive' /\ HeldAlive' /\ KindOfId' /\ OpenFdHasOneEvent'
  BY <1>1, <1>2
     DEF IInv, TypeOK, RegisteredAlive, HeldAlive, KindOfId, OpenFdHasOneEvent
<1>5. DisarmedRegistered' /\ HeldIsDisarmed'
  BY <1>1, <1>2, EpollAssumption
     DEF IInv, TypeOK, DisarmedRegistered, HeldIsDisarmed
<1>6. EventsAccountedFor'
  BY <1>1, <1>2 DEF IInv, TypeOK, EventsAccountedFor
<1> QED
  BY <1>3, <1>4, <1>5, <1>6 DEF IInv

LEMMA FreeStep ==
  ASSUME IInv, NEW a \in Events, events_free(a)
  PROVE  IInv'
<1> DEFINE fd == heap[a].id
<1>1. /\ a \in held /\ heap[a] # NULL /\ fd \in Fds
      /\ heap' = [heap EXCEPT ![a] = NULL]
      /\ held' = held \ {a}
      /\ UNCHANGED doubleFreed
  BY DEF events_free, IInv, TypeOK, HeldAlive
<1>2. heap'[a] = NULL /\ \A b \in Events : b # a => heap'[b] = heap[b]
  BY <1>1 DEF IInv, TypeOK
<1>3. CASE heap[a].type \in OneShotTypes
  <2>1. /\ open' = open \ {fd}
        /\ interest' = [interest EXCEPT ![fd] = NULL]
        /\ disarmed' = disarmed \ {fd}
        /\ ready' = ready \ {fd}
    BY <1>3 DEF events_free
  <2>2. fd \in EventFds /\ IdOf(a, fd)
    BY <1>1, <1>3, EpollAssumption DEF IInv, KindOfId, TypeOK
  <2> HIDE DEF fd
  <2>3. interest'[fd] = NULL /\ \A g \in Fds : g # fd => interest'[g] = interest[g]
    BY <1>1, <2>1 DEF IInv, TypeOK
  <2>4. \A b \in Events : IdOf(b, fd) => b = a
    BY <2>2 DEF IInv, OpenFdHasOneEvent
  <2>5. TypeOK'
    BY <1>1, <2>1 DEF IInv, TypeOK
  <2>6. RegisteredAlive'
    BY <1>2, <2>2, <2>3, EpollAssumption DEF IInv, TypeOK, RegisteredAlive
  <2>7. HeldAlive' /\ KindOfId'
    BY <1>1, <1>2 DEF IInv, TypeOK, HeldAlive, KindOfId
  <2>8. DisarmedRegistered' /\ HeldIsDisarmed'
    BY <1>1, <2>1, <2>3, EpollAssumption
       DEF IInv, TypeOK, DisarmedRegistered, HeldIsDisarmed
  <2>9. OpenFdHasOneEvent'
    BY <1>2, <2>1, <2>2, <2>4 DEF IInv, TypeOK, OpenFdHasOneEvent
  <2>10. EventsAccountedFor'
    BY <1>1, <1>2, <2>3, <2>4 DEF IInv, TypeOK, EventsAccountedFor
  <2> QED
    BY <2>5, <2>6, <2>7, <2>8, <2>9, <2>10 DEF IInv
<1>4. CASE heap[a].type \notin OneShotTypes
  <2>1. interest[fd] # a /\ UNCHANGED <<open, interest, disarmed, ready>>
    BY <1>4 DEF events_free
  <2>2. fd \in Streams
    BY <1>1, <1>4, EpollAssumption DEF IInv, KindOfId, TypeOK
  <2>3. TypeOK'
    BY <1>1, <2>1 DEF IInv, TypeOK
  <2>4. RegisteredAlive'
    BY <1>1, <1>2, <2>1, EpollAssumption DEF IInv, TypeOK, RegisteredAlive
  <2>5. HeldAlive' /\ KindOfId' /\ DisarmedRegistered' /\ HeldIsDisarmed'
    BY <1>1, <1>2, <2>1
       DEF IInv, TypeOK, HeldAlive, KindOfId, DisarmedRegistered, HeldIsDisarmed
  <2>6. OpenFdHasOneEvent'
    BY <1>1, <1>2, <2>1, <2>2, EpollAssumption DEF IInv, TypeOK, OpenFdHasOneEvent
  <2>7. EventsAccountedFor'
    BY <1>1, <1>2, <2>1 DEF IInv, TypeOK, EventsAccountedFor
  <2> QED
    BY <2>3, <2>4, <2>5, <2>6, <2>7 DEF IInv
<1> QED
  BY <1>3, <1>4

LEMMA WaitStep ==
  ASSUME IInv, NEW batch \in SUBSET Fds, events_wait(batch)
  PROVE  IInv'
<1>1. /\ \A fd \in batch : interest[fd] # NULL /\ interest[fd] \in Events
      /\ held' = held \cup {interest[fd] : fd \in batch}
      /\ disarmed' = disarmed \cup (batch \cap EventFds)
      /\ UNCHANGED <<heap, open, interest, ready, doubleFreed>>
  BY DEF events_wait, Armed, IInv, TypeOK
<1>2. TypeOK'
  BY <1>1 DEF IInv, TypeOK
<1>3. HeldAlive'
  BY <1>1, EpollAssumption DEF IInv, TypeOK, HeldAlive, RegisteredAlive
<1>4. DisarmedRegistered'
  BY <1>1 DEF IInv, DisarmedRegistered
<1>5. HeldIsDisarmed'
  <2> SUFFICES ASSUME NEW fd \in EventFds, interest[fd] \in held'
               PROVE  fd \in disarmed'
    BY <1>1 DEF HeldIsDisarmed
  <2>1. CASE interest[fd] \in held
    BY <1>1, <2>1 DEF IInv, HeldIsDisarmed
  <2>2. CASE \E g \in batch : interest[g] = interest[fd]
    BY <1>1, <2>2 DEF IInv, RegisteredAlive
  <2> QED
    BY <1>1, <2>1, <2>2
<1>6. RegisteredAlive' /\ KindOfId' /\ OpenFdHasOneEvent' /\ EventsAccountedFor'
  BY <1>1
     DEF IInv, RegisteredAlive, KindOfId, OpenFdHasOneEvent, EventsAccountedFor
<1> QED
  BY <1>2, <1>3, <1>4, <1>5, <1>6 DEF IInv

(* The kernel only changes which descriptors are ready.                    *)
LEMMA KernelStep ==
  ASSUME IInv, ready' \subseteq Fds,
         UNCHANGED <<heap, open, interest, disarmed, held, doubleFreed>>
  PROVE  IInv'
BY DEF IInv, TypeOK, RegisteredAlive, HeldAlive, KindOfId,
       DisarmedRegistered, HeldIsDisarmed, OpenFdHasOneEvent, EventsAccountedFor

-----------------------------------------------------------------------------
LEMMA InitIInv == Init => IInv
BY EpollAssumption
   DEF Init, events_create_manager, IInv, TypeOK, RegisteredAlive, HeldAlive,
       KindOfId, DisarmedRegistered, HeldIsDisarmed, OpenFdHasOneEvent,
       EventsAccountedFor

LEMMA NextIInv == IInv /\ [Next]_vars => IInv'
<1> SUFFICES ASSUME IInv, [Next]_vars PROVE IInv'
  OBVIOUS
<1>1. ASSUME NEW data \in Data, events_send_custom(data) PROVE IInv'
  BY <1>1, PostStep DEF events_send_custom
<1>2. ASSUME NEW data \in Data, NEW timeout \in {0, 1},
             events_send_timeout(timeout, data)
      PROVE  IInv'
  BY <1>2, PostStep DEF events_send_timeout
<1>3. ASSUME NEW data \in Data, NEW fd \in Streams,
             events_subscribe_read(fd, data) \/ events_subscribe_write(fd, data)
      PROVE  IInv'
  BY <1>3, SubscribeStep DEF events_subscribe_read, events_subscribe_write
<1>4. ASSUME NEW a \in Events, events_unsubscribe(a) \/ events_free(a) PROVE IInv'
  BY <1>4, UnsubscribeStep, FreeStep
<1>5. ASSUME NEW batch \in SUBSET Fds, events_wait(batch) PROVE IInv'
  BY <1>5, WaitStep
<1>6. ASSUME NEW fd \in EventFds, TimerExpires(fd) PROVE IInv'
  <2>1. ready' \subseteq Fds
    BY <1>6 DEF TimerExpires, IInv, TypeOK
  <2> QED
    BY <1>6, <2>1, KernelStep DEF TimerExpires
<1>7. ASSUME NEW fd \in Streams, StreamChanges(fd) PROVE IInv'
  <2>1. ready' \subseteq Fds
    BY <1>7 DEF StreamChanges, IInv, TypeOK
  <2> QED
    BY <1>7, <2>1, KernelStep DEF StreamChanges
<1>8. CASE UNCHANGED vars
  BY <1>8, KernelStep DEF vars, IInv, TypeOK
<1> QED
  BY <1>1, <1>2, <1>3, <1>4, <1>5, <1>6, <1>7, <1>8 DEF Next

LEMMA EpollIInv == Spec => []IInv
BY InitIInv, NextIInv, PTL DEF Spec

(* The types of the variables.                                             *)
THEOREM EpollTypes == Spec => []TypeOK
<1>1. IInv => TypeOK
  BY DEF IInv
<1> QED
  BY <1>1, EpollIInv, PTL

(* events_wait returns events that are allocated and whose id is the       *)
(* descriptor that became ready.                                           *)
THEOREM NoDanglingRegistration == Spec => []RegisteredAlive
<1>1. IInv => RegisteredAlive
  BY DEF IInv
<1> QED
  BY <1>1, EpollIInv, PTL

(* A one-shot event the client holds is not reported again.                *)
THEOREM OneShotOnce == Spec => []HeldIsDisarmed
<1>1. IInv => HeldIsDisarmed
  BY DEF IInv
<1> QED
  BY <1>1, EpollIInv, PTL

(* No descriptor leaks, is shared or is closed twice, whichever calls fail.*)
THEOREM DescriptorsOwned == Spec => []OpenFdHasOneEvent
<1>1. IInv => OpenFdHasOneEvent
  BY DEF IInv
<1> QED
  BY <1>1, EpollIInv, PTL

(* No event leaks but in events_send_timeout.                              *)
THEOREM EventsOwned == Spec => []EventsAccountedFor
<1>1. IInv => EventsAccountedFor
  BY DEF IInv
<1> QED
  BY <1>1, EpollIInv, PTL

-----------------------------------------------------------------------------
(* Every step of EventsEpoll is a step of EventService or leaves its       *)
(* variables alone, where an event is armed when its descriptor is         *)
(* registered and not disarmed.                                            *)
ArmedEvents == {heap[interest[fd]] : fd \in Armed}
HeldEvents  == {heap[a] : a \in held}

USE DEF Fds, OneShotTypes, StreamTypes, EventRecord, IdOf,
        Service!OneShotTypes, Service!StreamTypes, Service!OneShot

-----------------------------------------------------------------------------
(* An allocated event with a descriptor is an event of the service.        *)
LEMMA AllocatedIsEvent ==
  ASSUME IInv, NEW a \in Events, heap[a] # NULL, heap[a].id # NULL
  PROVE  /\ heap[a] \in Service!Event
         /\ heap[a].type \in OneShotTypes <=> heap[a].id \in EventFds
         /\ heap[a].type \in StreamTypes <=> heap[a].id \in Streams
BY EpollAssumption DEF IInv, TypeOK, KindOfId, Service!Event

(* The armed event with a given id is the one registered there.            *)
LEMMA ArmedIsRegistered ==
  ASSUME IInv, NEW fd \in Armed
  PROVE  /\ interest[fd] \in Events /\ heap[interest[fd]] # NULL
         /\ heap[interest[fd]].id = fd /\ fd \in Fds
         /\ heap[interest[fd]] \in Service!Event
         /\ heap[interest[fd]] \in ArmedEvents
<1>1. /\ interest[fd] \in Events /\ heap[interest[fd]] # NULL
      /\ heap[interest[fd]].id = fd /\ fd \in Fds
  BY DEF Armed, IInv, TypeOK, RegisteredAlive
<1> QED
  BY <1>1, AllocatedIsEvent, EpollAssumption DEF ArmedEvents

(* Registering an event adds it to the armed ones.                         *)
LEMMA RegisterArms ==
  ASSUME IInv, NEW a \in Events, NEW fd \in Fds, NEW data \in Data,
         NEW type \in OneShotTypes \cup StreamTypes,
         interest[fd] = NULL, Register(a, type, fd, data)
  PROVE  /\ ArmedEvents' = ArmedEvents \cup {[type |-> type, id |-> fd, data |-> data]}
         /\ HeldEvents' = HeldEvents
<1> DEFINE e == [type |-> type, id |-> fd, data |-> data]
<1>1. /\ heap[a] = NULL /\ heap'[a] = e
      /\ \A b \in Events : b # a => heap'[b] = heap[b]
      /\ interest'[fd] = a /\ \A g \in Fds : g # fd => interest'[g] = interest[g]
      /\ UNCHANGED <<disarmed, held>>
  BY DEF Register, Free, IInv, TypeOK
<1>2. fd \notin disarmed /\ a # NULL
  BY EpollAssumption DEF IInv, DisarmedRegistered
<1> HIDE DEF e
<1>3. Armed' = Armed \cup {fd} /\ fd \notin Armed
  BY <1>1, <1>2 DEF Armed
<1>4. \A g \in Armed : heap'[interest'[g]] = heap[interest[g]]
  BY <1>1, <1>3, ArmedIsRegistered
<1>5. ArmedEvents' = ArmedEvents \cup {e}
  BY <1>1, <1>3, <1>4 DEF ArmedEvents
<1>6. \A b \in held : b # a /\ b \in Events
  BY <1>1 DEF IInv, HeldAlive, TypeOK
<1>7. HeldEvents' = HeldEvents
  BY <1>1, <1>6 DEF HeldEvents
<1> QED
  BY <1>5, <1>7 DEF e

(* Changes of events that are neither registered nor held go unnoticed.    *)
LEMMA Unnoticed ==
  ASSUME IInv, UNCHANGED <<interest, disarmed, held>>,
         \A b \in Events : heap[b] # NULL => heap'[b] = heap[b]
  PROVE  ArmedEvents' = ArmedEvents /\ HeldEvents' = HeldEvents
<1>1. Armed' = Armed
  BY DEF Armed
<1>2. \A g \in Armed : heap'[interest'[g]] = heap[interest[g]]
  BY ArmedIsRegistered
<1>3. \A b \in held : heap'[b] = heap[b]
  BY DEF IInv, HeldAlive, TypeOK
<1> QED
  BY <1>1, <1>2, <1>3 DEF ArmedEvents, HeldEvents

-----------------------------------------------------------------------------
(* events_send_custom and events_send_timeout post an event or leave no    *)
(* trace.                                                                  *)
LEMMA PostRefines ==
  ASSUME IInv, NEW type \in OneShotTypes, NEW data \in Data,
         \/ events_send_raw_custom(type, data)
         \/ type = "timer" /\ StartTimer(data)
  PROVE  Service!ServiceNext
<1>1. ASSUME NEW a \in Events, NEW fd \in Closed, Register(a, type, fd, data)
      PROVE  Service!ServiceNext
  <2> DEFINE e == [type |-> type, id |-> fd, data |-> data]
  <2>1. fd \in EventFds /\ fd \in Fds /\ interest[fd] = NULL
    BY ClosedIsUnregistered DEF Closed
  <2>2. ArmedEvents' = ArmedEvents \cup {e} /\ HeldEvents' = HeldEvents
    BY <1>1, <2>1, RegisterArms
  <2>3. e \in Service!Event /\ Service!OneShot(e) /\ e.id = fd
    BY <2>1 DEF Service!Event
  <2>4. \A x \in ArmedEvents : x.id # fd
    BY <2>1, ArmedIsRegistered DEF ArmedEvents, Armed
  <2>5. \A x \in HeldEvents : x.id # fd
    BY <2>1 DEF HeldEvents, IInv, HeldAlive, OpenFdHasOneEvent, TypeOK, Closed
  <2> HIDE DEF e
  <2>6. Service!Post(e)
    BY <2>1, <2>2, <2>3, <2>4, <2>5
       DEF Service!Post, Service!FreshIds, ArmedEvents, HeldEvents
  <2> QED
    BY <2>3, <2>6 DEF Service!ServiceNext
<1>2. ASSUME UNCHANGED <<interest, disarmed, held>>,
             \A b \in Events : heap[b] # NULL => heap'[b] = heap[b]
      PROVE  Service!ServiceNext
  BY <1>2, Unnoticed
     DEF Service!ServiceNext, Service!Refuse, Service!serviceVars, ArmedEvents, HeldEvents
<1>3. CASE \E a \in Free :
             /\ heap' = [heap EXCEPT ![a] =
                           [type |-> "timer", id |-> NULL, data |-> data]]
             /\ UNCHANGED <<open, interest, disarmed, ready, held, doubleFreed>>
  <2>1. \A b \in Events : heap[b] # NULL => heap'[b] = heap[b]
    BY <1>3 DEF Free, IInv, TypeOK
  <2> QED
    BY <1>2, <1>3, <2>1
<1> QED
  BY <1>1, <1>2, <1>3 DEF events_send_raw_custom, StartTimer, Refused, vars

(* A subscription is accepted when its slot is empty.                      *)
LEMMA SubscribeRefines ==
  ASSUME IInv, NEW type \in StreamTypes, NEW fd \in Streams, NEW data \in Data,
         Subscribe(type, fd, data)
  PROVE  Service!ServiceNext
<1>1. CASE Refused
  BY <1>1, Unnoticed
     DEF Refused, vars, Service!ServiceNext, Service!Refuse, Service!serviceVars,
         ArmedEvents, HeldEvents
<1>2. ASSUME NEW a \in Events, interest[fd] = NULL, Register(a, type, fd, data)
      PROVE  Service!ServiceNext
  <2> DEFINE e == [type |-> type, id |-> fd, data |-> data]
  <2>1. ArmedEvents' = ArmedEvents \cup {e} /\ HeldEvents' = HeldEvents
    BY <1>2, RegisterArms
  <2>2. e \in Service!Event /\ ~Service!OneShot(e) /\ e.id = fd
    BY DEF Service!Event
  <2>3. \A x \in ArmedEvents : x.id # fd
    BY <1>2, ArmedIsRegistered DEF ArmedEvents, Armed
  <2> HIDE DEF e
  <2>4. Service!Subscribe(e)
    BY <2>1, <2>2, <2>3
       DEF Service!Subscribe, Service!Accepts, Service!Slot, Service!SameSlot,
           ArmedEvents, HeldEvents
  <2> QED
    BY <2>2, <2>4 DEF Service!ServiceNext
<1> QED
  BY <1>1, <1>2 DEF Subscribe

(* events_unsubscribe ends the subscription of a stream; a one-shot event  *)
(* in the client's hands was disarmed before.                              *)
LEMMA UnsubscribeRefines ==
  ASSUME IInv, NEW a \in Events, events_unsubscribe(a)
  PROVE  Service!ServiceNext
<1> DEFINE fd == heap[a].id
           e == heap[a]
<1>1. /\ a \in held /\ e # NULL /\ fd \in Fds /\ fd # NULL
      /\ interest[fd] = a
      /\ interest'[fd] = NULL /\ \A g \in Fds : g # fd => interest'[g] = interest[g]
      /\ disarmed' = disarmed \ {fd} /\ UNCHANGED <<heap, held>>
  BY DEF events_unsubscribe, IInv, TypeOK, HeldAlive
<1>2. e \in Service!Event /\ e.id = fd
  BY <1>1, AllocatedIsEvent
<1> HIDE DEF fd, e
<1>3. Armed' = Armed \ {fd}
  BY <1>1 DEF Armed
<1>4. \A g \in Armed : g # fd => heap'[interest'[g]] = heap[interest[g]]
  BY <1>1 DEF Armed
<1>5. HeldEvents' = HeldEvents /\ e \in HeldEvents
  BY <1>1 DEF HeldEvents, e
<1>6. CASE fd \in Armed
  <2>1. e \in ArmedEvents
    BY <1>1, <1>6, ArmedIsRegistered DEF e
  <2>2. ArmedEvents' = ArmedEvents \ {x \in ArmedEvents : x.id = fd}
    BY <1>3, <1>4, ArmedIsRegistered DEF ArmedEvents
  <2>3. PICK x \in Service!Event : x = e
    BY <1>2
  <2>4. Service!Unsubscribe(x)
    BY <1>2, <1>5, <2>1, <2>2, <2>3
       DEF Service!Unsubscribe, Service!EndSubscription, Service!Slot, Service!SameSlot,
           ArmedEvents, HeldEvents
  <2> QED
    BY <2>4 DEF Service!ServiceNext
<1>7. CASE fd \notin Armed
  <2>1. ArmedEvents' = ArmedEvents
    BY <1>3, <1>4, <1>7 DEF ArmedEvents
  <2> QED
    BY <1>5, <2>1
       DEF Service!ServiceNext, Service!Refuse, Service!serviceVars, ArmedEvents, HeldEvents
<1> QED
  BY <1>6, <1>7

(* events_free releases an event nobody else holds a copy of, and disarms  *)
(* nothing that could still be delivered.                                  *)
LEMMA FreeRefines ==
  ASSUME IInv, NEW a \in Events, events_free(a)
  PROVE  Service!ServiceNext
<1> DEFINE fd == heap[a].id
           e == heap[a]
<1>1. /\ a \in held /\ e # NULL /\ fd \in Fds /\ fd # NULL
      /\ heap'[a] = NULL /\ \A b \in Events : b # a => heap'[b] = heap[b]
      /\ held' = held \ {a}
  BY DEF events_free, IInv, TypeOK, HeldAlive
<1>2. e \in Service!Event /\ e.id = fd
  BY <1>1, AllocatedIsEvent
<1>3. \A g \in Armed : interest[g] # a
  <2> SUFFICES ASSUME NEW g \in Armed, interest[g] = a PROVE FALSE
    OBVIOUS
  <2>1. g = fd
    BY ArmedIsRegistered
  <2>2. heap[a].type \in OneShotTypes
    BY <2>1 DEF events_free
  <2>3. fd \in disarmed
    BY <1>1, <2>1, <2>2, AllocatedIsEvent DEF IInv, HeldIsDisarmed
  <2> QED
    BY <2>1, <2>3 DEF Armed
<1>4. Armed' = Armed /\ \A g \in Armed : interest'[g] = interest[g]
  <2>1. CASE heap[a].type \notin OneShotTypes
    BY <2>1 DEF events_free, Armed
  <2>2. CASE heap[a].type \in OneShotTypes
    <3>1. /\ interest'[fd] = NULL /\ \A g \in Fds : g # fd => interest'[g] = interest[g]
          /\ disarmed' = disarmed \ {fd}
      BY <1>1, <2>2 DEF events_free, IInv, TypeOK
    <3>2. fd \notin Armed
      <4> SUFFICES ASSUME fd \in Armed PROVE FALSE
        OBVIOUS
      <4>1. fd \in EventFds
        BY <1>1, <2>2, AllocatedIsEvent
      <4>2. IdOf(a, fd) /\ IdOf(interest[fd], fd) /\ interest[fd] \in Events
        BY <1>1, ArmedIsRegistered
      <4>3. interest[fd] = a
        BY <4>1, <4>2 DEF IInv, OpenFdHasOneEvent
      <4> QED
        BY <1>3, <4>3
    <3> HIDE DEF fd, e
    <3> QED
      BY <3>1, <3>2 DEF Armed
  <2> QED
    BY <2>1, <2>2
<1> HIDE DEF fd
<1>5. \A g \in Armed : heap'[interest'[g]] = heap[interest[g]]
  BY <1>1, <1>3, <1>4, ArmedIsRegistered
<1>6. ArmedEvents' = ArmedEvents
  BY <1>4, <1>5 DEF ArmedEvents
<1>7. HeldEvents' = {heap[b] : b \in held \ {a}}
  BY <1>1 DEF HeldEvents, IInv, TypeOK
<1>8. CASE \E b \in held \ {a} : heap[b] = e
  <2>1. HeldEvents' = HeldEvents
    BY <1>1, <1>7, <1>8 DEF HeldEvents
  <2> QED
    BY <1>6, <2>1
       DEF Service!ServiceNext, Service!Refuse, Service!serviceVars, ArmedEvents, HeldEvents
<1>9. CASE ~ \E b \in held \ {a} : heap[b] = e
  <2>1. HeldEvents' = HeldEvents \ {e} /\ e \in HeldEvents
    BY <1>1, <1>7, <1>9 DEF HeldEvents
  <2>2. PICK x \in Service!Event : x = e
    BY <1>2 DEF e
  <2>3. Service!Release(x)
    BY <1>6, <2>1, <2>2 DEF Service!Release, ArmedEvents, HeldEvents
  <2> QED
    BY <2>3 DEF Service!ServiceNext
<1> QED
  BY <1>8, <1>9

(* events_wait delivers the events of the ready descriptors, and the       *)
(* one-shot ones only this time.                                           *)
LEMMA WaitRefines ==
  ASSUME IInv, NEW batch \in SUBSET Fds, events_wait(batch)
  PROVE  Service!ServiceNext
<1> DEFINE B == {heap[interest[fd]] : fd \in batch}
<1>1. /\ batch # {} /\ batch \subseteq Armed
      /\ held' = held \cup {interest[fd] : fd \in batch}
      /\ disarmed' = disarmed \cup (batch \cap EventFds)
      /\ UNCHANGED <<heap, interest>>
  BY DEF events_wait
<1>2. B # {} /\ B \subseteq ArmedEvents
  BY <1>1 DEF ArmedEvents
<1>3. HeldEvents' = HeldEvents \cup B
  BY <1>1 DEF HeldEvents
<1>4. Armed' = Armed \ (batch \cap EventFds)
  BY <1>1 DEF Armed
<1>5. \A fd \in Armed : Service!OneShot(heap[interest[fd]]) <=> fd \in EventFds
  BY ArmedIsRegistered, AllocatedIsEvent, EpollAssumption
<1>6. \A fd \in Armed : heap[interest[fd]] \in B <=> fd \in batch
  BY <1>1, ArmedIsRegistered
<1>7. ArmedEvents' = ArmedEvents \ {x \in B : Service!OneShot(x)}
  <2>1. ASSUME NEW x \in ArmedEvents'
        PROVE  x \in ArmedEvents /\ ~(x \in B /\ Service!OneShot(x))
    <3>1. PICK fd \in Armed' : x = heap[interest[fd]]
      BY <1>1 DEF ArmedEvents
    <3> QED
      BY <1>4, <1>5, <1>6, <3>1 DEF ArmedEvents
  <2>2. ASSUME NEW x \in ArmedEvents, ~(x \in B /\ Service!OneShot(x))
        PROVE  x \in ArmedEvents'
    <3>1. PICK fd \in Armed : x = heap[interest[fd]]
      BY DEF ArmedEvents
    <3>2. fd \in Armed'
      BY <1>4, <1>5, <1>6, <2>2, <3>1
    <3> QED
      BY <1>1, <3>1, <3>2 DEF ArmedEvents
  <2> QED
    BY <2>1, <2>2
<1> HIDE DEF B
<1>8. PICK x \in SUBSET ArmedEvents : x = B
  BY <1>2
<1>9. Service!Deliver(x)
  BY <1>2, <1>3, <1>7, <1>8 DEF Service!Deliver, ArmedEvents, HeldEvents
<1> QED
  BY <1>9 DEF Service!ServiceNext, ArmedEvents

-----------------------------------------------------------------------------
LEMMA InitRefines == Init => Service!ServiceInit
BY DEF Init, events_create_manager, Service!ServiceInit, Armed

LEMMA NextRefines ==
  IInv /\ [Next]_vars => [Service!ServiceNext]_Service!serviceVars
<1> SUFFICES ASSUME IInv, [Next]_vars
             PROVE  Service!ServiceNext \/ UNCHANGED <<ArmedEvents, HeldEvents>>
  BY DEF Service!serviceVars, ArmedEvents, HeldEvents
<1>1. ASSUME NEW data \in Data, events_send_custom(data)
      PROVE  Service!ServiceNext
  BY <1>1, PostRefines DEF events_send_custom
<1>2. ASSUME NEW data \in Data, NEW timeout \in {0, 1},
             events_send_timeout(timeout, data)
      PROVE  Service!ServiceNext
  BY <1>2, PostRefines DEF events_send_timeout
<1>3. ASSUME NEW data \in Data, NEW fd \in Streams,
             events_subscribe_read(fd, data) \/ events_subscribe_write(fd, data)
      PROVE  Service!ServiceNext
  BY <1>3, SubscribeRefines DEF events_subscribe_read, events_subscribe_write
<1>4. ASSUME NEW a \in Events, events_unsubscribe(a) \/ events_free(a)
      PROVE  Service!ServiceNext
  BY <1>4, UnsubscribeRefines, FreeRefines
<1>5. ASSUME NEW batch \in SUBSET Fds, events_wait(batch)
      PROVE  Service!ServiceNext
  BY <1>5, WaitRefines
<1>6. CASE UNCHANGED <<heap, interest, disarmed, held>>
  BY <1>6, Unnoticed
<1> QED
  BY <1>1, <1>2, <1>3, <1>4, <1>5, <1>6 DEF Next, TimerExpires, StreamChanges, vars

(* Every behaviour of the epoll backend is one events.h promises.          *)
THEOREM EpollImplementsService == Spec => ImplementsService
BY InitRefines, NextRefines, EpollIInv, PTL
   DEF Spec, ImplementsService, Service!ServiceSpec
=============================================================================
