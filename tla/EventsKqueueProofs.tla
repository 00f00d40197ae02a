-------------------------- MODULE EventsKqueueProofs --------------------------
(***************************************************************************)
(* Proofs about the kqueue backend, for every set of addresses, number of  *)
(* ids, descriptors and payloads and every batch size: its invariants, and *)
(* that it implements the promises of events.h.                            *)
(***************************************************************************)
EXTENDS EventsKqueue, TLAPS

(* Ids are given out in order: no event has one that is yet to come.       *)
IdsCounted ==
  \A a \in Events \ Free : heap[a].type \in OneShotTypes => heap[a].id <= nextId

(* The inductive invariant.                                                *)
KInv ==
  /\ TypeOK
  /\ RegisteredAlive
  /\ OneShotOnce
  /\ IdsCounted

USE DEF OneShotTypes, StreamTypes

-----------------------------------------------------------------------------
(* The slot of an event tells its kind and, for a stream, its descriptor.  *)
LEMMA SlotFacts ==
  ASSUME NEW e \in EventRecord
  PROVE  /\ Slot(e) \in Slots
         /\ Slot(e) \in OneShotSlots <=> e.type \in OneShotTypes
         /\ e.type \in OneShotTypes <=> e.type \notin StreamTypes
         /\ \A fd : Slot(e) \in StreamSlotsOf(fd) <=> e.type \in StreamTypes /\ e.id = fd
         /\ \A x \in EventRecord : Slot(x) = Slot(e) <=> x.type = e.type /\ x.id = e.id
BY DEF EventRecord, Slot, Slots, OneShotSlots, StreamSlots, StreamSlotsOf

(* The event of a knote is allocated, and of the knote's slot.             *)
LEMMA KnoteFacts ==
  ASSUME KInv, NEW s \in Registered
  PROVE  /\ s \in Slots /\ knotes[s] \in Events \ Free
         /\ heap[knotes[s]] \in EventRecord /\ Slot(heap[knotes[s]]) = s
BY KqueueAssumption DEF KInv, TypeOK, RegisteredAlive, Registered, Free

(* An allocated event is a record.                                         *)
LEMMA HeapFacts ==
  ASSUME KInv, NEW a \in Events \ Free
  PROVE  heap[a] \in EventRecord /\ heap[a] # NULL
BY DEF KInv, TypeOK, Free

(* What malloc returns is neither held nor registered.                     *)
LEMMA AllocateFacts ==
  ASSUME KInv, NEW a \in Events, NEW e \in EventRecord, Allocate(a, e)
  PROVE  /\ a \in Free /\ a \notin held
         /\ \A s \in Registered : knotes[s] # a
         /\ heap' \in [Events -> EventRecord \cup {NULL}]
         /\ heap'[a] = e /\ \A b \in Events : b # a => heap'[b] = heap[b]
         /\ Free' = Free \ {a}
         /\ UNCHANGED <<open, held>>
<1>1. a \in Free /\ heap' = [heap EXCEPT ![a] = e] /\ UNCHANGED <<open, held>>
  BY DEF Allocate
<1>2. /\ heap' \in [Events -> EventRecord \cup {NULL}]
      /\ heap'[a] = e /\ \A b \in Events : b # a => heap'[b] = heap[b]
  BY <1>1 DEF KInv, TypeOK
<1>3. a \notin held /\ \A s \in Registered : knotes[s] # a
  BY <1>1, KnoteFacts DEF KInv, TypeOK
<1>4. Free' = Free \ {a}
  BY <1>2, KqueueNullAssumption DEF Free
<1> QED
  BY <1>1, <1>2, <1>3, <1>4

(* Fewer knotes keep the invariant, as long as the heap stays.             *)
LEMMA DropKeepsInv ==
  ASSUME KInv, NEW gone, knotes' = Without(gone),
         UNCHANGED <<heap, nextId>>,
         ready' \subseteq Slots, open' \subseteq Streams, failed' \in BOOLEAN,
         held' \subseteq held \cup {knotes[s] : s \in Registered},
         \A s \in Registered \cap OneShotSlots : knotes[s] \in held' => s \in gone
  PROVE  KInv'
<1>1. \A s \in Slots : knotes'[s] = IF s \in gone THEN NULL ELSE knotes[s]
  BY DEF Without
<1>2. Free' = Free
  BY DEF Free
<1>3. held' \subseteq Events \ Free
  BY KnoteFacts DEF KInv, TypeOK
<1>4. TypeOK'
  BY <1>2, <1>3 DEF KInv, TypeOK, Without
<1>5. RegisteredAlive'
  BY <1>1 DEF KInv, RegisteredAlive, Registered
<1>6. IdsCounted'
  BY <1>2 DEF KInv, IdsCounted
<1>7. ASSUME NEW a \in Events \ Free, heap[a].type \in OneShotTypes, a \in held'
      PROVE  knotes'[Slot(heap[a])] = NULL
  <2> DEFINE s == Slot(heap[a])
  <2>1. s \in OneShotSlots /\ s \in Slots
    BY <1>7, HeapFacts, SlotFacts
  <2>2. CASE a \in held
    <3>1. knotes[s] = NULL
      BY <1>7, <2>2 DEF KInv, OneShotOnce
    <3> HIDE DEF s
    <3> QED
      BY <1>1, <2>1, <3>1 DEF s
  <2>3. CASE a \notin held
    <3>1. PICK r \in Registered : a = knotes[r]
      BY <1>7, <2>3
    <3>2. r = s
      BY <3>1, KnoteFacts
    <3>3. s \in gone
      BY <1>7, <2>1, <3>1, <3>2
    <3> QED
      BY <1>1, <2>1, <3>3
  <2> QED
    BY <2>2, <2>3
<1>8. OneShotOnce'
  BY <1>2, <1>7 DEF KInv, OneShotOnce
<1> QED
  BY <1>4, <1>5, <1>6, <1>8 DEF KInv

(* A new event, registered in its slot or not at all, keeps the invariant; *)
(* a one-shot event takes the next id.                                     *)
LEMMA NewEventKeepsInv ==
  ASSUME KInv, NEW a \in Events, NEW e \in EventRecord, Allocate(a, e),
         \/ knotes' = [knotes EXCEPT ![Slot(e)] = a]
         \/ knotes' = knotes,
         \/ e.type \in OneShotTypes /\ nextId < MaxId /\ e.id = nextId + 1 /\ nextId' = nextId + 1
         \/ e.type \in StreamTypes /\ nextId' = nextId,
         ready' \subseteq Slots, failed' \in BOOLEAN
  PROVE  KInv'
<1>1. /\ a \in Free /\ a \notin held
      /\ \A s \in Registered : knotes[s] # a
      /\ heap' \in [Events -> EventRecord \cup {NULL}]
      /\ heap'[a] = e /\ \A b \in Events : b # a => heap'[b] = heap[b]
      /\ Free' = Free \ {a}
      /\ UNCHANGED <<open, held>>
  BY AllocateFacts
<1>2. Slot(e) \in Slots /\ e # NULL
  BY SlotFacts, KqueueNullAssumption
<1>3. nextId \in Nat /\ nextId' \in 0..MaxId /\ nextId <= nextId'
  BY KqueueAssumption DEF KInv, TypeOK
<1>4. /\ knotes' \in [Slots -> Events \cup {NULL}]
      /\ \A s \in Slots : knotes'[s] = knotes[s] \/ (s = Slot(e) /\ knotes'[s] = a)
  BY <1>2 DEF KInv, TypeOK
<1>5. TypeOK'
  BY <1>1, <1>3, <1>4 DEF KInv, TypeOK
<1>6. RegisteredAlive'
  BY <1>1, <1>2, <1>4, KqueueAssumption DEF KInv, TypeOK, RegisteredAlive, Registered
<1>7. ASSUME NEW b \in Events \ Free
      PROVE  b # a /\ heap'[b] = heap[b] /\ heap[b] \in EventRecord
  BY <1>1, HeapFacts
<1>8. \A b \in Events \ Free : heap[b].type \in OneShotTypes =>
        heap[b].id <= nextId /\ heap[b].id \in Int
  BY <1>7 DEF KInv, IdsCounted, EventRecord, Ids
<1>9. IdsCounted'
  BY <1>1, <1>3, <1>7, <1>8 DEF IdsCounted
<1>10. \A b \in Events \ Free :
         heap[b].type \in OneShotTypes /\ e.type \in OneShotTypes => heap[b].id # e.id
  BY <1>3, <1>8
<1>11. \A b \in Events \ Free : \A c \in Events \ Free :
         heap[c].type \in OneShotTypes /\ heap[b].type \in OneShotTypes
         /\ heap[b].id = heap[c].id => c = b
  BY DEF KInv, OneShotOnce
<1>12. \A b \in Events \ Free' : \A c \in Events \ Free' :
         heap'[c].type \in OneShotTypes /\ heap'[b].type \in OneShotTypes
         /\ heap'[b].id = heap'[c].id => c = b
  BY <1>1, <1>7, <1>10, <1>11
<1>13. ASSUME NEW b \in held, heap'[b].type \in OneShotTypes
       PROVE  knotes'[Slot(heap'[b])] = NULL
  <2>1. b \in Events \ Free
    BY DEF KInv, TypeOK
  <2>2. heap'[b] = heap[b] /\ heap[b] \in EventRecord
    BY <1>7, <2>1
  <2>3. Slot(heap[b]) \in Slots /\ knotes[Slot(heap[b])] = NULL
    BY <1>13, <2>1, <2>2, SlotFacts DEF KInv, OneShotOnce
  <2>4. Slot(heap[b]) # Slot(e)
    BY <1>10, <1>13, <2>1, <2>2, SlotFacts
  <2> QED
    BY <1>4, <2>2, <2>3, <2>4
<1>14. OneShotOnce'
  BY <1>1, <1>12, <1>13 DEF OneShotOnce
<1> QED
  BY <1>5, <1>6, <1>9, <1>14 DEF KInv

(* events_free: no knote is left with the event, since that of a one-shot  *)
(* event is gone, that of a write event was ended by the client and that   *)
(* of a read event goes with its descriptor.                               *)
LEMMA FreeFacts ==
  ASSUME KInv, NEW a \in Events, events_free(a)
  PROVE  /\ a \in held /\ heap[a] \in EventRecord
         /\ heap'[a] = NULL /\ \A b \in Events : b # a => heap'[b] = heap[b]
         /\ knotes' = Without(IF heap[a].type = "read" THEN StreamSlotsOf(heap[a].id) ELSE {})
         /\ \A s \in Registered : knotes'[s] # a
         /\ held' = held \ {a} /\ nextId' = nextId
<1>1. /\ a \in held /\ heap' = [heap EXCEPT ![a] = NULL]
      /\ held' = held \ {a} /\ nextId' = nextId
      /\ heap[a].type = "write" => knotes[Slot(heap[a])] # a
  BY DEF events_free
<1>2. a \in Events \ Free
  BY <1>1 DEF KInv, TypeOK
<1>3. heap[a] \in EventRecord
  BY <1>2, HeapFacts
<1>4. heap'[a] = NULL /\ \A b \in Events : b # a => heap'[b] = heap[b]
  BY <1>1 DEF KInv, TypeOK
<1> DEFINE gone == IF heap[a].type = "read" THEN StreamSlotsOf(heap[a].id) ELSE {}
<1>5. knotes' = Without(gone)
  <2>1. CASE heap[a].type = "read"
    BY <2>1 DEF events_free, CloseDescriptor
  <2>2. CASE heap[a].type # "read"
    BY <2>2 DEF events_free, Without, KInv, TypeOK
  <2> QED
    BY <2>1, <2>2
<1>6. ASSUME NEW s \in Registered, knotes[s] = a
      PROVE  s \in gone
  <2>1. s = Slot(heap[a]) /\ knotes[s] # NULL
    BY <1>6, KnoteFacts DEF Registered
  <2>2. heap[a].type \notin OneShotTypes
    BY <1>1, <1>2, <2>1 DEF KInv, OneShotOnce
  <2>3. heap[a].type = "read"
    BY <1>1, <1>3, <1>6, <2>1, <2>2, SlotFacts
  <2> QED
    BY <1>3, <2>1, <2>3, SlotFacts
<1>7. \A s \in Registered : knotes'[s] # a
  <2> HIDE DEF gone
  <2> QED
    BY <1>2, <1>5, <1>6, KqueueAssumption DEF Without, Registered
<1> QED
  BY <1>1, <1>3, <1>4, <1>5, <1>7

LEMMA FreeKeepsInv ==
  ASSUME KInv, NEW a \in Events, events_free(a)
  PROVE  KInv'
<1> DEFINE gone == IF heap[a].type = "read" THEN StreamSlotsOf(heap[a].id) ELSE {}
<1>1. /\ a \in held /\ heap[a] \in EventRecord
      /\ heap'[a] = NULL /\ \A b \in Events : b # a => heap'[b] = heap[b]
      /\ knotes' = Without(gone)
      /\ \A s \in Registered : knotes'[s] # a
      /\ held' = held \ {a} /\ nextId' = nextId
  BY FreeFacts
<1>2. /\ heap' \in [Events -> EventRecord \cup {NULL}]
      /\ ready' \subseteq Slots /\ open' \subseteq Streams /\ failed' \in BOOLEAN
  BY DEF events_free, CloseDescriptor, KInv, TypeOK
<1> HIDE DEF gone
<1>3. Free' = Free \cup {a}
  BY <1>1 DEF Free
<1>4. \A s \in Slots : knotes'[s] = NULL \/ (knotes'[s] = knotes[s] /\ knotes[s] # a)
  BY <1>1, KqueueAssumption DEF Without, Registered
<1>5. TypeOK'
  BY <1>1, <1>2, <1>3 DEF KInv, TypeOK, Without
<1>6. RegisteredAlive'
  BY <1>1, <1>4 DEF KInv, TypeOK, RegisteredAlive, Registered
<1>7. \A b \in Events \ Free' : b \in Events \ Free /\ heap'[b] = heap[b]
  BY <1>1, <1>3
<1>8. IdsCounted'
  BY <1>1, <1>7 DEF KInv, IdsCounted
<1>9. \A b \in Events \ Free' : heap'[b].type \in OneShotTypes /\ b \in held' =>
        knotes'[Slot(heap'[b])] = NULL
  <2> SUFFICES ASSUME NEW b \in Events \ Free', heap'[b].type \in OneShotTypes, b \in held'
               PROVE  knotes'[Slot(heap'[b])] = NULL
    OBVIOUS
  <2>1. b \in Events \ Free /\ heap'[b] = heap[b] /\ b \in held
    BY <1>1, <1>7
  <2>2. knotes[Slot(heap[b])] = NULL /\ Slot(heap[b]) \in Slots
    BY <2>1, HeapFacts, SlotFacts DEF KInv, OneShotOnce
  <2> QED
    BY <1>4, <2>1, <2>2
<1>10. OneShotOnce'
  BY <1>7, <1>9 DEF KInv, OneShotOnce
<1> QED
  BY <1>5, <1>6, <1>8, <1>10 DEF KInv

-----------------------------------------------------------------------------
LEMMA InitKInv == Init => KInv
<1> SUFFICES ASSUME Init PROVE KInv
  OBVIOUS
<1>1. /\ heap = [a \in Events |-> NULL] /\ knotes = [s \in Slots |-> NULL]
      /\ nextId = 0 /\ ready = {} /\ held = {} /\ open = Streams /\ failed = FALSE
  BY DEF Init, events_create_manager
<1>2. Free = Events /\ Registered = {}
  BY <1>1 DEF Free, Registered
<1>3. TypeOK
  <2>1. /\ heap \in [Events -> EventRecord \cup {NULL}]
        /\ knotes \in [Slots -> Events \cup {NULL}]
    BY <1>1
  <2>2. nextId \in 0..MaxId
    BY <1>1, KqueueAssumption
  <2>3. /\ ready \subseteq Slots /\ open \subseteq Streams
        /\ held \subseteq Events \ Free /\ failed \in BOOLEAN
    BY <1>1
  <2> QED
    BY <2>1, <2>2, <2>3 DEF TypeOK
<1>4. RegisteredAlive
  BY <1>2 DEF RegisteredAlive
<1>5. OneShotOnce
  BY <1>2 DEF OneShotOnce
<1> QED
  BY <1>2, <1>3, <1>4, <1>5 DEF KInv, IdsCounted

LEMMA NewOneShotKeepsInv ==
  ASSUME KInv, NEW a \in Events, NEW type \in OneShotTypes, NEW data \in Data,
         NewOneShot(a, type, data),
         LET e == [type |-> type, id |-> nextId + 1, data |-> data]
         IN knotes' = [knotes EXCEPT ![Slot(e)] = a] \/ knotes' = knotes,
         ready' \subseteq Slots, failed' \in BOOLEAN
  PROVE  KInv'
<1> DEFINE e == [type |-> type, id |-> nextId + 1, data |-> data]
<1>1. /\ nextId < MaxId /\ nextId' = nextId + 1 /\ Allocate(a, e)
      /\ knotes' = [knotes EXCEPT ![Slot(e)] = a] \/ knotes' = knotes
  BY DEF NewOneShot
<1>2. e \in EventRecord /\ e.type \in OneShotTypes /\ e.id = nextId + 1
  BY <1>1, KqueueAssumption DEF EventRecord, Ids, KInv, TypeOK
<1> HIDE DEF e
<1> QED
  BY <1>1, <1>2, NewEventKeepsInv

LEMMA SubscribeKeepsInv ==
  ASSUME KInv, NEW type \in StreamTypes, NEW fd \in Streams, NEW data \in Data,
         Subscribe(type, fd, data)
  PROVE  KInv'
<1> DEFINE e == [type |-> type, id |-> fd, data |-> data]
<1>1. PICK a \in Events :
        /\ Allocate(a, e) /\ UNCHANGED <<nextId, ready>>
        /\ knotes' = [knotes EXCEPT ![Slot(e)] = a] \/ knotes' = knotes
        /\ failed' \in {failed, TRUE}
  BY DEF Subscribe, Added, KeventFails
<1>2. e \in EventRecord /\ e.type \in StreamTypes
  BY DEF EventRecord
<1>3. ready' \subseteq Slots /\ failed' \in BOOLEAN
  BY <1>1 DEF KInv, TypeOK
<1> HIDE DEF e
<1> QED
  BY <1>1, <1>2, <1>3, NewEventKeepsInv

(* events_wait: a one-shot event that passes to the client loses its knote.*)
LEMMA WaitKeepsInv ==
  ASSUME KInv, NEW batch \in SUBSET Slots, events_wait(batch)
  PROVE  KInv'
<1>1. /\ batch \subseteq Registered
      /\ held' = held \cup {knotes[s] : s \in batch}
      /\ knotes' = Without(batch \cap OneShotSlots)
      /\ ready' \subseteq Slots
      /\ UNCHANGED <<heap, nextId, open, failed>>
  BY DEF events_wait, KInv, TypeOK
<1>2. ASSUME NEW s \in Registered \cap OneShotSlots, knotes[s] \in held'
      PROVE  s \in batch \cap OneShotSlots
  <2>1. knotes[s] # NULL /\ Slot(heap[knotes[s]]) = s /\ knotes[s] \in Events \ Free
    BY KnoteFacts DEF Registered
  <2>2. heap[knotes[s]].type \in OneShotTypes
    BY <1>2, <2>1, HeapFacts, SlotFacts
  <2>3. knotes[s] \notin held
    BY <2>1, <2>2 DEF KInv, OneShotOnce
  <2>4. PICK r \in batch : knotes[r] = knotes[s]
    BY <1>1, <1>2, <2>3
  <2>5. r = s
    BY <1>1, <2>1, <2>4, KnoteFacts
  <2> QED
    BY <1>2, <2>4, <2>5
<1>3. /\ held' \subseteq held \cup {knotes[s] : s \in Registered}
      /\ open' \subseteq Streams /\ failed' \in BOOLEAN
  BY <1>1 DEF KInv, TypeOK
<1> QED
  BY <1>1, <1>2, <1>3, DropKeepsInv

(* Whatever ends some registrations and changes nothing else.              *)
LEMMA EndKeepsInv ==
  ASSUME KInv, NEW gone, knotes' = Without(gone), UNCHANGED <<heap, nextId, held, failed>>,
         ready' \subseteq Slots, open' \subseteq Streams
  PROVE  KInv'
<1>1. ASSUME NEW s \in Registered \cap OneShotSlots, knotes[s] \in held'
      PROVE  s \in gone
  <2>1. knotes[s] # NULL /\ Slot(heap[knotes[s]]) = s /\ knotes[s] \in Events \ Free
    BY KnoteFacts DEF Registered
  <2>2. heap[knotes[s]].type \in OneShotTypes
    BY <1>1, <2>1, HeapFacts, SlotFacts
  <2> QED
    BY <1>1, <2>1, <2>2 DEF KInv, OneShotOnce
<1>2. failed' \in BOOLEAN
  BY DEF KInv, TypeOK
<1> QED
  BY <1>1, <1>2, DropKeepsInv

LEMMA NextKeepsInv == KInv /\ [Next]_vars => KInv'
<1> SUFFICES ASSUME KInv, [Next]_vars PROVE KInv'
  OBVIOUS
<1>0. UNCHANGED knotes => knotes' = Without({})
  BY DEF Without, KInv, TypeOK
<1>1. ASSUME NEW data \in Data, events_send_custom(data)
      PROVE  KInv'
  <2> DEFINE e == [type |-> "custom", id |-> nextId + 1, data |-> data]
  <2>1. PICK a \in Events :
          /\ NewOneShot(a, "custom", data)
          /\ knotes' = [knotes EXCEPT ![Slot(e)] = a] \/ knotes' = knotes
          /\ ready' = ready \cup {Slot(e)} \/ ready' = ready
          /\ failed' \in {failed, TRUE}
    BY <1>1 DEF events_send_custom, Added, KeventFails
  <2>2. e \in EventRecord
    BY <1>1, <2>1, KqueueAssumption DEF NewOneShot, EventRecord, Ids, KInv, TypeOK
  <2>3. Slot(e) \in Slots
    BY <2>2, SlotFacts
  <2>4. ready' \subseteq Slots /\ failed' \in BOOLEAN
    BY <2>1, <2>3 DEF KInv, TypeOK
  <2> QED
    BY <1>1, <2>1, <2>4, NewOneShotKeepsInv
<1>2. ASSUME NEW data \in Data, events_send_timeout(data)
      PROVE  KInv'
  <2> DEFINE e == [type |-> "timer", id |-> nextId + 1, data |-> data]
  <2>1. PICK a \in Events :
          /\ NewOneShot(a, "timer", data)
          /\ knotes' = [knotes EXCEPT ![Slot(e)] = a] \/ knotes' = knotes
          /\ ready' = ready /\ failed' \in {failed, TRUE}
    BY <1>2 DEF events_send_timeout, Added, KeventFails
  <2>2. ready' \subseteq Slots /\ failed' \in BOOLEAN
    BY <2>1 DEF KInv, TypeOK
  <2> QED
    BY <1>2, <2>1, <2>2, NewOneShotKeepsInv
<1>3. ASSUME NEW data \in Data, NEW fd \in Streams,
             events_subscribe_read(fd, data) \/ events_subscribe_write(fd, data)
      PROVE  KInv'
  BY <1>3, SubscribeKeepsInv DEF events_subscribe_read, events_subscribe_write
<1>4. ASSUME NEW a \in Events, events_unsubscribe(a)
      PROVE  KInv'
  <2>1. ready' \subseteq Slots /\ open' \subseteq Streams
    BY <1>4 DEF events_unsubscribe, KInv, TypeOK
  <2> QED
    BY <1>4, <2>1, EndKeepsInv DEF events_unsubscribe
<1>5. ASSUME NEW a \in Events, events_free(a)
      PROVE  KInv'
  BY <1>5, FreeKeepsInv
<1>6. ASSUME NEW batch \in SUBSET Slots, events_wait(batch)
      PROVE  KInv'
  BY <1>6, WaitKeepsInv
<1>7. ASSUME NEW id \in Ids, TimerExpires(id)
      PROVE  KInv'
  <2>1. ready' \subseteq Slots /\ open' \subseteq Streams
    BY <1>7 DEF TimerExpires, Registered, KInv, TypeOK
  <2> QED
    BY <1>0, <1>7, <2>1, EndKeepsInv DEF TimerExpires
<1>8. ASSUME NEW s \in StreamSlots, StreamChanges(s)
      PROVE  KInv'
  <2>1. ready' \subseteq Slots /\ open' \subseteq Streams
    BY <1>8 DEF StreamChanges, Registered, KInv, TypeOK
  <2> QED
    BY <1>0, <1>8, <2>1, EndKeepsInv DEF StreamChanges
<1>9. ASSUME NEW fd \in Streams, ClientOpens(fd) \/ ClientCloses(fd)
      PROVE  KInv'
  <2>1. ready' \subseteq Slots /\ open' \subseteq Streams
    BY <1>9 DEF ClientOpens, ClientCloses, CloseDescriptor, KInv, TypeOK
  <2> QED
    BY <1>0, <1>9, <2>1, EndKeepsInv DEF ClientOpens, ClientCloses, CloseDescriptor
<1>10. CASE UNCHANGED vars
  <2>1. ready' \subseteq Slots /\ open' \subseteq Streams
    BY <1>10 DEF vars, KInv, TypeOK
  <2> QED
    BY <1>0, <1>10, <2>1, EndKeepsInv DEF vars
<1> QED
  BY <1>1, <1>2, <1>3, <1>4, <1>5, <1>6, <1>7, <1>8, <1>9, <1>10 DEF Next

(* The inductive invariant holds, whichever calls of kevent fail.          *)
THEOREM KqueueKInv == Spec => []KInv
BY InitKInv, NextKeepsInv, PTL DEF Spec

(* The type invariant of the kqueue backend.                               *)
THEOREM KqueueTypes == Spec => []TypeOK
BY KqueueKInv, PTL DEF KInv

(* No knote has an event that is freed, or one of another slot.            *)
THEOREM NoDanglingKnote == Spec => []RegisteredAlive
BY KqueueKInv, PTL DEF KInv

(* A one-shot event has its id for itself and is reported once.            *)
THEOREM KqueueOneShotOnce == Spec => []OneShotOnce
BY KqueueKInv, PTL DEF KInv

-----------------------------------------------------------------------------
(* Every step of EventsKqueue is a step of EventService or leaves its      *)
(* variables alone, where an event is armed when it is that of a knote.    *)
ArmedEvents == {heap[knotes[s]] : s \in Registered}
HeldEvents  == {heap[a] : a \in held}

USE DEF OneShotTypes, StreamTypes,
        Service!OneShotTypes, Service!StreamTypes, Service!OneShot

-----------------------------------------------------------------------------
LEMMA EventIsRecord == Service!Event = EventRecord
BY DEF Service!Event, EventRecord

(* An armed event is the only one of its slot.                             *)
LEMMA ArmedFacts ==
  ASSUME KInv, NEW x \in ArmedEvents
  PROVE  /\ x \in EventRecord /\ Slot(x) \in Registered
         /\ x = heap[knotes[Slot(x)]]
<1>1. PICK s \in Registered : x = heap[knotes[s]]
  BY DEF ArmedEvents
<1> QED
  BY <1>1, KnoteFacts

LEMMA HeldFacts ==
  ASSUME KInv, NEW a \in held
  PROVE  a \in Events \ Free /\ heap[a] \in EventRecord /\ heap[a] \in HeldEvents
<1>1. a \in Events \ Free
  BY DEF KInv, TypeOK
<1> QED
  BY <1>1, HeapFacts DEF HeldEvents

(* What is armed when the knotes of some slots are dropped.                *)
LEMMA DropDisarms ==
  ASSUME KInv, NEW gone, knotes' = Without(gone),
         \A s \in Registered : s \notin gone => heap'[knotes[s]] = heap[knotes[s]]
  PROVE  ArmedEvents' = {x \in ArmedEvents : Slot(x) \notin gone}
<1>1. Registered' = Registered \ gone
  BY DEF Without, Registered
<1>2. \A s \in Registered \ gone : knotes'[s] = knotes[s]
  BY DEF Without, Registered
<1>3. ASSUME NEW x \in ArmedEvents' PROVE x \in ArmedEvents /\ Slot(x) \notin gone
  <2>1. PICK s \in Registered' : x = heap'[knotes'[s]]
    BY DEF ArmedEvents
  <2>2. x = heap[knotes[s]] /\ s \in Registered \ gone
    BY <1>1, <1>2, <2>1
  <2> QED
    BY <2>2, KnoteFacts DEF ArmedEvents
<1>4. ASSUME NEW x \in ArmedEvents, Slot(x) \notin gone PROVE x \in ArmedEvents'
  <2>1. Slot(x) \in Registered' /\ x = heap[knotes[Slot(x)]]
    BY <1>1, <1>4, ArmedFacts
  <2>2. x = heap'[knotes'[Slot(x)]]
    BY <1>1, <1>2, <2>1
  <2> QED
    BY <2>1, <2>2 DEF ArmedEvents
<1> QED
  BY <1>3, <1>4

(* A new event takes the place of the one in its slot, or changes nothing  *)
(* a client can see.                                                       *)
LEMMA AllocateArms ==
  ASSUME KInv, NEW a \in Events, NEW e \in EventRecord, Allocate(a, e)
  PROVE  /\ HeldEvents' = HeldEvents
         /\ knotes' = knotes => ArmedEvents' = ArmedEvents
         /\ knotes' = [knotes EXCEPT ![Slot(e)] = a] =>
              ArmedEvents' = {x \in ArmedEvents : Slot(x) # Slot(e)} \cup {e}
<1>1. /\ a \in Free /\ a \notin held
      /\ \A s \in Registered : knotes[s] # a
      /\ heap'[a] = e /\ \A b \in Events : b # a => heap'[b] = heap[b]
      /\ held' = held
  BY AllocateFacts
<1>2. \A b \in held : heap'[b] = heap[b]
  BY <1>1, HeldFacts
<1>3. HeldEvents' = HeldEvents
  BY <1>1, <1>2 DEF HeldEvents
<1>4. \A s \in Registered : heap'[knotes[s]] = heap[knotes[s]]
  BY <1>1, KnoteFacts
<1>5. ASSUME knotes' = knotes PROVE ArmedEvents' = ArmedEvents
  <2>1. Registered' = Registered
    BY <1>5 DEF Registered
  <2> QED
    BY <1>4, <1>5, <2>1 DEF ArmedEvents
<1>6. ASSUME knotes' = [knotes EXCEPT ![Slot(e)] = a]
      PROVE  ArmedEvents' = {x \in ArmedEvents : Slot(x) # Slot(e)} \cup {e}
  <2>1. Slot(e) \in Slots /\ a # NULL
    BY SlotFacts, KqueueAssumption
  <2>2. knotes'[Slot(e)] = a /\ \A s \in Slots : s # Slot(e) => knotes'[s] = knotes[s]
    BY <1>6, <2>1 DEF KInv, TypeOK
  <2>3. Registered' = Registered \cup {Slot(e)}
    BY <2>1, <2>2 DEF Registered
  <2>4. \A s \in Registered : s # Slot(e) => heap'[knotes'[s]] = heap[knotes[s]]
    BY <1>4, <2>2 DEF Registered
  <2>5. ASSUME NEW x \in ArmedEvents'
        PROVE  x = e \/ (x \in ArmedEvents /\ Slot(x) # Slot(e))
    <3>1. PICK s \in Registered' : x = heap'[knotes'[s]]
      BY DEF ArmedEvents
    <3>2. CASE s = Slot(e)
      BY <1>1, <2>2, <3>1, <3>2
    <3>3. CASE s # Slot(e)
      <4>1. s \in Registered /\ x = heap[knotes[s]]
        BY <2>3, <2>4, <3>1, <3>3
      <4> QED
        BY <3>3, <4>1, KnoteFacts DEF ArmedEvents
    <3> QED
      BY <3>2, <3>3
  <2>6. e \in ArmedEvents'
    BY <1>1, <2>2, <2>3 DEF ArmedEvents
  <2>7. ASSUME NEW x \in ArmedEvents, Slot(x) # Slot(e) PROVE x \in ArmedEvents'
    <3>1. Slot(x) \in Registered /\ x = heap[knotes[Slot(x)]]
      BY ArmedFacts
    <3> QED
      BY <2>3, <2>4, <2>7, <3>1 DEF ArmedEvents
  <2> QED
    BY <2>5, <2>6, <2>7
<1> QED
  BY <1>3, <1>5, <1>6

-----------------------------------------------------------------------------
(* events_send_custom and events_send_timeout post an event under the next *)
(* id; one that is not registered is as good as refused.                   *)
LEMMA PostRefines ==
  ASSUME KInv, NEW a \in Events, NEW type \in OneShotTypes, NEW data \in Data,
         NewOneShot(a, type, data),
         LET e == [type |-> type, id |-> nextId + 1, data |-> data]
         IN knotes' = [knotes EXCEPT ![Slot(e)] = a] \/ knotes' = knotes
  PROVE  Service!ServiceNext
<1> DEFINE e == [type |-> type, id |-> nextId + 1, data |-> data]
<1>1. /\ nextId < MaxId /\ Allocate(a, e)
      /\ knotes' = [knotes EXCEPT ![Slot(e)] = a] \/ knotes' = knotes
  BY DEF NewOneShot
<1>2. nextId \in Nat /\ nextId + 1 \in Ids
  BY <1>1, KqueueAssumption DEF KInv, TypeOK, Ids
<1>3. e \in EventRecord /\ e.id = nextId + 1 /\ e.type \in OneShotTypes
  BY <1>2 DEF EventRecord
<1> HIDE DEF e
<1>4. HeldEvents' = HeldEvents
  BY <1>1, <1>3, AllocateArms
<1>5. CASE knotes' = knotes
  <2>1. ArmedEvents' = ArmedEvents
    BY <1>1, <1>3, <1>5, AllocateArms
  <2> QED
    BY <1>4, <2>1
       DEF Service!ServiceNext, Service!Refuse, Service!serviceVars, ArmedEvents, HeldEvents
<1>6. CASE knotes' = [knotes EXCEPT ![Slot(e)] = a]
  <2>1. ArmedEvents' = {x \in ArmedEvents : Slot(x) # Slot(e)} \cup {e}
    BY <1>1, <1>3, <1>6, AllocateArms
  <2>2. ASSUME NEW b \in Events \ Free, heap[b].type \in OneShotTypes
        PROVE  heap[b].id # nextId + 1
    <3>1. heap[b].id <= nextId /\ heap[b].id \in Int
      BY <2>2, HeapFacts DEF KInv, IdsCounted, EventRecord, Ids
    <3> QED
      BY <1>2, <3>1
  <2>3. \A x \in ArmedEvents : x.type \in OneShotTypes => x.id # nextId + 1
    BY <2>2, KnoteFacts DEF ArmedEvents
  <2>4. \A x \in HeldEvents : x.type \in OneShotTypes => x.id # nextId + 1
    BY <2>2, HeldFacts DEF HeldEvents
  <2>5. \A x \in ArmedEvents : Slot(x) # Slot(e)
    BY <1>3, <2>3, ArmedFacts, SlotFacts
  <2>6. ArmedEvents' = ArmedEvents \cup {e}
    BY <2>1, <2>5
  <2>7. PICK x \in Service!Event : x = e
    BY <1>3, EventIsRecord
  <2>8. Service!Post(x)
    BY <1>2, <1>3, <1>4, <2>3, <2>4, <2>6, <2>7
       DEF Service!Post, Service!FreshIds, ArmedEvents, HeldEvents
  <2> QED
    BY <1>3, <2>7, <2>8 DEF Service!ServiceNext
<1> QED
  BY <1>1, <1>5, <1>6

(* A subscription takes the place of the one in its slot.                  *)
LEMMA SubscribeRefines ==
  ASSUME KInv, NEW type \in StreamTypes, NEW fd \in Streams, NEW data \in Data,
         Subscribe(type, fd, data)
  PROVE  Service!ServiceNext
<1> DEFINE e == [type |-> type, id |-> fd, data |-> data]
<1>1. PICK a \in Events :
        /\ Allocate(a, e)
        /\ knotes' = [knotes EXCEPT ![Slot(e)] = a] \/ knotes' = knotes
  BY DEF Subscribe, Added, KeventFails
<1>2. e \in EventRecord /\ e.type \in StreamTypes /\ e.type \notin OneShotTypes
  BY DEF EventRecord
<1> HIDE DEF e
<1>3. HeldEvents' = HeldEvents
  BY <1>1, <1>2, AllocateArms
<1>4. CASE knotes' = knotes
  <2>1. ArmedEvents' = ArmedEvents
    BY <1>1, <1>2, <1>4, AllocateArms
  <2> QED
    BY <1>3, <2>1
       DEF Service!ServiceNext, Service!Refuse, Service!serviceVars, ArmedEvents, HeldEvents
<1>5. CASE knotes' = [knotes EXCEPT ![Slot(e)] = a]
  <2>1. ArmedEvents' = {x \in ArmedEvents : Slot(x) # Slot(e)} \cup {e}
    BY <1>1, <1>2, <1>5, AllocateArms
  <2>2. \A x \in ArmedEvents : Slot(x) # Slot(e) <=> ~(x.id = e.id /\ x.type = e.type)
    BY <1>2, ArmedFacts, SlotFacts
  <2>3. ArmedEvents' =
          (ArmedEvents \ {x \in ArmedEvents : x.id = e.id /\ x.type = e.type}) \cup {e}
    BY <2>1, <2>2
  <2>4. Service!Subscribe(e)
    BY <1>3, <2>3
       DEF Service!Subscribe, Service!Accepts, Service!Slot, Service!SameSlot,
           ArmedEvents, HeldEvents
  <2> QED
    BY <1>2, <2>4, EventIsRecord DEF Service!ServiceNext
<1> QED
  BY <1>1, <1>4, <1>5

LEMMA UnsubscribeRefines ==
  ASSUME KInv, NEW a \in Events, events_unsubscribe(a)
  PROVE  Service!ServiceNext
<1> DEFINE e == heap[a]
<1>1. /\ a \in held /\ e.type \in StreamTypes /\ knotes[Slot(e)] = a
      /\ knotes' = Without({Slot(e)}) /\ UNCHANGED <<heap, held>>
  BY DEF events_unsubscribe
<1>2. e \in EventRecord /\ e \in HeldEvents
  BY <1>1, HeldFacts
<1>3. Slot(e) \in Registered
  BY <1>1, <1>2, SlotFacts, KqueueAssumption DEF Registered
<1>4. e \in ArmedEvents
  BY <1>1, <1>3 DEF ArmedEvents
<1>5. HeldEvents' = HeldEvents
  BY <1>1 DEF HeldEvents
<1>6. ArmedEvents' = {x \in ArmedEvents : Slot(x) \notin {Slot(e)}}
  BY <1>1, DropDisarms
<1> HIDE DEF e
<1>7. \A x \in ArmedEvents : Slot(x) \notin {Slot(e)} <=> ~(x.id = e.id /\ x.type = e.type)
  BY <1>2, ArmedFacts, SlotFacts
<1>8. ArmedEvents' = ArmedEvents \ {x \in ArmedEvents : x.id = e.id /\ x.type = e.type}
  BY <1>6, <1>7
<1>9. PICK x \in Service!Event : x = e
  BY <1>2, EventIsRecord
<1>10. Service!Unsubscribe(x)
  BY <1>2, <1>4, <1>5, <1>8, <1>9
     DEF Service!Unsubscribe, Service!EndSubscription, Service!Slot, Service!SameSlot,
         ArmedEvents, HeldEvents
<1> QED
  BY <1>10 DEF Service!ServiceNext

(* What is armed when a descriptor is closed.                              *)
LEMMA CloseDisarms ==
  ASSUME KInv, NEW fd, knotes' = Without(StreamSlotsOf(fd)),
         \A s \in Registered : s \notin StreamSlotsOf(fd) => heap'[knotes[s]] = heap[knotes[s]]
  PROVE  ArmedEvents' = ArmedEvents \ {x \in ArmedEvents : ~Service!OneShot(x) /\ x.id = fd}
<1>1. ArmedEvents' = {x \in ArmedEvents : Slot(x) \notin StreamSlotsOf(fd)}
  BY DropDisarms
<1>2. \A x \in ArmedEvents :
        Slot(x) \notin StreamSlotsOf(fd) <=> ~(x.type \notin OneShotTypes /\ x.id = fd)
  BY ArmedFacts, SlotFacts
<1> QED
  BY <1>1, <1>2

(* events_free releases the event, and closes the descriptor if it is a    *)
(* read event.  Where the client holds an equal event, that is all.        *)
LEMMA FreeRefines ==
  ASSUME KInv, NEW a \in Events, events_free(a)
  PROVE  Service!ServiceNext
<1> DEFINE e == heap[a]
           fd == heap[a].id
           closed == IF e.type = "read" THEN StreamSlotsOf(fd) ELSE {}
<1>1. /\ a \in held /\ e \in EventRecord /\ e \in HeldEvents
      /\ heap'[a] = NULL /\ \A b \in Events : b # a => heap'[b] = heap[b]
      /\ knotes' = Without(closed)
      /\ \A s \in Registered : knotes'[s] # a
      /\ held' = held \ {a}
  BY FreeFacts, HeldFacts
<1>2. \A s \in Registered : s \notin closed => heap'[knotes[s]] = heap[knotes[s]]
  <2> HIDE DEF closed, e, fd
  <2>1. \A s \in Registered : s \notin closed => knotes'[s] = knotes[s] /\ s \in Slots
    BY <1>1 DEF Without, Registered
  <2> QED
    BY <1>1, <2>1, KnoteFacts
<1>3. HeldEvents' = {heap[b] : b \in held \ {a}}
  BY <1>1, HeldFacts DEF HeldEvents
<1>4. CASE e.type = "read"
  <2>1. fd \in Streams
    BY <1>1, <1>4 DEF EventRecord
  <2>2. ArmedEvents' = ArmedEvents \ {x \in ArmedEvents : ~Service!OneShot(x) /\ x.id = fd}
    BY <1>1, <1>2, <1>4, CloseDisarms
  <2> HIDE DEF fd
  <2>3. CASE \E b \in held \ {a} : heap[b] = e
    <3>1. HeldEvents' = HeldEvents
      BY <1>1, <1>3, <2>3 DEF HeldEvents
    <3>2. PICK g \in Streams : g = fd
      BY <2>1
    <3> HIDE DEF e, closed
    <3>3. Service!CloseStream(g)
      BY <2>2, <3>1, <3>2
         DEF Service!CloseStream, Service!OnStream, ArmedEvents, HeldEvents
    <3> QED
      BY <3>3 DEF Service!ServiceNext
  <2>4. CASE ~ \E b \in held \ {a} : heap[b] = e
    <3>1. HeldEvents' = HeldEvents \ {e}
      BY <1>1, <1>3, <2>4 DEF HeldEvents
    <3>2. e.id = fd
      BY DEF fd
    <3> HIDE DEF e, closed
    <3>3. PICK x \in Service!Event : x = e
      BY <1>1, EventIsRecord
    <3>4. Service!Release(x)
      BY <1>1, <1>4, <2>2, <3>1, <3>2, <3>3
         DEF Service!Release, Service!OnStream, ArmedEvents, HeldEvents
    <3> QED
      BY <3>4 DEF Service!ServiceNext
  <2> QED
    BY <2>3, <2>4
<1>5. CASE e.type # "read"
  <2>1. ArmedEvents' = {x \in ArmedEvents : Slot(x) \notin {}}
    BY <1>1, <1>2, <1>5, DropDisarms
  <2>2. ArmedEvents' = ArmedEvents
    BY <2>1
  <2>3. CASE \E b \in held \ {a} : heap[b] = e
    <3>1. HeldEvents' = HeldEvents
      BY <1>1, <1>3, <2>3 DEF HeldEvents
    <3> QED
      BY <2>2, <3>1
         DEF Service!ServiceNext, Service!Refuse, Service!serviceVars, ArmedEvents, HeldEvents
  <2>4. CASE ~ \E b \in held \ {a} : heap[b] = e
    <3>1. HeldEvents' = HeldEvents \ {e}
      BY <1>1, <1>3, <2>4 DEF HeldEvents
    <3> HIDE DEF e, closed, fd
    <3>2. PICK x \in Service!Event : x = e
      BY <1>1, EventIsRecord
    <3>3. Service!Release(x)
      BY <1>1, <1>5, <2>2, <3>1, <3>2 DEF Service!Release, ArmedEvents, HeldEvents
    <3> QED
      BY <3>3 DEF Service!ServiceNext
  <2> QED
    BY <2>3, <2>4
<1> QED
  BY <1>4, <1>5

LEMMA WaitRefines ==
  ASSUME KInv, NEW batch \in SUBSET Slots, events_wait(batch)
  PROVE  Service!ServiceNext
<1> DEFINE B == {heap[knotes[s]] : s \in batch}
<1>1. /\ batch # {} /\ batch \subseteq Registered
      /\ held' = held \cup {knotes[s] : s \in batch}
      /\ knotes' = Without(batch \cap OneShotSlots)
      /\ heap' = heap
  BY DEF events_wait
<1>2. B # {} /\ B \subseteq ArmedEvents
  BY <1>1 DEF ArmedEvents
<1>3. HeldEvents' = HeldEvents \cup B
  BY <1>1 DEF HeldEvents
<1>4. ArmedEvents' = {x \in ArmedEvents : Slot(x) \notin batch \cap OneShotSlots}
  BY <1>1, DropDisarms
<1>5. \A x \in ArmedEvents : Slot(x) \in batch <=> x \in B
  BY <1>1, ArmedFacts, KnoteFacts
<1>6. \A x \in ArmedEvents : Slot(x) \in OneShotSlots <=> x.type \in OneShotTypes
  BY ArmedFacts, SlotFacts
<1> HIDE DEF B
<1>7. ArmedEvents' = ArmedEvents \ {x \in B : Service!OneShot(x)}
  BY <1>4, <1>5, <1>6
<1>8. PICK x \in SUBSET ArmedEvents : x = B
  BY <1>2
<1>9. Service!Deliver(x)
  BY <1>2, <1>3, <1>7, <1>8 DEF Service!Deliver, ArmedEvents, HeldEvents
<1> QED
  BY <1>9 DEF Service!ServiceNext, ArmedEvents

-----------------------------------------------------------------------------
LEMMA InitRefines == Init => Service!ServiceInit
BY DEF Init, events_create_manager, Service!ServiceInit, Registered

LEMMA NextRefines ==
  KInv /\ [Next]_vars => [Service!ServiceNext]_Service!serviceVars
<1> SUFFICES ASSUME KInv, [Next]_vars
             PROVE  Service!ServiceNext \/ UNCHANGED <<ArmedEvents, HeldEvents>>
  BY DEF Service!serviceVars, ArmedEvents, HeldEvents
<1>1. ASSUME NEW data \in Data, events_send_custom(data)
      PROVE  Service!ServiceNext
  BY <1>1, PostRefines DEF events_send_custom, Added, KeventFails
<1>2. ASSUME NEW data \in Data, events_send_timeout(data)
      PROVE  Service!ServiceNext
  BY <1>2, PostRefines DEF events_send_timeout, Added, KeventFails
<1>3. ASSUME NEW data \in Data, NEW fd \in Streams,
             events_subscribe_read(fd, data) \/ events_subscribe_write(fd, data)
      PROVE  Service!ServiceNext
  BY <1>3, SubscribeRefines DEF events_subscribe_read, events_subscribe_write
<1>4. ASSUME NEW a \in Events, events_unsubscribe(a) \/ events_free(a)
      PROVE  Service!ServiceNext
  BY <1>4, UnsubscribeRefines, FreeRefines
<1>5. ASSUME NEW batch \in SUBSET Slots, events_wait(batch)
      PROVE  Service!ServiceNext
  BY <1>5, WaitRefines
<1>6. ASSUME NEW fd \in Streams, ClientCloses(fd)
      PROVE  Service!ServiceNext
  <2>1. knotes' = Without(StreamSlotsOf(fd)) /\ UNCHANGED <<heap, held>>
    BY <1>6 DEF ClientCloses, CloseDescriptor
  <2>2. ArmedEvents' = ArmedEvents \ {x \in ArmedEvents : ~Service!OneShot(x) /\ x.id = fd}
    BY <2>1, CloseDisarms
  <2>3. HeldEvents' = HeldEvents
    BY <2>1 DEF HeldEvents
  <2>4. Service!CloseStream(fd)
    BY <2>2, <2>3 DEF Service!CloseStream, Service!OnStream, ArmedEvents, HeldEvents
  <2> QED
    BY <2>4 DEF Service!ServiceNext
<1>7. CASE UNCHANGED <<heap, knotes, held>>
  BY <1>7 DEF ArmedEvents, HeldEvents, Registered
<1> QED
  BY <1>1, <1>2, <1>3, <1>4, <1>5, <1>6, <1>7
     DEF Next, TimerExpires, StreamChanges, ClientOpens, vars

(* Every behaviour of the kqueue backend is one events.h promises.         *)
THEOREM KqueueImplementsService == Spec => ImplementsService
BY InitRefines, NextRefines, KqueueKInv, PTL
   DEF Spec, ImplementsService, Service!ServiceSpec
=============================================================================
