--------------------------- MODULE DukTimersProofs ---------------------------
(***************************************************************************)
(* Proofs about the timers, for every set of ids, streams and callbacks    *)
(* and for both backends.                                                  *)
(***************************************************************************)
EXTENDS DukTimers, TLAPS

AllIds == Ids \cup {-1}

(* The manager knows the one-shot events that are timers only.             *)
OneShotsAreTimers ==
  \A e \in armed \cup held : OneShot(e) => e.id \in Ids /\ e = Timer(e.id)

(* A timer is delivered once.                                              *)
ArmedOrHeld ==
  \A id \in Ids : ~(Timer(id) \in armed /\ Timer(id) \in held)

(* The loop and the callback work on events they hold, one at a time.      *)
OneAtATime ==
  /\ event # NULL => event \in held /\ current = NULL
  /\ current # NULL => current \in held /\ current.type = "timer"

(* An entry belongs to an event that can not have been replaced by another *)
(* with the same id, or (kqueue) to none.                                  *)
StoredIsLive ==
  \A id \in Ids : timeoutCallbacks[id] # NULL => Kqueue \/ Timer(id) \in armed \cup held

(* No callback is stored twice, nor before it is given to setTimeout.      *)
StoredOnce ==
  \A c \in Callbacks, i, j \in AllIds :
    timeoutCallbacks[i] = c /\ timeoutCallbacks[j] = c => i = j

UnusedIsNotStored ==
  \A c \in Callbacks, i \in AllIds :
    timeoutCallbacks[i] = c => status[c] # "unused"

SetIsStored ==
  \A c \in Callbacks : status[c] = "set" =>
    \E id \in Ids : timeoutCallbacks[id] = c

(* Where a stored callback is on its way from setTimeout to its call.      *)
StoredStatus ==
  \A id \in Ids, c \in Callbacks : timeoutCallbacks[id] = c =>
    \/ status[c] = "set" /\ Timer(id) \in armed \cup {event}
    \/ status[c] = "running" /\ Timer(id) = current
    \/ status[c] = "ignored" /\ Timer(id) \notin armed \cup {event, current}
    \/ status[c] = "refused" /\ Kqueue /\ Timer(id) \notin armed \cup held

(* The inductive invariant.                                                *)
TInv ==
  /\ TimersTypeOK
  /\ OneShotsAreTimers
  /\ ArmedOrHeld
  /\ OneAtATime
  /\ StoredIsLive
  /\ StoredOnce
  /\ UnusedIsNotStored
  /\ SetIsStored
  /\ StoredStatus

USE DEF AllIds

-----------------------------------------------------------------------------
(* Facts about the events manager.                                         *)

LEMMA TimerIsEvent ==
  ASSUME NEW id \in Ids
  PROVE  /\ Timer(id) \in Event /\ Timer(id) # NULL /\ OneShot(Timer(id))
         /\ Timer(id).id = id /\ Timer(id).type = "timer"
BY TimersAssumption DEF Timer, Event, OneShot, OneShotTypes

(* Ending or making a subscription leaves the timers alone.                *)
LEMMA SlotOfStream ==
  ASSUME NEW e \in Event, ~OneShot(e), NEW id \in Ids
  PROVE  Timer(id) \notin Slot(e)
<1>1. e.id \in Streams /\ e.type # "timer"
  BY DEF Event, OneShot, OneShotTypes, StreamTypes
<1> QED
  BY <1>1, TimerIsEvent, ServiceAssumption DEF Slot, SameSlot

(* The invariant only looks at the timers among the events and survives    *)
(* whatever the host does with its streams.                                *)
LEMMA HostStep ==
  ASSUME TInv,
         armed' \subseteq Event, held' = held,
         \A e \in armed' : OneShot(e) => e \in armed,
         \A id \in Ids : Timer(id) \in armed => Timer(id) \in armed',
         \/ event' = event
         \/ event # NULL /\ event.type # "timer" /\ event' = NULL,
         fatal' \in Fatal,
         UNCHANGED <<timeoutCallbacks, current, status>>
  PROVE  TInv'
<1>1. \A id \in Ids : Timer(id) \in armed' <=> Timer(id) \in armed
  BY TimerIsEvent
<1>2. \A id \in Ids : Timer(id) = event' <=> Timer(id) = event
  BY TimerIsEvent
<1>3. TimersTypeOK'
  BY DEF TInv, TimersTypeOK
<1>4. OneShotsAreTimers'
  BY DEF TInv, OneShotsAreTimers
<1>5. ArmedOrHeld' /\ StoredIsLive'
  BY <1>1 DEF TInv, ArmedOrHeld, StoredIsLive
<1>6. OneAtATime'
  BY DEF TInv, OneAtATime
<1>7. StoredOnce' /\ UnusedIsNotStored' /\ SetIsStored'
  BY DEF TInv, StoredOnce, UnusedIsNotStored, SetIsStored
<1>8. StoredStatus'
  BY <1>1, <1>2 DEF TInv, StoredStatus
<1> QED
  BY <1>3, <1>4, <1>5, <1>6, <1>7, <1>8 DEF TInv

-----------------------------------------------------------------------------
LEMMA InitTInv == TimersInit => TInv
<1> SUFFICES ASSUME TimersInit PROVE TInv
  OBVIOUS
<1> USE TimersAssumption DEF TimersInit, ServiceInit, duk_timers_register
<1>1. TimersTypeOK
  BY DEF TimersTypeOK, Status, Fatal
<1>2. OneShotsAreTimers /\ ArmedOrHeld /\ OneAtATime /\ StoredIsLive
  BY DEF OneShotsAreTimers, ArmedOrHeld, OneAtATime, StoredIsLive
<1>3. StoredOnce /\ UnusedIsNotStored /\ SetIsStored /\ StoredStatus
  BY DEF StoredOnce, UnusedIsNotStored, SetIsStored, StoredStatus
<1> QED
  BY <1>1, <1>2, <1>3 DEF TInv

-----------------------------------------------------------------------------
(* One lemma for each action.                                              *)

(* An accepted setTimeout stores its callback under an id no entry uses; a *)
(* refused one takes the entry of -1 (epoll) or of an id without an event. *)
LEMMA SetStep ==
  ASSUME TInv, NEW c \in Callbacks, duk_timers_set_timeout(c)
  PROVE  TInv'
<1> USE TimersAssumption DEF TInv, duk_timers_set_timeout
<1>1. c # NULL /\ status[c] = "unused" /\ UNCHANGED <<event, current, fatal, held>>
  BY DEF Post, Refuse, serviceVars
<1>2. \A i \in AllIds : timeoutCallbacks[i] # c
  BY <1>1 DEF UnusedIsNotStored
<1>3. ASSUME NEW id \in Ids, Post(Timer(id)), Counted(id),
             timeoutCallbacks' = [timeoutCallbacks EXCEPT ![id] = c],
             status' = [status EXCEPT ![c] = "set"]
      PROVE  TInv'
  <2>1. /\ Timer(id) \notin armed \cup held
        /\ armed' = armed \cup {Timer(id)} /\ held' = held
    BY <1>3, TimerIsEvent DEF Post, FreshIds
  <2>2. timeoutCallbacks[id] = NULL
    BY <1>3, <2>1, ServiceAssumption DEF StoredIsLive, Counted
  <2>3. /\ timeoutCallbacks'[id] = c
        /\ \A i \in AllIds : i # id => timeoutCallbacks'[i] = timeoutCallbacks[i]
        /\ status'[c] = "set"
        /\ \A d \in Callbacks : d # c => status'[d] = status[d]
    BY <1>3 DEF TimersTypeOK
  <2>4. \A i \in Ids : Timer(i) = Timer(id) => i = id
    BY TimerIsEvent
  <2>5. TimersTypeOK'
    BY <1>1, <1>3, <2>1, TimerIsEvent DEF TimersTypeOK, Status
  <2>6. OneShotsAreTimers'
    BY <2>1, TimerIsEvent DEF OneShotsAreTimers
  <2>7. ArmedOrHeld' /\ OneAtATime' /\ StoredIsLive'
    BY <1>1, <2>1, <2>3, <2>4 DEF ArmedOrHeld, OneAtATime, StoredIsLive
  <2>8. StoredOnce' /\ UnusedIsNotStored' /\ SetIsStored'
    BY <1>2, <2>2, <2>3 DEF StoredOnce, UnusedIsNotStored, SetIsStored
  <2>9. StoredStatus'
    <3> SUFFICES ASSUME NEW i \in Ids, NEW d \in Callbacks, timeoutCallbacks'[i] = d
                 PROVE  \/ status'[d] = "set" /\ Timer(i) \in armed' \cup {event'}
                        \/ status'[d] = "running" /\ Timer(i) = current'
                        \/ status'[d] = "ignored" /\ Timer(i) \notin armed' \cup {event', current'}
                        \/ status'[d] = "refused" /\ Kqueue /\ Timer(i) \notin armed' \cup held'
      BY DEF StoredStatus
    <3>1. CASE i = id
      BY <3>1, <2>1, <2>3
    <3>2. CASE i # id
      BY <3>2, <1>1, <1>2, <2>1, <2>3, <2>4 DEF StoredStatus
    <3> QED
      BY <3>1, <3>2
  <2> QED
    BY <2>5, <2>6, <2>7, <2>8, <2>9
<1>4. ASSUME Refuse, ~Kqueue,
             timeoutCallbacks' = [timeoutCallbacks EXCEPT ![-1] = c],
             status' = [status EXCEPT ![c] = "refused"]
      PROVE  TInv'
  <2>1. armed' = armed /\ held' = held
    BY <1>4 DEF Refuse, serviceVars
  <2>2. /\ timeoutCallbacks'[-1] = c
        /\ \A i \in Ids : timeoutCallbacks'[i] = timeoutCallbacks[i]
        /\ status'[c] = "refused"
        /\ \A d \in Callbacks : d # c => status'[d] = status[d]
    BY <1>4 DEF TimersTypeOK
  <2>3. TimersTypeOK'
    BY <1>1, <1>4, <2>1 DEF TimersTypeOK, Status
  <2>4. OneShotsAreTimers' /\ ArmedOrHeld' /\ OneAtATime' /\ StoredIsLive'
    BY <1>1, <2>1, <2>2 DEF OneShotsAreTimers, ArmedOrHeld, OneAtATime, StoredIsLive
  <2>5. StoredOnce' /\ UnusedIsNotStored' /\ SetIsStored'
    BY <1>1, <1>2, <2>2 DEF StoredOnce, UnusedIsNotStored, SetIsStored
  <2>6. StoredStatus'
    BY <1>1, <1>2, <2>1, <2>2 DEF StoredStatus
  <2> QED
    BY <2>3, <2>4, <2>5, <2>6
<1>5. ASSUME Refuse, Kqueue, NEW id \in Ids, id \in FreshIds, Counted(id),
             timeoutCallbacks' = [timeoutCallbacks EXCEPT ![id] = c],
             status' = [status EXCEPT ![c] = "refused"]
      PROVE  TInv'
  <2>1. /\ armed' = armed /\ held' = held /\ Timer(id) \notin armed \cup held
        /\ timeoutCallbacks[id] = NULL
    BY <1>5, TimerIsEvent DEF Refuse, serviceVars, FreshIds, Counted
  <2>2. /\ timeoutCallbacks'[id] = c
        /\ \A i \in AllIds : i # id => timeoutCallbacks'[i] = timeoutCallbacks[i]
        /\ status'[c] = "refused"
        /\ \A d \in Callbacks : d # c => status'[d] = status[d]
    BY <1>5 DEF TimersTypeOK
  <2>3. TimersTypeOK'
    BY <1>1, <1>5, <2>1 DEF TimersTypeOK, Status
  <2>4. OneShotsAreTimers' /\ ArmedOrHeld' /\ OneAtATime' /\ StoredIsLive'
    BY <1>1, <1>5, <2>1 DEF OneShotsAreTimers, ArmedOrHeld, OneAtATime, StoredIsLive
  <2>5. StoredOnce' /\ UnusedIsNotStored' /\ SetIsStored'
    BY <1>1, <1>2, <1>5, <2>1, <2>2 DEF StoredOnce, UnusedIsNotStored, SetIsStored
  <2>6. StoredStatus'
    BY <1>1, <1>2, <1>5, <2>1, <2>2 DEF StoredStatus
  <2> QED
    BY <2>3, <2>4, <2>5, <2>6
<1>6. CASE \E id \in Ids : /\ Post(Timer(id))
                            /\ Counted(id)
                            /\ timeoutCallbacks' = [timeoutCallbacks EXCEPT ![id] = c]
                            /\ status' = [status EXCEPT ![c] = "set"]
  BY <1>3, <1>6
<1>7. CASE \E id \in RefusedIds : /\ Refuse
                                   /\ timeoutCallbacks' = [timeoutCallbacks EXCEPT ![id] = c]
                                   /\ status' = [status EXCEPT ![c] = "refused"]
  <2>1. CASE Kqueue
    BY <1>5, <1>7, <2>1 DEF RefusedIds, FreshIds
  <2>2. CASE ~Kqueue
    BY <1>4, <1>7, <2>2 DEF RefusedIds
  <2> QED
    BY <2>1, <2>2
<1> QED
  BY <1>6, <1>7

(* The status after clearTimeout, or after the callback has returned: the  *)
(* callback of the entry that goes is not "set" any more.                  *)
LEMMA DropStep ==
  ASSUME TInv, NEW i \in AllIds,
         timeoutCallbacks' = [timeoutCallbacks EXCEPT ![i] = NULL],
         status' \in [Callbacks -> Status],
         \A c \in Callbacks :
           \/ status'[c] = status[c]
           \/ timeoutCallbacks[i] = c /\ status'[c] \notin {"set", "unused"}
           \/ status[c] = "running" /\ status'[c] = "done"
                /\ \A id \in Ids \ {i} : timeoutCallbacks[id] # c,
         timeoutCallbacks[i] # NULL =>
           status'[timeoutCallbacks[i]] \notin {"set"},
         UNCHANGED <<armed, held, event, fatal>>,
         \/ UNCHANGED current
         \/ current = Timer(i) /\ i \in Ids /\ current' = NULL
  PROVE  TInv'
<1> USE TimersAssumption DEF TInv
<1>1. /\ timeoutCallbacks'[i] = NULL
      /\ \A j \in AllIds : j # i => timeoutCallbacks'[j] = timeoutCallbacks[j]
  BY DEF TimersTypeOK
<1>2. \A c \in Callbacks, j \in AllIds :
        timeoutCallbacks'[j] = c => j # i /\ timeoutCallbacks[j] = c /\ timeoutCallbacks[i] # c
  BY <1>1 DEF StoredOnce
<1>3. TimersTypeOK'
  BY DEF TimersTypeOK
<1>4. OneShotsAreTimers' /\ ArmedOrHeld' /\ OneAtATime'
  BY DEF OneShotsAreTimers, ArmedOrHeld, OneAtATime
<1>5. StoredIsLive'
  BY <1>1 DEF StoredIsLive
<1>6. StoredOnce'
  BY <1>2 DEF StoredOnce
<1>7. UnusedIsNotStored'
  BY <1>2 DEF UnusedIsNotStored
<1>8. SetIsStored'
  BY <1>1 DEF SetIsStored
<1>9. StoredStatus'
  BY <1>2, TimerIsEvent DEF StoredStatus
<1> QED
  BY <1>3, <1>4, <1>5, <1>6, <1>7, <1>8, <1>9

LEMMA ClearStep ==
  ASSUME TInv, NEW id \in AllIds, duk_timers_clear_timeout(id)
  PROVE  TInv'
<1>1. status' \in [Callbacks -> Status]
  BY DEF TInv, TimersTypeOK, duk_timers_clear_timeout, Status
<1>2. timeoutCallbacks[id] \in Callbacks \cup {NULL}
  BY DEF TInv, TimersTypeOK
<1> QED
  BY <1>1, <1>2, DropStep DEF duk_timers_clear_timeout, serviceVars

LEMMA ReturnStep ==
  ASSUME TInv, CallbackReturns
  PROVE  TInv'
<1>1. current.id \in Ids /\ current = Timer(current.id) /\ current.id \in AllIds
  BY DEF TInv, CallbackReturns, OneAtATime, OneShotsAreTimers, OneShot, OneShotTypes
<1>2. status' \in [Callbacks -> Status]
  BY DEF TInv, TimersTypeOK, CallbackReturns, Status
<1>3. ASSUME NEW c \in Callbacks, status[c] = "running",
             NEW id \in Ids, timeoutCallbacks[id] = c
      PROVE  id = current.id
  BY <1>1, <1>3, TimerIsEvent DEF TInv, StoredStatus
<1>4. ASSUME timeoutCallbacks[current.id] # NULL
      PROVE  status'[timeoutCallbacks[current.id]] # "set"
  <2> DEFINE c == timeoutCallbacks[current.id]
  <2>1. c \in Callbacks
    BY <1>1, <1>4 DEF TInv, TimersTypeOK
  <2>2. Timer(current.id) \notin armed \cup {event}
    BY <1>1, TimersAssumption, TimerIsEvent
       DEF TInv, ArmedOrHeld, OneAtATime, CallbackReturns
  <2>3. status[c] # "set"
    BY <1>1, <2>1, <2>2 DEF TInv, StoredStatus
  <2> QED
    BY <2>1, <2>3 DEF CallbackReturns
<1> QED
  BY <1>1, <1>2, <1>3, <1>4, DropStep DEF CallbackReturns, serviceVars

(* events_wait moves a timer from the armed events to the loop's hands.    *)
LEMMA WaitStep ==
  ASSUME TInv, NEW e \in armed, Wait(e)
  PROVE  TInv'
<1> USE TimersAssumption DEF TInv, Wait
<1>1. /\ held' = held \cup {e} /\ event' = e /\ event = NULL /\ current = NULL
      /\ armed' = armed \ {x \in {e} : OneShot(x)}
      /\ UNCHANGED <<timeoutCallbacks, current, status, fatal>>
  BY DEF Deliver
<1>2. e \in Event /\ e # NULL
  BY DEF TimersTypeOK
<1>3. \A id \in Ids : /\ Timer(id) \in armed' <=> Timer(id) \in armed /\ Timer(id) # e
                      /\ Timer(id) \in held' <=> Timer(id) \in held \/ Timer(id) = e
  BY <1>1, TimerIsEvent
<1>4. TimersTypeOK'
  BY <1>1, <1>2 DEF TimersTypeOK
<1>5. OneShotsAreTimers'
  BY <1>1 DEF OneShotsAreTimers
<1>6. ArmedOrHeld' /\ StoredIsLive'
  BY <1>1, <1>3 DEF ArmedOrHeld, StoredIsLive
<1>7. OneAtATime'
  BY <1>1, <1>2 DEF OneAtATime
<1>8. StoredOnce' /\ UnusedIsNotStored' /\ SetIsStored'
  BY <1>1 DEF StoredOnce, UnusedIsNotStored, SetIsStored
<1>9. StoredStatus'
  BY <1>1, <1>3, TimerIsEvent DEF StoredStatus
<1> QED
  BY <1>4, <1>5, <1>6, <1>7, <1>8, <1>9

(* The handler finds a callback that is set, calls it or leaves it behind. *)
LEMMA HandleStep ==
  ASSUME TInv, HandleTimer
  PROVE  /\ TInv'
         /\ \A c \in Callbacks : status'[c] = "running" => status[c] \in {"set", "running"}
<1> DEFINE c == timeoutCallbacks[event.id]
<1> USE TimersAssumption
<1>1. /\ event # NULL /\ event.type = "timer" /\ current = NULL /\ event' = NULL
      /\ UNCHANGED <<timeoutCallbacks, fatal, armed, held>>
  BY DEF HandleTimer, duk_timers_handle_event, serviceVars, TInv, OneAtATime
<1>2. /\ event.id \in Ids /\ event = Timer(event.id)
      /\ event \in held /\ event \notin armed /\ event \in Event
  BY <1>1 DEF TInv, OneAtATime, OneShotsAreTimers, OneShot, OneShotTypes, ArmedOrHeld,
     TimersTypeOK
<1>3. c \in Callbacks \cup {NULL}
  BY <1>2 DEF TInv, TimersTypeOK
<1>4. c # NULL => status[c] = "set"
  BY <1>1, <1>2, <1>3, TimerIsEvent DEF TInv, StoredStatus
<1>5. \A id \in Ids, d \in Callbacks : timeoutCallbacks[id] = d /\ d # c => id # event.id
  OBVIOUS
<1>6. \A id \in Ids : timeoutCallbacks[id] = c /\ c # NULL => id = event.id
  BY <1>2, <1>3 DEF TInv, StoredOnce
<1>7. CASE c \in Functions
  <2>1. current' = event /\ status' = [status EXCEPT ![c] = "running"]
    BY <1>7 DEF HandleTimer, duk_timers_handle_event
  <2>2. c \in Callbacks /\ c # NULL
    BY <1>7
  <2>3. /\ status'[c] = "running"
        /\ \A d \in Callbacks : d # c => status'[d] = status[d]
    BY <2>1, <2>2 DEF TInv, TimersTypeOK
  <2>4. TimersTypeOK'
    BY <1>1, <1>2, <2>1 DEF TInv, TimersTypeOK, Status
  <2>5. OneShotsAreTimers' /\ ArmedOrHeld' /\ StoredIsLive' /\ StoredOnce'
    BY <1>1 DEF TInv, OneShotsAreTimers, ArmedOrHeld, StoredIsLive, StoredOnce
  <2>6. OneAtATime'
    BY <1>1, <1>2, <2>1 DEF OneAtATime
  <2>7. UnusedIsNotStored' /\ SetIsStored'
    BY <1>1, <2>3 DEF TInv, UnusedIsNotStored, SetIsStored
  <2>8. StoredStatus'
    <3> SUFFICES ASSUME NEW i \in Ids, NEW d \in Callbacks, timeoutCallbacks'[i] = d
                 PROVE  \/ status'[d] = "set" /\ Timer(i) \in armed' \cup {event'}
                        \/ status'[d] = "running" /\ Timer(i) = current'
                        \/ status'[d] = "ignored" /\ Timer(i) \notin armed' \cup {event', current'}
                        \/ status'[d] = "refused" /\ Kqueue /\ Timer(i) \notin armed' \cup held'
      BY DEF StoredStatus
    <3>1. CASE d = c
      BY <3>1, <1>1, <1>2, <1>6, <2>1, <2>2, <2>3
    <3>2. CASE d # c
      BY <3>2, <1>1, <1>2, <1>5, <2>1, <2>3, TimerIsEvent DEF TInv, StoredStatus
    <3> QED
      BY <3>1, <3>2
  <2>9. \A d \in Callbacks : status'[d] = "running" => status[d] \in {"set", "running"}
    BY <1>4, <2>2, <2>3
  <2> QED
    BY <2>4, <2>5, <2>6, <2>7, <2>8, <2>9 DEF TInv
<1>8. CASE c \notin Functions
  <2>1. /\ current' = NULL
        /\ status' = [d \in Callbacks |-> IF d = c THEN "ignored" ELSE status[d]]
    BY <1>1, <1>8 DEF HandleTimer, duk_timers_handle_event
  <2>2. \A d \in Callbacks : status'[d] = IF d = c THEN "ignored" ELSE status[d]
    BY <2>1
  <2>3. TimersTypeOK'
    BY <1>1, <2>1 DEF TInv, TimersTypeOK, Status
  <2>4. /\ OneShotsAreTimers' /\ ArmedOrHeld' /\ StoredIsLive' /\ StoredOnce'
        /\ OneAtATime'
    BY <1>1, <2>1 DEF TInv, OneShotsAreTimers, ArmedOrHeld, StoredIsLive, StoredOnce,
       OneAtATime
  <2>5. UnusedIsNotStored' /\ SetIsStored'
    BY <1>1, <2>2 DEF TInv, UnusedIsNotStored, SetIsStored
  <2>6. StoredStatus'
    <3> SUFFICES ASSUME NEW i \in Ids, NEW d \in Callbacks, timeoutCallbacks'[i] = d
                 PROVE  \/ status'[d] = "set" /\ Timer(i) \in armed' \cup {event'}
                        \/ status'[d] = "running" /\ Timer(i) = current'
                        \/ status'[d] = "ignored" /\ Timer(i) \notin armed' \cup {event', current'}
                        \/ status'[d] = "refused" /\ Kqueue /\ Timer(i) \notin armed' \cup held'
      BY DEF StoredStatus
    <3>1. CASE d = c
      BY <3>1, <1>1, <1>2, <1>6, <2>1, <2>2, TimerIsEvent
    <3>2. CASE d # c
      BY <3>2, <1>1, <1>2, <1>5, <2>1, <2>2, TimerIsEvent DEF TInv, StoredStatus
    <3> QED
      BY <3>1, <3>2
  <2>7. \A d \in Callbacks : status'[d] = "running" => status[d] \in {"set", "running"}
    BY <2>2
  <2> QED
    BY <2>3, <2>4, <2>5, <2>6, <2>7 DEF TInv
<1> QED
  BY <1>7, <1>8

(* What the host does with its streams, or its death.                      *)
LEMMA OtherStep ==
  ASSUME TInv, HandleOther \/ HostSubscribes \/ HostDies \/ CallbackThrows
  PROVE  TInv'
<1>1. ASSUME NEW e \in Event, ~OneShot(e), armed' = armed \ Slot(e), held' = held
      PROVE  /\ armed' \subseteq armed
             /\ \A id \in Ids : Timer(id) \in armed => Timer(id) \in armed'
  BY <1>1, SlotOfStream
<1>2. armed \subseteq Event /\ fatal \in Fatal
  BY DEF TInv, TimersTypeOK
<1>3. CASE HandleOther
  <2>1. /\ event # NULL /\ event.type # "timer" /\ event' = NULL /\ fatal' \in Fatal
        /\ UNCHANGED <<timeoutCallbacks, current, status>>
        /\ event \in Event /\ event \in held
    BY <1>3 DEF HandleOther, TInv, TimersTypeOK, OneAtATime
  <2>2. ~OneShot(event)
    BY <2>1 DEF TInv, OneShotsAreTimers, Timer
  <2>3. armed' \subseteq armed /\ held' = held
        /\ \A id \in Ids : Timer(id) \in armed => Timer(id) \in armed'
    BY <1>1, <1>3, <2>1, <2>2 DEF HandleOther, Unsubscribe, EndSubscription, serviceVars
  <2> QED
    BY <1>2, <2>1, <2>3, HostStep
<1>4. CASE HostSubscribes
  <2>1. PICK e \in Event : ~OneShot(e) /\ Subscribe(e)
    BY <1>4 DEF HostSubscribes
  <2>2. armed' = (armed \ Slot(e)) \cup {e} /\ held' = held
    BY <2>1 DEF Subscribe
  <2>3. \A id \in Ids : Timer(id) \in armed => Timer(id) \in armed'
    BY <2>1, <2>2, SlotOfStream
  <2> QED
    BY <1>2, <1>4, <2>1, <2>2, <2>3, HostStep DEF HostSubscribes, timersVars
<1>5. CASE HostDies \/ CallbackThrows
  BY <1>2, <1>5, HostStep DEF HostDies, CallbackThrows, serviceVars, Fatal
<1> QED
  BY <1>3, <1>4, <1>5

LEMMA NextTInv ==
  TInv /\ [TimersNext]_<<serviceVars, timersVars>> => TInv'
<1> SUFFICES ASSUME TInv, [TimersNext]_<<serviceVars, timersVars>>
             PROVE  TInv'
  OBVIOUS
<1>1. CASE UNCHANGED <<serviceVars, timersVars>>
  BY <1>1 DEF serviceVars, timersVars, TInv, TimersTypeOK, OneShotsAreTimers, ArmedOrHeld,
     OneAtATime, StoredIsLive, StoredOnce, UnusedIsNotStored, SetIsStored, StoredStatus
<1>2. CASE TimersNext
  BY <1>2, SetStep, ClearStep, WaitStep, HandleStep, ReturnStep, OtherStep DEF TimersNext
<1> QED
  BY <1>1, <1>2

-----------------------------------------------------------------------------
(* The types of the variables.                                             *)
THEOREM TimersTypes == TimersSpec => []TimersTypeOK
<1>1. TInv => TimersTypeOK
  BY DEF TInv
<1> QED
  BY <1>1, InitTInv, NextTInv, PTL DEF TimersSpec

(* No timer that is set gets lost.                                         *)
THEOREM NoTimerLost == TimersSpec => []SetIsArmed
<1>1. TInv => SetIsArmed
  <2> SUFFICES ASSUME TInv, NEW c \in Callbacks, status[c] = "set"
               PROVE  \E id \in Ids : /\ timeoutCallbacks[id] = c
                                     /\ Timer(id) \in armed \cup {event}
    BY DEF SetIsArmed
  <2> QED
    BY DEF TInv, SetIsStored, StoredStatus
<1> QED
  BY <1>1, InitTInv, NextTInv, PTL DEF TimersSpec

(* The delete after a callback can not hit a timer the callback has set.   *)
THEOREM CallbackOwnsItsEntry == TimersSpec => []RunningOwnsItsEntry
<1>1. TInv => RunningOwnsItsEntry
  <2> SUFFICES ASSUME TInv, current # NULL, timeoutCallbacks[current.id] # NULL
               PROVE  status[timeoutCallbacks[current.id]] = "running"
    BY DEF RunningOwnsItsEntry
  <2>1. /\ current.id \in Ids /\ current = Timer(current.id) /\ event = NULL
        /\ Timer(current.id) \in held
    BY DEF TInv, OneAtATime, OneShotsAreTimers, OneShot, OneShotTypes
  <2>2. Timer(current.id) \notin armed \cup {event}
    BY <2>1, TimersAssumption, TimerIsEvent DEF TInv, ArmedOrHeld, OneAtATime
  <2>3. timeoutCallbacks[current.id] \in Callbacks
    BY <2>1 DEF TInv, TimersTypeOK
  <2> QED
    BY <2>1, <2>2, <2>3 DEF TInv, StoredStatus
<1> QED
  BY <1>1, InitTInv, NextTInv, PTL DEF TimersSpec

(* A callback runs at most once, and never after it was cleared.           *)
THEOREM CallbackRunsOnce == TimersSpec => RunsOnceUnlessCleared
<1> DEFINE A == \A c \in Callbacks : status'[c] = "running" =>
                  status[c] \in {"set", "running"}
<1>1. ASSUME TInv, [TimersNext]_<<serviceVars, timersVars>>
      PROVE  A
  <2>1. status \in [Callbacks -> Status]
    BY <1>1 DEF TInv, TimersTypeOK
  <2>2. ASSUME NEW c \in Callbacks, duk_timers_set_timeout(c)
        PROVE  A
    BY <2>1, <2>2 DEF duk_timers_set_timeout
  <2>3. ASSUME NEW id \in AllIds, duk_timers_clear_timeout(id)
        PROVE  A
    BY <2>3 DEF duk_timers_clear_timeout
  <2>4. CASE HandleTimer
    BY <1>1, <2>4, HandleStep
  <2>5. CASE CallbackReturns
    BY <2>5 DEF CallbackReturns
  <2>6. CASE status' = status
    BY <2>6
  <2> QED
    BY <1>1, <2>2, <2>3, <2>4, <2>5, <2>6
       DEF TimersNext, Wait, CallbackThrows, HandleOther, HostDies, HostSubscribes,
           timersVars
<1>2. TInv /\ [TimersNext]_<<serviceVars, timersVars>> => [A]_<<serviceVars, timersVars>>
  BY <1>1
<1>3. TimersSpec => [][A]_<<serviceVars, timersVars>>
  BY <1>2, InitTInv, NextTInv, PTL DEF TimersSpec
<1> QED
  BY <1>3 DEF RunsOnceUnlessCleared
=============================================================================
