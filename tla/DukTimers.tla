------------------------------ MODULE DukTimers ------------------------------
(***************************************************************************)
(* setTimeout and clearTimeout for the JavaScript program                  *)
(* (src/src/duk_timers.c), on top of the events manager.                   *)
(*                                                                         *)
(* A timer id is the id of its timeout event.  The heap stash keeps the    *)
(* callback of each id in the object timeoutCallbacks.  JavaScript code    *)
(* runs inside a callback (current # NULL) or is run by the embedding      *)
(* program between two events; either may set and clear timers.            *)
(***************************************************************************)
EXTENDS EventService

CONSTANTS
  Callbacks, \* the first arguments of setTimeout, a value for each call
  Functions, \* those that are functions
  NULL       \* no data, no callback, no event

ASSUME TimersAssumption ==
  /\ Functions \subseteq Callbacks
  /\ NULL \in Data
  /\ NULL \notin Callbacks /\ NULL \notin Event
  /\ -1 \notin Ids

VARIABLES
  timeoutCallbacks, \* stash.timeoutCallbacks
  event,            \* the event events_wait gave to the loop, not yet handled
  current,          \* the timer event whose callback is running, or NULL
  status,           \* history: what became of each call of setTimeout
  fatal             \* what has killed the process, or "none"

timersVars == <<timeoutCallbacks, event, current, status, fatal>>

Status == {"unused", "set", "refused", "cleared", "running", "ignored", "done"}

(* An exception in a callback kills the process; the host has other ways   *)
(* to die.                                                                 *)
Fatal == {"none", "exception", "lookup", "unsupported", "reserve", "decode",
          "sigpipe"}

Timer(id) == [type |-> "timer", id |-> id, data |-> NULL]

duk_timers_register ==
  /\ timeoutCallbacks = [id \in Ids \cup {-1} |-> NULL]
  /\ event = NULL /\ current = NULL
  /\ status = [c \in Callbacks |-> "unused"]
  /\ fatal = "none"

(* Mutant: the callback is stored before the timeout has its id.           *)
StoreBeforeSend(c) ==
  /\ status[c] = "unused"
  /\ \E id \in Ids : Post(Timer(id))
  /\ timeoutCallbacks' = [timeoutCallbacks EXCEPT ![-1] = c]
  /\ status' = [status EXCEPT ![c] = "set"]
  /\ UNCHANGED <<event, current, fatal>>

(* The count of kqueue gives no id twice; here an id is only kept from a   *)
(* second use while its entry is there.                                    *)
Counted(id) == Kqueue => timeoutCallbacks[id] = NULL

(* With epoll a refused timeout has the id -1, which is used like any      *)
(* other.  The kqueue backend does not notice: it gives the next id of its *)
(* count, for a timeout that will never come.                              *)
RefusedIds == IF Kqueue THEN {id \in FreshIds : Counted(id)} ELSE {-1}

(* setTimeout(c, timeout).                                                 *)
duk_timers_set_timeout(c) ==
  /\ status[c] = "unused"
  /\ \/ \E id \in Ids :
          /\ Post(Timer(id))
          /\ Counted(id)
          /\ timeoutCallbacks' = [timeoutCallbacks EXCEPT ![id] = c]
          /\ status' = [status EXCEPT ![c] = "set"]
     \/ \E id \in RefusedIds :
          /\ Refuse
          /\ timeoutCallbacks' = [timeoutCallbacks EXCEPT ![id] = c]
          /\ status' = [status EXCEPT ![c] = "refused"]
  /\ UNCHANGED <<event, current, fatal>>

(* Mutant: clearTimeout does not delete the callback.                      *)
ClearNothing(id) ==
  /\ status' = [c \in Callbacks |->
                  IF timeoutCallbacks[id] = c /\ status[c] = "set"
                  THEN "cleared" ELSE status[c]]
  /\ UNCHANGED <<timeoutCallbacks, event, current, fatal, serviceVars>>

(* clearTimeout(id) forgets the callback; the timeout event stays armed.   *)
duk_timers_clear_timeout(id) ==
  /\ timeoutCallbacks' = [timeoutCallbacks EXCEPT ![id] = NULL]
  /\ status' = [c \in Callbacks |->
                  IF timeoutCallbacks[id] = c /\ status[c] = "set"
                  THEN "cleared" ELSE status[c]]
  /\ UNCHANGED <<event, current, fatal, serviceVars>>

(* Mutant: the event is freed before the callback is called.               *)
FreeBeforeCall(e) ==
  LET c == timeoutCallbacks[e.id]
  IN /\ e.type = "timer"
     /\ IF c \in Functions
        THEN /\ current' = e
             /\ status' = [status EXCEPT ![c] = "running"]
        ELSE /\ status' = [d \in Callbacks |-> IF d = c THEN "ignored" ELSE status[d]]
             /\ UNCHANGED current
     /\ Release(e)
     /\ UNCHANGED <<timeoutCallbacks, fatal>>

(* duk_timers_handle_event up to the call of the callback; without a       *)
(* function under the id it is over at once.                               *)
duk_timers_handle_event(e) ==
  LET c == timeoutCallbacks[e.id]
  IN /\ e.type = "timer"
     /\ IF c \in Functions
        THEN /\ current' = e
             /\ status' = [status EXCEPT ![c] = "running"]
        ELSE /\ status' = [d \in Callbacks |-> IF d = c THEN "ignored" ELSE status[d]]
             /\ UNCHANGED current
     /\ UNCHANGED <<timeoutCallbacks, fatal, serviceVars>>

(* Mutant: the entry is set to undefined.                                  *)
SetToUndefined ==
  /\ current # NULL
  /\ timeoutCallbacks' = [timeoutCallbacks EXCEPT ![current.id] = "undefined"]
  /\ status' = [c \in Callbacks |->
                  IF status[c] = "running" THEN "done" ELSE status[c]]
  /\ current' = NULL
  /\ UNCHANGED <<event, fatal, serviceVars>>

(* The rest of duk_timers_handle_event: the entry of the event's id goes.  *)
CallbackReturns ==
  /\ current # NULL
  /\ timeoutCallbacks' = [timeoutCallbacks EXCEPT ![current.id] = NULL]
  /\ status' = [c \in Callbacks |->
                  IF status[c] = "running" THEN "done" ELSE status[c]]
  /\ current' = NULL
  /\ UNCHANGED <<event, fatal, serviceVars>>

(* duk_call is not protected: an exception of the callback is fatal.       *)
CallbackThrows ==
  /\ current # NULL
  /\ fatal' = "exception"
  /\ UNCHANGED <<timeoutCallbacks, event, current, status, serviceVars>>

-----------------------------------------------------------------------------
(* The host: a loop of events_wait(manager, &event, 1) and the handlers of *)
(* the event.  It never gives an event to events_free.                     *)
Wait(e) ==
  /\ event = NULL /\ current = NULL
  /\ Deliver({e})
  /\ event' = e
  /\ UNCHANGED <<timeoutCallbacks, current, status, fatal>>

HandleTimer ==
  /\ event # NULL
  /\ duk_timers_handle_event(event)
  /\ event' = NULL

(* Another handler of the host takes the event, may end the subscription   *)
(* it comes from, and may die.                                             *)
HandleOther ==
  /\ event # NULL /\ event.type # "timer"
  /\ event' = NULL
  /\ Unsubscribe(event) \/ UNCHANGED serviceVars
  /\ fatal' \in Fatal
  /\ UNCHANGED <<timeoutCallbacks, current, status>>

HostDies ==
  /\ fatal' \in Fatal \ {"none"}
  /\ UNCHANGED <<timeoutCallbacks, event, current, status, serviceVars>>

HostSubscribes ==
  /\ \E e \in Event : ~OneShot(e) /\ Subscribe(e)
  /\ UNCHANGED timersVars

-----------------------------------------------------------------------------
TimersInit == ServiceInit /\ duk_timers_register

TimersNext ==
  /\ fatal = "none"
  /\ \/ \E c \in Callbacks : duk_timers_set_timeout(c)
     \/ \E id \in Ids \cup {-1} : duk_timers_clear_timeout(id)
     \/ \E e \in armed : Wait(e)
     \/ HandleTimer
     \/ CallbackReturns
     \/ CallbackThrows
     \/ HandleOther
     \/ HostSubscribes
     \/ HostDies

TimersSpec == TimersInit /\ [][TimersNext]_<<serviceVars, timersVars>>

(* The loop keeps taking turns, every callback returns or throws, and no   *)
(* armed timer is passed over forever.                                     *)
TimersFairSpec ==
  /\ TimersSpec
  /\ WF_<<serviceVars, timersVars>>(fatal = "none" /\ CallbackReturns)
  /\ WF_<<serviceVars, timersVars>>(fatal = "none" /\ (HandleTimer \/ HandleOther))
  /\ \A id \in Ids :
       SF_<<serviceVars, timersVars>>(/\ fatal = "none"
                                      /\ Timer(id) \in armed
                                      /\ Wait(Timer(id)))

-----------------------------------------------------------------------------
(* The type invariant of the variables above.                              *)
TimersTypeOK ==
  /\ armed \subseteq Event /\ held \subseteq Event
  /\ timeoutCallbacks \in [Ids \cup {-1} -> Callbacks \cup {NULL}]
  /\ event \in Event \cup {NULL}
  /\ current \in Event \cup {NULL}
  /\ status \in [Callbacks -> Status]
  /\ fatal \in Fatal

(* A timer that was accepted and neither cleared nor fired is not lost:    *)
(* its callback is stored under an id whose timeout event is still armed,  *)
(* or is the event the loop is about to handle.                            *)
SetIsArmed ==
  \A c \in Callbacks : status[c] = "set" =>
    \E id \in Ids : timeoutCallbacks[id] = c /\ Timer(id) \in armed \cup {event}

(* While a callback runs, the entry of its id is its own, or was cleared   *)
(* by it: the delete after the call can not take away a timer the callback *)
(* has set, because no such timer gets the same id.                        *)
RunningOwnsItsEntry ==
  current # NULL =>
    LET c == timeoutCallbacks[current.id]
    IN c # NULL => status[c] = "running"

(* A callback runs at most once, and not after clearTimeout returned, even *)
(* when its timeout had expired before; nor does one whose timeout was     *)
(* refused.                                                                *)
RunsOnceUnlessCleared ==
  [][\A c \in Callbacks : status'[c] = "running" =>
       status[c] \in {"set", "running"}]_<<serviceVars, timersVars>>

(* Every accepted function is called, unless it is cleared before or the   *)
(* process dies.                                                           *)
SetFires ==
  \A c \in Functions : status[c] = "set" ~> (status[c] # "set" \/ fatal # "none")
=============================================================================
