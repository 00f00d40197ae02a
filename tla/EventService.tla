---------------------------- MODULE EventService ----------------------------
(***************************************************************************)
(* What the events manager of src/src/events.h promises its callers,       *)
(* whichever kernel queue implements it (epoll or kqueue, events.c).       *)
(*                                                                         *)
(* A caller posts one-shot events (custom events, timeouts), subscribes to *)
(* streams, and receives events from events_wait.  An event the caller has *)
(* received stays in its hands until it releases it with events_free.      *)
(***************************************************************************)
EXTENDS Integers

CONSTANTS
  Ids,     \* the ids the manager gives to one-shot events
  Streams, \* the descriptors a caller subscribes
  Data,    \* the payloads (void *data)
  Kqueue   \* TRUE for the kqueue backend, FALSE for the epoll backend

(* The ids of epoll are descriptors of their own, those of kqueue a count. *)
ASSUME ServiceAssumption ==
  /\ Kqueue \in BOOLEAN
  /\ Kqueue \/ Ids \cap Streams = {}

VARIABLES
  armed,   \* the events the manager may still deliver
  held     \* the events delivered and not yet released

serviceVars == <<armed, held>>

OneShotTypes == {"custom", "timer"}
StreamTypes  == {"read", "write"}

Event == [type : OneShotTypes, id : Ids, data : Data]
           \cup [type : StreamTypes, id : Streams, data : Data]

OneShot(e) == e.type \in OneShotTypes

(* A fresh id belongs to no one-shot event that is pending or held.        *)
FreshIds == {i \in Ids : \A e \in armed \cup held : OneShot(e) => e.id # i}

(* epoll keeps one registration per descriptor, kqueue one per descriptor  *)
(* and filter.                                                             *)
SameSlot(x, e) == x.id = e.id /\ (Kqueue => x.type = e.type)
Slot(e) == {x \in armed : SameSlot(x, e)}

(* A second subscription of a slot is refused by epoll (EEXIST) and takes  *)
(* the place of the first in kqueue.                                       *)
Accepts(e) == Slot(e) = {} \/ Kqueue

ServiceInit == armed = {} /\ held = {}

(* events_send_custom, events_send_timeout: accepted under a fresh id, or  *)
(* refused without a trace.                                                *)
Post(e) ==
  /\ e.id \in FreshIds
  /\ armed' = armed \cup {e}
  /\ UNCHANGED held

(* events_subscribe_read, events_subscribe_write.                          *)
Subscribe(e) ==
  /\ Accepts(e)
  /\ armed' = (armed \ Slot(e)) \cup {e}
  /\ UNCHANGED held

Refuse == UNCHANGED serviceVars

(* events_unsubscribe ends whatever subscription is in the event's slot:   *)
(* the caller must not use it on an event whose subscription is over.      *)
EndSubscription(e) ==
  /\ armed' = armed \ Slot(e)
  /\ UNCHANGED held

Unsubscribe(e) == e \in held \cap armed /\ EndSubscription(e)

(* events_wait: every event of the batch passes to the caller; one-shot    *)
(* events can not be delivered again.                                      *)
Deliver(batch) ==
  /\ batch # {} /\ batch \subseteq armed
  /\ held' = held \cup batch
  /\ armed' = armed \ {e \in batch : OneShot(e)}

(* Closing a descriptor ends its subscriptions.                            *)
OnStream(fd) == {x \in armed : ~OneShot(x) /\ x.id = fd}

CloseStream(fd) ==
  /\ armed' = armed \ OnStream(fd)
  /\ UNCHANGED held

(* events_free: with kqueue it closes the descriptor of a read event.      *)
Release(e) ==
  /\ e \in held
  /\ held' = held \ {e}
  /\ armed' = IF Kqueue /\ e.type = "read" THEN armed \ OnStream(e.id) ELSE armed

ServiceNext ==
  \/ \E e \in Event :
       \/ OneShot(e) /\ Post(e)
       \/ ~OneShot(e) /\ Subscribe(e)
       \/ Unsubscribe(e)
       \/ Release(e)
  \/ \E batch \in SUBSET armed : Deliver(batch)
  \/ \E fd \in Streams : CloseStream(fd)
  \/ Refuse

ServiceSpec == ServiceInit /\ [][ServiceNext]_serviceVars
=============================================================================
