------------------------------- MODULE Delivery --------------------------------
(***************************************************************************)
(* What the outbox is for: an event that was saved reaches its satellite   *)
(* before it counts as delivered, and once it counts as delivered nothing  *)
(* takes that back and the satellite hears no more of it.                  *)
(***************************************************************************)
CONSTANT Events

VARIABLES
  url,         \* is there a satellite to deliver to
  saved,       \* events that were saved
  received,    \* events the satellite has
  delivered    \* events that count as delivered

Init ==
  /\ url \in BOOLEAN
  /\ saved = {} /\ received = {} /\ delivered = {}

Save(e) ==
  /\ saved' = saved \cup {e}
  /\ UNCHANGED <<url, received, delivered>>

\* The satellite may have it before it counts as delivered, and more than once.
Receive(e) ==
  /\ url /\ e \in saved \ delivered
  /\ received' = received \cup {e}
  /\ UNCHANGED <<url, saved, delivered>>

Deliver(e) ==
  /\ e \in saved \ delivered
  /\ url => e \in received
  /\ delivered' = delivered \cup {e}
  /\ UNCHANGED <<url, saved, received>>

Next == \E e \in Events : Save(e) \/ Receive(e) \/ Deliver(e)

Spec == Init /\ [][Next]_<<url, saved, received, delivered>>
================================================================================
