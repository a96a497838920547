-------------------------------- MODULE Delivery --------------------------------
(***************************************************************************)
(* What the transactional outbox promises its producers: an event that was *)
(* accepted with its business change is delivered at least once.  Nothing  *)
(* is delivered that was not accepted, and nothing accepted is forgotten.  *)
(***************************************************************************)
CONSTANT Events

VARIABLES
  accepted,    \* events whose business change has committed
  delivered    \* events that have reached the queue

vars == <<accepted, delivered>>

Init == accepted = {} /\ delivered = {}

Accept(e) ==
  /\ accepted' = accepted \cup {e}
  /\ UNCHANGED delivered

Deliver(e) ==
  /\ e \in accepted
  /\ delivered' = delivered \cup {e}
  /\ UNCHANGED accepted

Next == \E e \in Events : Accept(e) \/ Deliver(e)

Spec == Init /\ [][Next]_vars /\ \A e \in Events : WF_vars(Deliver(e))
=============================================================================
