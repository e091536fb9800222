------------------------------ MODULE Delivery ------------------------------
(***************************************************************************)
(* What the spark relay promises of each event, without passes, batches,   *)
(* back-offs or restarts: its subscribers come to accept it one after the  *)
(* other in the order of their registration, and it is delivered, for good *)
(* and to nobody any more, once all of them have.                          *)
(***************************************************************************)
EXTENDS Naturals

CONSTANTS Events, Subscribers

VARIABLES known,   \* events that were committed
          heard,   \* heard[e]: the subscribers that have accepted e
          settled  \* events that are delivered

deliveryVars == <<known, heard, settled>>

DeliveryInit ==
  /\ known = {} /\ settled = {}
  /\ heard = [e \in Events |-> {}]

Commit(e) ==
  /\ e \notin known
  /\ known' = known \cup {e}
  /\ UNCHANGED <<heard, settled>>

\* A subscriber may hear of an event again: nothing changes then.
Hear(e, s) ==
  /\ e \in known \ settled
  /\ \A t \in Subscribers : t < s => t \in heard[e]
  /\ heard' = [heard EXCEPT ![e] = heard[e] \cup {s}]
  /\ UNCHANGED <<known, settled>>

Settle(e) ==
  /\ e \in known \ settled /\ heard[e] = Subscribers
  /\ settled' = settled \cup {e}
  /\ UNCHANGED <<known, heard>>

DeliveryNext ==
  \E e \in Events :
    Commit(e) \/ Settle(e) \/ \E s \in Subscribers : Hear(e, s)

DeliverySpec == DeliveryInit /\ [][DeliveryNext]_deliveryVars
=============================================================================
