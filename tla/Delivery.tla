------------------------------ MODULE Delivery ------------------------------
(***************************************************************************)
(* What an outbox promises: an event is handed to the message broker only  *)
(* after the change it tells of has happened, and then at least once,      *)
(* unless handing it over failed Limit times.                              *)
(***************************************************************************)
EXTENDS Naturals

CONSTANTS Event, Limit

VARIABLES
    happened,   \* the events whose change is committed
    delivered,  \* the events the broker has
    refused     \* how often handing an event over failed

deliveryVars == <<happened, delivered, refused>>

DeliveryInit ==
    /\ happened = {}
    /\ delivered = {}
    /\ refused = [e \in Event |-> 0]

Happen(e) ==
    /\ e \notin happened
    /\ happened' = happened \cup {e}
    /\ UNCHANGED <<delivered, refused>>

\* The broker may get an event again; what it has it keeps.
Deliver(e) ==
    /\ e \in happened
    /\ delivered' = delivered \cup {e}
    /\ UNCHANGED <<happened, refused>>

\* Handing over failed; the broker may have the event all the same.
Refuse(e) ==
    /\ e \in happened
    /\ refused' = [refused EXCEPT ![e] = @ + 1]
    /\ delivered' \in {delivered, delivered \cup {e}}
    /\ UNCHANGED happened

DeliveryNext == \E e \in Event : Happen(e) \/ Deliver(e) \/ Refuse(e)

SafeDelivery == DeliveryInit /\ [][DeliveryNext]_deliveryVars

\* At least once, unless it failed too often.
InTheEnd == \A e \in Event : e \in happened ~> e \in delivered \/ refused[e] >= Limit

DeliverySpec == SafeDelivery /\ InTheEnd
=============================================================================
