------------------------------ MODULE Shipments ------------------------------
(***************************************************************************)
(* The shipments of one order, ShipmentsService: an order is shipped in    *)
(* parcels, each moves through its statuses, and the fulfilment status of  *)
(* the order is rolled up from them.  create and updateStatus are          *)
(* transactions that take no lock before they read: what is checked, what  *)
(* is written and rolled up, and the commit are three steps.  Staff, the   *)
(* customer and the payment move the order itself meanwhile.               *)
(***************************************************************************)
EXTENDS Integers, FiniteSets

CONSTANTS Item,         \* the order items
          Ordered,      \* quantity minus cancelledQuantity of each
          Request,      \* concurrent requests
          MaxShipments  \* bound: shipments ever created

ASSUME ShipmentsAssumption ==
    /\ IsFiniteSet(Item) /\ Item # {}
    /\ Ordered \in [Item -> Nat \ {0}]
    /\ MaxShipments \in Nat

VARIABLES
    shipment,    \* Shipment.status and the quantities of its items
    order,       \* Order.status
    fulfillment, \* Order.fulfillmentStatus
    request,     \* what each request is doing, and what it has read
    stale        \* history: a request committed on what was no longer true

vars == <<shipment, order, fulfillment, request, stale>>

Shipment == 1 .. MaxShipments
ShipmentStatus == {"PENDING", "READY_FOR_PICKUP", "IN_TRANSIT", "OUT_FOR_DELIVERY",
                   "FAILED", "DELIVERED", "RETURNED", "CANCELLED"}
OrderStatus == {"PENDING_PAYMENT", "PAID", "PROCESSING", "FULFILLED", "COMPLETED",
                "CANCELLED", "EXPIRED", "REFUNDED"}
Portion ==
    {p \in [Item -> UNION {0 .. Ordered[i] : i \in Item}] : \A i \in Item : p[i] <= Ordered[i]}
Empty == [i \in Item |-> 0]
Absent == [status |-> "NONE", units |-> Empty]
Idle == [pc |-> "idle"]

\* Mutant: a shipment that came back can be sent again.
TransitionsReopening(st) ==
    CASE st = "PENDING"          -> {"READY_FOR_PICKUP", "IN_TRANSIT", "CANCELLED"}
      [] st = "READY_FOR_PICKUP" -> {"IN_TRANSIT", "DELIVERED", "CANCELLED"}
      [] st = "IN_TRANSIT"       -> {"OUT_FOR_DELIVERY", "DELIVERED", "FAILED", "RETURNED"}
      [] st = "OUT_FOR_DELIVERY" -> {"DELIVERED", "FAILED", "RETURNED"}
      [] st = "FAILED"           -> {"IN_TRANSIT", "OUT_FOR_DELIVERY", "RETURNED", "CANCELLED"}
      [] st = "RETURNED"         -> {"IN_TRANSIT"}
      [] OTHER                   -> {}

\* TRANSITIONS.
Transitions(st) ==
    CASE st = "PENDING"          -> {"READY_FOR_PICKUP", "IN_TRANSIT", "CANCELLED"}
      [] st = "READY_FOR_PICKUP" -> {"IN_TRANSIT", "DELIVERED", "CANCELLED"}
      [] st = "IN_TRANSIT"       -> {"OUT_FOR_DELIVERY", "DELIVERED", "FAILED", "RETURNED"}
      [] st = "OUT_FOR_DELIVERY" -> {"DELIVERED", "FAILED", "RETURNED"}
      [] st = "FAILED"           -> {"IN_TRANSIT", "OUT_FOR_DELIVERY", "RETURNED", "CANCELLED"}
      [] OTHER                   -> {}

\* isShipmentStatusTransitionAllowed.
MayMove(from, to) == from = to \/ to \in Transitions(from)

Live(parcels) == {k \in Shipment : parcels[k].status \notin {"NONE", "CANCELLED"}}
SumOf(f, S) == Cardinality(UNION {{x} \X (1 .. f[x]) : x \in S})
UnitsOf(parcels, ks, i) == SumOf([k \in ks |-> parcels[k].units[i]], ks)
AllUnits(parcels, ks) == SumOf([i \in Item |-> UnitsOf(parcels, ks, i)], Item)

\* Mutant: a parcel that came back or failed counts as not shipped.
RemainingOfSuccessful(i) ==
    Ordered[i] - UnitsOf(shipment, {k \in Live(shipment) :
                            shipment[k].status \notin {"FAILED", "RETURNED"}}, i)

\* remainingByOrderItem.
Remaining(i) ==
    LET left == Ordered[i] - UnitsOf(shipment, Live(shipment), i)
    IN  IF left < 0 THEN 0 ELSE left

\* Mutant: the units of every parcel on its way count.
RollupOfShipped(parcels) ==
    LET live == Live(parcels)
        shipped == {k \in live : parcels[k].status \in {"OUT_FOR_DELIVERY", "DELIVERED"}}
    IN  IF live = {} THEN "UNFULFILLED"
        ELSE IF AllUnits(parcels, shipped) >= SumOf(Ordered, Item) THEN "FULFILLED"
         ELSE "PROCESSING"

\* syncOrderFulfillment: the status the order gets for these parcels.
Rollup(parcels) ==
    LET live == Live(parcels)
        delivered == {k \in live : parcels[k].status = "DELIVERED"}
    IN  IF live = {} THEN "UNFULFILLED"
        ELSE IF AllUnits(parcels, delivered) >= SumOf(Ordered, Item) THEN "FULFILLED"
         ELSE "PROCESSING"

ShipmentsTypeOK ==
    /\ shipment \in [Shipment -> [status: ShipmentStatus \cup {"NONE"}, units: Portion]]
    /\ \A k \in Shipment : (shipment[k].status = "NONE") <=> (shipment[k].units = Empty)
    /\ order \in OrderStatus
    /\ fulfillment \in {"UNFULFILLED", "PROCESSING", "FULFILLED", "CANCELLED"}
    /\ \A q \in Request : request[q].pc \in {"idle", "creating", "moving", "rolling"}
    /\ stale \in BOOLEAN

Init ==
    /\ shipment = [k \in Shipment |-> Absent]
    /\ order = "PENDING_PAYMENT"
    /\ fulfillment = "UNFULFILLED"
    /\ request = [q \in Request |-> Idle]
    /\ stale = FALSE

Goto(q, next) == request' = [request EXCEPT ![q] = next]
Rolling == {q \in Request : request[q].pc = "rolling"}
InWriting == {request[q].parcel : q \in Rolling}

-----------------------------------------------------------------------------
\* Mutant: a shipment of nothing is accepted.
BeginCreateEmpty(q) ==
    /\ request[q] = Idle
    /\ order \notin {"CANCELLED", "EXPIRED"}
    /\ \E p \in Portion :
          /\ \A i \in Item : p[i] <= Remaining(i)
          /\ Goto(q, [pc |-> "creating", units |-> p])
    /\ UNCHANGED <<shipment, order, fulfillment, stale>>

\* create: the order may be shipped, and the units asked for remain; a request
\* without items asks for all that remain.
BeginCreate(q) ==
    /\ request[q] = Idle
    /\ order \notin {"CANCELLED", "EXPIRED"}
    /\ \E p \in Portion \ {Empty} :
          /\ \A i \in Item : p[i] <= Remaining(i)
          /\ Goto(q, [pc |-> "creating", units |-> p])
    /\ UNCHANGED <<shipment, order, fulfillment, stale>>

\* The shipment is inserted, which the others do not see yet; the parcels the
\* order has are read.
Insert(q) ==
    LET row == [status |-> "PENDING", units |-> request[q].units]
    IN  /\ request[q].pc = "creating"
        /\ \E k \in Shipment :
              /\ shipment[k] = Absent /\ k \notin InWriting
              /\ \A x \in 1 .. (k - 1) : shipment[x] # Absent \/ x \in InWriting
              /\ Goto(q, [pc |-> "rolling", parcel |-> k, from |-> "NONE", row |-> row,
                          rollup |-> Rollup([shipment EXCEPT ![k] = row])])
        /\ UNCHANGED <<shipment, order, fulfillment, stale>>

\* updateStatus: the move is allowed; moving to the same status is.
BeginMove(q, k, st) ==
    /\ request[q] = Idle
    /\ shipment[k].status # "NONE"
    /\ MayMove(shipment[k].status, st)
    /\ Goto(q, [pc |-> "moving", parcel |-> k, from |-> shipment[k].status, to |-> st])
    /\ UNCHANGED <<shipment, order, fulfillment, stale>>

\* The status is written, whatever it has become; the row stays locked.
Write(q) ==
    LET k == request[q].parcel
        row == [shipment[k] EXCEPT !.status = request[q].to]
    IN  /\ request[q].pc = "moving"
        /\ k \notin InWriting
        /\ Goto(q, [pc |-> "rolling", parcel |-> k, from |-> request[q].from, row |-> row,
                    rollup |-> Rollup([shipment EXCEPT ![k] = row])])
        /\ UNCHANGED <<shipment, order, fulfillment, stale>>

\* What q read still holds when it commits.
Fresh(q) ==
    LET asked == request[q]
    IN  /\ shipment[asked.parcel].status = asked.from
        /\ asked.from = "NONE" => \A i \in Item : asked.row.units[i] <= Remaining(i)
        /\ asked.rollup = Rollup([shipment EXCEPT ![asked.parcel] = asked.row])

\* The order is updated and everything committed.
Commit(q) ==
    LET asked == request[q]
    IN  /\ asked.pc = "rolling"
        /\ shipment' = [shipment EXCEPT ![asked.parcel] = asked.row]
        /\ fulfillment' = asked.rollup
        /\ stale' = (stale \/ ~Fresh(q))
        /\ Goto(q, Idle)
        /\ UNCHANGED order

\* The process dies, or PostgreSQL aborts the transaction.
Abort(q) ==
    /\ request[q] # Idle
    /\ Goto(q, Idle)
    /\ UNCHANGED <<shipment, order, fulfillment, stale>>

-----------------------------------------------------------------------------
\* lockOrder waits for an insert that refers to the order.
Lockable == \A q \in Rolling : request[q].from # "NONE"

\* updateStatus of OrderService.
Advance ==
    /\ Lockable
    /\ \/ order = "PAID" /\ order' = "PROCESSING" /\ fulfillment' = "PROCESSING"
       \/ order = "PROCESSING" /\ order' = "FULFILLED" /\ fulfillment' = "FULFILLED"
       \/ order = "FULFILLED" /\ order' = "COMPLETED" /\ fulfillment' = "FULFILLED"
    /\ UNCHANGED <<shipment, request, stale>>

\* cancel.
Cancel ==
    /\ Lockable
    /\ order \in {"PENDING_PAYMENT", "EXPIRED"}
    /\ order' = "CANCELLED" /\ fulfillment' = "CANCELLED"
    /\ UNCHANGED <<shipment, request, stale>>

\* refund, the payment and the expiry leave the fulfilment alone.
Settle ==
    /\ \/ Lockable /\ order = "PENDING_PAYMENT" /\ order' = "PAID"
       \/ Lockable /\ order \in {"PAID", "PROCESSING", "FULFILLED", "COMPLETED"}
          /\ order' = "REFUNDED"
       \/ order = "PENDING_PAYMENT" /\ order' = "EXPIRED"
    /\ UNCHANGED <<shipment, fulfillment, request, stale>>

Next ==
    \/ \E q \in Request : BeginCreate(q) \/ Insert(q) \/ Write(q) \/ Commit(q) \/ Abort(q)
    \/ \E q \in Request, k \in Shipment, st \in ShipmentStatus : BeginMove(q, k, st)
    \/ Advance \/ Cancel \/ Settle

Spec == Init /\ [][Next]_vars

-----------------------------------------------------------------------------
\* However an order is split, cancelled and shipped again, its parcels never hold
\* more of an item than was ordered, unless a request committed on a stale read.
NeverOvershipped ==
    ~stale => \A i \in Item : UnitsOf(shipment, Live(shipment), i) <= Ordered[i]

Delivered(i) ==
    UnitsOf(shipment, {k \in Shipment : shipment[k].status = "DELIVERED"}, i) = Ordered[i]

\* An order staff have not moved themselves says FULFILLED when every unit of
\* every item was delivered, and only then, although just the totals over all
\* items are compared, parcels are replaced and the order is cancelled or expires.
FulfilledMeansDelivered ==
    LET done == \A i \in Item : Delivered(i)
    IN  ~stale =>
          /\ fulfillment = "FULFILLED" /\ order \notin {"FULFILLED", "COMPLETED", "REFUNDED"}
                => done
          /\ done /\ order \in {"PENDING_PAYMENT", "PAID", "EXPIRED"}
                => fulfillment = "FULFILLED"

\* A parcel that was delivered, returned or cancelled never moves again, unless a
\* request committed on a stale read.
TerminalIsFinal ==
    [][\A k \in Shipment :
           shipment[k].status \in {"DELIVERED", "RETURNED", "CANCELLED"} /\ ~stale'
           => shipment'[k] = shipment[k]]_vars
==============================================================================
