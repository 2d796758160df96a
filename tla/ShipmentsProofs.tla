--------------------------- MODULE ShipmentsProofs ---------------------------
(***************************************************************************)
(* Shipments, proved for any items, quantities, parcels and requests.      *)
(*                                                                         *)
(* ShipInv says what a request may rely on when it commits, whatever others *)
(* did meanwhile: the parcel it inserts is nobody else's, the parcel it    *)
(* moves is there and holds the units it held.  FreshInv says what holds   *)
(* as long as no request committed on a stale read.                        *)
(***************************************************************************)
EXTENDS Shipments, FiniteSetTheorems, TLAPS

OneWriter ==
    \A q, x \in Request : /\ request[q].pc = "rolling" /\ request[x].pc = "rolling"
                          /\ request[q].parcel = request[x].parcel
                          => q = x

\* What q is about to commit: a parcel nobody has seen, or another status of
\* one that is there, with the units it has.
RowOK(q) ==
    LET asked == request[q]
    IN  /\ asked.parcel \in Shipment
        /\ asked.row \in [status : ShipmentStatus, units : Portion \ {Empty}]
        /\ asked.rollup \in {"UNFULFILLED", "PROCESSING", "FULFILLED"}
        /\ \/ /\ asked.from = "NONE"
              /\ shipment[asked.parcel] = Absent
           \/ /\ asked.from \in ShipmentStatus
              /\ MayMove(asked.from, asked.row.status)
              /\ shipment[asked.parcel].status # "NONE"
              /\ asked.row.units = shipment[asked.parcel].units

RequestOK(q) ==
    \/ request[q] = Idle
    \/ request[q].pc = "creating" /\ request[q].units \in Portion \ {Empty}
    \/ /\ request[q].pc = "moving"
       /\ request[q].parcel \in Shipment
       /\ shipment[request[q].parcel].status # "NONE"
       /\ request[q].from \in ShipmentStatus
       /\ MayMove(request[q].from, request[q].to)
    \/ request[q].pc = "rolling" /\ RowOK(q)

Parcels == [Shipment -> [status : ShipmentStatus \cup {"NONE"}, units : Portion]]

ParcelsOK ==
    /\ shipment \in Parcels
    /\ \A k \in Shipment : (shipment[k].status = "NONE") <=> (shipment[k].units = Empty)

OrderOK ==
    /\ order \in OrderStatus
    /\ fulfillment \in {"UNFULFILLED", "PROCESSING", "FULFILLED", "CANCELLED"}
    /\ stale \in BOOLEAN

ShipInv ==
    /\ ParcelsOK
    /\ OrderOK
    /\ DOMAIN request = Request
    /\ \A q \in Request : RequestOK(q)
    /\ OneWriter

\* The fulfilment is the last roll-up, until staff or a cancellation change it.
RollupOK ==
    ~stale =>
       /\ order \notin {"FULFILLED", "COMPLETED", "REFUNDED"} /\ fulfillment = "FULFILLED"
             => Rollup(shipment) = "FULFILLED"
       /\ order \in {"PENDING_PAYMENT", "PAID", "EXPIRED"} => fulfillment = Rollup(shipment)

FreshInv == NeverOvershipped /\ RollupOK

-----------------------------------------------------------------------------
\* The table of transitions stays within the statuses, and leads nowhere from
\* a terminal one.
LEMMA MovesTo ==
    ASSUME NEW from \in ShipmentStatus, NEW to, MayMove(from, to)
    PROVE  /\ to \in ShipmentStatus
           /\ from \in {"DELIVERED", "RETURNED", "CANCELLED"} => to = from
BY DEF MayMove, Transitions, ShipmentStatus

LEMMA RollupType == \A parcels : Rollup(parcels) \in {"UNFULFILLED", "PROCESSING", "FULFILLED"}
BY DEF Rollup

LEMMA PortionType ==
    /\ Empty \in Portion
    /\ \A p \in Portion, i \in Item : p[i] \in Nat /\ p[i] <= Ordered[i]
    /\ \A i \in Item : Ordered[i] \in Nat \ {0}
<1>1. \A i \in Item : Ordered[i] \in Nat \ {0}
  BY ShipmentsAssumption
<1>2. \A i \in Item : 0 \in 0 .. Ordered[i]
  BY <1>1
<1>3. Empty \in Portion
  <2>1. \A i \in Item : 0 \in UNION {0 .. Ordered[j] : j \in Item} /\ 0 <= Ordered[i]
    BY <1>1, <1>2
  <2> QED
    BY <2>1 DEF Empty, Portion
<1>4. ASSUME NEW p \in Portion, NEW i \in Item PROVE p[i] \in Nat /\ p[i] <= Ordered[i]
  <2>1. p[i] \in UNION {0 .. Ordered[j] : j \in Item} /\ p[i] <= Ordered[i]
    BY DEF Portion
  <2>2. PICK j \in Item : p[i] \in 0 .. Ordered[j]
    BY <2>1
  <2> QED
    BY <1>1, <2>1, <2>2
<1> QED
  BY <1>1, <1>3, <1>4

-----------------------------------------------------------------------------
\* The first invariant.
LEMMA ShipInitInv == Init => ShipInv
<1> SUFFICES ASSUME Init PROVE ShipInv
  OBVIOUS
<1>1. ParcelsOK
  BY PortionType DEF Init, Absent, ParcelsOK, Parcels
<1>2. OrderOK
  BY DEF Init, OrderOK, OrderStatus
<1>3. OneWriter /\ \A q \in Request : RequestOK(q)
  BY DEF Init, OneWriter, RequestOK, Idle
<1> QED
  BY <1>1, <1>2, <1>3 DEF ShipInv, Init

\* A request goes on to something else; the parcels stay as they are.
LEMMA PlanKept ==
    ASSUME ShipInv, NEW q \in Request, NEW next, Goto(q, next),
           UNCHANGED <<shipment, order, fulfillment, stale>>,
           request'[q] = next => RequestOK(q)',
           next.pc = "rolling" => next.parcel \notin InWriting
    PROVE  ShipInv'
<1>1. /\ DOMAIN request = Request
      /\ request' = [request EXCEPT ![q] = next]
  BY DEF ShipInv, Goto
<1>2. /\ DOMAIN request' = Request /\ request'[q] = next
      /\ \A x \in Request \ {q} : request'[x] = request[x]
  BY <1>1
<1>3. ParcelsOK' /\ OrderOK'
  BY DEF ShipInv, ParcelsOK, OrderOK
<1>4. ASSUME NEW x \in Request PROVE RequestOK(x)'
  <2>1. CASE x = q
    BY <1>2, <2>1
  <2>2. CASE x # q
    BY <1>2, <2>2 DEF ShipInv, RequestOK, RowOK
  <2> QED
    BY <2>1, <2>2
<1>5. OneWriter'
  <2>1. \A x \in Request \ {q} : request[x].pc = "rolling" => request[x].parcel \in InWriting
    BY DEF InWriting, Rolling
  <2> QED
    BY <1>2, <2>1 DEF ShipInv, OneWriter
<1> QED
  BY <1>2, <1>3, <1>4, <1>5 DEF ShipInv

LEMMA BeginCreateInv == ASSUME ShipInv, NEW q \in Request, BeginCreate(q) PROVE ShipInv'
<1>1. PICK p \in Portion \ {Empty} : Goto(q, [pc |-> "creating", units |-> p])
  BY DEF BeginCreate
<1> DEFINE next == [pc |-> "creating", units |-> p]
<1>2. next.pc = "creating" /\ next.units = p
  OBVIOUS
<1>3. Goto(q, next)
  BY <1>1
<1> HIDE DEF next
<1>4. request'[q] = next => RequestOK(q)'
  BY <1>2 DEF RequestOK, Empty
<1> QED
  BY <1>2, <1>3, <1>4, PlanKept DEF BeginCreate

LEMMA InsertInv == ASSUME ShipInv, NEW q \in Request, Insert(q) PROVE ShipInv'
<1> DEFINE row == [status |-> "PENDING", units |-> request[q].units]
<1>1. PICK k \in Shipment :
        /\ shipment[k] = Absent /\ k \notin InWriting
        /\ Goto(q, [pc |-> "rolling", parcel |-> k, from |-> "NONE", row |-> row,
                    rollup |-> Rollup([shipment EXCEPT ![k] = row])])
  BY DEF Insert
<1>2. request[q].units \in Portion \ {Empty}
  BY DEF Insert, ShipInv, RequestOK, Idle
<1>3. row \in [status : ShipmentStatus, units : Portion \ {Empty}]
  BY <1>2 DEF ShipmentStatus
<1> DEFINE rollup == Rollup([shipment EXCEPT ![k] = row])
           next == [pc |-> "rolling", parcel |-> k, from |-> "NONE", row |-> row,
                    rollup |-> rollup]
<1> HIDE DEF row, rollup
<1>4. /\ next.pc = "rolling" /\ next.parcel = k /\ next.from = "NONE"
      /\ next.row = row /\ next.rollup = rollup
  OBVIOUS
<1>5. rollup \in {"UNFULFILLED", "PROCESSING", "FULFILLED"}
  BY RollupType DEF rollup
<1>6. Goto(q, next) /\ UNCHANGED <<shipment, order, fulfillment, stale>>
  BY <1>1 DEF Insert, rollup
<1> HIDE DEF next
<1>7. request'[q] = next => RequestOK(q)'
  BY <1>1, <1>3, <1>4, <1>5, <1>6 DEF RequestOK, RowOK
<1> QED
  BY <1>1, <1>4, <1>6, <1>7, PlanKept

LEMMA BeginMoveInv ==
    ASSUME ShipInv, NEW q \in Request, NEW k \in Shipment, NEW st \in ShipmentStatus,
           BeginMove(q, k, st)
    PROVE  ShipInv'
<1> DEFINE next == [pc |-> "moving", parcel |-> k, from |-> shipment[k].status, to |-> st]
<1>1. next.pc = "moving" /\ next.parcel = k /\ next.from = shipment[k].status /\ next.to = st
  OBVIOUS
<1>2. /\ Goto(q, next) /\ UNCHANGED <<shipment, order, fulfillment, stale>>
      /\ shipment[k].status # "NONE" /\ MayMove(shipment[k].status, st)
  BY DEF BeginMove
<1> HIDE DEF next
<1>3. shipment[k].status \in ShipmentStatus
  BY <1>2 DEF ShipInv, ParcelsOK, Parcels
<1>4. request'[q] = next => RequestOK(q)'
  BY <1>1, <1>2, <1>3 DEF RequestOK
<1> QED
  BY <1>1, <1>2, <1>4, PlanKept

LEMMA WriteInv == ASSUME ShipInv, NEW q \in Request, Write(q) PROVE ShipInv'
<1>1. /\ request[q].pc = "moving"
      /\ request[q].parcel \notin InWriting
      /\ UNCHANGED <<shipment, order, fulfillment, stale>>
  BY DEF Write
<1>2. /\ request[q].parcel \in Shipment
      /\ shipment[request[q].parcel].status # "NONE"
      /\ request[q].from \in ShipmentStatus
      /\ MayMove(request[q].from, request[q].to)
  BY <1>1 DEF ShipInv, RequestOK, Idle, RowOK
<1>3. PICK k \in Shipment : k = request[q].parcel
  BY <1>2
<1> DEFINE row == [shipment[k] EXCEPT !.status = request[q].to]
           rollup == Rollup([shipment EXCEPT ![k] = row])
           next == [pc |-> "rolling", parcel |-> k, from |-> request[q].from, row |-> row,
                    rollup |-> rollup]
<1>4. Goto(q, next)
  BY <1>3 DEF Write
<1>5. /\ shipment[k] \in [status : ShipmentStatus \cup {"NONE"}, units : Portion]
      /\ shipment[k].units # Empty
  BY <1>2, <1>3 DEF ShipInv, ParcelsOK, Parcels
<1>6. request[q].to \in ShipmentStatus
  BY <1>2, MovesTo
<1>7. /\ row \in [status : ShipmentStatus, units : Portion \ {Empty}]
      /\ row.status = request[q].to /\ row.units = shipment[k].units
  BY <1>5, <1>6
<1> HIDE DEF row, rollup
<1>8. /\ next.pc = "rolling" /\ next.parcel = k /\ next.from = request[q].from
      /\ next.row = row /\ next.rollup = rollup
  OBVIOUS
<1>9. rollup \in {"UNFULFILLED", "PROCESSING", "FULFILLED"}
  BY RollupType DEF rollup
<1> HIDE DEF next
<1>10. request'[q] = next => RequestOK(q)'
  BY <1>1, <1>2, <1>3, <1>7, <1>8, <1>9 DEF RequestOK, RowOK
<1> QED
  BY <1>1, <1>3, <1>4, <1>8, <1>10, PlanKept

\* What is committed is a parcel with units, and the others' plans stand.
LEMMA CommitInv == ASSUME ShipInv, NEW q \in Request, Commit(q) PROVE ShipInv'
<1>1. /\ request[q].pc = "rolling"
      /\ shipment' = [shipment EXCEPT ![request[q].parcel] = request[q].row]
      /\ fulfillment' = request[q].rollup
      /\ stale' = (stale \/ ~Fresh(q))
      /\ Goto(q, Idle)
      /\ UNCHANGED order
  BY DEF Commit
<1>2. RowOK(q)
  BY <1>1 DEF ShipInv, RequestOK, Idle
<1>3. PICK k \in Shipment : k = request[q].parcel
  BY <1>2 DEF RowOK
<1>4. /\ request[q].row \in [status : ShipmentStatus, units : Portion \ {Empty}]
      /\ request[q].rollup \in {"UNFULFILLED", "PROCESSING", "FULFILLED"}
  BY <1>2 DEF RowOK
<1>5. /\ shipment'[k] = request[q].row
      /\ \A x \in Shipment \ {k} : shipment'[x] = shipment[x]
      /\ shipment' \in Parcels
  BY <1>1, <1>3, <1>4 DEF ShipInv, ParcelsOK, Parcels
<1>6. shipment'[k].status # "NONE" /\ shipment'[k].units # Empty
  BY <1>4, <1>5 DEF ShipmentStatus
<1>7. ParcelsOK'
  BY <1>5, <1>6 DEF ShipInv, ParcelsOK, Parcels, Empty
<1>8. OrderOK'
  BY <1>1, <1>4 DEF ShipInv, OrderOK
<1>9. /\ DOMAIN request' = Request /\ request'[q] = Idle
      /\ \A x \in Request \ {q} : request'[x] = request[x]
  BY <1>1 DEF ShipInv, Goto
<1>10. ASSUME NEW x \in Request PROVE RequestOK(x)'
  <2>1. CASE x = q
    BY <1>9, <2>1 DEF RequestOK
  <2>2. CASE x # q /\ request[x].pc = "rolling"
    <3>1. RowOK(x) /\ request[x].parcel # k
      BY <1>1, <1>3, <2>2 DEF ShipInv, RequestOK, Idle, OneWriter
    <3>2. /\ request[x].parcel \in Shipment
          /\ shipment'[request[x].parcel] = shipment[request[x].parcel]
      BY <1>5, <3>1 DEF RowOK
    <3>3. RowOK(x)'
      BY <1>9, <2>2, <3>1, <3>2 DEF RowOK
    <3> QED
      BY <1>9, <2>2, <3>3 DEF RequestOK
  <2>3. CASE x # q /\ request[x].pc # "rolling"
    <3>1. RequestOK(x)
      BY DEF ShipInv
    <3>2. \A y \in Shipment : shipment[y].status # "NONE" => shipment'[y].status # "NONE"
      BY <1>5, <1>6
    <3> QED
      BY <1>9, <2>3, <3>1, <3>2 DEF RequestOK
  <2> QED
    BY <2>1, <2>2, <2>3
<1>11. OneWriter'
  BY <1>9 DEF ShipInv, OneWriter, Idle
<1> QED
  BY <1>7, <1>8, <1>9, <1>10, <1>11 DEF ShipInv

LEMMA OrderMovesInv ==
    ASSUME ShipInv, UNCHANGED <<shipment, request, stale>>, OrderOK'
    PROVE  ShipInv'
<1>1. ParcelsOK' /\ OneWriter' /\ \A q \in Request : RequestOK(q)'
  BY DEF ShipInv, ParcelsOK, OneWriter, RequestOK, RowOK
<1> QED
  BY <1>1 DEF ShipInv

LEMMA ShipStepInv == ShipInv /\ [Next]_vars => ShipInv'
<1> SUFFICES ASSUME ShipInv, [Next]_vars PROVE ShipInv'
  OBVIOUS
<1>1. CASE UNCHANGED vars
  BY <1>1, OrderMovesInv DEF vars, ShipInv, OrderOK
<1>2. ASSUME NEW q \in Request, Abort(q) PROVE ShipInv'
  <2>1. request'[q] = Idle => RequestOK(q)'
    BY DEF RequestOK
  <2> QED
    BY <1>2, <2>1, PlanKept DEF Abort, Idle
<1>3. CASE Advance \/ Cancel \/ Settle
  <2>1. OrderOK'
    BY <1>3 DEF Advance, Cancel, Settle, ShipInv, OrderOK, OrderStatus
  <2> QED
    BY <1>3, <2>1, OrderMovesInv DEF Advance, Cancel, Settle
<1> QED
  BY <1>1, <1>2, <1>3, BeginCreateInv, InsertInv, BeginMoveInv, WriteInv, CommitInv DEF Next

\* Whatever overlaps and dies: every parcel has units of the order, and only
\* parcels that were shipped have.
THEOREM ShipmentsTypes == Spec => []ShipmentsTypeOK
<1>1. ShipInv => ShipmentsTypeOK
  <2> SUFFICES ASSUME ShipInv PROVE ShipmentsTypeOK
    OBVIOUS
  <2>1. \A q \in Request : request[q].pc \in {"idle", "creating", "moving", "rolling"}
    BY DEF ShipInv, RequestOK, Idle
  <2> QED
    BY <2>1 DEF ShipInv, ParcelsOK, Parcels, OrderOK, ShipmentsTypeOK
<1> QED
  BY <1>1, ShipInitInv, ShipStepInv, PTL DEF Spec

\* A parcel that was delivered, returned or cancelled stays as it is, as long as
\* no request commits on a status it read before others changed it.
THEOREM TerminalStays == Spec => TerminalIsFinal
<1>1. ASSUME ShipInv, Next, stale' = FALSE, NEW k \in Shipment,
             shipment[k].status \in {"DELIVERED", "RETURNED", "CANCELLED"}
      PROVE  shipment'[k] = shipment[k]
  <2>1. CASE UNCHANGED shipment
    BY <2>1
  <2>2. ASSUME NEW q \in Request, Commit(q) PROVE shipment'[k] = shipment[k]
    <3>1. /\ request[q].pc = "rolling"
          /\ shipment' = [shipment EXCEPT ![request[q].parcel] = request[q].row]
          /\ Fresh(q)
      BY <1>1, <2>2 DEF Commit
    <3>2. RowOK(q)
      BY <1>1, <3>1 DEF ShipInv, RequestOK, Idle
    <3>3. shipment \in Parcels
      BY <1>1 DEF ShipInv, ParcelsOK
    <3>4. CASE request[q].parcel # k
      BY <3>1, <3>3, <3>4 DEF Parcels
    <3>5. CASE request[q].parcel = k
      <4>1. request[q].from = shipment[k].status
        BY <3>1, <3>5 DEF Fresh
      <4>2. /\ MayMove(request[q].from, request[q].row.status)
            /\ request[q].row.units = shipment[k].units
            /\ request[q].from \in ShipmentStatus
        BY <1>1, <3>2, <3>5, <4>1 DEF RowOK
      <4>3. request[q].row.status = shipment[k].status
        BY <1>1, <4>1, <4>2, MovesTo
      <4>4. /\ shipment[k] \in [status : ShipmentStatus \cup {"NONE"}, units : Portion]
            /\ request[q].row \in [status : ShipmentStatus, units : Portion \ {Empty}]
        BY <3>2, <3>3 DEF RowOK, Parcels
      <4>5. request[q].row = shipment[k]
        BY <4>2, <4>3, <4>4
      <4> QED
        BY <3>1, <3>3, <3>5, <4>5 DEF Parcels
    <3> QED
      BY <3>4, <3>5
  <2> QED
    BY <1>1, <2>1, <2>2
    DEF Next, BeginCreate, Insert, BeginMove, Write, Abort, Advance, Cancel, Settle
<1>2. ShipInv /\ [Next]_vars
         => [\A k \in Shipment :
                shipment[k].status \in {"DELIVERED", "RETURNED", "CANCELLED"} /\ ~stale'
                => shipment'[k] = shipment[k]]_vars
  <2>1. ShipInv /\ [Next]_vars => stale' \in BOOLEAN
    BY ShipStepInv DEF ShipInv, OrderOK
  <2> QED
    BY <1>1, <2>1
<1> QED
  BY <1>2, ShipInitInv, ShipStepInv, PTL DEF Spec, TerminalIsFinal

-----------------------------------------------------------------------------
\* The units of item i in the parcels ks, one element per unit: UnitsOf counts
\* them.
Parts(parcels, ks, i) == UNION {{k} \X (1 .. parcels[k].units[i]) : k \in ks}

LEMMA BlockSize ==
    ASSUME NEW k, NEW n \in Nat
    PROVE  IsFiniteSet({k} \X (1 .. n)) /\ Cardinality({k} \X (1 .. n)) = n
<1> DEFINE A == {k}
           B == 1 .. n
<1>1. IsFiniteSet(A) /\ Cardinality(A) = 1
  BY FS_Singleton
<1>2. IsFiniteSet(B) /\ Cardinality(B) = n
  BY FS_Interval
<1> HIDE DEF A, B
<1>3. IsFiniteSet(A \X B) /\ Cardinality(A \X B) = Cardinality(A) * Cardinality(B)
  BY <1>1, <1>2, FS_Product
<1>4. IsFiniteSet(A \X B) /\ Cardinality(A \X B) = n
  BY <1>1, <1>2, <1>3
<1> QED
  BY <1>4 DEF A, B

\* A sum over a finite set is a natural number.
LEMMA SumType ==
    ASSUME NEW S, IsFiniteSet(S), NEW f, \A x \in S : f[x] \in Nat
    PROVE  IsFiniteSet(UNION {{x} \X (1 .. f[x]) : x \in S}) /\ SumOf(f, S) \in Nat
<1> DEFINE P == {{x} \X (1 .. f[x]) : x \in S}
<1>1. \A T \in P : IsFiniteSet(T)
  <2> TAKE T \in P
  <2>1. PICK x \in S : T = {x} \X (1 .. f[x])
    OBVIOUS
  <2>2. IsFiniteSet({x} \X (1 .. f[x]))
    BY BlockSize
  <2> QED
    BY <2>1, <2>2
<1>2. IsFiniteSet(P)
  <2>1. PICK g : g = [x \in S |-> {x} \X (1 .. f[x])]
    OBVIOUS
  <2>2. g \in Surjection(S, P)
    BY <2>1 DEF Surjection
  <2> QED
    BY <2>2, FS_Surjection
<1>3. IsFiniteSet(UNION P)
  BY <1>1, <1>2, FS_UNION
<1> QED
  BY <1>3, FS_CardinalityType DEF SumOf

LEMMA UnitsCount ==
    ASSUME NEW parcels \in Parcels, NEW ks \in SUBSET Shipment, NEW i \in Item
    PROVE  /\ IsFiniteSet(Parts(parcels, ks, i))
           /\ UnitsOf(parcels, ks, i) = Cardinality(Parts(parcels, ks, i))
           /\ UnitsOf(parcels, ks, i) \in Nat
<1> DEFINE f == [k \in ks |-> parcels[k].units[i]]
<1>1. IsFiniteSet(ks)
  <2>1. IsFiniteSet(Shipment)
    BY ShipmentsAssumption, FS_Interval DEF Shipment
  <2> QED
    BY <2>1, FS_Subset
<1>2. \A k \in ks : f[k] = parcels[k].units[i] /\ f[k] \in Nat
  BY PortionType DEF Parcels
<1> HIDE DEF f
<1>3. UNION {{k} \X (1 .. f[k]) : k \in ks} = Parts(parcels, ks, i)
  BY <1>2 DEF Parts
<1>4. UnitsOf(parcels, ks, i) = SumOf(f, ks)
  BY DEF UnitsOf, f
<1>5. SumOf(f, ks) = Cardinality(Parts(parcels, ks, i))
  BY <1>3 DEF SumOf
<1> QED
  BY <1>1, <1>2, <1>3, <1>4, <1>5, SumType

\* More parcels, with the same units, hold at least as much.
LEMMA UnitsGrow ==
    ASSUME NEW a \in Parcels, NEW b \in Parcels, NEW S, NEW T \in SUBSET Shipment, S \subseteq T,
           \A k \in S : a[k].units = b[k].units, NEW i \in Item
    PROVE  UnitsOf(a, S, i) <= UnitsOf(b, T, i)
<1>1. Parts(a, S, i) \subseteq Parts(b, T, i)
  BY DEF Parts
<1>2. IsFiniteSet(Parts(b, T, i))
  BY UnitsCount
<1>3. Cardinality(Parts(a, S, i)) <= Cardinality(Parts(b, T, i))
  BY <1>1, <1>2, FS_Subset
<1> QED
  BY <1>3, UnitsCount

\* One more parcel adds at most its units.
LEMMA UnitsAdd ==
    ASSUME NEW a \in Parcels, NEW b \in Parcels, NEW S \in SUBSET Shipment, NEW k \in Shipment,
           \A x \in S : a[x].units = b[x].units, NEW i \in Item
    PROVE  UnitsOf(b, S \cup {k}, i) <= UnitsOf(a, S, i) + b[k].units[i]
<1> DEFINE A == Parts(a, S, i)
           B == {k} \X (1 .. b[k].units[i])
<1>1. Parts(b, S \cup {k}, i) = A \cup B
  BY DEF Parts
<1>2. b[k].units[i] \in Nat
  BY PortionType DEF Parcels
<1>3. IsFiniteSet(B) /\ Cardinality(B) = b[k].units[i]
  BY <1>2, BlockSize
<1>4. IsFiniteSet(A) /\ UnitsOf(a, S, i) = Cardinality(A) /\ Cardinality(A) \in Nat
  BY UnitsCount
<1>5. S \cup {k} \in SUBSET Shipment
  OBVIOUS
<1>6. UnitsOf(b, S \cup {k}, i) = Cardinality(Parts(b, S \cup {k}, i))
  BY <1>5, UnitsCount
<1> HIDE DEF A, B
<1>7. /\ Cardinality(A \cup B) = Cardinality(A) + Cardinality(B) - Cardinality(A \cap B)
      /\ Cardinality(A \cap B) \in Nat
  BY <1>3, <1>4, FS_Union, FS_Intersection, FS_CardinalityType
<1>8. UnitsOf(b, S \cup {k}, i) = Cardinality(A \cup B)
  BY <1>1, <1>6
<1> QED
  BY <1>2, <1>3, <1>4, <1>7, <1>8

\* When no item exceeds what was ordered of it, the totals tell whether each
\* reaches it.
LEMMA TotalsTell ==
    ASSUME NEW f \in [Item -> Nat], \A i \in Item : f[i] <= Ordered[i]
    PROVE  SumOf(f, Item) >= SumOf(Ordered, Item) <=> \A i \in Item : f[i] = Ordered[i]
<1> DEFINE A == UNION {{i} \X (1 .. f[i]) : i \in Item}
           B == UNION {{i} \X (1 .. Ordered[i]) : i \in Item}
<1>1. IsFiniteSet(Item) /\ \A i \in Item : f[i] \in Nat /\ Ordered[i] \in Nat \ {0}
  BY ShipmentsAssumption
<1>2. /\ IsFiniteSet(A) /\ SumOf(f, Item) = Cardinality(A) /\ SumOf(f, Item) \in Nat
      /\ IsFiniteSet(B) /\ SumOf(Ordered, Item) = Cardinality(B) /\ SumOf(Ordered, Item) \in Nat
  BY <1>1, SumType DEF SumOf
<1>3. A \subseteq B
  <2>1. \A i \in Item : 1 .. f[i] \subseteq 1 .. Ordered[i]
    BY <1>1
  <2> QED
    BY <2>1
<1>4. ASSUME A = B, NEW i \in Item PROVE f[i] = Ordered[i]
  <2>1. <<i, Ordered[i]>> \in B
    BY <1>1
  <2>2. <<i, Ordered[i]>> \in A
    BY <1>4, <2>1
  <2>3. Ordered[i] \in 1 .. f[i]
    BY <2>2
  <2> QED
    BY <1>1, <2>3
<1>5. ASSUME \A i \in Item : f[i] = Ordered[i] PROVE A = B
  BY <1>5
<1> HIDE DEF A, B
<1>6. Cardinality(A) <= Cardinality(B) /\ (Cardinality(A) = Cardinality(B) => A = B)
  BY <1>2, <1>3, FS_Subset
<1>7. SumOf(f, Item) >= SumOf(Ordered, Item) => A = B
  BY <1>2, <1>6
<1>8. A = B => SumOf(f, Item) >= SumOf(Ordered, Item)
  BY <1>2
<1> QED
  BY <1>4, <1>5, <1>7, <1>8

\* So the roll-up says FULFILLED when every unit of every item was delivered.
LEMMA RollupTells ==
    ASSUME ParcelsOK, \A i \in Item : UnitsOf(shipment, Live(shipment), i) <= Ordered[i]
    PROVE  Rollup(shipment) = "FULFILLED" <=> \A i \in Item : Delivered(i)
<1> DEFINE D == {k \in Shipment : shipment[k].status = "DELIVERED"}
           f == [i \in Item |-> UnitsOf(shipment, D, i)]
<1>1. {k \in Live(shipment) : shipment[k].status = "DELIVERED"} = D
  BY DEF Live
<1>2. D \subseteq Live(shipment) /\ Live(shipment) \in SUBSET Shipment /\ D \in SUBSET Shipment
  BY DEF Live
<1>3. shipment \in Parcels
  BY DEF ParcelsOK
<1> HIDE DEF D
<1>4. \A i \in Item : /\ UnitsOf(shipment, D, i) \in Nat
                      /\ UnitsOf(shipment, D, i) <= Ordered[i]
  <2> TAKE i \in Item
  <2>1. /\ UnitsOf(shipment, D, i) \in Nat /\ UnitsOf(shipment, Live(shipment), i) \in Nat
        /\ UnitsOf(shipment, D, i) <= UnitsOf(shipment, Live(shipment), i)
    BY <1>2, <1>3, UnitsCount, UnitsGrow
  <2>2. Ordered[i] \in Nat
    BY PortionType
  <2> QED
    BY <2>1, <2>2
<1>5. f \in [Item -> Nat] /\ \A i \in Item : f[i] = UnitsOf(shipment, D, i)
  BY <1>4
<1>6. AllUnits(shipment, D) = SumOf(f, Item)
  BY DEF AllUnits
<1> HIDE DEF f
<1>7. AllUnits(shipment, D) >= SumOf(Ordered, Item)
         <=> \A i \in Item : UnitsOf(shipment, D, i) = Ordered[i]
  BY <1>4, <1>5, <1>6, TotalsTell
<1>8. \A i \in Item : Delivered(i) <=> UnitsOf(shipment, D, i) = Ordered[i]
  BY DEF Delivered, D
<1>9. ASSUME \A i \in Item : Delivered(i) PROVE Live(shipment) # {}
  <2>1. PICK i \in Item : Ordered[i] \in Nat \ {0}
    BY ShipmentsAssumption
  <2>2. UnitsOf(shipment, D, i) # 0
    BY <1>8, <1>9, <2>1
  <2>3. D = {} => Parts(shipment, D, i) = {}
    BY DEF Parts
  <2>4. D = {} => UnitsOf(shipment, D, i) = 0
    BY <1>2, <1>3, <2>3, UnitsCount, FS_EmptySet
  <2> QED
    BY <1>2, <2>2, <2>4
<1>10. Rollup(shipment) = "FULFILLED"
          <=> Live(shipment) # {} /\ AllUnits(shipment, D) >= SumOf(Ordered, Item)
  BY <1>1 DEF Rollup
<1> QED
  BY <1>7, <1>8, <1>9, <1>10

-----------------------------------------------------------------------------
\* The second invariant.
LEMMA ShipInitFresh == Init => FreshInv
<1> SUFFICES ASSUME Init PROVE FreshInv
  OBVIOUS
<1>1. Live(shipment) = {}
  BY DEF Init, Live, Absent
<1>2. Rollup(shipment) = "UNFULFILLED"
  BY <1>1 DEF Rollup
<1>3. shipment \in Parcels
  BY ShipInitInv DEF ShipInv, ParcelsOK
<1>4. ASSUME NEW i \in Item PROVE UnitsOf(shipment, Live(shipment), i) <= Ordered[i]
  <2>1. Parts(shipment, Live(shipment), i) = {}
    BY <1>1 DEF Parts
  <2>2. UnitsOf(shipment, Live(shipment), i) = 0
    BY <1>1, <1>3, <2>1, UnitsCount, FS_EmptySet
  <2> QED
    BY <2>2, PortionType
<1> QED
  BY <1>2, <1>4 DEF Init, FreshInv, NeverOvershipped, RollupOK

\* A commit on what is still true: a new parcel takes what remains, a move
\* adds nothing.
LEMMA CommitFits ==
    ASSUME ShipInv, ShipInv', FreshInv, NEW q \in Request, Commit(q), stale' = FALSE, NEW i \in Item
    PROVE  UnitsOf(shipment', Live(shipment'), i) <= Ordered[i]
<1>1. /\ request[q].pc = "rolling"
      /\ shipment' = [shipment EXCEPT ![request[q].parcel] = request[q].row]
      /\ Fresh(q) /\ stale = FALSE
  BY DEF Commit, ShipInv, OrderOK
<1>2. RowOK(q)
  BY <1>1 DEF ShipInv, RequestOK, Idle
<1>3. PICK k \in Shipment : k = request[q].parcel
  BY <1>2 DEF RowOK
<1>4. shipment \in Parcels /\ shipment' \in Parcels
  BY DEF ShipInv, ParcelsOK
<1>5. /\ shipment'[k] = request[q].row
      /\ \A x \in Shipment \ {k} : shipment'[x] = shipment[x]
  BY <1>1, <1>3, <1>4 DEF Parcels
<1> DEFINE L == Live(shipment)
           M == Live(shipment')
<1>6. L \in SUBSET Shipment /\ M \in SUBSET Shipment /\ L \cup {k} \in SUBSET Shipment
  BY DEF Live
<1>7. UnitsOf(shipment, L, i) <= Ordered[i]
  BY <1>1 DEF FreshInv, NeverOvershipped
<1>8. M \subseteq L \cup {k}
  BY <1>5 DEF Live
<1>9. request[q].row.status \in ShipmentStatus
  BY <1>2 DEF RowOK
<1>10. CASE request[q].from = "NONE"
  <2>1. shipment[k] = Absent
    BY <1>2, <1>3, <1>10 DEF RowOK, ShipmentStatus
  <2>2. k \notin L
    BY <2>1 DEF Live, Absent
  <2>3. request[q].row.units[i] <= Remaining(i)
    BY <1>1, <1>10 DEF Fresh
  <2> HIDE DEF L, M
  <2>4. UnitsOf(shipment', L \cup {k}, i) <= UnitsOf(shipment, L, i) + shipment'[k].units[i]
    <3>1. \A x \in L : shipment[x].units = shipment'[x].units
      BY <1>5, <1>6, <2>2
    <3> QED
      BY <1>4, <1>6, <3>1, UnitsAdd
  <2>5. UnitsOf(shipment', M, i) <= UnitsOf(shipment', L \cup {k}, i)
    BY <1>4, <1>6, <1>8, UnitsGrow
  <2>6. /\ UnitsOf(shipment, L, i) \in Nat /\ UnitsOf(shipment', M, i) \in Nat
        /\ UnitsOf(shipment', L \cup {k}, i) \in Nat
    BY <1>4, <1>6, UnitsCount
  <2>7. Ordered[i] \in Nat /\ shipment'[k].units[i] \in Nat
    BY <1>4, PortionType DEF Parcels
  <2>8. shipment'[k].units[i] <= Ordered[i] - UnitsOf(shipment, L, i)
    BY <1>5, <1>7, <2>3, <2>6, <2>7 DEF Remaining, L
  <2> QED
    BY <2>4, <2>5, <2>6, <2>7, <2>8 DEF M
<1>11. CASE request[q].from # "NONE"
  <2>1. /\ request[q].from \in ShipmentStatus
        /\ MayMove(request[q].from, request[q].row.status)
        /\ shipment[k].status # "NONE"
        /\ request[q].row.units = shipment[k].units
        /\ shipment[k].status = request[q].from
    BY <1>1, <1>2, <1>3, <1>11 DEF RowOK, Fresh
  <2>2. M \subseteq L
    <3>1. k \in M => k \in L
      <4>1. shipment[k].status = "CANCELLED" => request[q].row.status = "CANCELLED"
        BY <2>1, MovesTo
      <4> QED
        BY <1>5, <2>1, <4>1 DEF Live
    <3> QED
      BY <1>8, <3>1
  <2>3. \A x \in Shipment : shipment'[x].units = shipment[x].units
    BY <1>5, <2>1
  <2> HIDE DEF L, M
  <2>4. UnitsOf(shipment', M, i) <= UnitsOf(shipment, L, i)
    BY <1>4, <1>6, <2>2, <2>3, UnitsGrow
  <2>5. UnitsOf(shipment, L, i) \in Nat /\ UnitsOf(shipment', M, i) \in Nat /\ Ordered[i] \in Nat
    BY <1>4, <1>6, UnitsCount, PortionType
  <2> QED
    BY <1>7, <2>4, <2>5 DEF M
<1> QED
  BY <1>10, <1>11

LEMMA ShipStepFresh == ShipInv /\ ShipInv' /\ FreshInv /\ [Next]_vars => FreshInv'
<1> SUFFICES ASSUME ShipInv, ShipInv', FreshInv, [Next]_vars, stale' = FALSE PROVE FreshInv'
  BY DEF ShipInv, OrderOK, FreshInv, NeverOvershipped, RollupOK
<1>1. CASE UNCHANGED <<shipment, order, fulfillment, stale>>
  BY <1>1 DEF FreshInv, NeverOvershipped, RollupOK, UnitsOf, Live, Rollup, AllUnits
<1>2. ASSUME NEW q \in Request, Commit(q) PROVE FreshInv'
  <2>1. \A i \in Item : UnitsOf(shipment', Live(shipment'), i) <= Ordered[i]
    BY <1>2, CommitFits
  <2>2. NeverOvershipped'
    BY <2>1 DEF NeverOvershipped, UnitsOf, Live
  <2>3. fulfillment' = Rollup(shipment')
    BY <1>2 DEF Commit, Fresh
  <2>4. RollupOK'
    BY <2>3 DEF RollupOK, Rollup, Live, AllUnits, UnitsOf
  <2> QED
    BY <2>2, <2>4 DEF FreshInv
<1>3. CASE Advance \/ Cancel \/ Settle
  <2>1. /\ UNCHANGED <<shipment, stale>>
        /\ \/ order' = "PROCESSING" /\ fulfillment' = "PROCESSING"
           \/ order' \in {"FULFILLED", "COMPLETED", "REFUNDED"}
           \/ order' = "CANCELLED" /\ fulfillment' = "CANCELLED"
           \/ /\ order = "PENDING_PAYMENT" /\ order' \in {"PAID", "EXPIRED"}
              /\ UNCHANGED fulfillment
    BY <1>3 DEF Advance, Cancel, Settle
  <2>2. NeverOvershipped'
    BY <2>1 DEF FreshInv, NeverOvershipped, UnitsOf, Live
  <2>3. Rollup(shipment)' = Rollup(shipment)
    BY <2>1 DEF Rollup, Live, AllUnits, UnitsOf
  <2>4. RollupOK'
    BY <2>1, <2>3 DEF FreshInv, RollupOK
  <2> QED
    BY <2>2, <2>4 DEF FreshInv
<1> QED
  BY <1>1, <1>2, <1>3 DEF Next, vars, BeginCreate, Insert, BeginMove, Write, Abort

LEMMA ShipFresh == Spec => [](ShipInv /\ FreshInv)
BY ShipInitInv, ShipStepInv, ShipInitFresh, ShipStepFresh, PTL DEF Spec

\* However an order is split, cancelled and shipped again, its parcels hold no
\* more of an item than was ordered, as long as no request commits on a stale
\* read.
THEOREM NothingOvershipped == Spec => []NeverOvershipped
<1>1. ShipInv /\ FreshInv => NeverOvershipped
  BY DEF FreshInv
<1> QED
  BY <1>1, ShipFresh, PTL

\* And its fulfilment says FULFILLED when each unit of each item was delivered,
\* although only the totals over all items are compared.
THEOREM FulfilledTells == Spec => []FulfilledMeansDelivered
<1>1. ShipInv /\ FreshInv => FulfilledMeansDelivered
  <2> SUFFICES ASSUME ShipInv, FreshInv, ~stale PROVE FulfilledMeansDelivered
    BY DEF FulfilledMeansDelivered
  <2>1. \A i \in Item : UnitsOf(shipment, Live(shipment), i) <= Ordered[i]
    BY DEF FreshInv, NeverOvershipped
  <2>2. Rollup(shipment) = "FULFILLED" <=> \A i \in Item : Delivered(i)
    BY <2>1, RollupTells DEF ShipInv
  <2> QED
    BY <2>2 DEF FreshInv, RollupOK, FulfilledMeansDelivered
<1> QED
  BY <1>1, ShipFresh, PTL
=============================================================================
