------------------------------ MODULE PosOrders ------------------------------
(***************************************************************************)
(* Edits of open orders at the counter (PATCH /pos/orders/:orderId).  An   *)
(* edit names all the lines wanted; what has to change is computed from a  *)
(* read without a lock and carried out in up to four transactions:         *)
(*                                                                         *)
(*    BeginUpdate                 the differences                          *)
(*    ReadRows, WriteRows         lines that stay or go: resized in place  *)
(*    BookLines, LinkLines        new lines: reserved, then linked         *)
(*    ReadTotals, WriteTotals     the totals of the order                  *)
(*                                                                         *)
(* The reads of a transaction are taken as one snapshot.  Orders start     *)
(* open, with one line per product and its stock reserved; payment in      *)
(* full, cancellation and expiry are one step each (PosPayments has the    *)
(* steps of a payment).  The kitchen (Kitchen) shares the requests.        *)
(***************************************************************************)
EXTENDS StockLedger

CONSTANTS Request,      \* requests of staff being handled at the same time
          Meanwhile,    \* what else happens: of {"pay", "cancel", "expire"}
          InitialTotal, \* bound: the totals the stock items may have
          Balance       \* bound: edits begin while every held balance is in this range

ASSUME PosOrdersAssumption == InitialTotal \subseteq Nat

VARIABLES
    order,    \* Order.status
    linked,   \* the reservations with an orderId
    line,     \* OrderItem.quantity; 0: no row
    sent,     \* OrderItem.sentToKitchenQuantity
    total,    \* Order.totalAmount, as the units of each product it charges for
    request   \* what a request does next, and what it remembers

posOrderVars == <<order, linked, line, sent, total, request>>

\* The n-th order item of an order for a product: edits that overlap can make two.
Line == Reservation \X (1 .. 2)
RowOf(l) == l[1]
LinesOf(o) == {l \in Line : RowOf(l)[1] = o /\ line[l] > 0}
LinesFor(r) == {l \in Line : RowOf(l) = r /\ line[l] > 0}
Rows(o) == {r \in Reservation : r[1] = o}
LiveRows(o) == {r \in Rows(o) : status[r] = "ACTIVE"}
LinkedRows(o) == LiveRows(o) \cap linked

\* What the lines of order o add up to, per product.
Ordered(o) == [s \in Stock |->
                  Cardinality(UNION {{l} \X (1 .. line[l]) : l \in LinesFor(<<o, s>>)})]

Idle == [pc |-> "idle"]
Goto(q, next) == request' = [request EXCEPT ![q] = next]
AllIdle == \A q \in Request : request[q] = Idle

PosOrdersInit ==
    /\ \E W \in SUBSET Reservation :
          /\ \A o \in Checkout : W \cap Rows(o) # {}
          /\ status = [r \in Reservation |-> IF r \in W THEN "ACTIVE" ELSE "NONE"]
          /\ linked = W
          /\ \E want \in [W -> Quantity] :
                quantity = [r \in Reservation |-> IF r \in W THEN want[r] ELSE 0]
    /\ reservedStock = [s \in Stock |-> Held(quantity, Reservation, s)]
    /\ totalStock \in [Stock -> InitialTotal]
    /\ \A s \in Stock : reservedStock[s] <= totalStock[s]
    /\ soldStock = [s \in Stock |-> 0]
    /\ returned = {}
    /\ order = [o \in Checkout |-> "PENDING_PAYMENT"]
    /\ line = [l \in Line |-> IF l[2] = 1 THEN quantity[RowOf(l)] ELSE 0]
    /\ sent = [l \in Line |-> 0]
    /\ total = [o \in Checkout |-> [s \in Stock |-> quantity[<<o, s>>]]]
    /\ request = [q \in Request |-> Idle]

-----------------------------------------------------------------------------
Open(o) == order[o] \in {"PENDING_PAYMENT", "PAID"}

\* Where an edit goes on after the lines that stay, and after the new ones.
AfterRows(q, o, add) ==
    IF add # <<>> THEN [pc |-> "booking", order |-> o, add |-> add]
                  ELSE [pc |-> "summing", order |-> o]

\* Mutant: any line may be reduced.
MayReduceFreely(l, n) == n >= 0

\* No line may go below what the kitchen already has.
MayReduce(l, n) == n >= sent[l]

\* update: want[s] units of every product in its domain, none of the others.
\* Of two lines for one product the last one read is compared.
BeginUpdate(q, o, want) ==
    LET known == {s \in Stock : LinesFor(<<o, s>>) # {}}
        wanted(s) == IF s \in DOMAIN want THEN want[s] ELSE 0
        add == [s \in DOMAIN want \ known |-> want[s]]
    IN  /\ request[q] = Idle
        /\ \A s \in Stock : reservedStock[s] \in Balance
        /\ Open(o)
        /\ \E last \in [known -> LinesOf(o)] :
              LET C == {last[s] : s \in {x \in known : line[last[x]] # wanted(x)}}
                  change == [l \in C |-> wanted(RowOf(l)[2]) - line[l]]
              IN  /\ \A s \in known : last[s] \in LinesFor(<<o, s>>)
                  /\ \A l \in C : change[l] < 0 => MayReduce(l, wanted(RowOf(l)[2]))
                  /\ Goto(q, [pc |-> "adjusting", order |-> o, change |-> change, add |-> add])
        /\ UNCHANGED <<ledgerVars, order, linked, line, sent, total>>

\* adjustReservedQuantity: the reservation, read before the lock of its stock.
ReadRows(q) ==
    LET asked == request[q]
        o == asked.order
        change == asked.change
    IN  /\ asked.pc = "adjusting"
        /\ IF \A l \in DOMAIN change : RowOf(l) \in LinkedRows(o)
           THEN Goto(q, [pc |-> "writing", order |-> o, change |-> change, add |-> asked.add,
                         held |-> [l \in DOMAIN change |-> quantity[RowOf(l)]]])
           ELSE Goto(q, Idle)
        /\ UNCHANGED <<ledgerVars, order, linked, line, sent, total>>

\* Mutant: more units are taken than are left.
CanAdjustBeyond(change, new) ==
    \A l \in DOMAIN change : line[l] > 0 /\ (new[l] <= 0 => sent[l] = 0)

\* adjustReservedQuantity: the writes.  More units must be left; a line that
\* is gone cannot be written, one the kitchen has a ticket for not deleted.
CanAdjust(change, new) ==
    \A l \in DOMAIN change :
        /\ change[l] <= AvailableStock(RowOf(l)[2])
        /\ line[l] > 0
        /\ new[l] <= 0 => sent[l] = 0

\* The rows and lines of an edit: a line that comes down to nothing is deleted
\* and its reservation released, with its old quantity.
AdjustRows(change, new) ==
    LET edited(r) == {l \in DOMAIN change : RowOf(l) = r}   \* one line at most
        gone == {l \in DOMAIN change : new[l] <= 0}
        of(S, f, else) == IF S = {} THEN else ELSE f[CHOOSE l \in S : TRUE]
    IN  /\ reservedStock' = [s \in Stock |-> reservedStock[s] +
              of({l \in DOMAIN change : RowOf(l)[2] = s}, change, 0)]
        /\ status' = [r \in Reservation |->
              IF edited(r) \cap gone # {} THEN "RELEASED" ELSE status[r]]
        /\ quantity' = [r \in Reservation |-> of(edited(r) \ gone, new, quantity[r])]
        /\ line' = [l \in Line |->
              IF l \in gone THEN 0 ELSE IF l \in DOMAIN change THEN new[l] ELSE line[l]]
        /\ UNCHANGED <<totalStock, soldStock, returned>>

WriteRows(q) ==
    LET asked == request[q]
        new == [l \in DOMAIN asked.change |-> asked.held[l] + asked.change[l]]
    IN  /\ asked.pc = "writing"
        /\ IF CanAdjust(asked.change, new)
           THEN /\ AdjustRows(asked.change, new)
                /\ Goto(q, AfterRows(q, asked.order, asked.add))
           ELSE /\ Goto(q, Idle)
                /\ UNCHANGED <<ledgerVars, line>>
        /\ UNCHANGED <<order, linked, sent, total>>

-----------------------------------------------------------------------------
\* The new lines are reserved for the order's checkout session; a row it
\* already has is accepted only if it is live and of the same quantity.
BookLines(q) ==
    LET asked == request[q]
        o == asked.order
        kept == {s \in DOMAIN asked.add :
                    status[<<o, s>>] = "ACTIVE" /\ quantity[<<o, s>>] = asked.add[s]}
        new == [s \in DOMAIN asked.add \ kept |-> asked.add[s]]
    IN  /\ asked.pc = "booking"
        /\ IF \A s \in DOMAIN new : status[<<o, s>>] = "NONE" /\ new[s] <= AvailableStock(s)
           THEN /\ BookRows(o, new, {})
                /\ Goto(q, [pc |-> "linking", order |-> o, add |-> asked.add])
           ELSE /\ Goto(q, Idle)
                /\ UNCHANGED ledgerVars
        /\ UNCHANGED <<order, linked, line, sent, total>>

\* Mutant: the rows are reserved and never linked to the order.
LinkLinesOnly(q) ==
    LET asked == request[q]
    IN  /\ asked.pc = "linking"
        /\ line' = [l \in Line |->
              IF RowOf(l)[1] = asked.order /\ RowOf(l)[2] \in DOMAIN asked.add /\ l[2] = 1
              THEN asked.add[RowOf(l)[2]] ELSE line[l]]
        /\ Goto(q, [pc |-> "summing", order |-> asked.order])
        /\ UNCHANGED <<ledgerVars, order, linked, sent, total>>

\* They get their order and their lines, whatever became of the order.
LinkLines(q) ==
    LET asked == request[q]
        o == asked.order
        fresh(l) == /\ RowOf(l)[1] = o
                    /\ RowOf(l)[2] \in DOMAIN asked.add
                    /\ l[2] = Cardinality(LinesFor(RowOf(l))) + 1
    IN  /\ asked.pc = "linking"
        /\ linked' = linked \cup LiveRows(o)
        /\ line' = [l \in Line |-> IF fresh(l) THEN asked.add[RowOf(l)[2]] ELSE line[l]]
        /\ Goto(q, [pc |-> "summing", order |-> o])
        /\ UNCHANGED <<ledgerVars, order, sent, total>>

-----------------------------------------------------------------------------
\* recomputeOrderTotals: the lines are summed, then the sum is written.
ReadTotals(q) ==
    /\ request[q].pc = "summing"
    /\ Goto(q, [pc |-> "totalling", order |-> request[q].order,
                sum |-> Ordered(request[q].order)])
    /\ UNCHANGED <<ledgerVars, order, linked, line, sent, total>>

WriteTotals(q) ==
    /\ request[q].pc = "totalling"
    /\ total' = [total EXCEPT ![request[q].order] = request[q].sum]
    /\ Goto(q, Idle)
    /\ UNCHANGED <<ledgerVars, order, linked, line, sent>>

-----------------------------------------------------------------------------
\* Paid in full: the linked reservations whose units are still held are sold.
Pay(o) ==
    /\ "pay" \in Meanwhile
    /\ order[o] = "PENDING_PAYMENT"
    /\ SellRows({r \in LinkedRows(o) : quantity[r] <= reservedStock[r[2]]})
    /\ order' = [order EXCEPT ![o] = "PAID"]
    /\ UNCHANGED <<linked, line, sent, total, request>>

\* PosOrdersService.cancel and OrderService.cancel.
Cancel(o) ==
    /\ "cancel" \in Meanwhile
    /\ order[o] \notin {"CANCELLED", "PAID"}
    /\ \A r \in LinkedRows(o) : quantity[r] <= reservedStock[r[2]]
    /\ CloseRows(LinkedRows(o), "RELEASED")
    /\ order' = [order EXCEPT ![o] = "CANCELLED"]
    /\ UNCHANGED <<linked, line, sent, total, request>>

\* The worker: rows of the order's session that are overdue.  A line added
\* later is held longer, so it need not be all of them.
Expire(o) ==
    /\ "expire" \in Meanwhile
    /\ \E D \in SUBSET LiveRows(o) :
          /\ D # {}
          /\ \A r \in D : quantity[r] <= reservedStock[r[2]]
          /\ CloseRows(D, "EXPIRED")
    /\ order' = [order EXCEPT ![o] = IF @ = "PENDING_PAYMENT" THEN "EXPIRED" ELSE @]
    /\ UNCHANGED <<linked, line, sent, total, request>>

OrderStep ==
    \/ \E q \in Request :
          \/ \E o \in Checkout, W \in (SUBSET Stock) \ {{}} :
                \E want \in [W -> Quantity] : BeginUpdate(q, o, want)
          \/ ReadRows(q) \/ WriteRows(q)
          \/ BookLines(q) \/ LinkLines(q)
          \/ ReadTotals(q) \/ WriteTotals(q)
    \/ \E o \in Checkout : Pay(o) \/ Cancel(o) \/ Expire(o)
==============================================================================
