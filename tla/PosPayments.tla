----------------------------- MODULE PosPayments -----------------------------
(***************************************************************************)
(* Payments and refunds at the counter: an order may be paid in several    *)
(* tenders, and its payment status is recomputed from the ledger of        *)
(* confirmed payments and refunds.                                         *)
(*                                                                         *)
(* A request (Request) passes through transactions that lock neither the   *)
(* order nor its payments: what it decides on was read before others       *)
(* committed.  A recomputation is therefore two steps, ReadLedger (all its *)
(* reads) and WriteLedger (the locks of the stock items, the writes and    *)
(* the commit); its reads are taken as one snapshot.                       *)
(*                                                                         *)
(* Orders start open, with their stock reserved (PosOrders); their         *)
(* cancellation and expiry are one step each here.                         *)
(***************************************************************************)
EXTENDS StockLedger

CONSTANTS Total,        \* Order.totalAmount of each order
          Amount,       \* the amounts a payment or a refund may have
          Tender,       \* how customers pay: of {"CASH", "KHQR"}
          Request,      \* requests of cashiers being handled at the same time
          Meanwhile,    \* what else happens to orders: of {"cancel", "expire"}
          InitialTotal, \* bound: the totals the stock items may have
          MaxPayments,  \* bound: payments per order
          MaxCrashes    \* bound: how often a request dies

ASSUME PosPaymentsAssumption ==
    /\ Total \in [Checkout -> Nat \ {0}]
    /\ Amount \subseteq Nat \ {0}
    /\ Tender \subseteq {"CASH", "KHQR"}
    /\ MaxPayments \in Nat
    /\ InitialTotal \subseteq Nat

VARIABLES
    order,          \* Order.status
    paymentStatus,  \* Order.paymentStatus
    payment,        \* Payment.status
    amount,         \* Payment.amount
    provider,       \* Payment.provider
    refunded,       \* the sum of a payment's refund rows
    request,        \* what a request does next, and what it remembers
    crashes

posVars == <<order, paymentStatus, payment, amount, provider, refunded, request, crashes>>
posPaymentVars == <<ledgerVars, posVars>>

\* The n-th payment of order o.
Payment == (1 .. MaxPayments) \X Checkout
OrderOf(p) == p[2]
WithPayment(st) == {p \in Payment : payment[p] = st}
Idle == [pc |-> "idle"]

\* netPaid: confirmed payments less refunds.
Paid(o) == Held(amount, WithPayment("CONFIRMED"), o)
Refunded(o) == Held(refunded, Payment, o)
NetPaid(o) == Paid(o) - Refunded(o)

Rows(o) == {r \in Reservation : r[1] = o /\ status[r] # "NONE"}
LiveRows(o) == {r \in Rows(o) : status[r] = "ACTIVE"}

PosTypeOK ==
    /\ LedgerTypeOK
    /\ order \in [Checkout -> {"PENDING_PAYMENT", "PAID", "CANCELLED", "EXPIRED", "REFUNDED"}]
    /\ paymentStatus \in [Checkout -> {"PENDING", "PARTIAL", "PAID", "REFUNDED"}]
    /\ payment \in [Payment -> {"NONE", "PENDING", "CONFIRMED"}]
    /\ amount \in [Payment -> Nat]
    /\ provider \in [Payment -> {"NONE", "CASH", "KHQR"}]
    /\ refunded \in [Payment -> Nat]
    /\ \A q \in Request : request[q].pc \in
          {"idle", "creating", "applying", "writing", "refunding", "recording"}

PosInit ==
    /\ quantity \in [Reservation -> Quantity]
    /\ status = [r \in Reservation |-> "ACTIVE"]
    /\ reservedStock = [s \in Stock |-> Held(quantity, Reservation, s)]
    /\ totalStock \in [Stock -> InitialTotal]
    /\ \A s \in Stock : reservedStock[s] <= totalStock[s]
    /\ soldStock = [s \in Stock |-> 0]
    /\ returned = {}
    /\ order = [o \in Checkout |-> "PENDING_PAYMENT"]
    /\ paymentStatus = [o \in Checkout |-> "PENDING"]
    /\ payment = [p \in Payment |-> "NONE"]
    /\ amount = [p \in Payment |-> 0]
    /\ provider = [p \in Payment |-> "NONE"]
    /\ refunded = [p \in Payment |-> 0]
    /\ request = [q \in Request |-> Idle]
    /\ crashes = 0

Goto(q, next) == request' = [request EXCEPT ![q] = next]
Remaining(o) == IF Total[o] > NetPaid(o) THEN Total[o] - NetPaid(o) ELSE 0
Unused(o) == {p \in Payment : OrderOf(p) = o /\ payment[p] = "NONE"}

-----------------------------------------------------------------------------
\* create: the checks ...
Create(q, o, t, a) ==
    /\ request[q] = Idle
    /\ order[o] \in {"PENDING_PAYMENT", "PAID"}
    /\ paymentStatus[o] # "PAID"
    /\ a <= Remaining(o)
    /\ Goto(q, [pc |-> "creating", order |-> o, tender |-> t, amount |-> a])
    /\ UNCHANGED <<ledgerVars, order, paymentStatus, payment, amount, provider, refunded, crashes>>

\* ... and the payment row: cash is confirmed at once and applied next, a QR
\* code is shown and waits for its poll.
Insert(q) ==
    LET asked == request[q]
    IN  /\ asked.pc = "creating"
        /\ \E p \in Unused(asked.order) :
              /\ \A x \in Unused(asked.order) : p[1] <= x[1]
              /\ payment' = [payment EXCEPT ![p] =
                    IF asked.tender = "CASH" THEN "CONFIRMED" ELSE "PENDING"]
              /\ amount' = [amount EXCEPT ![p] = asked.amount]
              /\ provider' = [provider EXCEPT ![p] = asked.tender]
              /\ Goto(q, IF asked.tender = "CASH"
                         THEN [pc |-> "applying", payment |-> p, refund |-> 0]
                         ELSE Idle)
        /\ UNCHANGED <<ledgerVars, order, paymentStatus, refunded, crashes>>

\* findOne of a pending QR payment that the bank says was paid.
Poll(q, p) ==
    /\ request[q] = Idle
    /\ payment[p] = "PENDING"
    /\ provider[p] = "KHQR"
    /\ Goto(q, [pc |-> "applying", payment |-> p, refund |-> 0])
    /\ UNCHANGED <<ledgerVars, order, paymentStatus, payment, amount, provider, refunded, crashes>>

-----------------------------------------------------------------------------
\* applyConfirmedPayment, applyPaymentStatusFromLedger: the reads.  The
\* transaction sees its own payment or refund, and nothing others have not
\* committed; a second poll of one payment waits for the row the first flips.
ReadLedger(q) ==
    LET asked == request[q]
        p == asked.payment
        o == OrderOf(p)
        flip == payment[p] = "PENDING"
    IN  /\ asked.pc = "applying"
        /\ \A x \in Request : ~(request[x].pc = "writing" /\ request[x].payment = p
                                 /\ request[x].flip)
        /\ Goto(q, [pc |-> "writing", payment |-> p, refund |-> asked.refund, flip |-> flip,
                    net |-> NetPaid(o) + (IF flip THEN amount[p] ELSE 0) - asked.refund,
                    was |-> paymentStatus[o], rows |-> LiveRows(o)])
        /\ UNCHANGED <<ledgerVars, order, paymentStatus, payment, amount, provider, refunded,
                       crashes>>

\* confirmOrderReservations: a row whose units are no longer held is skipped;
\* whether the row itself is still live is not looked at again.
Sellable(S) == {r \in S : quantity[r] <= reservedStock[r[2]]}

\* What a recomputation commits besides the order: its payment or refund row.
CommitRows(asked) ==
    /\ payment' = [payment EXCEPT ![asked.payment] = IF asked.flip THEN "CONFIRMED" ELSE @]
    /\ refunded' = [refunded EXCEPT ![asked.payment] = @ + asked.refund]
    /\ UNCHANGED <<amount, provider, crashes>>

\* Mutants: any payment pays the order; the held units are not checked; a
\* refund leaves the payment status.
WriteLedgerAnyPayment(q) ==
    LET asked == request[q]
        o == OrderOf(asked.payment)
    IN  /\ asked.pc = "writing"
        /\ Goto(q, Idle)
        /\ CommitRows(asked)
        /\ IF asked.net > 0 /\ asked.was # "PAID"
           THEN /\ SellRows(Sellable(asked.rows))
                /\ order' = [order EXCEPT ![o] = "PAID"]
                /\ paymentStatus' = [paymentStatus EXCEPT ![o] = "PAID"]
           ELSE UNCHANGED <<ledgerVars, order, paymentStatus>>
WriteLedgerUnguarded(q) ==
    LET asked == request[q]
        o == OrderOf(asked.payment)
    IN  /\ asked.pc = "writing"
        /\ Goto(q, Idle)
        /\ CommitRows(asked)
        /\ IF asked.net >= Total[o] /\ asked.was # "PAID"
           THEN /\ SellRows(asked.rows)
                /\ order' = [order EXCEPT ![o] = "PAID"]
                /\ paymentStatus' = [paymentStatus EXCEPT ![o] = "PAID"]
           ELSE UNCHANGED <<ledgerVars, order, paymentStatus>>
WriteLedgerOnlyUp(q) ==
    LET asked == request[q]
        o == OrderOf(asked.payment)
    IN  /\ asked.pc = "writing"
        /\ Goto(q, Idle)
        /\ CommitRows(asked)
        /\ IF asked.net >= Total[o] /\ asked.was # "PAID"
           THEN /\ SellRows(Sellable(asked.rows))
                /\ order' = [order EXCEPT ![o] = "PAID"]
                /\ paymentStatus' = [paymentStatus EXCEPT ![o] = "PAID"]
           ELSE /\ paymentStatus' = [paymentStatus EXCEPT ![o] =
                      IF asked.net > 0 /\ @ # "PAID" THEN "PARTIAL" ELSE @]
                /\ UNCHANGED <<ledgerVars, order>>

\* The writes, decided by what was read.
WriteLedger(q) ==
    LET asked == request[q]
        o == OrderOf(asked.payment)
    IN  /\ asked.pc = "writing"
        /\ Goto(q, Idle)
        /\ CommitRows(asked)
        /\ IF asked.net >= Total[o] /\ asked.was # "PAID"
           THEN /\ SellRows(Sellable(asked.rows))
                /\ order' = [order EXCEPT ![o] = "PAID"]
                /\ paymentStatus' = [paymentStatus EXCEPT ![o] = "PAID"]
           ELSE /\ paymentStatus' = [paymentStatus EXCEPT ![o] =
                      IF asked.net > 0 /\ asked.net < Total[o] THEN "PARTIAL"
                      ELSE IF asked.net <= 0 /\ asked.was # "PENDING" THEN "PENDING"
                      ELSE @]
                /\ UNCHANGED <<ledgerVars, order>>

-----------------------------------------------------------------------------
\* Mutant: refunds made before are not counted.
BeginRefundAgain(q, p, a, returnStock) ==
    /\ request[q] = Idle
    /\ payment[p] = "CONFIRMED"
    /\ a <= amount[p]
    /\ Goto(q, [pc |-> IF NetPaid(OrderOf(p)) - a <= 0 /\ returnStock
                       THEN "refunding" ELSE "applying",
                payment |-> p, refund |-> a])
    /\ UNCHANGED <<ledgerVars, order, paymentStatus, payment, amount, provider, refunded, crashes>>

\* refund: the checks.  Only a refund of the last of the money that also takes
\* the stock back goes through OrderService.refund.
BeginRefund(q, p, a, returnStock) ==
    /\ request[q] = Idle
    /\ payment[p] = "CONFIRMED"
    /\ a <= amount[p] - refunded[p]
    /\ Goto(q, [pc |-> IF NetPaid(OrderOf(p)) - a <= 0 /\ returnStock
                       THEN "refunding" ELSE "applying",
                payment |-> p, refund |-> a])
    /\ UNCHANGED <<ledgerVars, order, paymentStatus, payment, amount, provider, refunded, crashes>>

\* The reservations whose units a refund puts back.
Returnable(o) == {r \in Rows(o) : status[r] = "CONFIRMED"}

\* OrderService.refund, under the lock of the order: an order already refunded
\* is accepted, one that is not PAID is refused.
RefundOrder(q) ==
    LET o == OrderOf(request[q].payment)
        S == Returnable(o)
        recording == [pc |-> "recording", payment |-> request[q].payment,
                      refund |-> request[q].refund]
    IN  /\ request[q].pc = "refunding"
        /\ \/ /\ order[o] = "REFUNDED"
              /\ Goto(q, recording)
              /\ UNCHANGED <<ledgerVars, order, paymentStatus>>
           \/ /\ order[o] # "REFUNDED"
              /\ paymentStatus[o] # "PAID" \/ \E s \in Stock : Held(quantity, S, s) > soldStock[s]
              /\ Goto(q, Idle)
              /\ UNCHANGED <<ledgerVars, order, paymentStatus>>
           \/ /\ order[o] # "REFUNDED"
              /\ paymentStatus[o] = "PAID"
              /\ \A s \in Stock : Held(quantity, S, s) <= soldStock[s]
              /\ RestockRows(S)
              /\ order' = [order EXCEPT ![o] = "REFUNDED"]
              /\ paymentStatus' = [paymentStatus EXCEPT ![o] = "REFUNDED"]
              /\ Goto(q, recording)
        /\ UNCHANGED <<payment, amount, provider, refunded, crashes>>

\* The refund row of a fully refunded order, in a transaction of its own.
RecordRefund(q) ==
    /\ request[q].pc = "recording"
    /\ refunded' = [refunded EXCEPT ![request[q].payment] = @ + request[q].refund]
    /\ Goto(q, Idle)
    /\ UNCHANGED <<ledgerVars, order, paymentStatus, payment, amount, provider, crashes>>

CrashRequest(q) ==
    /\ crashes < MaxCrashes
    /\ request[q] # Idle
    /\ crashes' = crashes + 1
    /\ Goto(q, Idle)
    /\ UNCHANGED <<ledgerVars, order, paymentStatus, payment, amount, provider, refunded>>

-----------------------------------------------------------------------------
\* PosOrdersService.cancel and OrderService.cancel.
Cancel(o) ==
    /\ "cancel" \in Meanwhile
    /\ order[o] \notin {"CANCELLED", "PAID", "REFUNDED"}
    /\ paymentStatus[o] # "PAID"
    /\ \A s \in Stock : Held(quantity, LiveRows(o), s) <= reservedStock[s]
    /\ CloseRows(LiveRows(o), "RELEASED")
    /\ order' = [order EXCEPT ![o] = "CANCELLED"]
    /\ UNCHANGED <<paymentStatus, payment, amount, provider, refunded, request, crashes>>

\* Mutant: the stock goes back, the reservations stay as they are.
ExpireStockOnly(o) ==
    /\ "expire" \in Meanwhile
    /\ LiveRows(o) # {}
    /\ \A s \in Stock : Held(quantity, LiveRows(o), s) <= reservedStock[s]
    /\ reservedStock' = [s \in Stock |-> reservedStock[s] - Held(quantity, LiveRows(o), s)]
    /\ UNCHANGED <<totalStock, soldStock, status, quantity, returned, posVars>>

\* The expiry worker, after the six hours a counter order is held: the stock
\* goes back, and only an order nobody has paid anything for expires.
Expire(o) ==
    /\ "expire" \in Meanwhile
    /\ LiveRows(o) # {}
    /\ \A s \in Stock : Held(quantity, LiveRows(o), s) <= reservedStock[s]
    /\ CloseRows(LiveRows(o), "EXPIRED")
    /\ order' = [order EXCEPT ![o] =
          IF @ = "PENDING_PAYMENT" /\ paymentStatus[o] = "PENDING" THEN "EXPIRED" ELSE @]
    /\ UNCHANGED <<paymentStatus, payment, amount, provider, refunded, request, crashes>>

PosNext ==
    \/ \E q \in Request :
          \/ \E o \in Checkout, t \in Tender, a \in Amount : Create(q, o, t, a)
          \/ \E p \in Payment : Poll(q, p)
          \/ \E p \in Payment, a \in Amount, returnStock \in BOOLEAN :
                BeginRefund(q, p, a, returnStock)
          \/ Insert(q) \/ ReadLedger(q) \/ WriteLedger(q)
          \/ RefundOrder(q) \/ RecordRefund(q) \/ CrashRequest(q)
    \/ \E o \in Checkout : Cancel(o) \/ Expire(o)

PosSpec == PosInit /\ [][PosNext]_posPaymentVars

-----------------------------------------------------------------------------
\* Whatever requests overlap or die: an order that was ever PAID, and stock
\* that was ever sold, is covered by confirmed payments (the check of
\* applyPaymentStatusFromLedger and the reservations it confirms).
SoldIsCovered ==
    /\ \A o \in Checkout : paymentStatus[o] \in {"PAID", "REFUNDED"} => Paid(o) >= Total[o]
    /\ \A r \in WithStatus("CONFIRMED") : Paid(r[1]) >= Total[r[1]]

\* Between requests the payment status says what the ledger says: PAID when the
\* net amount covers the total, PARTIAL when it covers some, PENDING or
\* REFUNDED when it covers none (applyPaymentStatusFromLedger).
StatusFollowsLedger ==
    (\A q \in Request : request[q] = Idle) =>
        \A o \in Checkout :
           paymentStatus[o] \in IF NetPaid(o) >= Total[o] THEN {"PAID"}
                                ELSE IF NetPaid(o) > 0 THEN {"PARTIAL"}
                                ELSE {"PENDING", "REFUNDED"}

\* Nobody pays more than the order costs (the check of the remaining balance).
NeverOverpaid == \A o \in Checkout : NetPaid(o) <= Total[o]

\* No payment is refunded beyond its amount (the check of the refundable balance).
RefundsWithinPayments == \A p \in Payment : refunded[p] <= amount[p]
=============================================================================
