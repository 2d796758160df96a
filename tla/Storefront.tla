----------------------------- MODULE Storefront -----------------------------
(***************************************************************************)
(* The whole website sale: stock, checkout, order and payment together.    *)
(*                                                                         *)
(* A payment is settled by a provider's report: a webhook, which a         *)
(* provider repeats until it is answered, or the answer to a KHQR status   *)
(* poll.  A report passes through several transactions (record the event,  *)
(* settle the payment, note a failure) and reports on the same payment     *)
(* run concurrently (Request) and may repeat, contradict or overtake each  *)
(* other.                                                                  *)
(***************************************************************************)
EXTENDS Orders

CONSTANTS Request,    \* reports being handled at the same time
          EventId,    \* the event ids the providers' webhooks use
          MaxIntents  \* bound: payments per order

ASSUME StorefrontAssumption ==
    /\ Manual \subseteq {"adjust", "release"}
    /\ MaxIntents \in Nat \ {0}
    /\ "khqr" \notin EventId

VARIABLES
    payment,  \* Payment.status
    event,    \* PaymentWebhookEvent.status
    request   \* what is done next about a report, and the report

paymentVars == <<payment, event, request>>
storefrontVars == <<vars, orderVars, paymentVars>>

Payment == Checkout \X (1 .. MaxIntents)
\* A poll always reports under the id "khqr:" and the reference of the payment.
Event == Payment \X (EventId \cup {"khqr"})
Verdict == {"CONFIRMED", "FAILED"}
Idle == [pc |-> "idle"]

PaymentsOf(c) == {p \in Payment : p[1] = c /\ payment[p] # "NONE"}
Open(p) == payment[p] = "PENDING"

StorefrontTypeOK ==
    /\ OrdersTypeOK
    /\ payment \in [Payment -> {"NONE", "PENDING", "CONFIRMED", "FAILED"}]
    /\ event \in [Event -> {"NONE", "RECEIVED", "PROCESSED", "FAILED"}]
    /\ \A q \in Request :
          \/ request[q] = Idle
          \/ request[q] \in [pc : {"reopening", "processing", "alerting", "logging"},
                             event : Event, verdict : Verdict]

StorefrontInit ==
    /\ OrdersInit
    /\ payment = [p \in Payment |-> "NONE"]
    /\ event = [e \in Event |-> "NONE"]
    /\ request = [q \in Request |-> Idle]

-----------------------------------------------------------------------------
\* createIntent: what an order must be, and how its stock must still be held.
Payable(c) ==
    /\ order[c] = "PENDING_PAYMENT"
    /\ paymentStatus[c] = "PENDING"
    /\ session[c] = "CONFIRMED"
    /\ Linked(c) # {}
    /\ \A r \in Linked(c) : status[r] = "ACTIVE" /\ expiresAt[r] > now

CreateIntent(c) ==
    /\ Payable(c)
    /\ \A p \in PaymentsOf(c) : ~Open(p)
    /\ \E n \in 1 .. MaxIntents :
          /\ PaymentsOf(c) = {c} \X (1 .. n - 1)
          /\ payment' = [payment EXCEPT ![<<c, n>>] = "PENDING"]
    /\ UNCHANGED <<vars, orderVars, event, request>>

-----------------------------------------------------------------------------
Goto(q, pc_) == request' = [request EXCEPT ![q].pc = pc_]
Done(q) == request' = [request EXCEPT ![q] = Idle]
Mark(e, st) == event' = [event EXCEPT ![e] = st]

\* createWebhookEvent: a new id is recorded and handled, a failed one handled
\* again, any other is a duplicate and answered without doing anything.  A poll
\* only reports payments it found pending, and only that they are confirmed.
Receive(q, e, v) ==
    /\ request[q] = Idle
    /\ payment[e[1]] # "NONE"
    /\ e[2] = "khqr" => Open(e[1]) /\ v = "CONFIRMED"
    /\ \/ /\ event[e] = "NONE"
          /\ Mark(e, "RECEIVED")
          /\ request' = [request EXCEPT ![q] =
                [pc |-> "processing", event |-> e, verdict |-> v]]
       \/ /\ event[e] = "FAILED"
          /\ request' = [request EXCEPT ![q] =
                [pc |-> "reopening", event |-> e, verdict |-> v]]
          /\ UNCHANGED event
    /\ UNCHANGED <<vars, orderVars, payment>>

\* The failed event is written back to RECEIVED whatever it is by now.
Reopen(q) ==
    /\ request[q].pc = "reopening"
    /\ Mark(request[q].event, "RECEIVED")
    /\ Goto(q, "processing")
    /\ UNCHANGED <<vars, orderVars, payment>>

\* A webhook syncs the stock alerts before it answers, a poll does not.
Settled(q) ==
    /\ Mark(request[q].event, "PROCESSED")
    /\ IF request[q].event[2] = "khqr" THEN Done(q) ELSE Goto(q, "alerting")

\* The payment already is what the report says: only the event is marked.
AlreadySettled(q) ==
    /\ request[q].pc = "processing"
    /\ payment[request[q].event[1]] = request[q].verdict
    /\ Settled(q)
    /\ UNCHANGED <<vars, orderVars, payment>>

\* Mutants of ConfirmPayment: a payment that is already confirmed is applied
\* again; the order is not looked at; its paymentStatus is not written.
ConfirmPaymentAgain(q) ==
    LET p == request[q].event[1]
        c == p[1]
    IN  /\ request[q].pc = "processing"
        /\ request[q].verdict = "CONFIRMED"
        /\ payment[p] = "CONFIRMED" \/ Open(p)
        /\ Linked(c) # {}
        /\ \A r \in Linked(c) : status[r] \in {"ACTIVE", "CONFIRMED"}
        /\ SellRows(Linked(c))
        /\ payment' = [payment EXCEPT ![p] = "CONFIRMED"]
        /\ order' = [order EXCEPT ![c] = "PAID"]
        /\ paymentStatus' = [paymentStatus EXCEPT ![c] = "PAID"]
        /\ Settled(q)
        /\ UNCHANGED <<stockAside, session, crashes, cart, deadline, phase, confirming, linked>>
ConfirmPaymentOfAnyOrder(q) ==
    LET p == request[q].event[1]
        c == p[1]
    IN  /\ request[q].pc = "processing"
        /\ request[q].verdict = "CONFIRMED"
        /\ Open(p)
        /\ SellRows(Live(Linked(c)))
        /\ payment' = [payment EXCEPT ![p] = "CONFIRMED"]
        /\ order' = [order EXCEPT ![c] = "PAID"]
        /\ paymentStatus' = [paymentStatus EXCEPT ![c] = "PAID"]
        /\ Settled(q)
        /\ UNCHANGED <<stockAside, session, crashes, cart, deadline, phase, confirming, linked>>
ConfirmPaymentHalf(q) ==
    LET p == request[q].event[1]
        c == p[1]
    IN  /\ request[q].pc = "processing"
        /\ request[q].verdict = "CONFIRMED"
        /\ Open(p)
        /\ order[c] = "PENDING_PAYMENT"
        /\ Linked(c) # {}
        /\ \A r \in Linked(c) : status[r] = "ACTIVE" /\ expiresAt[r] > now
        /\ SellRows(Linked(c))
        /\ payment' = [payment EXCEPT ![p] = "CONFIRMED"]
        /\ order' = [order EXCEPT ![c] = "PAID"]
        /\ Settled(q)
        /\ UNCHANGED <<stockAside, session, crashes, orderVars>>

\* confirmPayment
ConfirmPayment(q) ==
    LET p == request[q].event[1]
        c == p[1]
    IN  /\ request[q].pc = "processing"
        /\ request[q].verdict = "CONFIRMED"
        /\ Open(p)
        /\ order[c] = "PENDING_PAYMENT"
        /\ paymentStatus[c] = "PENDING"
        /\ Linked(c) # {}
        /\ \A r \in Linked(c) : status[r] = "ACTIVE" /\ expiresAt[r] > now
        /\ \A s \in Stock : Held(quantity, Linked(c), s) <= reservedStock[s]
        /\ SellRows(Linked(c))
        /\ payment' = [payment EXCEPT ![p] = "CONFIRMED"]
        /\ order' = [order EXCEPT ![c] = "PAID"]
        /\ paymentStatus' = [paymentStatus EXCEPT ![c] = "PAID"]
        /\ Settled(q)
        /\ UNCHANGED <<stockAside, session, crashes, cart, deadline, phase, confirming, linked>>

\* Mutant: the reservations of the order stay live.
FailPaymentOnly(q) ==
    LET p == request[q].event[1]
        c == p[1]
    IN  /\ request[q].pc = "processing"
        /\ request[q].verdict = "FAILED"
        /\ Open(p)
        /\ payment' = [payment EXCEPT ![p] = "FAILED"]
        /\ order' = [order EXCEPT ![c] = "PAYMENT_FAILED"]
        /\ paymentStatus' = [paymentStatus EXCEPT ![c] = "FAILED"]
        /\ session' = [session EXCEPT ![c] = "CANCELLED"]
        /\ Settled(q)
        /\ UNCHANGED <<ledgerVars, stockAside, crashes, cart, deadline, phase, confirming, linked>>

\* Mutant: a payment that was confirmed can still fail.
FailPaymentAnyTime(q) ==
    LET p == request[q].event[1]
        c == p[1]
    IN  /\ request[q].pc = "processing"
        /\ request[q].verdict = "FAILED"
        /\ ReleaseReservations(Linked(c), "RELEASED")
        /\ payment' = [payment EXCEPT ![p] = "FAILED"]
        /\ order' = [order EXCEPT ![c] = "PAYMENT_FAILED"]
        /\ paymentStatus' = [paymentStatus EXCEPT ![c] = "FAILED"]
        /\ session' = [session EXCEPT ![c] = "CANCELLED"]
        /\ Settled(q)
        /\ UNCHANGED <<stockAside, crashes, cart, deadline, phase, confirming, linked>>

\* failPayment does not look at the status of the order.
FailPayment(q) ==
    LET p == request[q].event[1]
        c == p[1]
    IN  /\ request[q].pc = "processing"
        /\ request[q].verdict = "FAILED"
        /\ Open(p)
        /\ ReleaseReservations(Linked(c), "RELEASED")
        /\ payment' = [payment EXCEPT ![p] = "FAILED"]
        /\ order' = [order EXCEPT ![c] = "PAYMENT_FAILED"]
        /\ paymentStatus' = [paymentStatus EXCEPT ![c] = "FAILED"]
        /\ session' = [session EXCEPT ![c] = "CANCELLED"]
        /\ Settled(q)
        /\ UNCHANGED <<stockAside, crashes, cart, deadline, phase, confirming, linked>>

\* Mutant: a failure is not noted.
ThrowSilently(q) ==
    /\ request[q].pc \in {"processing", "alerting"}
    /\ Done(q)
    /\ UNCHANGED <<vars, orderVars, payment, event>>

\* The payment or its order does not allow what the report says, or the
\* database or the stock alerts fail: a webhook notes the failure, a poll does
\* not and leaves its event as it is.
Throw(q) ==
    /\ request[q].pc \in {"processing", "alerting"}
    /\ IF request[q].event[2] = "khqr" THEN Done(q) ELSE Goto(q, "logging")
    /\ UNCHANGED <<vars, orderVars, payment, event>>

LogProcessingFailure(q) ==
    /\ request[q].pc = "logging"
    /\ Mark(request[q].event, "FAILED")
    /\ Done(q)
    /\ UNCHANGED <<vars, orderVars, payment>>

Answer(q) ==
    /\ request[q].pc = "alerting"
    /\ Done(q)
    /\ UNCHANGED <<vars, orderVars, payment, event>>

\* The process dies while it handles the report.
CrashRequest(q) ==
    /\ crashes < MaxCrashes
    /\ request[q] # Idle
    /\ crashes' = crashes + 1
    /\ Done(q)
    /\ UNCHANGED <<ledgerVars, stockAside, session, order, orderVars, payment, event>>

-----------------------------------------------------------------------------
ReportStep(q) ==
    \/ \E e \in Event, v \in Verdict : Receive(q, e, v)
    \/ Reopen(q)
    \/ AlreadySettled(q) \/ ConfirmPayment(q) \/ FailPayment(q)
    \/ Throw(q)
    \/ LogProcessingFailure(q)
    \/ Answer(q)
    \/ CrashRequest(q)

StorefrontNext ==
    \/ OrdersStep /\ UNCHANGED paymentVars
    \/ \E c \in Checkout : CreateIntent(c)
    \/ \E q \in Request : ReportStep(q)

StorefrontSpec == StorefrontInit /\ [][StorefrontNext]_storefrontVars

-----------------------------------------------------------------------------
\* Stock and money go together.  A paid order has sold every tracked item of its
\* cart, not only those whose reservation happened to be linked to it
\* (confirmCheckout reads the reservations before, confirmPayment the linked ones
\* after), and stock is sold only to orders somebody paid: no race of a late
\* webhook with an expiry or a cancellation leaves units sold without the money.
SoldIffPaid ==
    /\ \A c \in Checkout : paymentStatus[c] = "PAID" =>
          \A s \in DOMAIN cart[c] : status[<<c, s>>] = "CONFIRMED"
    /\ \A r \in WithStatus("CONFIRMED") : paymentStatus[r[1]] \in {"PAID", "REFUNDED"}

\* An order counts as paid exactly when one of its payments is confirmed, and
\* never two, however often reports are repeated or handled at once.
PaidOnce ==
    \A c \in Checkout :
        LET confirmed == {p \in PaymentsOf(c) : payment[p] = "CONFIRMED"}
        IN  Cardinality(confirmed) =
               IF paymentStatus[c] \in {"PAID", "REFUNDED"} THEN 1 ELSE 0

\* A session or an order that was cancelled, or whose payment failed, holds no
\* stock, whichever of the handlers ended it and whatever it raced with.
CancelledHoldsNothing ==
    \A c \in Checkout :
        session[c] = "CANCELLED" \/ order[c] \in {"CANCELLED", "PAYMENT_FAILED"}
           => Live(Rows(c)) = {}

\* What was decided about an order stays decided, whatever late reports, staff
\* and timers still do to it: a paid order becomes refunded and nothing else, a
\* refunded one stays so, and one that ended unpaid is never paid or worked on.
OutcomesAreFinal ==
    [][\A c \in Checkout :
          /\ paymentStatus[c] = "PAID" => paymentStatus'[c] \in {"PAID", "REFUNDED"}
          /\ paymentStatus[c] = "REFUNDED" => paymentStatus'[c] = "REFUNDED"
          /\ order[c] \in {"CANCELLED", "EXPIRED", "PAYMENT_FAILED"} =>
                order'[c] \in {"CANCELLED", "EXPIRED", "PAYMENT_FAILED"}]_storefrontVars

\* A provider that repeats its report is neither answered "duplicate" for ever
\* nor told that a lost report was handled: as long as no process dies, the event
\* of a webhook is RECEIVED only while some request is still at work on it, and an
\* event is PROCESSED only when the payment is settled.
EventsSettle ==
    \A e \in Event :
        /\ crashes = 0 /\ e[2] # "khqr" /\ event[e] = "RECEIVED" =>
              \E q \in Request : request[q] # Idle /\ request[q].event = e
        /\ event[e] = "PROCESSED" => payment[e[1]] \in Verdict
=============================================================================
