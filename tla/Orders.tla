------------------------------- MODULE Orders -------------------------------
(***************************************************************************)
(* Checkout sessions of the website and the orders made from them.         *)
(*                                                                         *)
(* Creating a session is three steps: the session row, the reservation,    *)
(* the stock alerts; an error in the second or third deletes the session   *)
(* row again.  Confirming a session holds the row lock of the session but  *)
(* reads the reservations without the locks of the stock items, so it is   *)
(* two steps.  The other handlers decide and write under the locks of what *)
(* they write and are one step each.                                       *)
(***************************************************************************)
EXTENDS Inventory

CONSTANT Manual   \* which stock endpoints staff use: of {"adjust", "release"}

VARIABLES
    cart,           \* the quantity of each stock item the session asks for; a
                    \* session of NON_STOCKED products only asks for none
    deadline,       \* CheckoutSession.expiresAt
    phase,          \* where CheckoutService.create is; "ready": the client has
                    \* the token, "gone": nobody ever will
    confirming,     \* sessions whose confirmation read and did not write yet
    paymentStatus,  \* Order.paymentStatus
    linked          \* reservations whose orderId is the order of their checkout

orderVars == <<cart, deadline, phase, confirming, paymentStatus, linked>>
stockAside == <<safetyBuffer, expiresAt, now, workerVars, owed>>

Rows(c) == {r \in Reservation : r[1] = c /\ status[r] # "NONE"}
Linked(c) == {r \in linked : r[1] = c}
Live(S) == S \cap WithStatus("ACTIVE")

OrdersTypeOK ==
    /\ InventoryTypeOK
    /\ \A c \in Checkout : DOMAIN cart[c] \subseteq Stock
    /\ deadline \in [Checkout -> Nat]
    /\ phase \in [Checkout -> {"new", "opening", "alerting", "ready", "gone"}]
    /\ confirming \subseteq Checkout
    /\ paymentStatus \in [Checkout -> {"PENDING", "PAID", "FAILED", "REFUNDED"}]
    /\ linked \subseteq Reservation

OrdersInit ==
    /\ InventoryInit
    /\ session = [c \in Checkout |-> "NONE"]
    /\ order = [c \in Checkout |-> "NONE"]
    /\ cart = [c \in Checkout |-> <<>>]
    /\ deadline = [c \in Checkout |-> 0]
    /\ phase = [c \in Checkout |-> "new"]
    /\ confirming = {}
    /\ paymentStatus = [c \in Checkout |-> "PENDING"]
    /\ linked = {}

-----------------------------------------------------------------------------
\* CheckoutService.create
OpenSession(c, want, t) ==
    /\ phase[c] = "new"
    /\ phase' = [phase EXCEPT ![c] = "opening"]
    /\ session' = [session EXCEPT ![c] = "ACTIVE"]
    /\ cart' = [cart EXCEPT ![c] = want]
    /\ deadline' = [deadline EXCEPT ![c] = now + t]
    /\ UNCHANGED <<ledgerVars, stockAside, order, crashes, confirming, paymentStatus, linked>>

ReserveCart(c) ==
    /\ phase[c] = "opening"
    /\ ReserveCheckout(c, cart[c], "WEBSITE", deadline[c] - now)
    /\ phase' = [phase EXCEPT ![c] = "alerting"]
    /\ UNCHANGED <<cart, deadline, confirming, paymentStatus, linked>>

\* No stock, or an error of the database or of the stock alerts, which run
\* after the reservation has committed: the session row goes, the rest stays.
DeleteSession(c) ==
    /\ phase[c] \in {"opening", "alerting"}
    /\ phase' = [phase EXCEPT ![c] = "gone"]
    /\ session' = [session EXCEPT ![c] = "DELETED"]
    /\ UNCHANGED <<ledgerVars, stockAside, order, crashes, cart, deadline, confirming,
                   paymentStatus, linked>>

HandOutToken(c) ==
    /\ phase[c] = "alerting"
    /\ phase' = [phase EXCEPT ![c] = "ready"]
    /\ UNCHANGED <<ledgerVars, stockAside, session, order, crashes, cart, deadline,
                   confirming, paymentStatus, linked>>

\* The process dies in CheckoutService.create or in OrderService.confirmCheckout.
CrashCheckout(c) ==
    /\ crashes < MaxCrashes
    /\ crashes' = crashes + 1
    /\ \/ /\ phase[c] \in {"opening", "alerting"}
          /\ phase' = [phase EXCEPT ![c] = "gone"]
          /\ UNCHANGED confirming
       \/ /\ c \in confirming
          /\ confirming' = confirming \ {c}
          /\ UNCHANGED phase
    /\ UNCHANGED <<ledgerVars, stockAside, session, order, cart, deadline, paymentStatus, linked>>

-----------------------------------------------------------------------------
\* releaseReservations: the rows in S that are still live give their stock back.
ReleaseReservations(S, st) ==
    /\ \A s \in Stock : Held(quantity, Live(S), s) <= reservedStock[s]
    /\ CloseRows(Live(S), st)

\* The client has its token and nobody holds the row lock of the session.
Reachable(c) == phase[c] = "ready" /\ c \notin confirming

\* confirmCheckout finds the session too late, or not all of its reservations.
Lapsed(c) ==
    \/ deadline[c] <= now
    \/ Rows(c) # {c} \X DOMAIN cart[c]
    \/ \E r \in Rows(c) : status[r] # "ACTIVE" \/ expiresAt[r] <= now

ExpireSession(c) ==
    /\ ReleaseReservations(Rows(c), "EXPIRED")
    /\ session' = [session EXCEPT ![c] = "EXPIRED"]
    /\ UNCHANGED <<stockAside, order, crashes, orderVars>>

ConfirmLapsed(c) ==
    /\ Reachable(c)
    /\ session[c] = "ACTIVE"
    /\ Lapsed(c)
    /\ ExpireSession(c)

BeginConfirm(c) ==
    /\ Reachable(c)
    /\ session[c] = "ACTIVE"
    /\ ~Lapsed(c)
    /\ confirming' = confirming \cup {c}
    /\ UNCHANGED <<ledgerVars, stockAside, session, order, crashes, cart, deadline, phase,
                   paymentStatus, linked>>

CommitConfirm(c) ==
    /\ c \in confirming
    /\ confirming' = confirming \ {c}
    /\ session' = [session EXCEPT ![c] = "CONFIRMED"]
    /\ order' = [order EXCEPT ![c] = "PENDING_PAYMENT"]
    /\ linked' = linked \cup Live(Rows(c))
    /\ UNCHANGED <<ledgerVars, stockAside, crashes, cart, deadline, phase, paymentStatus>>

\* CheckoutService.findOne expires the session it shows.
ViewCheckout(c) ==
    /\ Reachable(c)
    /\ session[c] = "ACTIVE"
    /\ deadline[c] <= now
    /\ ExpireSession(c)

\* The customer cancels; the order, if there is one, follows unless it is paid.
CancelCheckout(c) ==
    /\ Reachable(c)
    /\ session[c] \in {"ACTIVE", "CONFIRMED"}
    /\ paymentStatus[c] # "PAID"
    /\ ReleaseReservations(Rows(c), "RELEASED")
    /\ session' = [session EXCEPT ![c] = "CANCELLED"]
    /\ order' = [order EXCEPT ![c] = IF @ = "NONE" THEN @ ELSE "CANCELLED"]
    /\ UNCHANGED <<stockAside, crashes, orderVars>>

\* Staff cancel the order.
CancelOrder(c) ==
    /\ order[c] \notin {"NONE", "CANCELLED", "PAID", "REFUNDED", "COMPLETED", "FULFILLED"}
    /\ paymentStatus[c] # "PAID"
    /\ ReleaseReservations(Linked(c), "RELEASED")
    /\ order' = [order EXCEPT ![c] = "CANCELLED"]
    /\ session' = [session EXCEPT ![c] = "CANCELLED"]
    /\ UNCHANGED <<stockAside, crashes, orderVars>>

\* Staff refund the order; the stock comes back if the merchant wants it to.
RefundOrder(c, returnStock) ==
    LET S == IF returnStock THEN Linked(c) \cap WithStatus("CONFIRMED") ELSE {}
    IN  /\ order[c] # "REFUNDED"
        /\ paymentStatus[c] = "PAID"
        /\ \A s \in Stock : Held(quantity, S, s) <= soldStock[s]
        /\ RestockRows(S)
        /\ order' = [order EXCEPT ![c] = "REFUNDED"]
        /\ paymentStatus' = [paymentStatus EXCEPT ![c] = "REFUNDED"]
        /\ UNCHANGED <<stockAside, session, crashes, cart, deadline, phase, confirming, linked>>

\* order-status.ts: the only moves updateStatus accepts.
NextStatus == [PAID |-> "PROCESSING", PROCESSING |-> "FULFILLED", FULFILLED |-> "COMPLETED"]

UpdateStatus(c) ==
    /\ order[c] \in DOMAIN NextStatus
    /\ order' = [order EXCEPT ![c] = NextStatus[@]]
    /\ UNCHANGED <<ledgerVars, stockAside, session, crashes, orderVars>>

-----------------------------------------------------------------------------
\* The worker's last transaction waits for the sessions being confirmed.
ExpiryStep(w) ==
    /\ WorkerStep(w)
    /\ session' # session => confirming \cap changed[w] = {}
    /\ UNCHANGED orderVars

ManualStep ==
    /\ \/ "adjust" \in Manual /\ \E s \in Stock, d \in Delta : Adjust(s, d)
       \/ "release" \in Manual /\ \E r \in Reservation : Release(r)
    /\ UNCHANGED orderVars

OrdersStep ==
    \/ \E c \in Checkout :
          \/ \E W \in SUBSET Stock, t \in Lifetime :
                \E want \in [W -> Quantity] : OpenSession(c, want, t)
          \/ ReserveCart(c) \/ DeleteSession(c) \/ HandOutToken(c) \/ CrashCheckout(c)
          \/ ConfirmLapsed(c) \/ BeginConfirm(c) \/ CommitConfirm(c)
          \/ ViewCheckout(c) \/ CancelCheckout(c) \/ CancelOrder(c) \/ UpdateStatus(c)
          \/ \E returnStock \in BOOLEAN : RefundOrder(c, returnStock)
    \/ \E w \in Worker : ExpiryStep(w) \/ (Crash(w) /\ UNCHANGED orderVars)
    \/ ManualStep
    \/ Tick /\ UNCHANGED orderVars
=============================================================================
