-------------------------- MODULE StorefrontProofs --------------------------
(***************************************************************************)
(* The stock engine and the website that sells through it, proved for any  *)
(* number of customers, stock items, payments, reports handled at the same *)
(* time, overlapping workers and crashes, in three parts:                  *)
(*                                                                         *)
(*   1. the inventory service implements the contract of the stock engine; *)
(*   2. the whole website sale does, pays an order once, never takes a     *)
(*      decided outcome back and settles its events;                       *)
(*   3. stock and orders end together: what was cancelled holds nothing, a *)
(*      paid order has sold every line of its cart, and nothing is sold    *)
(*      without the money.                                                 *)
(***************************************************************************)
EXTENDS Storefront, StockLedgerProofs

-----------------------------------------------------------------------------
(* 1. The inventory service                                                *)
-----------------------------------------------------------------------------

\* Closing the overdue reservations of all lines closes, for each of them, its
\* own: what Sellable computes per line is what the whole transaction leaves.
LEMMA HeldByLines ==
    ASSUME InventoryTypeOK, NEW W \in SUBSET Stock, NEW s \in W
    PROVE  Held(quantity, UNION {DueAt(x) : x \in W}, s) = Held(quantity, DueAt(s), s)
<1>1. {x \in UNION {DueAt(y) : y \in W} : x[2] = s} = {x \in DueAt(s) : x[2] = s}
  BY DEF DueAt
<1> QED
  BY <1>1 DEF Held, Units

\* A website or counter reservation keeps the contract: the stock it checks per
\* line is stock that is free once the overdue reservations are closed.
LEMMA ReserveKeepsContract ==
    ASSUME InventoryTypeOK, NEW c \in Checkout, NEW W \in SUBSET Stock,
           NEW want \in [W -> Quantity], NEW channel, NEW t,
           ReserveCheckout(c, want, channel, t)
    PROVE  LedgerNext
<1> DEFINE fresh == {s \in W : status[<<c, s>>] = "NONE"}
           line == [s \in fresh |-> want[s]]
           D == UNION {DueAt(s) : s \in W}
<1>1. D \in SUBSET WithStatus("ACTIVE")
  BY DEF DueAt, Due, WithStatus
<1>2. fresh \in SUBSET Stock /\ line \in [fresh -> Quantity] /\ DOMAIN want = W
  OBVIOUS
<1>3. BookRows(c, line, D) /\ \A s \in fresh : want[s] <= Sellable(s, channel)
  BY <1>2 DEF ReserveCheckout
<1>4. ASSUME NEW s \in fresh
      PROVE  line[s] <= totalStock[s] - soldStock[s] - (reservedStock[s] - Held(quantity, D, s))
  <2> DEFINE h == Held(quantity, DueAt(s), s)
             free == totalStock[s] - soldStock[s] - (reservedStock[s] - h)
             kept == IF channel = "POS" THEN 0 ELSE safetyBuffer[s]
  <2>1. h \in Nat
    BY HeldType DEF DueAt, InventoryTypeOK, LedgerTypeOK, Quantities
  <2>2. free \in Int /\ kept \in Nat
    BY <2>1 DEF InventoryTypeOK, LedgerTypeOK
  <2>3. want[s] \in Nat \ {0}
    BY LedgerAssumption
  <2>4. want[s] <= (IF free > kept THEN free - kept ELSE 0)
    BY <1>3 DEF Sellable
  <2> HIDE DEF free, kept
  <2>5. want[s] <= free
    BY <2>2, <2>3, <2>4
  <2>6. Held(quantity, D, s) = h
    BY HeldByLines
  <2> QED
    BY <2>5, <2>6 DEF free
<1>5. Book(c, line, D)
  BY <1>1, <1>3, <1>4 DEF Book
<1> HIDE DEF fresh, line, D
<1> QED
  BY <1>1, <1>2, <1>5 DEF LedgerNext

LEMMA CompleteKeepsContract ==
    ASSUME NEW r \in Reservation, Release(r) \/ Confirm(r) \/ ConfirmTooLate(r)
    PROVE  LedgerNext
<1>1. {r} \in SUBSET WithStatus("ACTIVE")
  BY DEF Release, Confirm, ConfirmTooLate, Due, WithStatus
<1>2. Close({r}, "RELEASED") \/ Close({r}, "EXPIRED") \/ Sell({r})
  BY <1>1 DEF Release, Confirm, ConfirmTooLate, Close, Sell
<1> QED
  BY <1>1, <1>2 DEF LedgerNext

LEMMA WorkerKeepsContract ==
    ASSUME InventoryTypeOK, NEW w \in Worker, WorkerStep(w) \/ Crash(w)
    PROVE  [LedgerNext]_ledgerVars
<1>1. CASE WorkerExpire(w) /\ ledgerVars' # ledgerVars
  <2>1. {picked[w]} \in SUBSET WithStatus("ACTIVE")
    BY <1>1 DEF WorkerExpire, WithStatus, InventoryTypeOK
  <2>2. Close({picked[w]}, "EXPIRED")
    BY <1>1, <2>1 DEF WorkerExpire, Close
  <2> QED
    BY <2>1, <2>2 DEF LedgerNext
<1> QED
  BY <1>1 DEF WorkerStep, WorkerList, WorkerRead, WorkerFinish, Crash

\* Every step of the service is one transaction on the ledger, or none.
LEMMA InventoryStepIsLedgerStep ==
    InventoryTypeOK /\ [Next]_vars => [LedgerNext]_ledgerVars
<1> SUFFICES ASSUME InventoryTypeOK, [Next]_vars PROVE [LedgerNext]_ledgerVars
  OBVIOUS
<1>1. ASSUME NEW s \in Stock, NEW d \in Delta, Adjust(s, d)
      PROVE  LedgerNext
  BY <1>1 DEF Adjust, LedgerNext
<1>2. ASSUME NEW c \in Checkout, NEW W \in SUBSET Stock, NEW channel \in Channel,
             NEW t \in Lifetime, NEW want \in [W -> Quantity],
             ReserveCheckout(c, want, channel, t)
      PROVE  LedgerNext
  BY <1>2, ReserveKeepsContract
<1>3. ASSUME NEW c \in Checkout, ExpireOwed(c)
      PROVE  UNCHANGED ledgerVars
  BY <1>3 DEF ExpireOwed
<1>4. ASSUME Tick \/ UNCHANGED vars
      PROVE  UNCHANGED ledgerVars
  BY <1>4 DEF Tick, vars
<1> QED
  BY <1>1, <1>2, <1>3, <1>4, CompleteKeepsContract, WorkerKeepsContract DEF Next

LEMMA InventoryInitType == Init => InventoryTypeOK
<1> USE DEF InventoryTypeOK, SessionStatus, OrderStatus
<1> SUFFICES ASSUME Init PROVE InventoryTypeOK
  OBVIOUS
<1>1. LedgerTypeOK
  BY LedgerInitInv DEF Init, InventoryInit, LedgerInv
<1>2. safetyBuffer \in [Stock -> Nat]
  BY InventoryAssumption DEF Init, InventoryInit
<1>3. session \in [Checkout -> {"ACTIVE", "CONFIRMED", "EXPIRED"}]
  BY DEF Init
<1> QED
  BY <1>1, <1>2, <1>3, InventoryAssumption DEF Init, InventoryInit

LEMMA InventoryStepType == InventoryTypeOK /\ LedgerTypeOK' /\ [Next]_vars => InventoryTypeOK'
<1> USE DEF InventoryTypeOK, SessionStatus, OrderStatus
<1> SUFFICES ASSUME InventoryTypeOK, LedgerTypeOK', [Next]_vars PROVE InventoryTypeOK'
  OBVIOUS
<1>1. ASSUME NEW s \in Stock, NEW d \in Delta, Adjust(s, d)
      PROVE  InventoryTypeOK'
  <2>1. safetyBuffer' \in [Stock -> Nat]
    BY <1>1, InventoryAssumption DEF Adjust
  <2> QED
    BY <1>1, <2>1 DEF Adjust, workerVars
<1>2. ASSUME NEW c \in Checkout, NEW W \in SUBSET Stock, NEW channel \in Channel,
             NEW t \in Lifetime, NEW want \in [W -> Quantity],
             ReserveCheckout(c, want, channel, t)
      PROVE  InventoryTypeOK'
  <2>1. now + t \in Nat
    BY InventoryAssumption
  <2>2. expiresAt' \in [Reservation -> Nat]
    BY <1>2, <2>1 DEF ReserveCheckout
  <2> QED
    BY <1>2, <2>2 DEF ReserveCheckout, workerVars
<1>3. ASSUME NEW r \in Reservation, Release(r) \/ Confirm(r)
      PROVE  InventoryTypeOK'
  BY <1>3 DEF Release, Confirm, workerVars
<1>4. ASSUME NEW r \in Reservation, ConfirmTooLate(r)
      PROVE  InventoryTypeOK'
  BY <1>4 DEF ConfirmTooLate, workerVars, Reservation
<1>5. ASSUME NEW c \in Checkout, ExpireOwed(c)
      PROVE  InventoryTypeOK'
  BY <1>5 DEF ExpireOwed, ExpireCheckoutStates, workerVars, ledgerVars
<1>6. ASSUME NEW w \in Worker, WorkerList(w)
      PROVE  InventoryTypeOK'
  BY <1>6 DEF WorkerList, ledgerVars
<1>7. ASSUME NEW w \in Worker, NEW r \in Reservation, WorkerRead(w, r)
      PROVE  InventoryTypeOK'
  BY <1>7 DEF WorkerRead, ledgerVars
<1>8. ASSUME NEW w \in Worker, WorkerExpire(w)
      PROVE  InventoryTypeOK'
  <2>1. picked[w] \in Reservation
    BY <1>8 DEF WorkerExpire
  <2> QED
    BY <1>8, <2>1 DEF WorkerExpire, Reservation
<1>9. ASSUME NEW w \in Worker, WorkerFinish(w)
      PROVE  InventoryTypeOK'
  BY <1>9 DEF WorkerFinish, ExpireCheckoutStates, ledgerVars
<1>10. ASSUME NEW w \in Worker, Crash(w)
      PROVE  InventoryTypeOK'
  BY <1>10 DEF Crash, ledgerVars
<1>11. CASE Tick
  BY <1>11, InventoryAssumption DEF Tick, workerVars, ledgerVars
<1>12. CASE UNCHANGED vars
  BY <1>12 DEF vars, workerVars, ledgerVars
<1> QED
  BY <1>1, <1>2, <1>3, <1>4, <1>5, <1>6, <1>7, <1>8, <1>9, <1>10, <1>11, <1>12
     DEF Next, WorkerStep

\* Both halves of the induction together: the types make a step of the service
\* a step of the ledger, and that keeps the ledger's invariant.
LEMMA InventoryInvariant == Spec => [](InventoryTypeOK /\ LedgerInv)
<1>1. Init => InventoryTypeOK /\ LedgerInv
  BY InventoryInitType, LedgerInitInv DEF Init, InventoryInit
<1>2. InventoryTypeOK /\ LedgerInv /\ [Next]_vars => InventoryTypeOK' /\ LedgerInv'
  <2> SUFFICES ASSUME InventoryTypeOK, LedgerInv, [Next]_vars
               PROVE  InventoryTypeOK' /\ LedgerInv'
    OBVIOUS
  <2>1. LedgerInv'
    BY InventoryStepIsLedgerStep, LedgerStepInv
  <2>2. LedgerTypeOK'
    BY <2>1 DEF LedgerInv
  <2> QED
    BY <2>1, <2>2, InventoryStepType
<1> QED
  BY <1>1, <1>2, PTL DEF Spec

\* Every variable of the service keeps its type; the ledger's part of it rests
\* on the balances: reservedStock never goes below zero.
THEOREM InventoryTypeCorrect == Spec => []InventoryTypeOK
BY InventoryInvariant, PTL

\* The detailed service implements the stock engine's contract.
THEOREM InventoryImplementsLedger == Spec => LedgerSpec
<1>1. Init => LedgerInit
  BY DEF Init, InventoryInit
<1> QED
  BY <1>1, InventoryStepIsLedgerStep, InventoryTypeCorrect, PTL DEF Spec, LedgerSpec

\* No oversell and balances that add up, in every reachable state of the
\* service (inventory.service.ts: reserveCheckout, completeReservation and the
\* expiry worker in any interleaving).
THEOREM InventoryNeverOversells == Spec => [](ReservedBalanced /\ SoldBalanced /\ NoOversell)
<1>1. LedgerInv => ReservedBalanced /\ SoldBalanced /\ NoOversell
  BY DEF LedgerInv
<1> QED
  BY <1>1, InventoryImplementsLedger, LedgerCorrect, PTL

\* A reservation that ended is never touched again, also not by a worker that
\* read it while it was live.
THEOREM InventoryReservationsEndOnce == Spec => ReservationsEndOnce
<1> DEFINE Ended == \A r \in Reservation :
                       status[r] \notin {"NONE", "ACTIVE"} =>
                          status'[r] = status[r] /\ quantity'[r] = quantity[r]
<1>1. LedgerNext => Ended
  <2> SUFFICES ASSUME LedgerNext PROVE Ended
    OBVIOUS
  <2>1. CASE \E s \in Stock, d \in Delta : AdjustTotal(s, d)
    BY <2>1 DEF AdjustTotal
  <2>2. ASSUME NEW c \in Checkout, NEW W \in SUBSET Stock,
               NEW D \in SUBSET WithStatus("ACTIVE"),
               NEW want \in [W -> Quantity], Book(c, want, D)
        PROVE  Ended
    <3>1. ASSUME NEW r \in Reservation, status[r] \notin {"NONE", "ACTIVE"}
          PROVE  status'[r] = status[r] /\ quantity'[r] = quantity[r]
      <4>1. r \notin D
        BY <3>1 DEF WithStatus
      <4>2. ~(r[1] = c /\ r[2] \in DOMAIN want)
        BY <2>2, <3>1 DEF Book, BookRows, Reservation
      <4> QED
        BY <2>2, <4>1, <4>2 DEF Book, BookRows
    <3> QED
      BY <3>1
  <2>3. CASE \E D \in SUBSET WithStatus("ACTIVE"), st \in {"RELEASED", "EXPIRED"} : Close(D, st)
    BY <2>3 DEF Close, CloseRows, WithStatus
  <2>4. CASE \E S \in SUBSET WithStatus("ACTIVE") : Sell(S)
    BY <2>4 DEF Sell, SellRows, WithStatus
  <2>5. CASE \E S \in SUBSET (WithStatus("CONFIRMED") \ returned) : Restock(S)
    BY <2>5 DEF Restock, RestockRows
  <2>6. ASSUME NEW R \in SUBSET WithStatus("ACTIVE"), NEW D \in SUBSET WithStatus("ACTIVE"),
               NEW new \in [R -> Quantity], Resize(new, D)
        PROVE  Ended
    <3>1. DOMAIN new = R
      OBVIOUS
    <3> QED
      BY <2>6, <3>1 DEF Resize, WithStatus
  <2> QED
    BY <2>1, <2>2, <2>3, <2>4, <2>5, <2>6 DEF LedgerNext
<1>2. UNCHANGED ledgerVars => Ended
  BY DEF ledgerVars
<1>3. InventoryTypeOK /\ [Next]_vars => [Ended]_vars
  BY <1>1, <1>2, InventoryStepIsLedgerStep
<1> QED
  BY <1>3, InventoryTypeCorrect, PTL DEF Spec, ReservationsEndOnce

-----------------------------------------------------------------------------
(* 2. Sessions, orders and payments                                        *)
-----------------------------------------------------------------------------

Sold == {"PAID", "PROCESSING", "FULFILLED", "COMPLETED"}

\* What a session asks for are lines of a cart.
CartsAreLines ==
    /\ DOMAIN cart = Checkout
    /\ \A c \in Checkout : cart[c] \in [DOMAIN cart[c] -> Quantity]

\* How far a checkout can be: there is no order before the session is confirmed.
CheckoutInOrder ==
    \A c \in Checkout :
        /\ phase[c] \in {"new", "opening", "alerting"} => order[c] = "NONE"
        /\ c \in confirming => phase[c] = "ready" /\ session[c] = "ACTIVE"
        /\ session[c] = "ACTIVE" => order[c] = "NONE"
        /\ order[c] = "NONE" =>
              paymentStatus[c] = "PENDING" /\ \A p \in Payment : p[1] = c => payment[p] = "NONE"

\* An open payment is the only one and belongs to an order nobody paid.
OpenIsUnpaid ==
    /\ \A p \in Payment : Open(p) => paymentStatus[p[1]] = "PENDING"
    /\ \A p, x \in Payment : p[1] = x[1] /\ Open(p) /\ Open(x) => p = x

\* A paid or refunded order has one confirmed payment, any other has none.
PaidByOne ==
    /\ \A p \in Payment : payment[p] = "CONFIRMED" => paymentStatus[p[1]] \in {"PAID", "REFUNDED"}
    /\ \A p, x \in Payment :
          p[1] = x[1] /\ payment[p] = "CONFIRMED" /\ payment[x] = "CONFIRMED" => p = x
    /\ \A c \in Checkout : paymentStatus[c] \in {"PAID", "REFUNDED"} =>
          \E p \in Payment : p[1] = c /\ payment[p] = "CONFIRMED"

\* An order is worked on while it is paid; only a refund puts sold units back.
PaidIsSold ==
    /\ \A c \in Checkout : paymentStatus[c] = "PAID" => order[c] \in Sold
    /\ \A r \in returned : paymentStatus[r[1]] = "REFUNDED"

SaleInv ==
    /\ CartsAreLines
    /\ CheckoutInOrder
    /\ OpenIsUnpaid
    /\ PaidByOne
    /\ PaidIsSold

-----------------------------------------------------------------------------
\* Closing live rows of some checkout keeps the contract.
LEMMA ReleaseKeepsContract ==
    ASSUME NEW S, NEW st \in {"RELEASED", "EXPIRED"}, ReleaseReservations(S, st)
    PROVE  LedgerNext
<1>1. Live(S) \in SUBSET WithStatus("ACTIVE")
  BY DEF Live
<1>2. Close(Live(S), st)
  BY <1>1 DEF ReleaseReservations, Close
<1> QED
  BY <1>1, <1>2 DEF LedgerNext

\* Every transaction of a checkout or an order keeps the contract; a refund does
\* because the units of an order that is still paid were not put back before.
LEMMA CheckoutKeepsContract ==
    ASSUME StorefrontTypeOK, SaleInv, OrdersStep
    PROVE  [LedgerNext]_ledgerVars
<1> USE DEF StorefrontTypeOK, OrdersTypeOK
<1>1. ASSUME NEW c \in Checkout, ReserveCart(c)
      PROVE  LedgerNext
  <2>1. DOMAIN cart[c] \in SUBSET Stock /\ cart[c] \in [DOMAIN cart[c] -> Quantity]
    BY DEF SaleInv, CartsAreLines
  <2> QED
    BY <1>1, <2>1, ReserveKeepsContract DEF ReserveCart
<1>2. ASSUME NEW c \in Checkout,
             ConfirmLapsed(c) \/ ViewCheckout(c) \/ CancelCheckout(c) \/ CancelOrder(c)
      PROVE  LedgerNext
  BY <1>2, ReleaseKeepsContract
  DEF ConfirmLapsed, ViewCheckout, ExpireSession, CancelCheckout, CancelOrder
<1>3. ASSUME NEW c \in Checkout, NEW returnStock \in BOOLEAN, RefundOrder(c, returnStock)
      PROVE  LedgerNext
  <2> DEFINE S == IF returnStock THEN Linked(c) \cap WithStatus("CONFIRMED") ELSE {}
  <2>1. S \in SUBSET (WithStatus("CONFIRMED") \ returned)
    BY <1>3 DEF RefundOrder, SaleInv, PaidIsSold, Linked
  <2>2. Restock(S)
    BY <1>3, <2>1 DEF RefundOrder, Restock
  <2> QED
    BY <2>1, <2>2 DEF LedgerNext
<1>4. ASSUME NEW w \in Worker, ExpiryStep(w) \/ Crash(w)
      PROVE  [LedgerNext]_ledgerVars
  BY <1>4, WorkerKeepsContract DEF ExpiryStep
<1>5. ASSUME ManualStep
      PROVE  LedgerNext
  BY <1>5, CompleteKeepsContract DEF ManualStep, Adjust, LedgerNext
<1>6. ASSUME NEW c \in Checkout, NEW want, NEW t,
             \/ OpenSession(c, want, t) \/ DeleteSession(c) \/ HandOutToken(c) \/ CrashCheckout(c)
             \/ BeginConfirm(c) \/ CommitConfirm(c) \/ UpdateStatus(c)
      PROVE  UNCHANGED ledgerVars
  BY <1>6 DEF OpenSession, DeleteSession, HandOutToken, CrashCheckout, BeginConfirm,
              CommitConfirm, UpdateStatus
<1>7. ASSUME Tick
      PROVE  UNCHANGED ledgerVars
  BY <1>7 DEF Tick
<1> QED
  BY <1>1, <1>2, <1>3, <1>4, <1>5, <1>6, <1>7 DEF OrdersStep

\* Every step of the website is one transaction on the ledger, or none.
LEMMA SaleKeepsContract ==
    ASSUME StorefrontTypeOK, SaleInv, [StorefrontNext]_storefrontVars
    PROVE  [LedgerNext]_ledgerVars
<1>1. ASSUME NEW q \in Request, ConfirmPayment(q)
      PROVE  LedgerNext
  <2> DEFINE S == Linked(request[q].event[1][1])
  <2>1. S \in SUBSET WithStatus("ACTIVE")
    BY <1>1 DEF ConfirmPayment, Linked, WithStatus, StorefrontTypeOK, OrdersTypeOK
  <2>2. Sell(S)
    BY <1>1, <2>1 DEF ConfirmPayment, Sell
  <2> QED
    BY <2>1, <2>2 DEF LedgerNext
<1>2. ASSUME NEW q \in Request, FailPayment(q)
      PROVE  LedgerNext
  BY <1>2, ReleaseKeepsContract DEF FailPayment
<1>3. ASSUME NEW q \in Request, ReportStep(q), ~ConfirmPayment(q), ~FailPayment(q)
      PROVE  UNCHANGED ledgerVars
  BY <1>3 DEF ReportStep, Receive, Reopen, AlreadySettled, Throw, LogProcessingFailure, Answer,
              CrashRequest, vars
<1>4. ASSUME NEW c \in Checkout, CreateIntent(c)
      PROVE  UNCHANGED ledgerVars
  BY <1>4 DEF CreateIntent, vars
<1>5. CASE UNCHANGED storefrontVars
  BY <1>5 DEF storefrontVars, vars
<1> QED
  BY <1>1, <1>2, <1>3, <1>4, <1>5, CheckoutKeepsContract DEF StorefrontNext

-----------------------------------------------------------------------------
\* The reports being handled are those of Request, and one is at work on every
\* event that is RECEIVED and not marked yet, unless a process died.
Handling(e) ==
    \E q \in Request : request[q].pc \in {"processing", "logging"} /\ request[q].event = e

EventsInv ==
    /\ DOMAIN request = Request
    /\ \A e \in Event : crashes = 0 /\ e[2] # "khqr" /\ event[e] = "RECEIVED" => Handling(e)
    /\ \A e \in Event : event[e] = "PROCESSED" => payment[e[1]] \in Verdict

StorefrontInv == StorefrontTypeOK /\ LedgerInv /\ SaleInv /\ EventsInv

\* The initial states satisfy the invariant.
LEMMA StorefrontInitInv == StorefrontInit => StorefrontInv
<1> SUFFICES ASSUME StorefrontInit PROVE StorefrontInv
  OBVIOUS
<1>1. InventoryInit
  BY DEF StorefrontInit, OrdersInit
<1> USE DEF StorefrontInit, OrdersInit
<1>2. InventoryTypeOK
  <2> HIDE DEF StorefrontInit, OrdersInit
  <2>1. safetyBuffer \in [Stock -> Nat]
    BY <1>1, InventoryAssumption DEF InventoryInit
  <2>2. session \in [Checkout -> SessionStatus] /\ order \in [Checkout -> OrderStatus]
    BY DEF StorefrontInit, OrdersInit, SessionStatus, OrderStatus
  <2>3. LedgerTypeOK
    BY <1>1, LedgerInitInv DEF InventoryInit, LedgerInv
  <2> QED
    BY <1>1, <2>1, <2>2, <2>3, InventoryAssumption DEF InventoryInit, InventoryTypeOK
<1>3. StorefrontTypeOK
  BY <1>2 DEF StorefrontTypeOK, OrdersTypeOK
<1>4. \A c \in Checkout : cart[c] \in [DOMAIN cart[c] -> Quantity]
  OBVIOUS
<1>5. CartsAreLines
  BY <1>4 DEF CartsAreLines
<1>6. CheckoutInOrder /\ OpenIsUnpaid /\ PaidByOne
  BY DEF CheckoutInOrder, OpenIsUnpaid, PaidByOne, Open, Payment
<1>7. PaidIsSold
  BY <1>1 DEF PaidIsSold, InventoryInit, LedgerInit
<1>8. EventsInv
  BY DEF EventsInv
<1>9. LedgerInv
  BY <1>1, LedgerInitInv DEF InventoryInit
<1> QED
  BY <1>9, <1>3, <1>5, <1>6, <1>7, <1>8 DEF StorefrontInv, SaleInv

\* A step of a checkout or an order keeps the types.
LEMMA CheckoutKeepsTypes ==
    ASSUME OrdersTypeOK, LedgerTypeOK', CartsAreLines, OrdersStep
    PROVE  OrdersTypeOK'
<1> USE DEF OrdersTypeOK, InventoryTypeOK, SessionStatus, OrderStatus
<1>1. ASSUME NEW c \in Checkout, NEW W \in SUBSET Stock, NEW t \in Lifetime,
             NEW want \in [W -> Quantity], OpenSession(c, want, t)
      PROVE  OrdersTypeOK'
  <2>1. now + t \in Nat
    BY InventoryAssumption
  <2>2. \A x \in Checkout : DOMAIN cart'[x] \in SUBSET Stock
    BY <1>1 DEF OpenSession, CartsAreLines
  <2> QED
    BY <1>1, <2>1, <2>2 DEF OpenSession, stockAside, workerVars
<1>2. ASSUME NEW c \in Checkout, ReserveCart(c)
      PROVE  OrdersTypeOK'
  <2>1. now + (deadline[c] - now) \in Nat
    BY InventoryAssumption
  <2>2. expiresAt' \in [Reservation -> Nat]
    BY <1>2, <2>1 DEF ReserveCart, ReserveCheckout
  <2> QED
    BY <1>2, <2>2 DEF ReserveCart, ReserveCheckout, workerVars
<1>3. ASSUME NEW c \in Checkout, DeleteSession(c) \/ HandOutToken(c)
      PROVE  OrdersTypeOK'
  BY <1>3 DEF DeleteSession, HandOutToken, stockAside, workerVars, ledgerVars
<1>4. ASSUME NEW c \in Checkout, CrashCheckout(c)
      PROVE  OrdersTypeOK'
  BY <1>4 DEF CrashCheckout, stockAside, workerVars, ledgerVars
<1>5. ASSUME NEW c \in Checkout, ConfirmLapsed(c) \/ ViewCheckout(c)
      PROVE  OrdersTypeOK'
  BY <1>5 DEF ConfirmLapsed, ViewCheckout, ExpireSession, stockAside, workerVars, orderVars
<1>6. ASSUME NEW c \in Checkout, BeginConfirm(c)
      PROVE  OrdersTypeOK'
  BY <1>6 DEF BeginConfirm, stockAside, workerVars, ledgerVars
<1>7. ASSUME NEW c \in Checkout, CommitConfirm(c)
      PROVE  OrdersTypeOK'
  BY <1>7 DEF CommitConfirm, stockAside, workerVars, ledgerVars, Rows, Live
<1>8. ASSUME NEW c \in Checkout, CancelCheckout(c) \/ CancelOrder(c)
      PROVE  OrdersTypeOK'
  BY <1>8 DEF CancelCheckout, CancelOrder, stockAside, workerVars, orderVars
<1>9. ASSUME NEW c \in Checkout, NEW returnStock \in BOOLEAN, RefundOrder(c, returnStock)
      PROVE  OrdersTypeOK'
  BY <1>9 DEF RefundOrder, stockAside, workerVars
<1>10. ASSUME NEW c \in Checkout, UpdateStatus(c)
       PROVE  OrdersTypeOK'
  <2>1. NextStatus[order[c]] \in OrderStatus
    BY <1>10 DEF UpdateStatus, NextStatus
  <2> QED
    BY <1>10, <2>1 DEF UpdateStatus, stockAside, workerVars, orderVars, ledgerVars
<1>11. CASE [Next]_vars /\ UNCHANGED orderVars
  BY <1>11, InventoryStepType DEF orderVars
<1>12. ASSUME NEW w \in Worker, ExpiryStep(w) \/ (Crash(w) /\ UNCHANGED orderVars)
       PROVE  OrdersTypeOK'
  BY <1>11, <1>12 DEF ExpiryStep, Next
<1>13. CASE ManualStep
  BY <1>11, <1>13 DEF ManualStep, Next
<1>14. CASE Tick /\ UNCHANGED orderVars
  BY <1>11, <1>14 DEF Next
<1> QED
  BY <1>1, <1>2, <1>3, <1>4, <1>5, <1>6, <1>7, <1>8, <1>9, <1>10, <1>12, <1>13, <1>14
  DEF OrdersStep

\* A step of a report keeps the types.
LEMMA ReportKeepsTypes ==
    ASSUME StorefrontTypeOK, LedgerTypeOK', DOMAIN request = Request,
           NEW q \in Request, ReportStep(q)
    PROVE  StorefrontTypeOK' /\ DOMAIN request' = Request
<1> USE DEF StorefrontTypeOK
<1>1. OrdersTypeOK'
  <2> USE DEF OrdersTypeOK, InventoryTypeOK, SessionStatus, OrderStatus
  <2>1. CASE ConfirmPayment(q) \/ FailPayment(q)
    BY <2>1 DEF ConfirmPayment, FailPayment, stockAside, workerVars
  <2>2. CASE CrashRequest(q)
    BY <2>2 DEF CrashRequest, stockAside, workerVars, orderVars
  <2>3. CASE UNCHANGED <<vars, orderVars>>
    BY <2>3 DEF vars, orderVars, workerVars
  <2> QED
    BY <2>1, <2>2, <2>3
    DEF ReportStep, Receive, Reopen, AlreadySettled, Throw, LogProcessingFailure, Answer
<1>2. payment' \in [Payment -> {"NONE", "PENDING", "CONFIRMED", "FAILED"}]
  BY DEF ReportStep, Receive, Reopen, AlreadySettled, ConfirmPayment, FailPayment, Throw,
         LogProcessingFailure, Answer, CrashRequest
<1>3. event' \in [Event -> {"NONE", "RECEIVED", "PROCESSED", "FAILED"}]
  BY DEF ReportStep, Receive, Reopen, AlreadySettled, ConfirmPayment, FailPayment, Throw,
         LogProcessingFailure, Answer, CrashRequest, Mark, Settled
<1> DEFINE R == [pc : {"reopening", "processing", "alerting", "logging"},
                 event : Event, verdict : Verdict]
<1>4. \/ request' = request
      \/ request' = [request EXCEPT ![q] = Idle]
      \/ \E n \in {"processing", "alerting", "logging"} :
            request[q] # Idle /\ request' = [request EXCEPT ![q].pc = n]
      \/ \E r \in R : request' = [request EXCEPT ![q] = r]
  <2>1. ASSUME NEW e \in Event, NEW v \in Verdict, Receive(q, e, v)
        PROVE  \E r \in R : request' = [request EXCEPT ![q] = r]
    BY <2>1 DEF Receive
  <2>2. Idle.pc \notin {"reopening", "processing", "alerting", "logging"}
    BY DEF Idle
  <2> QED
    BY <2>1, <2>2
    DEF ReportStep, Reopen, AlreadySettled, ConfirmPayment, FailPayment, Throw,
        LogProcessingFailure, Answer, CrashRequest, Goto, Done, Settled
<1>5. \A x \in Request : request'[x] = Idle \/ request'[x] \in R
  BY <1>4
<1>6. DOMAIN request' = Request
  BY <1>4
<1> QED
  BY <1>1, <1>2, <1>3, <1>5, <1>6

\* Every step keeps the types.
LEMMA SaleKeepsTypes ==
    ASSUME StorefrontTypeOK, LedgerTypeOK', CartsAreLines, DOMAIN request = Request,
           [StorefrontNext]_storefrontVars
    PROVE  StorefrontTypeOK' /\ DOMAIN request' = Request
<1>1. CASE OrdersStep /\ UNCHANGED paymentVars
  BY <1>1, CheckoutKeepsTypes DEF StorefrontTypeOK, paymentVars
<1>2. CASE UNCHANGED <<vars, orderVars, event, request>> /\
           payment' \in [Payment -> {"NONE", "PENDING", "CONFIRMED", "FAILED"}]
  <2>1. OrdersTypeOK'
    BY <1>2 DEF StorefrontTypeOK, OrdersTypeOK, InventoryTypeOK, vars, orderVars, workerVars
  <2> QED
    BY <1>2, <2>1 DEF StorefrontTypeOK
<1>3. ASSUME NEW c \in Checkout, CreateIntent(c)
      PROVE  payment' \in [Payment -> {"NONE", "PENDING", "CONFIRMED", "FAILED"}]
  BY <1>3 DEF CreateIntent, StorefrontTypeOK
<1>4. CASE UNCHANGED storefrontVars
  BY <1>2, <1>4 DEF storefrontVars, paymentVars, StorefrontTypeOK
<1> QED
  BY <1>1, <1>2, <1>3, <1>4, ReportKeepsTypes DEF StorefrontNext, CreateIntent

-----------------------------------------------------------------------------
saleVars == <<cart, phase, confirming, session, order, paymentStatus, payment, returned>>

LEMMA SaleSame ==
    ASSUME SaleInv, UNCHANGED saleVars PROVE SaleInv'
  BY DEF SaleInv, CartsAreLines, CheckoutInOrder, OpenIsUnpaid, PaidByOne, PaidIsSold, Open,
         saleVars

\* A step of a checkout or an order keeps what payments and orders have in common.
LEMMA CheckoutKeepsSale ==
    ASSUME StorefrontTypeOK, SaleInv, OrdersStep, UNCHANGED payment
    PROVE  SaleInv'
<1> USE DEF SaleInv, StorefrontTypeOK, OrdersTypeOK, InventoryTypeOK
<1>1. ASSUME NEW c \in Checkout, NEW W \in SUBSET Stock, NEW t \in Lifetime,
             NEW want \in [W -> Quantity], OpenSession(c, want, t)
      PROVE  SaleInv'
  <2>1. CartsAreLines'
    BY <1>1 DEF OpenSession, CartsAreLines
  <2>2. CheckoutInOrder'
    BY <1>1 DEF OpenSession, CheckoutInOrder
  <2>3. OpenIsUnpaid' /\ PaidByOne' /\ PaidIsSold'
    BY <1>1 DEF OpenSession, OpenIsUnpaid, PaidByOne, PaidIsSold, Open, ledgerVars
  <2> QED
    BY <2>1, <2>2, <2>3
<1>2. ASSUME NEW c \in Checkout,
             \/ ReserveCart(c) \/ DeleteSession(c) \/ HandOutToken(c) \/ CrashCheckout(c)
             \/ ConfirmLapsed(c) \/ ViewCheckout(c) \/ BeginConfirm(c)
      PROVE  SaleInv'
  <2>1. UNCHANGED <<cart, order, paymentStatus, returned>>
    BY <1>2 DEF ReserveCart, ReserveCheckout, BookRows, DeleteSession, HandOutToken,
                CrashCheckout, ConfirmLapsed, ViewCheckout, ExpireSession, ReleaseReservations,
                CloseRows, BeginConfirm, ledgerVars, orderVars
  <2> USE DEF ReserveCart, ReserveCheckout, DeleteSession, HandOutToken, CrashCheckout,
              ConfirmLapsed, ViewCheckout, ExpireSession, Reachable, BeginConfirm, orderVars
  <2>2. \/ UNCHANGED phase
        \/ phase[c] = "opening" /\ phase' = [phase EXCEPT ![c] = "alerting"]
        \/ phase[c] \in {"opening", "alerting"} /\ \E p \in {"gone", "ready"} :
              phase' = [phase EXCEPT ![c] = p]
    BY <1>2
  <2>3. \/ UNCHANGED session
        \/ c \notin confirming /\ \E st \in {"DELETED", "EXPIRED"} :
              session' = [session EXCEPT ![c] = st]
    BY <1>2 DEF CheckoutInOrder
  <2>4. \/ confirming' \subseteq confirming
        \/ /\ confirming' = confirming \cup {c} /\ UNCHANGED <<phase, session>>
           /\ phase[c] = "ready" /\ session[c] = "ACTIVE"
    BY <1>2
  <2>5. CheckoutInOrder'
    <3> HIDE DEF ReserveCart, ReserveCheckout, DeleteSession, HandOutToken, CrashCheckout,
                 ConfirmLapsed, ViewCheckout, ExpireSession, BeginConfirm
    <3> QED
      BY <2>1, <2>2, <2>3, <2>4 DEF CheckoutInOrder
  <2> QED
    BY <2>5, <2>1 DEF CartsAreLines, OpenIsUnpaid, PaidByOne, PaidIsSold, Open
<1>3. ASSUME NEW c \in Checkout, CommitConfirm(c)
      PROVE  SaleInv'
  <2>1. UNCHANGED <<cart, phase, paymentStatus, returned>>
    BY <1>3 DEF CommitConfirm, ledgerVars
  <2>2. CheckoutInOrder' /\ PaidIsSold'
    BY <1>3, <2>1 DEF CommitConfirm, CheckoutInOrder, PaidIsSold
  <2> QED
    BY <2>1, <2>2 DEF CartsAreLines, OpenIsUnpaid, PaidByOne, Open
<1>4. ASSUME NEW c \in Checkout, CancelCheckout(c) \/ CancelOrder(c)
      PROVE  SaleInv'
  <2> USE DEF CancelCheckout, CancelOrder, ReleaseReservations, CloseRows, Reachable, orderVars
  <2>1. UNCHANGED <<cart, phase, confirming, paymentStatus, returned>>
    BY <1>4
  <2>2. CheckoutInOrder' /\ PaidIsSold'
    BY <1>4, <2>1 DEF CheckoutInOrder, PaidIsSold
  <2> QED
    BY <2>1, <2>2 DEF CartsAreLines, OpenIsUnpaid, PaidByOne, Open
<1>5. ASSUME NEW c \in Checkout, NEW returnStock \in BOOLEAN, RefundOrder(c, returnStock)
      PROVE  SaleInv'
  <2>1. /\ UNCHANGED <<cart, phase, confirming, session>>
        /\ order' = [order EXCEPT ![c] = "REFUNDED"]
        /\ paymentStatus' = [paymentStatus EXCEPT ![c] = "REFUNDED"]
        /\ paymentStatus[c] = "PAID"
        /\ \A r \in returned' : r \in returned \/ r[1] = c
        /\ returned' \subseteq Reservation
    BY <1>5 DEF RefundOrder, RestockRows, Linked, LedgerTypeOK
  <2>2. CheckoutInOrder' /\ OpenIsUnpaid' /\ PaidByOne'
    BY <2>1 DEF CheckoutInOrder, OpenIsUnpaid, PaidByOne, Open
  <2>3. PaidIsSold'
    BY <2>1 DEF PaidIsSold, Reservation
  <2> QED
    BY <2>1, <2>2, <2>3 DEF CartsAreLines
<1>6. ASSUME NEW c \in Checkout, UpdateStatus(c)
      PROVE  SaleInv'
  <2>1. /\ UNCHANGED <<cart, phase, confirming, session, paymentStatus, returned>>
        /\ order[c] \in Sold /\ order' = [order EXCEPT ![c] = NextStatus[order[c]]]
        /\ NextStatus[order[c]] \in Sold
    BY <1>6 DEF UpdateStatus, NextStatus, Sold, orderVars, ledgerVars
  <2>2. "NONE" \notin Sold
    BY DEF Sold
  <2>3. CheckoutInOrder' /\ PaidIsSold'
    BY <2>1, <2>2 DEF CheckoutInOrder, PaidIsSold
  <2> QED
    BY <2>1, <2>3 DEF CartsAreLines, OpenIsUnpaid, PaidByOne, Open
<1>7. ASSUME NEW w \in Worker, ExpiryStep(w)
      PROVE  SaleInv'
  <2>1. CASE WorkerFinish(w)
    <3>1. /\ UNCHANGED <<cart, phase, confirming, paymentStatus, returned>>
          /\ session' # session => confirming \cap changed[w] = {}
          /\ ExpireCheckoutStates(changed[w])
      BY <1>7, <2>1 DEF ExpiryStep, WorkerFinish, orderVars, ledgerVars
    <3>2. CheckoutInOrder' /\ PaidIsSold'
      BY <3>1 DEF ExpireCheckoutStates, CheckoutInOrder, PaidIsSold, Sold
    <3> QED
      BY <3>1, <3>2 DEF CartsAreLines, OpenIsUnpaid, PaidByOne, Open
  <2>2. CASE ~WorkerFinish(w)
    BY <1>7, <2>2, SaleSame
    DEF ExpiryStep, WorkerStep, WorkerList, WorkerRead, WorkerExpire, CloseRows, orderVars,
        ledgerVars, saleVars
  <2> QED
    BY <2>1, <2>2
<1>8. ASSUME NEW w \in Worker, Crash(w), UNCHANGED orderVars
      PROVE  SaleInv'
  BY <1>8, SaleSame DEF Crash, orderVars, ledgerVars, saleVars
<1>9. CASE ManualStep
  BY <1>9, SaleSame DEF ManualStep, Adjust, AdjustTotal, Release, CloseRows, orderVars, saleVars
<1>10. CASE Tick /\ UNCHANGED orderVars
  BY <1>10, SaleSame DEF Tick, orderVars, ledgerVars, saleVars
<1> QED
  BY <1>1, <1>2, <1>3, <1>4, <1>5, <1>6, <1>7, <1>8, <1>9, <1>10 DEF OrdersStep

\* What a report names is a payment of a checkout.
LEMMA ReportNamesPayment ==
    ASSUME StorefrontTypeOK, NEW q \in Request, request[q].pc = "processing"
    PROVE  request[q].event[1] \in Payment /\ request[q].event[1][1] \in Checkout
<1>1. request[q].pc # Idle.pc
  BY DEF Idle
<1>2. request[q] \in [pc : {"reopening", "processing", "alerting", "logging"},
                      event : Event, verdict : Verdict]
  BY <1>1 DEF StorefrontTypeOK
<1>3. request[q].event \in Event
  BY <1>2
<1> QED
  BY <1>3 DEF Event, Payment

\* So does a step of a report, and a new payment.
LEMMA ReportKeepsSale ==
    ASSUME StorefrontTypeOK, SaleInv, NEW q \in Request, ReportStep(q)
    PROVE  SaleInv'
<1> USE DEF SaleInv, StorefrontTypeOK, OrdersTypeOK, InventoryTypeOK
<1> DEFINE p == request[q].event[1]
           c == p[1]
<1>1. CASE ConfirmPayment(q)
  <2>1. p \in Payment /\ c \in Checkout
    BY <1>1, ReportNamesPayment DEF ConfirmPayment
  <2>2. /\ Open(p) /\ payment' = [payment EXCEPT ![p] = "CONFIRMED"]
        /\ order[c] = "PENDING_PAYMENT" /\ order' = [order EXCEPT ![c] = "PAID"]
        /\ paymentStatus[c] = "PENDING"
        /\ paymentStatus' = [paymentStatus EXCEPT ![c] = "PAID"]
        /\ UNCHANGED <<cart, phase, confirming, session, returned>>
    BY <1>1 DEF ConfirmPayment, SellRows
  <2> HIDE DEF p, c
  <2>3. p[1] = c
    BY DEF c
  <2>4. CheckoutInOrder'
    BY <2>1, <2>2, <2>3 DEF CheckoutInOrder
  <2>5. OpenIsUnpaid'
    BY <2>1, <2>2, <2>3 DEF OpenIsUnpaid, Open
  <2>6. PaidByOne'
    BY <2>1, <2>2, <2>3 DEF PaidByOne, Open
  <2>7. PaidIsSold'
    BY <2>1, <2>2 DEF PaidIsSold, Sold
  <2> QED
    BY <2>2, <2>4, <2>5, <2>6, <2>7 DEF CartsAreLines
<1>2. CASE FailPayment(q)
  <2>1. p \in Payment /\ c \in Checkout
    BY <1>2, ReportNamesPayment DEF FailPayment
  <2>2. /\ Open(p) /\ payment' = [payment EXCEPT ![p] = "FAILED"]
        /\ order' = [order EXCEPT ![c] = "PAYMENT_FAILED"]
        /\ paymentStatus' = [paymentStatus EXCEPT ![c] = "FAILED"]
        /\ session' = [session EXCEPT ![c] = "CANCELLED"]
        /\ UNCHANGED <<cart, phase, confirming, returned>>
    BY <1>2 DEF FailPayment, ReleaseReservations, CloseRows
  <2> HIDE DEF p, c
  <2>3. p[1] = c
    BY DEF c
  <2>4. paymentStatus[c] = "PENDING" /\ order[c] # "NONE"
    BY <2>1, <2>2, <2>3 DEF OpenIsUnpaid, CheckoutInOrder, Open
  <2>5. CheckoutInOrder'
    BY <2>1, <2>2, <2>3, <2>4 DEF CheckoutInOrder
  <2>6. OpenIsUnpaid'
    BY <2>1, <2>2, <2>3 DEF OpenIsUnpaid, Open
  <2>7. PaidByOne'
    BY <2>1, <2>2, <2>3, <2>4 DEF PaidByOne, Open
  <2>8. PaidIsSold'
    BY <2>1, <2>2, <2>4 DEF PaidIsSold
  <2> QED
    BY <2>2, <2>5, <2>6, <2>7, <2>8 DEF CartsAreLines
<1>3. CASE ~ConfirmPayment(q) /\ ~FailPayment(q)
  BY <1>3, SaleSame
  DEF ReportStep, Receive, Reopen, AlreadySettled, Throw, LogProcessingFailure, Answer,
      CrashRequest, vars, orderVars, ledgerVars, saleVars
<1> QED
  BY <1>1, <1>2, <1>3

LEMMA IntentKeepsSale ==
    ASSUME StorefrontTypeOK, SaleInv, NEW c \in Checkout, CreateIntent(c)
    PROVE  SaleInv'
<1> USE DEF SaleInv, StorefrontTypeOK, OrdersTypeOK, InventoryTypeOK
<1>1. /\ UNCHANGED <<cart, phase, confirming, session, order, paymentStatus, returned>>
      /\ paymentStatus[c] = "PENDING" /\ order[c] = "PENDING_PAYMENT"
      /\ \A x \in Payment : x[1] = c => ~Open(x)
  BY DEF CreateIntent, Payable, PaymentsOf, Open, vars, orderVars, ledgerVars
<1>2. PICK n \in 1 .. MaxIntents : /\ PaymentsOf(c) = {c} \X (1 .. n - 1)
                                   /\ payment' = [payment EXCEPT ![<<c, n>>] = "PENDING"]
  BY DEF CreateIntent
<1> DEFINE p == <<c, n>>
<1>3. p \in Payment /\ p[1] = c /\ payment' = [payment EXCEPT ![p] = "PENDING"]
  BY <1>2 DEF Payment
<1>4. payment[p] = "NONE"
  <2>1. p \notin {c} \X (1 .. n - 1)
    OBVIOUS
  <2> QED
    BY <1>2, <1>3, <2>1 DEF PaymentsOf
<1> HIDE DEF p
<1>5. CheckoutInOrder'
  BY <1>1, <1>3 DEF CheckoutInOrder
<1>6. OpenIsUnpaid'
  BY <1>1, <1>3 DEF OpenIsUnpaid, Open
<1>7. PaidByOne'
  BY <1>1, <1>3, <1>4 DEF PaidByOne
<1> QED
  BY <1>1, <1>5, <1>6, <1>7 DEF CartsAreLines, PaidIsSold

\* Every step keeps what payments and orders have in common.
LEMMA SaleStep ==
    ASSUME StorefrontTypeOK, SaleInv, [StorefrontNext]_storefrontVars
    PROVE  SaleInv'
<1>1. CASE UNCHANGED storefrontVars
  BY <1>1, SaleSame DEF storefrontVars, vars, orderVars, paymentVars, ledgerVars, saleVars
<1> QED
  BY <1>1, CheckoutKeepsSale, ReportKeepsSale, IntentKeepsSale DEF StorefrontNext, paymentVars

-----------------------------------------------------------------------------
\* An event keeps a request at work on it, unless the one that moves leaves it.
LEMMA KeepsHandling ==
    ASSUME DOMAIN request = Request, NEW q \in Request, NEW r,
           request' = [request EXCEPT ![q] = r],
           NEW e, Handling(e),
           \/ request[q].pc \notin {"processing", "logging"}
           \/ request[q].event # e
           \/ r.pc \in {"processing", "logging"} /\ r.event = e
    PROVE  Handling(e)'
<1>1. PICK x \in Request : request[x].pc \in {"processing", "logging"} /\ request[x].event = e
  BY DEF Handling
<1>2. \A y \in Request : request'[y] = IF y = q THEN r ELSE request[y]
  OBVIOUS
<1>3. CASE r.pc \in {"processing", "logging"} /\ r.event = e
  BY <1>2, <1>3 DEF Handling
<1>4. CASE x # q
  BY <1>1, <1>2, <1>4 DEF Handling
<1> QED
  BY <1>1, <1>3, <1>4

\* What a step of a report does to its event and to its request.
LEMMA ReportKeepsEvents ==
    ASSUME StorefrontTypeOK, EventsInv, NEW q \in Request, ReportStep(q)
    PROVE  EventsInv'
<1> USE DEF EventsInv, StorefrontTypeOK
<1> DEFINE Work == {"processing", "logging"}
           Mine == request[q].event
<1>1. DOMAIN request' = Request
  BY DEF ReportStep, Receive, Reopen, AlreadySettled, ConfirmPayment, FailPayment, Throw,
         LogProcessingFailure, Answer, CrashRequest, Goto, Done, Settled
<1>2. ASSUME NEW e \in Event, crashes' = 0, e[2] # "khqr", event'[e] = "RECEIVED"
      PROVE  Handling(e)'
  <2>1. ASSUME NEW d \in Event, NEW v \in Verdict, Receive(q, d, v)
        PROVE  Handling(e)'
    <3>1. request[q].pc \notin Work /\ crashes = 0
      BY <1>2, <2>1 DEF Receive, Idle, vars
    <3>2. PICK n \in {"processing", "reopening"} :
             request' = [request EXCEPT ![q] = [pc |-> n, event |-> d, verdict |-> v]]
      BY <2>1 DEF Receive
    <3>3. CASE event[e] = "RECEIVED"
      BY <1>2, <3>1, <3>2, <3>3, KeepsHandling
    <3>4. CASE event[e] # "RECEIVED"
      <4>1. e = d /\ request' = [request EXCEPT ![q] =
                                   [pc |-> "processing", event |-> d, verdict |-> v]]
        BY <1>2, <2>1, <3>4 DEF Receive, Mark
      <4>2. request'[q] = [pc |-> "processing", event |-> d, verdict |-> v]
        BY <4>1
      <4> QED
        BY <4>1, <4>2 DEF Handling
    <3> QED
      BY <3>3, <3>4
  <2>2. CASE Reopen(q)
    <3>1. /\ request' = [request EXCEPT ![q] = [request[q] EXCEPT !.pc = "processing"]]
          /\ event' = [event EXCEPT ![Mine] = "RECEIVED"]
          /\ request[q].pc \notin Work /\ crashes = 0
      BY <1>2, <2>2 DEF Reopen, Goto, Mark, vars
    <3>2. CASE e = Mine
      <4>1. request[q] # Idle
        BY <2>2 DEF Reopen, Idle
      <4>2. request'[q].pc = "processing" /\ request'[q].event = Mine
        BY <3>1, <4>1
      <4> QED
        BY <3>2, <4>2 DEF Handling
    <3>3. CASE e # Mine
      BY <1>2, <3>1, <3>3, KeepsHandling
    <3> QED
      BY <3>2, <3>3
  <2>3. CASE AlreadySettled(q) \/ ConfirmPayment(q) \/ FailPayment(q)
    <3>1. Settled(q) /\ request[q].pc = "processing" /\ UNCHANGED crashes
      BY <2>3 DEF AlreadySettled, ConfirmPayment, FailPayment, vars
    <3>2. Mine \in Event
      BY <3>1 DEF Idle
    <3>3. e # Mine /\ event[e] = "RECEIVED"
      BY <1>2, <3>1, <3>2 DEF Settled, Mark
    <3>4. PICK r : request' = [request EXCEPT ![q] = r]
      BY <3>1 DEF Settled, Goto, Done
    <3> QED
      BY <1>2, <3>1, <3>3, <3>4, KeepsHandling
  <2>4. CASE Throw(q)
    <3>1. UNCHANGED <<event, crashes>> /\ request[q] # Idle
      BY <2>4 DEF Throw, vars, Idle
    <3>2. CASE Mine[2] = "khqr"
      <4>1. e # Mine /\ request' = [request EXCEPT ![q] = Idle]
        BY <1>2, <2>4, <3>2 DEF Throw, Done
      <4> QED
        BY <1>2, <3>1, <4>1, KeepsHandling
    <3>3. CASE Mine[2] # "khqr"
      <4>1. request' = [request EXCEPT ![q] = [request[q] EXCEPT !.pc = "logging"]]
        BY <2>4, <3>3 DEF Throw, Goto
      <4>2. [request[q] EXCEPT !.pc = "logging"].pc = "logging"
            /\ [request[q] EXCEPT !.pc = "logging"].event = Mine
        BY <3>1
      <4>3. CASE e = Mine
        BY <1>2, <3>1, <4>1, <4>2, <4>3, KeepsHandling
      <4>4. CASE e # Mine
        BY <1>2, <3>1, <4>1, <4>4, KeepsHandling
      <4> QED
        BY <4>3, <4>4
    <3> QED
      BY <3>2, <3>3
  <2>5. CASE LogProcessingFailure(q)
    <3>1. Mine \in Event
      BY <2>5 DEF LogProcessingFailure, Idle
    <3>2. e # Mine /\ event[e] = "RECEIVED" /\ UNCHANGED crashes
      BY <1>2, <2>5, <3>1 DEF LogProcessingFailure, Mark, vars
    <3>3. request' = [request EXCEPT ![q] = Idle]
      BY <2>5 DEF LogProcessingFailure, Done
    <3> QED
      BY <1>2, <3>2, <3>3, KeepsHandling
  <2>6. CASE Answer(q)
    <3>1. /\ request[q].pc \notin Work /\ UNCHANGED <<event, crashes>>
          /\ request' = [request EXCEPT ![q] = Idle]
      BY <2>6 DEF Answer, Done, vars
    <3> QED
      BY <1>2, <3>1, KeepsHandling
  <2>7. ~CrashRequest(q)
    BY <1>2 DEF CrashRequest, OrdersTypeOK, InventoryTypeOK
  <2> QED
    BY <2>1, <2>2, <2>3, <2>4, <2>5, <2>6, <2>7 DEF ReportStep
<1>3. \A p \in Payment : payment[p] \in Verdict => payment'[p] \in Verdict
  BY DEF ReportStep, Receive, Reopen, AlreadySettled, ConfirmPayment, FailPayment, Throw,
         LogProcessingFailure, Answer, CrashRequest, Verdict
<1>4. ASSUME NEW e \in Event, event'[e] = "PROCESSED", event[e] # "PROCESSED"
      PROVE  payment'[e[1]] \in Verdict
  <2>1. AlreadySettled(q) \/ ConfirmPayment(q) \/ FailPayment(q)
    BY <1>4 DEF ReportStep, Receive, Reopen, Throw, LogProcessingFailure, Answer, CrashRequest, Mark
  <2>2. e = Mine
    BY <1>4, <2>1 DEF AlreadySettled, ConfirmPayment, FailPayment, Settled, Mark
  <2>3. request[q].pc = "processing"
    BY <2>1 DEF AlreadySettled, ConfirmPayment, FailPayment
  <2>4. request[q].verdict \in Verdict /\ Mine[1] \in Payment
    BY <2>3 DEF Idle, Event
  <2> QED
    BY <2>1, <2>2, <2>4 DEF AlreadySettled, ConfirmPayment, FailPayment, Verdict
<1>5. \A e \in Event : e[1] \in Payment
  BY DEF Event
<1> QED
  BY <1>1, <1>2, <1>3, <1>4, <1>5

\* Every step keeps the events.
LEMMA EventsStep ==
    ASSUME StorefrontTypeOK, EventsInv, [StorefrontNext]_storefrontVars
    PROVE  EventsInv'
<1>1. ASSUME UNCHANGED <<event, request>>, crashes' = 0 => crashes = 0,
             \A p \in Payment : payment[p] \in Verdict => payment'[p] \in Verdict
      PROVE  EventsInv'
  <2>1. \A e \in Event : e[1] \in Payment
    BY DEF Event
  <2> QED
    BY <1>1, <2>1 DEF EventsInv, Handling
<1>2. CASE OrdersStep /\ UNCHANGED paymentVars
  <2>1. crashes' = crashes \/ crashes' = crashes + 1
    BY <1>2
    DEF OrdersStep, OpenSession, ReserveCart, ReserveCheckout, DeleteSession, HandOutToken,
        CrashCheckout, ConfirmLapsed, ViewCheckout, ExpireSession, BeginConfirm, CommitConfirm,
        CancelCheckout, CancelOrder, UpdateStatus, RefundOrder, ExpiryStep, WorkerStep,
        WorkerList, WorkerRead, WorkerExpire, WorkerFinish, Crash, ManualStep, Adjust, Release,
        Tick
  <2>2. crashes' = 0 => crashes = 0
    BY <2>1 DEF StorefrontTypeOK, OrdersTypeOK, InventoryTypeOK
  <2> QED
    BY <1>1, <1>2, <2>2 DEF paymentVars
<1>3. ASSUME NEW c \in Checkout, CreateIntent(c)
      PROVE  EventsInv'
  <2>1. PICK n \in 1 .. MaxIntents : /\ PaymentsOf(c) = {c} \X (1 .. n - 1)
                                     /\ payment' = [payment EXCEPT ![<<c, n>>] = "PENDING"]
    BY <1>3 DEF CreateIntent
  <2>2. <<c, n>> \in Payment /\ <<c, n>> \notin PaymentsOf(c)
    BY <2>1 DEF Payment
  <2>3. payment[<<c, n>>] = "NONE"
    BY <2>2 DEF PaymentsOf
  <2>4. \A p \in Payment : payment[p] \in Verdict => payment'[p] \in Verdict
    BY <2>1, <2>3 DEF Verdict, StorefrontTypeOK
  <2> QED
    BY <1>1, <1>3, <2>4 DEF CreateIntent, vars
<1>4. CASE UNCHANGED storefrontVars
  BY <1>1, <1>4 DEF storefrontVars, vars, paymentVars
<1> QED
  BY <1>2, <1>3, <1>4, ReportKeepsEvents DEF StorefrontNext

\* The invariant holds in every reachable state.
THEOREM StorefrontInvariantHolds == StorefrontSpec => []StorefrontInv
<1>1. StorefrontInv /\ [StorefrontNext]_storefrontVars => StorefrontInv'
  <2> SUFFICES ASSUME StorefrontInv, [StorefrontNext]_storefrontVars PROVE StorefrontInv'
    OBVIOUS
  <2> USE DEF StorefrontInv
  <2>1. LedgerInv' /\ LedgerTypeOK'
    BY SaleKeepsContract, LedgerStepInv DEF LedgerInv
  <2>2. StorefrontTypeOK'
    BY <2>1, SaleKeepsTypes DEF SaleInv, EventsInv
  <2> QED
    BY <2>1, <2>2, SaleStep, EventsStep
<1> QED
  BY <1>1, StorefrontInitInv, PTL DEF StorefrontSpec

\* Every variable of the website keeps its type; no balance goes below zero.
THEOREM StorefrontTypeCorrect == StorefrontSpec => []StorefrontTypeOK
<1>1. StorefrontInv => StorefrontTypeOK
  BY DEF StorefrontInv
<1> QED
  BY <1>1, StorefrontInvariantHolds, PTL

\* The website implements the contract of the stock engine: checkout, orders,
\* payments, refunds and workers in any interleaving (payment.service.ts,
\* order.service.ts and checkout.service.ts write the rows themselves).
THEOREM StorefrontKeepsLedger == StorefrontSpec => LedgerSpec
<1>1. StorefrontInit => LedgerInit
  BY DEF StorefrontInit, OrdersInit, InventoryInit
<1>2. StorefrontInv /\ [StorefrontNext]_storefrontVars => [LedgerNext]_ledgerVars
  BY SaleKeepsContract DEF StorefrontInv
<1> QED
  BY <1>1, <1>2, StorefrontInvariantHolds, PTL DEF StorefrontSpec, LedgerSpec

\* However often reports are repeated or handled at once, an order counts as
\* paid exactly when one of its payments is confirmed, and never two are.
THEOREM OrdersArePaidOnce == StorefrontSpec => []PaidOnce
<1>1. StorefrontInv => PaidOnce
  <2> SUFFICES ASSUME StorefrontInv, NEW c \in Checkout
               PROVE  Cardinality({p \in PaymentsOf(c) : payment[p] = "CONFIRMED"}) =
                         IF paymentStatus[c] \in {"PAID", "REFUNDED"} THEN 1 ELSE 0
    BY DEF PaidOnce
  <2> DEFINE confirmed == {p \in PaymentsOf(c) : payment[p] = "CONFIRMED"}
  <2> USE DEF StorefrontInv, SaleInv, PaidByOne, PaymentsOf
  <2>1. CASE paymentStatus[c] \in {"PAID", "REFUNDED"}
    <3>1. PICK p \in Payment : p[1] = c /\ payment[p] = "CONFIRMED"
      BY <2>1
    <3>2. confirmed = {p}
      BY <3>1
    <3>3. Cardinality(confirmed) = 1
      BY <3>2, FS_Singleton
    <3> QED
      BY <2>1, <3>3
  <2>2. CASE paymentStatus[c] \notin {"PAID", "REFUNDED"}
    <3>1. confirmed = {}
      BY <2>2
    <3> QED
      BY <2>2, <3>1, FS_EmptySet
  <2> QED
    BY <2>1, <2>2
<1> QED
  BY <1>1, StorefrontInvariantHolds, PTL

\* What was decided about an order stays decided, whatever late reports, staff,
\* workers and customers still do.
THEOREM OutcomesStayDecided == StorefrontSpec => OutcomesAreFinal
<1> DEFINE Decided(c) ==
      /\ paymentStatus[c] = "PAID" => paymentStatus'[c] \in {"PAID", "REFUNDED"}
      /\ paymentStatus[c] = "REFUNDED" => paymentStatus'[c] = "REFUNDED"
      /\ order[c] \in {"CANCELLED", "EXPIRED", "PAYMENT_FAILED"} =>
            order'[c] \in {"CANCELLED", "EXPIRED", "PAYMENT_FAILED"}
<1>1. ASSUME StorefrontInv, StorefrontNext, NEW c \in Checkout PROVE Decided(c)
  <2> USE DEF StorefrontInv, SaleInv, StorefrontTypeOK, OrdersTypeOK, InventoryTypeOK
  <2>1. ASSUME NEW d \in Checkout, NEW want, NEW t,
               \/ OpenSession(d, want, t) \/ ReserveCart(d) \/ DeleteSession(d)
               \/ HandOutToken(d) \/ CrashCheckout(d) \/ ConfirmLapsed(d)
               \/ BeginConfirm(d) \/ ViewCheckout(d) \/ CreateIntent(d)
        PROVE  UNCHANGED <<order, paymentStatus>>
    BY <2>1
    DEF OpenSession, ReserveCart, ReserveCheckout, DeleteSession, HandOutToken, CrashCheckout,
        ConfirmLapsed, ViewCheckout, ExpireSession, BeginConfirm, CreateIntent, vars, orderVars
  <2>2. ASSUME NEW d \in Checkout, CommitConfirm(d) PROVE Decided(c)
    <3>1. order[d] = "NONE"
      BY <1>1, <2>2 DEF CommitConfirm, CheckoutInOrder
    <3> QED
      BY <1>1, <2>2, <3>1 DEF CommitConfirm, CheckoutInOrder
  <2>3. ASSUME NEW d \in Checkout, CancelCheckout(d) \/ CancelOrder(d) PROVE Decided(c)
    BY <1>1, <2>3 DEF CancelCheckout, CancelOrder, orderVars, PaidIsSold, Sold
  <2>4. ASSUME NEW d \in Checkout, NEW returnStock \in BOOLEAN, RefundOrder(d, returnStock)
        PROVE  Decided(c)
    BY <1>1, <2>4 DEF RefundOrder, PaidIsSold, Sold
  <2>5. ASSUME NEW d \in Checkout, UpdateStatus(d) PROVE Decided(c)
    BY <1>1, <2>5 DEF UpdateStatus, NextStatus, orderVars
  <2>6. ASSUME NEW w \in Worker, ExpiryStep(w) PROVE Decided(c)
    BY <1>1, <2>6 DEF ExpiryStep, WorkerStep, WorkerList, WorkerRead, WorkerExpire, WorkerFinish,
                ExpireCheckoutStates, orderVars
  <2>7. ASSUME NEW w \in Worker, Crash(w) /\ UNCHANGED orderVars PROVE Decided(c)
    BY <2>7 DEF Crash, orderVars
  <2>8. CASE ManualStep \/ (Tick /\ UNCHANGED orderVars)
    BY <2>8 DEF ManualStep, Adjust, Release, Tick, orderVars
  <2>9. ASSUME NEW q \in Request, ReportStep(q) PROVE Decided(c)
    <3> DEFINE p == request[q].event[1]
    <3>1. CASE ConfirmPayment(q)
      BY <1>1, <3>1 DEF ConfirmPayment
    <3>2. CASE FailPayment(q)
      <4>1. p \in Payment /\ Open(p)
        BY <1>1, <3>2, ReportNamesPayment DEF FailPayment
      <4>2. paymentStatus[p[1]] = "PENDING"
        BY <1>1, <4>1 DEF OpenIsUnpaid
      <4> QED
        BY <1>1, <3>2, <4>2 DEF FailPayment, PaidIsSold, Sold
    <3>3. CASE ~ConfirmPayment(q) /\ ~FailPayment(q)
      BY <2>9, <3>3 DEF ReportStep, Receive, Reopen, AlreadySettled, Throw,
                        LogProcessingFailure, Answer, CrashRequest, vars, orderVars
    <3> QED
      BY <3>1, <3>2, <3>3
  <2> QED
    BY <1>1, <2>1, <2>2, <2>3, <2>4, <2>5, <2>6, <2>7, <2>8, <2>9 DEF StorefrontNext, OrdersStep
<1>2. StorefrontInv /\ [StorefrontNext]_storefrontVars =>
         [\A c \in Checkout : Decided(c)]_storefrontVars
  BY <1>1
<1> QED
  BY <1>2, StorefrontInvariantHolds, PTL DEF StorefrontSpec, OutcomesAreFinal

\* No webhook is answered "duplicate" for ever while no process dies, and none is
\* marked PROCESSED before its payment is settled (payment.service.ts:
\* createWebhookEvent, processWebhook, logProcessingFailure).
THEOREM EventsAreSettled == StorefrontSpec => []EventsSettle
<1>1. StorefrontInv => EventsSettle
  BY DEF StorefrontInv, EventsInv, EventsSettle, Handling, Idle
<1> QED
  BY <1>1, StorefrontInvariantHolds, PTL

-----------------------------------------------------------------------------
(* 3. What orders hold and sell                                            *)
-----------------------------------------------------------------------------

\* A reservation belongs to a session that tried to reserve, and ends with it.
RowsEndWithSession ==
    \A r \in Reservation : status[r] # "NONE" =>
        phase[r[1]] \notin {"new", "opening"} /\ expiresAt[r] = deadline[r[1]]

\* What a worker read as overdue still is when it has the lock.
PickedIsOverdue ==
    \A w \in Worker : pc[w] = "locking" =>
        status[picked[w]] # "NONE" /\ expiresAt[picked[w]] <= now

\* Every line of an order in time is held and linked to it, also of one that is
\* only being made, unless staff release reservations by hand.
LinesStayHeld ==
    "release" \notin Manual =>
        \A c \in Checkout :
            (c \in confirming \/ order[c] = "PENDING_PAYMENT") /\ now < deadline[c] =>
                \A s \in DOMAIN cart[c] :
                    /\ status[<<c, s>>] = "ACTIVE"
                    /\ order[c] = "PENDING_PAYMENT" => <<c, s>> \in linked

\* What an order still holds is linked to it: whoever ends it can release it.
HeldIsLinked ==
    \A r \in Reservation : status[r] = "ACTIVE" /\ order[r[1]] # "NONE" => r \in linked

\* Nothing is held, nor ever will be, for what was cancelled or never paid.
EndedHoldsNothing ==
    \A c \in Checkout :
        /\ session[c] = "CANCELLED" => phase[c] \notin {"new", "opening", "alerting"}
        /\ session[c] = "CANCELLED" \/ order[c] \in {"CANCELLED", "PAYMENT_FAILED"} =>
              \A r \in Reservation : r[1] = c => status[r] # "ACTIVE"

SoldIsPaid ==
    /\ \A r \in Reservation :
          status[r] = "CONFIRMED" => paymentStatus[r[1]] \in {"PAID", "REFUNDED"}
    /\ "release" \notin Manual =>
          \A c \in Checkout : paymentStatus[c] = "PAID" =>
              \A s \in DOMAIN cart[c] : status[<<c, s>>] = "CONFIRMED"

HoldInv ==
    /\ RowsEndWithSession
    /\ PickedIsOverdue
    /\ LinesStayHeld
    /\ HeldIsLinked
    /\ EndedHoldsNothing
    /\ SoldIsPaid

-----------------------------------------------------------------------------
holdVars == <<status, expiresAt, deadline, phase, confirming, cart, order, session,
              paymentStatus, linked, now, pc, picked>>

LEMMA HoldSame ==
    ASSUME HoldInv, UNCHANGED holdVars PROVE HoldInv'
  BY DEF HoldInv, RowsEndWithSession, PickedIsOverdue, LinesStayHeld, HeldIsLinked,
         EndedHoldsNothing, SoldIsPaid, holdVars

LEMMA HoldInit == StorefrontInit => HoldInv
  BY DEF StorefrontInit, OrdersInit, InventoryInit, LedgerInit, HoldInv, RowsEndWithSession,
         PickedIsOverdue, LinesStayHeld, HeldIsLinked, EndedHoldsNothing, SoldIsPaid, Reservation

\* The steps of CheckoutService.create.
LEMMA CreateKeepsHold ==
    ASSUME StorefrontTypeOK, SaleInv, HoldInv, NEW c \in Checkout,
           \/ \E W \in SUBSET Stock, t \in Lifetime :
                 \E want \in [W -> Quantity] : OpenSession(c, want, t)
           \/ DeleteSession(c) \/ HandOutToken(c) \/ CrashCheckout(c)
    PROVE  HoldInv'
<1> USE DEF StorefrontTypeOK, OrdersTypeOK, InventoryTypeOK, LedgerTypeOK, HoldInv, SaleInv,
            Reservation
<1>1. ASSUME NEW W \in SUBSET Stock, NEW t \in Lifetime, NEW want \in [W -> Quantity],
             OpenSession(c, want, t)
      PROVE  HoldInv'
  <2>1. /\ UNCHANGED <<status, expiresAt, order, confirming, paymentStatus, linked, now, pc,
                       picked>>
        /\ phase[c] = "new" /\ phase' = [phase EXCEPT ![c] = "opening"]
        /\ session' = [session EXCEPT ![c] = "ACTIVE"]
        /\ cart' = [cart EXCEPT ![c] = want]
        /\ deadline' = [deadline EXCEPT ![c] = now + t]
    BY <1>1 DEF OpenSession, ledgerVars, stockAside, workerVars
  <2>2. c \notin confirming /\ order[c] = "NONE" /\ paymentStatus[c] = "PENDING"
    BY <2>1 DEF CheckoutInOrder
  <2>3. \A r \in Reservation : r[1] = c => status[r] = "NONE"
    BY <2>1 DEF RowsEndWithSession
  <2>4. \A x \in Checkout : x # c => UNCHANGED <<phase[x], session[x], cart[x], deadline[x]>>
    BY <2>1 DEF CartsAreLines
  <2>5. RowsEndWithSession'
    BY <2>1, <2>3, <2>4 DEF RowsEndWithSession
  <2>6. PickedIsOverdue'
    BY <2>1 DEF PickedIsOverdue
  <2>7. LinesStayHeld'
    BY <2>1, <2>2, <2>4 DEF LinesStayHeld
  <2>8. HeldIsLinked'
    BY <2>1 DEF HeldIsLinked
  <2>9. EndedHoldsNothing'
    BY <2>1, <2>2, <2>4 DEF EndedHoldsNothing
  <2>10. SoldIsPaid'
    BY <2>1, <2>2, <2>4 DEF SoldIsPaid
  <2> QED
    BY <2>5, <2>6, <2>7, <2>8, <2>9, <2>10
<1>2. CASE DeleteSession(c) \/ HandOutToken(c) \/ CrashCheckout(c)
  <2>1. /\ UNCHANGED <<status, expiresAt, order, paymentStatus, linked, now, pc, picked, cart,
                       deadline>>
        /\ confirming' \subseteq confirming
        /\ \/ UNCHANGED phase
           \/ \E p \in {"gone", "ready"} : phase' = [phase EXCEPT ![c] = p]
        /\ UNCHANGED session \/ session' = [session EXCEPT ![c] = "DELETED"]
    BY <1>2 DEF DeleteSession, HandOutToken, CrashCheckout, ledgerVars, stockAside, workerVars
  <2>2. \A x \in Checkout : /\ phase'[x] = phase[x] \/ phase'[x] \in {"gone", "ready"}
                            /\ session'[x] = session[x] \/ session'[x] = "DELETED"
    BY <2>1
  <2>3. RowsEndWithSession'
    BY <2>1, <2>2 DEF RowsEndWithSession
  <2>4. EndedHoldsNothing'
    BY <2>1, <2>2 DEF EndedHoldsNothing
  <2> QED
    BY <2>1, <2>3, <2>4 DEF PickedIsOverdue, LinesStayHeld, HeldIsLinked, SoldIsPaid
<1> QED
  BY <1>1, <1>2

\* The reservation of a cart: rows of this checkout begin, overdue rows of any end.
LEMMA ReserveKeepsHold ==
    ASSUME StorefrontTypeOK, SaleInv, HoldInv, NEW c \in Checkout, ReserveCart(c)
    PROVE  HoldInv'
<1> USE DEF StorefrontTypeOK, OrdersTypeOK, InventoryTypeOK, LedgerTypeOK, HoldInv, SaleInv
<1>1. /\ UNCHANGED <<session, order, confirming, paymentStatus, linked, now, pc, picked, cart,
                     deadline>>
      /\ phase[c] = "opening" /\ phase' = [phase EXCEPT ![c] = "alerting"]
  BY DEF ReserveCart, ReserveCheckout, workerVars
<1>2. c \notin confirming /\ order[c] = "NONE" /\ paymentStatus[c] = "PENDING"
      /\ session[c] # "CANCELLED"
  BY <1>1 DEF CheckoutInOrder, EndedHoldsNothing
<1>3. \A r \in Reservation : r[1] = c => status[r] = "NONE"
  BY <1>1 DEF RowsEndWithSession
<1>4. \A r \in Reservation : r[1] = c =>
         status'[r] \in {"NONE", "ACTIVE"} /\ (status'[r] # "NONE" => expiresAt'[r] = deadline[c])
  <2> SUFFICES ASSUME NEW r \in Reservation, r[1] = c
               PROVE  /\ status'[r] \in {"NONE", "ACTIVE"}
                      /\ status'[r] # "NONE" => expiresAt'[r] = deadline[c]
    OBVIOUS
  <2> DEFINE fresh == {s \in DOMAIN cart[c] : status[<<c, s>>] = "NONE"}
             D == UNION {DueAt(s) : s \in DOMAIN cart[c]}
  <2>1. status[r] = "NONE" /\ r \notin D
    BY <1>3 DEF DueAt, Due
  <2>2. status'[r] = IF r[2] \in fresh THEN "ACTIVE" ELSE "NONE"
    BY <2>1 DEF ReserveCart, ReserveCheckout, BookRows
  <2>3. now + (deadline[c] - now) = deadline[c]
    BY InventoryAssumption
  <2>4. r[2] \in fresh => expiresAt'[r] = deadline[c]
    BY <2>3 DEF ReserveCart, ReserveCheckout
  <2> QED
    BY <2>2, <2>4
<1>5. \A r \in Reservation : r[1] # c =>
         /\ expiresAt'[r] = expiresAt[r]
         /\ status'[r] = status[r] \/ (Due(r) /\ status'[r] = "EXPIRED")
  <2> SUFFICES ASSUME NEW r \in Reservation, r[1] # c
               PROVE  /\ expiresAt'[r] = expiresAt[r]
                      /\ status'[r] = status[r] \/ (Due(r) /\ status'[r] = "EXPIRED")
    OBVIOUS
  <2> DEFINE D == UNION {DueAt(s) : s \in DOMAIN cart[c]}
  <2>1. r \in D => Due(r)
    BY DEF DueAt
  <2>2. status'[r] = IF r \in D THEN "EXPIRED" ELSE status[r]
    BY DEF ReserveCart, ReserveCheckout, BookRows
  <2>3. expiresAt'[r] = expiresAt[r]
    BY DEF ReserveCart, ReserveCheckout
  <2> HIDE DEF D
  <2> QED
    BY <2>1, <2>2, <2>3
<1>6. \A x \in Checkout : x # c => phase'[x] = phase[x]
  BY <1>1
<1>7. RowsEndWithSession'
  BY <1>1, <1>4, <1>5, <1>6 DEF RowsEndWithSession, Due
<1>8. PickedIsOverdue'
  <2> SUFFICES ASSUME NEW w \in Worker, pc[w] = "locking"
               PROVE  status'[picked[w]] # "NONE" /\ expiresAt'[picked[w]] <= now
    BY <1>1 DEF PickedIsOverdue
  <2>1. picked[w] \in Reservation /\ status[picked[w]] # "NONE" /\ expiresAt[picked[w]] <= now
    BY DEF PickedIsOverdue
  <2> QED
    BY <2>1, <1>3, <1>5
<1>9. LinesStayHeld'
  <2> SUFFICES ASSUME "release" \notin Manual, NEW x \in Checkout,
                      x \in confirming \/ order[x] = "PENDING_PAYMENT", now < deadline[x],
                      NEW s \in DOMAIN cart[x]
               PROVE  /\ status'[<<x, s>>] = "ACTIVE"
                      /\ order[x] = "PENDING_PAYMENT" => <<x, s>> \in linked
    BY <1>1 DEF LinesStayHeld
  <2>1. status[<<x, s>>] = "ACTIVE" /\ (order[x] = "PENDING_PAYMENT" => <<x, s>> \in linked)
    BY DEF LinesStayHeld
  <2>2. <<x, s>> \in Reservation /\ x # c
    BY <1>2 DEF Reservation
  <2>3. ~Due(<<x, s>>)
    BY <2>1, <2>2 DEF RowsEndWithSession, Due
  <2> QED
    BY <2>1, <2>2, <2>3, <1>5
<1>10. HeldIsLinked'
  BY <1>1, <1>2, <1>5 DEF HeldIsLinked, Due
<1>11. EndedHoldsNothing'
  BY <1>1, <1>2, <1>5, <1>6 DEF EndedHoldsNothing, Due
<1>12. SoldIsPaid'
  <2>1. \A x \in Checkout : \A s \in DOMAIN cart[x] : <<x, s>> \in Reservation
    BY DEF Reservation
  <2> QED
    BY <1>1, <1>2, <1>4, <1>5, <2>1 DEF SoldIsPaid, Due
<1> QED
  BY <1>7, <1>8, <1>9, <1>10, <1>11, <1>12

\* Rows that end and nothing else: what they leave behind.
LEMMA EndingKeepsHold ==
    ASSUME StorefrontTypeOK, HoldInv, NEW D \in SUBSET Reservation,
           NEW st \in {"RELEASED", "EXPIRED"},
           \A r \in D : status[r] = "ACTIVE",
           status' = [r \in Reservation |-> IF r \in D THEN st ELSE status[r]],
           UNCHANGED <<expiresAt, deadline, now, cart>>
    PROVE  /\ UNCHANGED phase => RowsEndWithSession'
           /\ UNCHANGED <<pc, picked>> => PickedIsOverdue'
           /\ \A r \in Reservation : status'[r] = "ACTIVE" <=> status[r] = "ACTIVE" /\ r \notin D
           /\ \A r \in Reservation : status'[r] = "CONFIRMED" <=> status[r] = "CONFIRMED"
           /\ UNCHANGED paymentStatus => SoldIsPaid'
<1> USE DEF StorefrontTypeOK, OrdersTypeOK, InventoryTypeOK, LedgerTypeOK, HoldInv
<1>1. \A r \in Reservation : /\ status'[r] = "ACTIVE" <=> status[r] = "ACTIVE" /\ r \notin D
                             /\ status'[r] = "CONFIRMED" <=> status[r] = "CONFIRMED"
                             /\ status'[r] = "NONE" <=> status[r] = "NONE"
  OBVIOUS
<1>2. UNCHANGED phase => RowsEndWithSession'
  BY <1>1 DEF RowsEndWithSession
<1>3. UNCHANGED <<pc, picked>> => PickedIsOverdue'
  BY <1>1 DEF PickedIsOverdue
<1>4. \A x \in Checkout : \A s \in DOMAIN cart[x] : <<x, s>> \in Reservation
  BY DEF Reservation
<1>5. UNCHANGED paymentStatus => SoldIsPaid'
  BY <1>1, <1>4 DEF SoldIsPaid
<1> QED
  BY <1>1, <1>2, <1>3, <1>5

\* Confirming a session, or finding that it came too late.
LEMMA ConfirmingKeepsHold ==
    ASSUME StorefrontTypeOK, SaleInv, HoldInv, NEW c \in Checkout,
           ConfirmLapsed(c) \/ ViewCheckout(c) \/ BeginConfirm(c) \/ CommitConfirm(c)
    PROVE  HoldInv'
<1> USE DEF StorefrontTypeOK, OrdersTypeOK, InventoryTypeOK, LedgerTypeOK, HoldInv, SaleInv
<1>0. \A x \in Checkout : \A s \in DOMAIN cart[x] : <<x, s>> \in Reservation
  BY DEF Reservation
<1>1. CASE ConfirmLapsed(c) \/ ViewCheckout(c)
  <2> DEFINE D == Live(Rows(c))
  <2>1. /\ UNCHANGED <<expiresAt, deadline, now, cart, phase, pc, picked, paymentStatus, order,
                       confirming, linked>>
        /\ c \notin confirming /\ session[c] = "ACTIVE"
        /\ session' = [session EXCEPT ![c] = "EXPIRED"]
        /\ status' = [r \in Reservation |-> IF r \in D THEN "EXPIRED" ELSE status[r]]
    BY <1>1 DEF ConfirmLapsed, ViewCheckout, ExpireSession, ReleaseReservations, CloseRows,
                Reachable, stockAside, workerVars, orderVars
  <2>2. /\ D \in SUBSET Reservation
        /\ \A r \in D : status[r] = "ACTIVE" /\ r[1] = c
    BY DEF Rows, Live, WithStatus
  <2>3. order[c] = "NONE"
    BY <2>1 DEF CheckoutInOrder
  <2> HIDE DEF D
  <2>4. /\ RowsEndWithSession' /\ PickedIsOverdue' /\ SoldIsPaid'
        /\ \A r \in Reservation : status'[r] = "ACTIVE" <=> status[r] = "ACTIVE" /\ r \notin D
    BY <2>1, <2>2, EndingKeepsHold
  <2>5. LinesStayHeld'
    BY <1>0, <2>1, <2>2, <2>3, <2>4 DEF LinesStayHeld
  <2>6. HeldIsLinked' /\ EndedHoldsNothing'
    BY <2>1, <2>4 DEF HeldIsLinked, EndedHoldsNothing
  <2> QED
    BY <2>4, <2>5, <2>6
<1>2. CASE BeginConfirm(c)
  <2>1. /\ UNCHANGED <<status, expiresAt, deadline, now, cart, phase, pc, picked, paymentStatus,
                       order, session, linked>>
        /\ session[c] = "ACTIVE" /\ confirming' = confirming \cup {c}
        /\ Rows(c) = {c} \X DOMAIN cart[c]
        /\ \A r \in Rows(c) : status[r] = "ACTIVE"
    BY <1>2 DEF BeginConfirm, Lapsed, ledgerVars, stockAside, workerVars
  <2>2. order[c] = "NONE"
    BY <2>1 DEF CheckoutInOrder
  <2>3. \A s \in DOMAIN cart[c] : status[<<c, s>>] = "ACTIVE"
    BY <2>1
  <2>4. LinesStayHeld'
    BY <2>1, <2>2, <2>3 DEF LinesStayHeld
  <2> QED
    BY <2>1, <2>4
    DEF RowsEndWithSession, PickedIsOverdue, HeldIsLinked, EndedHoldsNothing, SoldIsPaid
<1>3. CASE CommitConfirm(c)
  <2>1. /\ UNCHANGED <<status, expiresAt, deadline, now, cart, phase, pc, picked, paymentStatus>>
        /\ c \in confirming /\ confirming' = confirming \ {c}
        /\ session' = [session EXCEPT ![c] = "CONFIRMED"]
        /\ order' = [order EXCEPT ![c] = "PENDING_PAYMENT"]
        /\ linked' = linked \cup Live(Rows(c))
    BY <1>3 DEF CommitConfirm, ledgerVars, stockAside, workerVars
  <2>2. \A r \in Reservation : r[1] = c /\ status[r] = "ACTIVE" => r \in linked'
    BY <2>1 DEF Live, Rows, WithStatus
  <2>3. linked \subseteq linked'
    BY <2>1
  <2>4. \A x \in Checkout : x # c => UNCHANGED <<order[x], session[x]>>
    BY <2>1
  <2>5. LinesStayHeld'
    BY <1>0, <2>1, <2>2, <2>3, <2>4 DEF LinesStayHeld
  <2>6. HeldIsLinked'
    BY <2>1, <2>2, <2>3, <2>4 DEF HeldIsLinked, Reservation
  <2>7. EndedHoldsNothing'
    BY <2>1, <2>4 DEF EndedHoldsNothing
  <2> QED
    BY <2>1, <2>5, <2>6, <2>7 DEF RowsEndWithSession, PickedIsOverdue, SoldIsPaid
<1> QED
  BY <1>1, <1>2, <1>3

\* Cancelling; a report that the payment failed ends the order the same way.
LEMMA CancellingKeepsHold ==
    ASSUME StorefrontTypeOK, SaleInv, HoldInv, NEW c \in Checkout,
           NEW D \in SUBSET Reservation,
           \A r \in D : status[r] = "ACTIVE" /\ r[1] = c,
           \A r \in Reservation : r[1] = c /\ status[r] = "ACTIVE" => r \in D,
           status' = [r \in Reservation |-> IF r \in D THEN "RELEASED" ELSE status[r]],
           UNCHANGED <<expiresAt, deadline, now, cart, phase, pc, picked, confirming, linked>>,
           phase[c] \notin {"new", "opening", "alerting"}, c \notin confirming,
           session' = [session EXCEPT ![c] = "CANCELLED"],
           NEW st \in {"NONE", "CANCELLED", "PAYMENT_FAILED"},
           order' = [order EXCEPT ![c] = st],
           \/ UNCHANGED paymentStatus
           \/ /\ paymentStatus[c] = "PENDING"
              /\ paymentStatus' = [paymentStatus EXCEPT ![c] = "FAILED"]
    PROVE  HoldInv'
<1> USE DEF StorefrontTypeOK, OrdersTypeOK, InventoryTypeOK, LedgerTypeOK, HoldInv
<1>1. /\ RowsEndWithSession' /\ PickedIsOverdue'
      /\ UNCHANGED paymentStatus => SoldIsPaid'
      /\ \A r \in Reservation : /\ status'[r] = "ACTIVE" <=> status[r] = "ACTIVE" /\ r \notin D
                                /\ status'[r] = "CONFIRMED" <=> status[r] = "CONFIRMED"
  BY EndingKeepsHold
<1>2. \A x \in Checkout : \A s \in DOMAIN cart[x] : <<x, s>> \in Reservation
  BY DEF Reservation
<1>3. \A x \in Checkout : x # c => UNCHANGED <<order[x], session[x], paymentStatus[x]>>
  OBVIOUS
<1>4. LinesStayHeld'
  BY <1>1, <1>2, <1>3 DEF LinesStayHeld
<1>5. HeldIsLinked' /\ EndedHoldsNothing'
  BY <1>1, <1>3 DEF HeldIsLinked, EndedHoldsNothing, Reservation
<1>6. ASSUME paymentStatus[c] = "PENDING", paymentStatus' = [paymentStatus EXCEPT ![c] = "FAILED"]
      PROVE  SoldIsPaid'
  BY <1>1, <1>2, <1>3, <1>6 DEF SoldIsPaid
<1> QED
  BY <1>1, <1>4, <1>5, <1>6

\* Whoever ends a checkout or its order releases all it holds: what an order
\* holds is linked to it.
LEMMA EndKeepsHold ==
    ASSUME StorefrontTypeOK, SaleInv, HoldInv, NEW c \in Checkout
    PROVE  /\ CancelCheckout(c) \/ CancelOrder(c) => HoldInv'
           /\ \A q \in Request : FailPayment(q) /\ request[q].event[1][1] = c => HoldInv'
<1> USE DEF StorefrontTypeOK, OrdersTypeOK, InventoryTypeOK, LedgerTypeOK, SaleInv
<1>1. ASSUME CancelCheckout(c)
      PROVE  HoldInv'
  <2> DEFINE D == Live(Rows(c))
             st == IF order[c] = "NONE" THEN "NONE" ELSE "CANCELLED"
  <2>1. /\ UNCHANGED <<expiresAt, deadline, now, cart, phase, pc, picked, confirming, linked,
                       paymentStatus>>
        /\ phase[c] = "ready" /\ c \notin confirming
        /\ session' = [session EXCEPT ![c] = "CANCELLED"]
        /\ order' = [order EXCEPT ![c] = st]
        /\ status' = [r \in Reservation |-> IF r \in D THEN "RELEASED" ELSE status[r]]
    BY <1>1 DEF CancelCheckout, ReleaseReservations, CloseRows, Reachable, stockAside,
                workerVars, orderVars
  <2>2. /\ D \in SUBSET Reservation
        /\ \A r \in D : status[r] = "ACTIVE" /\ r[1] = c
        /\ \A r \in Reservation : r[1] = c /\ status[r] = "ACTIVE" => r \in D
    BY DEF Rows, Live, WithStatus
  <2>3. st \in {"NONE", "CANCELLED", "PAYMENT_FAILED"}
    OBVIOUS
  <2> HIDE DEF D, st
  <2> QED
    BY <2>1, <2>2, <2>3, CancellingKeepsHold
<1>2. ASSUME order[c] # "NONE"
      PROVE  /\ phase[c] \notin {"new", "opening", "alerting"} /\ c \notin confirming
             /\ Live(Linked(c)) \in SUBSET Reservation
             /\ \A r \in Live(Linked(c)) : status[r] = "ACTIVE" /\ r[1] = c
             /\ \A r \in Reservation : r[1] = c /\ status[r] = "ACTIVE" => r \in Live(Linked(c))
  <2>1. phase[c] \notin {"new", "opening", "alerting"} /\ c \notin confirming
    BY <1>2 DEF CheckoutInOrder
  <2>2. \A r \in Reservation : r[1] = c /\ status[r] = "ACTIVE" => r \in linked
    BY <1>2 DEF HoldInv, HeldIsLinked
  <2> QED
    BY <2>1, <2>2 DEF Live, Linked, WithStatus
<1>3. ASSUME CancelOrder(c)
      PROVE  HoldInv'
  <2> DEFINE D == Live(Linked(c))
  <2>1. /\ UNCHANGED <<expiresAt, deadline, now, cart, phase, pc, picked, confirming, linked,
                       paymentStatus>>
        /\ order[c] # "NONE"
        /\ session' = [session EXCEPT ![c] = "CANCELLED"]
        /\ order' = [order EXCEPT ![c] = "CANCELLED"]
        /\ status' = [r \in Reservation |-> IF r \in D THEN "RELEASED" ELSE status[r]]
    BY <1>3 DEF CancelOrder, ReleaseReservations, CloseRows, stockAside, workerVars, orderVars
  <2> HIDE DEF D
  <2>2. /\ phase[c] \notin {"new", "opening", "alerting"} /\ c \notin confirming
        /\ D \in SUBSET Reservation
        /\ \A r \in D : status[r] = "ACTIVE" /\ r[1] = c
        /\ \A r \in Reservation : r[1] = c /\ status[r] = "ACTIVE" => r \in D
    BY <1>2, <2>1 DEF D
  <2> QED
    BY <2>1, <2>2, CancellingKeepsHold
<1>4. ASSUME NEW q \in Request, FailPayment(q), request[q].event[1][1] = c
      PROVE  HoldInv'
  <2> DEFINE D == Live(Linked(c))
             p == request[q].event[1]
  <2>1. /\ UNCHANGED <<expiresAt, deadline, now, cart, phase, pc, picked, confirming, linked>>
        /\ request[q].pc = "processing" /\ Open(p)
        /\ session' = [session EXCEPT ![c] = "CANCELLED"]
        /\ order' = [order EXCEPT ![c] = "PAYMENT_FAILED"]
        /\ paymentStatus' = [paymentStatus EXCEPT ![c] = "FAILED"]
        /\ status' = [r \in Reservation |-> IF r \in D THEN "RELEASED" ELSE status[r]]
    BY <1>4 DEF FailPayment, ReleaseReservations, CloseRows, stockAside, workerVars
  <2>2. p \in Payment
    BY <2>1, ReportNamesPayment
  <2>3. paymentStatus[c] = "PENDING" /\ order[c] # "NONE"
    BY <1>4, <2>1, <2>2 DEF OpenIsUnpaid, CheckoutInOrder, Open
  <2> HIDE DEF D, p
  <2>4. /\ phase[c] \notin {"new", "opening", "alerting"} /\ c \notin confirming
        /\ D \in SUBSET Reservation
        /\ \A r \in D : status[r] = "ACTIVE" /\ r[1] = c
        /\ \A r \in Reservation : r[1] = c /\ status[r] = "ACTIVE" => r \in D
    BY <1>2, <2>3 DEF D
  <2> QED
    BY <2>1, <2>3, <2>4, CancellingKeepsHold
<1> QED
  BY <1>1, <1>3, <1>4

\* A payment sells what is linked: in time, that is every line of the cart.
LEMMA PaymentKeepsHold ==
    ASSUME StorefrontTypeOK, SaleInv, HoldInv, NEW q \in Request, ConfirmPayment(q)
    PROVE  HoldInv'
<1> USE DEF StorefrontTypeOK, OrdersTypeOK, InventoryTypeOK, LedgerTypeOK, SaleInv, HoldInv
<1> DEFINE c == request[q].event[1][1]
<1>1. /\ UNCHANGED <<expiresAt, deadline, now, cart, phase, pc, picked, confirming, linked,
                     session>>
      /\ request[q].pc = "processing"
      /\ order[c] = "PENDING_PAYMENT" /\ order' = [order EXCEPT ![c] = "PAID"]
      /\ paymentStatus' = [paymentStatus EXCEPT ![c] = "PAID"]
      /\ Linked(c) # {} /\ \A r \in Linked(c) : status[r] = "ACTIVE" /\ expiresAt[r] > now
      /\ status' = [r \in Reservation |-> IF r \in Linked(c) THEN "CONFIRMED" ELSE status[r]]
  BY DEF ConfirmPayment, SellRows, stockAside, workerVars
<1>2. c \in Checkout
  BY <1>1, ReportNamesPayment
<1> HIDE DEF c
<1>3. Linked(c) \in SUBSET Reservation /\ \A r \in Linked(c) : r[1] = c
  BY DEF Linked
<1>4. now < deadline[c]
  <2>1. PICK r \in Linked(c) : TRUE
    BY <1>1
  <2>2. expiresAt[r] = deadline[c]
    BY <1>1, <1>3, <2>1 DEF RowsEndWithSession
  <2> QED
    BY <1>1, <2>1, <2>2
<1>5. "release" \notin Manual => \A s \in DOMAIN cart[c] : <<c, s>> \in Linked(c)
  BY <1>1, <1>2, <1>4 DEF LinesStayHeld, Linked
<1>6. \A r \in Reservation :
         IF r \in Linked(c) THEN status'[r] = "CONFIRMED" /\ status[r] = "ACTIVE"
                            ELSE status'[r] = status[r]
  BY <1>1
<1>7. \A x \in Checkout : x # c => UNCHANGED <<order[x], paymentStatus[x]>>
  BY <1>1
<1>8. \A x \in Checkout : \A s \in DOMAIN cart[x] : <<x, s>> \in Reservation
  BY DEF Reservation
<1>9. RowsEndWithSession'
  BY <1>1, <1>6 DEF RowsEndWithSession
<1>10. PickedIsOverdue'
  BY <1>1, <1>6 DEF PickedIsOverdue
<1>11. c \notin confirming
  BY <1>1, <1>2 DEF CheckoutInOrder
<1>12. LinesStayHeld'
  BY <1>1, <1>2, <1>3, <1>6, <1>7, <1>8, <1>11 DEF LinesStayHeld
<1>13. HeldIsLinked'
  BY <1>1, <1>2, <1>6, <1>7 DEF HeldIsLinked, Reservation
<1>14. EndedHoldsNothing'
  BY <1>1, <1>2, <1>6, <1>7 DEF EndedHoldsNothing
<1>15. paymentStatus'[c] = "PAID"
  BY <1>1, <1>2
<1>16. \A r \in Reservation :
          status'[r] = "CONFIRMED" => paymentStatus'[r[1]] \in {"PAID", "REFUNDED"}
  BY <1>3, <1>6, <1>7, <1>15 DEF SoldIsPaid, Reservation
<1>17. ASSUME "release" \notin Manual, NEW x \in Checkout, paymentStatus'[x] = "PAID",
              NEW s \in DOMAIN cart[x]
       PROVE  status'[<<x, s>>] = "CONFIRMED"
  BY <1>5, <1>6, <1>7, <1>8, <1>17 DEF SoldIsPaid
<1>18. SoldIsPaid'
  BY <1>1, <1>16, <1>17 DEF SoldIsPaid
<1> QED
  BY <1>9, <1>10, <1>12, <1>13, <1>14, <1>18

\* The expiry worker closes rows that are overdue for good, whatever happened
\* since it listed them, and the sessions and orders they belong to.
LEMMA WorkerKeepsHold ==
    ASSUME StorefrontTypeOK, SaleInv, HoldInv, NEW w \in Worker, ExpiryStep(w)
    PROVE  HoldInv'
<1> USE DEF StorefrontTypeOK, OrdersTypeOK, InventoryTypeOK, LedgerTypeOK, HoldInv
<1>1. UNCHANGED <<cart, deadline, phase, confirming, paymentStatus, linked, expiresAt, now>>
  BY DEF ExpiryStep, WorkerStep, WorkerList, WorkerRead, WorkerExpire, WorkerFinish, orderVars
<1>2. CASE WorkerList(w) \/ \E r \in Reservation : WorkerRead(w, r)
  <2>1. UNCHANGED <<status, session, order>>
    BY <1>2 DEF WorkerList, WorkerRead, ledgerVars
  <2>2. PickedIsOverdue'
    <3>1. CASE WorkerList(w)
      BY <1>1, <2>1, <3>1 DEF WorkerList, PickedIsOverdue
    <3>2. ASSUME NEW r \in Reservation, WorkerRead(w, r)
          PROVE  PickedIsOverdue'
      BY <1>1, <2>1, <3>2 DEF WorkerRead, PickedIsOverdue, Due
    <3> QED
      BY <1>2, <3>1, <3>2
  <2> QED
    BY <1>1, <2>1, <2>2 DEF RowsEndWithSession, LinesStayHeld, HeldIsLinked,
                             EndedHoldsNothing, SoldIsPaid
<1>3. CASE WorkerExpire(w)
  <2> DEFINE D == {r \in {picked[w]} : status[r] = "ACTIVE"}
  <2>1. picked[w] \in Reservation /\ expiresAt[picked[w]] <= now
    BY <1>3 DEF WorkerExpire, PickedIsOverdue
  <2>2. /\ UNCHANGED <<session, order>>
        /\ status' = [r \in Reservation |-> IF r \in D THEN "EXPIRED" ELSE status[r]]
        /\ pc' = [pc EXCEPT ![w] = "next"] /\ picked' = [picked EXCEPT ![w] = None]
    BY <1>3 DEF WorkerExpire, CloseRows, ledgerVars
  <2>3. D \in SUBSET Reservation /\ \A r \in D : status[r] = "ACTIVE" /\ expiresAt[r] <= now
    BY <2>1
  <2> HIDE DEF D
  <2>4. /\ RowsEndWithSession' /\ SoldIsPaid'
        /\ \A r \in Reservation : status'[r] = "ACTIVE" <=> status[r] = "ACTIVE" /\ r \notin D
    BY <1>1, <2>2, <2>3, EndingKeepsHold
  <2>5. PickedIsOverdue'
    BY <1>1, <2>2, <2>3 DEF PickedIsOverdue
  <2>6. LinesStayHeld'
    <3>0. UNCHANGED <<cart, deadline, confirming, linked, now, order>>
      BY <1>1, <2>2
    <3> SUFFICES ASSUME "release" \notin Manual, NEW x \in Checkout,
                        x \in confirming \/ order[x] = "PENDING_PAYMENT", now < deadline[x],
                        NEW s \in DOMAIN cart[x]
                 PROVE  /\ status'[<<x, s>>] = "ACTIVE"
                        /\ order[x] = "PENDING_PAYMENT" => <<x, s>> \in linked
      BY <3>0 DEF LinesStayHeld
    <3>1. status[<<x, s>>] = "ACTIVE" /\ (order[x] = "PENDING_PAYMENT" => <<x, s>> \in linked)
      BY DEF LinesStayHeld
    <3>2. <<x, s>> \in Reservation
      BY DEF Reservation
    <3>3. <<x, s>> \notin D
      BY <2>3, <3>1, <3>2 DEF RowsEndWithSession
    <3> QED
      BY <2>4, <3>1, <3>2, <3>3
  <2>7. HeldIsLinked' /\ EndedHoldsNothing'
    BY <1>1, <2>2, <2>4 DEF HeldIsLinked, EndedHoldsNothing
  <2> QED
    BY <2>4, <2>5, <2>6, <2>7
<1>4. CASE WorkerFinish(w)
  <2>1. /\ UNCHANGED <<status, picked>>
        /\ pc' = [pc EXCEPT ![w] = "idle"]
        /\ \A x \in Checkout :
              /\ session'[x] = session[x] \/ session'[x] = "EXPIRED"
              /\ order'[x] = order[x] \/ (order[x] # "NONE" /\ order'[x] = "EXPIRED")
    BY <1>4 DEF WorkerFinish, ExpireCheckoutStates, ledgerVars
  <2>2. PickedIsOverdue'
    BY <1>1, <2>1 DEF PickedIsOverdue
  <2>3. LinesStayHeld' /\ HeldIsLinked' /\ EndedHoldsNothing'
    BY <1>1, <2>1 DEF LinesStayHeld, HeldIsLinked, EndedHoldsNothing, Reservation
  <2> QED
    BY <1>1, <2>1, <2>2, <2>3 DEF RowsEndWithSession, SoldIsPaid
<1> QED
  BY <1>2, <1>3, <1>4 DEF ExpiryStep, WorkerStep

\* What staff do to paid orders and to the stock, crashes and the clock.
LEMMA StaffKeepsHold ==
    ASSUME StorefrontTypeOK, SaleInv, HoldInv,
           \/ \E c \in Checkout, returnStock \in BOOLEAN : RefundOrder(c, returnStock)
           \/ \E c \in Checkout : UpdateStatus(c)
           \/ \E w \in Worker : Crash(w) /\ UNCHANGED orderVars
           \/ ManualStep
           \/ Tick /\ UNCHANGED orderVars
    PROVE  HoldInv'
<1> USE DEF StorefrontTypeOK, OrdersTypeOK, InventoryTypeOK, LedgerTypeOK, HoldInv
<1>1. ASSUME NEW c \in Checkout, NEW returnStock \in BOOLEAN, RefundOrder(c, returnStock)
      PROVE  HoldInv'
  <2>1. /\ UNCHANGED <<status, expiresAt, deadline, phase, confirming, cart, session, linked, now,
                       pc, picked>>
        /\ order' = [order EXCEPT ![c] = "REFUNDED"]
        /\ paymentStatus[c] = "PAID" /\ paymentStatus' = [paymentStatus EXCEPT ![c] = "REFUNDED"]
        /\ order[c] # "NONE"
    BY <1>1 DEF RefundOrder, RestockRows, stockAside, workerVars, SaleInv, PaidIsSold, Sold
  <2>2. LinesStayHeld' /\ HeldIsLinked' /\ EndedHoldsNothing'
    BY <2>1 DEF LinesStayHeld, HeldIsLinked, EndedHoldsNothing, Reservation
  <2>3. SoldIsPaid'
    BY <2>1 DEF SoldIsPaid, Reservation
  <2> QED
    BY <2>1, <2>2, <2>3 DEF RowsEndWithSession, PickedIsOverdue
<1>2. ASSUME NEW c \in Checkout, UpdateStatus(c)
      PROVE  HoldInv'
  <2>1. /\ UNCHANGED <<status, expiresAt, deadline, phase, confirming, cart, session, linked, now,
                       pc, picked, paymentStatus>>
        /\ order[c] # "NONE" /\ NextStatus[order[c]] \in Sold
        /\ order' = [order EXCEPT ![c] = NextStatus[order[c]]]
    BY <1>2 DEF UpdateStatus, NextStatus, Sold, stockAside, workerVars, orderVars, ledgerVars
  <2>2. LinesStayHeld' /\ HeldIsLinked' /\ EndedHoldsNothing'
    BY <2>1 DEF LinesStayHeld, HeldIsLinked, EndedHoldsNothing, Reservation, Sold
  <2> QED
    BY <2>1, <2>2 DEF RowsEndWithSession, PickedIsOverdue, SoldIsPaid
<1>3. ASSUME NEW w \in Worker, Crash(w) /\ UNCHANGED orderVars
      PROVE  HoldInv'
  <2>1. /\ UNCHANGED <<status, expiresAt, deadline, phase, confirming, cart, order, session,
                       paymentStatus, linked, now>>
        /\ pc' = [pc EXCEPT ![w] = "idle"] /\ picked' = [picked EXCEPT ![w] = None]
    BY <1>3 DEF Crash, orderVars, ledgerVars
  <2> QED
    BY <2>1 DEF RowsEndWithSession, PickedIsOverdue, LinesStayHeld, HeldIsLinked,
                EndedHoldsNothing, SoldIsPaid
<1>4. ASSUME NEW r \in Reservation, "release" \in Manual, Release(r), UNCHANGED orderVars
      PROVE  HoldInv'
  <2>1. /\ UNCHANGED <<expiresAt, deadline, now, cart, phase, pc, picked, confirming, linked,
                       session, order, paymentStatus>>
        /\ status[r] = "ACTIVE"
        /\ status' = [x \in Reservation |-> IF x \in {r} THEN "RELEASED" ELSE status[x]]
    BY <1>4 DEF Release, CloseRows, workerVars, orderVars
  <2>2. /\ RowsEndWithSession' /\ PickedIsOverdue' /\ SoldIsPaid'
        /\ \A x \in Reservation : status'[x] = "ACTIVE" <=> status[x] = "ACTIVE" /\ x \notin {r}
    <3>1. {r} \in SUBSET Reservation /\ \A x \in {r} : status[x] = "ACTIVE"
      BY <2>1
    <3> QED
      BY <2>1, <3>1, EndingKeepsHold
  <2> QED
    BY <1>4, <2>1, <2>2 DEF LinesStayHeld, HeldIsLinked, EndedHoldsNothing
<1>5. ASSUME NEW s \in Stock, NEW d \in Delta, Adjust(s, d), UNCHANGED orderVars
      PROVE  HoldInv'
  BY <1>5, HoldSame DEF Adjust, AdjustTotal, workerVars, orderVars, holdVars
<1>6. CASE Tick /\ UNCHANGED orderVars
  <2>1. /\ UNCHANGED <<status, expiresAt, deadline, phase, confirming, cart, order, session,
                       paymentStatus, linked, pc, picked>>
        /\ now' = now + 1
    BY <1>6 DEF Tick, ledgerVars, workerVars, orderVars
  <2>2. PickedIsOverdue'
    BY <2>1, InventoryAssumption DEF PickedIsOverdue
  <2>3. LinesStayHeld'
    BY <2>1, InventoryAssumption DEF LinesStayHeld
  <2> QED
    BY <2>1, <2>2, <2>3 DEF RowsEndWithSession, HeldIsLinked, EndedHoldsNothing, SoldIsPaid
<1> QED
  BY <1>1, <1>2, <1>3, <1>4, <1>5, <1>6 DEF ManualStep

\* Every step of the website keeps stock and orders together.
LEMMA HoldStep ==
    ASSUME StorefrontTypeOK, SaleInv, HoldInv, [StorefrontNext]_storefrontVars
    PROVE  HoldInv'
<1>1. CASE OrdersStep
  <2>1. ASSUME NEW c \in Checkout,
               \/ \E W \in SUBSET Stock, t \in Lifetime :
                     \E want \in [W -> Quantity] : OpenSession(c, want, t)
               \/ ReserveCart(c) \/ DeleteSession(c) \/ HandOutToken(c) \/ CrashCheckout(c)
        PROVE  HoldInv'
    BY <2>1, CreateKeepsHold, ReserveKeepsHold
  <2>2. ASSUME NEW c \in Checkout,
               \/ ConfirmLapsed(c) \/ BeginConfirm(c) \/ CommitConfirm(c) \/ ViewCheckout(c)
               \/ CancelCheckout(c) \/ CancelOrder(c)
        PROVE  HoldInv'
    BY <2>2, ConfirmingKeepsHold, EndKeepsHold
  <2>3. ASSUME \/ \E c \in Checkout, returnStock \in BOOLEAN : RefundOrder(c, returnStock)
               \/ \E c \in Checkout : UpdateStatus(c)
               \/ \E w \in Worker : ExpiryStep(w) \/ (Crash(w) /\ UNCHANGED orderVars)
               \/ ManualStep
               \/ Tick /\ UNCHANGED orderVars
        PROVE  HoldInv'
    BY <2>3, WorkerKeepsHold, StaffKeepsHold
  <2> QED
    BY <1>1, <2>1, <2>2, <2>3 DEF OrdersStep
<1>2. ASSUME NEW q \in Request, ConfirmPayment(q) \/ FailPayment(q)
      PROVE  HoldInv'
  <2>1. request[q].event[1][1] \in Checkout
    BY <1>2, ReportNamesPayment DEF ConfirmPayment, FailPayment
  <2> QED
    BY <1>2, <2>1, PaymentKeepsHold, EndKeepsHold
<1>3. ASSUME NEW q \in Request, ReportStep(q), ~ConfirmPayment(q), ~FailPayment(q)
      PROVE  UNCHANGED holdVars
  BY <1>3 DEF ReportStep, Receive, Reopen, AlreadySettled, Throw, LogProcessingFailure, Answer,
              CrashRequest, vars, orderVars, ledgerVars, stockAside, workerVars, holdVars
<1>4. ASSUME NEW c \in Checkout, CreateIntent(c)
      PROVE  UNCHANGED holdVars
  BY <1>4 DEF CreateIntent, vars, orderVars, ledgerVars, workerVars, holdVars
<1>5. CASE UNCHANGED storefrontVars
  BY <1>5, HoldSame DEF storefrontVars, vars, orderVars, ledgerVars, workerVars, holdVars
<1> QED
  BY <1>1, <1>2, <1>3, <1>4, <1>5, HoldSame DEF StorefrontNext

-----------------------------------------------------------------------------
THEOREM HoldInvariantHolds == StorefrontSpec => []HoldInv
<1>1. StorefrontInv /\ HoldInv /\ [StorefrontNext]_storefrontVars => HoldInv'
  BY HoldStep DEF StorefrontInv
<1> QED
  BY <1>1, HoldInit, StorefrontInvariantHolds, PTL DEF StorefrontSpec

\* A session or an order that was cancelled, or whose payment failed, holds no
\* stock, whichever handler ended it (cancelCheckout, cancel, failPayment) and
\* whatever it raced with.
THEOREM CancelledOrdersHoldNothing == StorefrontSpec => []CancelledHoldsNothing
<1>1. HoldInv => CancelledHoldsNothing
  BY DEF HoldInv, EndedHoldsNothing, CancelledHoldsNothing, Live, Rows, WithStatus
<1> QED
  BY <1>1, HoldInvariantHolds, PTL

\* Stock is sold exactly for money: unless staff release reservations by hand, a
\* paid order has sold every line of its cart, although confirmCheckout links what
\* it finds live and confirmPayment sells what it finds linked; and no unit is
\* sold to an order that was never paid.
THEOREM OrdersSellWhatIsPaid ==
    ASSUME "release" \notin Manual
    PROVE  StorefrontSpec => []SoldIffPaid
<1>1. HoldInv => SoldIffPaid
  BY DEF HoldInv, SoldIsPaid, SoldIffPaid, WithStatus
<1> QED
  BY <1>1, HoldInvariantHolds, PTL
=============================================================================
