----------------------------- MODULE Inventory -----------------------------
(***************************************************************************)
(* The inventory service: manual adjustments, reservations for a checkout, *)
(* their confirmation and release, and the expiry worker.                  *)
(*                                                                         *)
(* A handler that re-reads every row it uses under the row lock of the     *)
(* stock item is one action.  The expiry worker is not: it lists the       *)
(* overdue reservations, reads each again before it waits for the lock,    *)
(* and closes the checkouts in a last transaction of its own, so each of   *)
(* these is an action and anything may happen in between.  setInterval     *)
(* does not wait for a slow run, so several runs (Worker) may overlap.     *)
(*                                                                         *)
(* A handler that throws rolls its transaction back: it changes nothing    *)
(* and is no action.                                                       *)
(***************************************************************************)
EXTENDS StockLedger

CONSTANTS Worker,        \* overlapping runs of the expiry worker
          Buffer,        \* the safety buffers a merchant may set (@Min(0))
          Channel,       \* the sales channels that reserve: "POS", "WEBSITE"
          Lifetime,      \* how long a reservation may be asked for
          BatchLimit,    \* expireReservations(limit)
          InitialTotal,  \* bound: the totals the stock items may start with
          MaxTotal,      \* bound: the largest total an adjustment may reach
          MaxTime,       \* bound: the last instant of the clock
          MaxCrashes     \* bound: how often a process may crash

ASSUME InventoryAssumption ==
    /\ Buffer \subseteq Nat
    /\ Lifetime \subseteq Nat \ {0}
    /\ BatchLimit \in Nat \ {0}
    /\ InitialTotal \subseteq Nat
    /\ MaxTime \in Nat

VARIABLES
    safetyBuffer,  \* the last field of the balance row
    expiresAt,     \* the last field of the reservation row
    session,       \* CheckoutSession.status
    order,         \* Order.status; PENDING_PAYMENT implies paymentStatus PENDING
    now,
    pc,            \* what a worker run does next
    batch,         \* the reservations it listed and has not handled yet
    picked,        \* the reservation it read before waiting for the lock
    changed,       \* the checkouts of the reservations it handled
    owed,          \* checkouts a failed confirm still has to expire
    crashes

workerVars == <<pc, batch, picked, changed>>
vars == <<ledgerVars, safetyBuffer, expiresAt, session, order, now,
          workerVars, owed, crashes>>

None == <<>>

\* "NONE": not created yet.  The rest is enum CheckoutSessionStatus (a session
\* whose reservation failed is deleted) and what is used of enum OrderStatus.
SessionStatus == {"NONE", "ACTIVE", "CONFIRMED", "CANCELLED", "EXPIRED", "DELETED"}
OrderStatus == {"NONE", "PENDING_PAYMENT", "PAID", "PROCESSING", "FULFILLED",
                "COMPLETED", "CANCELLED", "PAYMENT_FAILED", "REFUNDED", "EXPIRED"}

InventoryTypeOK ==
    /\ LedgerTypeOK
    /\ safetyBuffer \in [Stock -> Nat]
    /\ expiresAt \in [Reservation -> Nat]
    /\ session \in [Checkout -> SessionStatus]
    /\ order \in [Checkout -> OrderStatus]
    /\ now \in 0 .. MaxTime
    /\ pc \in [Worker -> {"idle", "next", "locking"}]
    /\ batch \in [Worker -> SUBSET Reservation]
    /\ picked \in [Worker -> Reservation \cup {None}]
    /\ \A w \in Worker : pc[w] = "locking" => picked[w] \in Reservation
    /\ changed \in [Worker -> SUBSET Checkout]
    /\ owed \subseteq Checkout
    /\ crashes \in Nat

-----------------------------------------------------------------------------
Due(r) == status[r] = "ACTIVE" /\ expiresAt[r] <= now
DueAt(s) == {r \in Reservation : r[2] = s /\ Due(r)}

\* Mutant: sold units are offered again.
SellableAgain(s, channel) ==
    LET free == totalStock[s] - (reservedStock[s] - Held(quantity, DueAt(s), s))
    IN  IF channel = "POS" \/ free < safetyBuffer[s] THEN free ELSE free - safetyBuffer[s]

\* Stock a channel may sell once the overdue reservations of s are closed: the
\* counter sells down to the last unit, the other channels keep the buffer.
Sellable(s, channel) ==
    LET free == totalStock[s] - soldStock[s]
                  - (reservedStock[s] - Held(quantity, DueAt(s), s))
        kept == IF channel = "POS" THEN 0 ELSE safetyBuffer[s]
    IN  IF free > kept THEN free - kept ELSE 0

\* expireCheckoutStates: sessions still ACTIVE and orders still unpaid.
ExpireCheckoutStates(C) ==
    /\ session' = [c \in Checkout |->
          IF c \in C /\ session[c] = "ACTIVE" THEN "EXPIRED" ELSE session[c]]
    /\ order' = [c \in Checkout |->
          IF c \in C /\ order[c] = "PENDING_PAYMENT" THEN "EXPIRED" ELSE order[c]]

-----------------------------------------------------------------------------
InventoryInit ==
    /\ totalStock \in [Stock -> InitialTotal]
    /\ LedgerInit
    /\ safetyBuffer \in [Stock -> Buffer]
    /\ expiresAt = [r \in Reservation |-> 0]
    /\ now = 0
    /\ pc = [w \in Worker |-> "idle"]
    /\ batch = [w \in Worker |-> {}]
    /\ picked = [w \in Worker |-> None]
    /\ changed = [w \in Worker |-> {}]
    /\ owed = {}
    /\ crashes = 0

\* The inventory service on its own: sessions are open without an order, or
\* confirmed with an unpaid one.
Init ==
    /\ InventoryInit
    /\ session \in [Checkout -> {"ACTIVE", "CONFIRMED"}]
    /\ order = [c \in Checkout |->
          IF session[c] = "ACTIVE" THEN "NONE" ELSE "PENDING_PAYMENT"]

Adjust(s, d) ==
    /\ totalStock[s] + d <= MaxTotal
    /\ AdjustTotal(s, d)
    /\ \/ UNCHANGED safetyBuffer
       \/ \E b \in Buffer : safetyBuffer' = [safetyBuffer EXCEPT ![s] = b]
    /\ UNCHANGED <<expiresAt, session, order, now, workerVars, owed, crashes>>

\* One transaction for all lines of want: under each lock the overdue
\* reservations are closed, then the line is booked.  A repeated call finds its
\* own live rows and leaves them; any other row of this checkout is a conflict.
ReserveCheckout(c, want, channel, lifetime) ==
    LET lines == DOMAIN want
        fresh == {s \in lines : status[<<c, s>>] = "NONE"}
    IN  /\ \A s \in lines \ fresh :
              /\ status[<<c, s>>] = "ACTIVE"
              /\ ~Due(<<c, s>>)
              /\ quantity[<<c, s>>] = want[s]
        /\ \A s \in lines : Held(quantity, DueAt(s), s) <= reservedStock[s]
        /\ \A s \in fresh : want[s] <= Sellable(s, channel)
        /\ BookRows(c, [s \in fresh |-> want[s]], UNION {DueAt(s) : s \in lines})
        /\ expiresAt' = [r \in Reservation |->
              IF r[1] = c /\ r[2] \in fresh THEN now + lifetime ELSE expiresAt[r]]
        /\ UNCHANGED <<safetyBuffer, session, order, now, workerVars, owed, crashes>>

\* Mutants: the status is not read again under the stock lock.
ReleaseAgain(r) ==
    /\ status[r] # "NONE"
    /\ CloseRows({r}, "RELEASED")
    /\ UNCHANGED <<safetyBuffer, expiresAt, session, order, now, workerVars, owed, crashes>>
ConfirmAgain(r) ==
    /\ status[r] \in {"ACTIVE", "CONFIRMED"}
    /\ expiresAt[r] > now
    /\ SellRows({r})
    /\ UNCHANGED <<safetyBuffer, expiresAt, session, order, now, workerVars, owed, crashes>>

\* completeReservation(RELEASED) does not look at the expiry time.
Release(r) ==
    /\ status[r] = "ACTIVE"
    /\ CloseRows({r}, "RELEASED")
    /\ UNCHANGED <<safetyBuffer, expiresAt, session, order, now, workerVars, owed, crashes>>

\* completeReservation(CONFIRMED) in time ...
Confirm(r) ==
    /\ status[r] = "ACTIVE"
    /\ expiresAt[r] > now
    /\ SellRows({r})
    /\ UNCHANGED <<safetyBuffer, expiresAt, session, order, now, workerVars, owed, crashes>>

\* ... and too late: the reservation is closed and that commits; the checkout
\* follows in a second transaction before the caller gets its error.
ConfirmTooLate(r) ==
    /\ Due(r)
    /\ quantity[r] <= reservedStock[r[2]]
    /\ CloseRows({r}, "EXPIRED")
    /\ owed' = owed \cup {r[1]}
    /\ UNCHANGED <<safetyBuffer, expiresAt, session, order, now, workerVars, crashes>>

ExpireOwed(c) ==
    /\ c \in owed
    /\ ExpireCheckoutStates({c})
    /\ owed' = owed \ {c}
    /\ UNCHANGED <<ledgerVars, safetyBuffer, expiresAt, now, workerVars, crashes>>

-----------------------------------------------------------------------------
\* findMany: at most BatchLimit overdue reservations, the oldest first.
WorkerList(w) ==
    LET due == {r \in Reservation : Due(r)}
    IN  /\ pc[w] = "idle"
        /\ due # {}
        /\ \E B \in SUBSET due :
              /\ Cardinality(B) =
                    IF Cardinality(due) < BatchLimit THEN Cardinality(due) ELSE BatchLimit
              /\ \A r \in B, x \in due \ B : expiresAt[r] <= expiresAt[x]
              /\ batch' = [batch EXCEPT ![w] = B]
        /\ pc' = [pc EXCEPT ![w] = "next"]
        /\ UNCHANGED <<ledgerVars, safetyBuffer, expiresAt, session, order, now,
                       picked, changed, owed, crashes>>

\* expireReservation's first read: a reservation that is no longer live is
\* skipped, a live one is remembered while the worker waits for the stock lock.
WorkerRead(w, r) ==
    /\ pc[w] = "next"
    /\ r \in batch[w]
    /\ \A x \in batch[w] : expiresAt[r] <= expiresAt[x]
    /\ batch' = [batch EXCEPT ![w] = @ \ {r}]
    /\ IF Due(r)
       THEN /\ pc' = [pc EXCEPT ![w] = "locking"]
            /\ picked' = [picked EXCEPT ![w] = r]
       ELSE UNCHANGED <<pc, picked>>
    /\ UNCHANGED <<ledgerVars, safetyBuffer, expiresAt, session, order, now,
                   changed, owed, crashes>>

\* Mutant: expireLockedReservation trusts what it read before the lock.
WorkerExpireBlind(w) ==
    LET r == picked[w]
    IN  /\ pc[w] = "locking"
        /\ quantity[r] <= reservedStock[r[2]]
        /\ CloseRows({r}, "EXPIRED")
        /\ pc' = [pc EXCEPT ![w] = "next"]
        /\ picked' = [picked EXCEPT ![w] = None]
        /\ changed' = [changed EXCEPT ![w] = @ \cup {r[1]}]
        /\ UNCHANGED <<safetyBuffer, expiresAt, session, order, now, batch, owed, crashes>>

\* expireLockedReservation: the conditional update decides; when another
\* transaction closed the reservation first nothing moves, but the checkout
\* still counts as changed.
WorkerExpire(w) ==
    LET r == picked[w]
    IN  /\ pc[w] = "locking"
        /\ \/ /\ status[r] = "ACTIVE"
              /\ quantity[r] <= reservedStock[r[2]]
              /\ CloseRows({r}, "EXPIRED")
           \/ /\ status[r] # "ACTIVE"
              /\ UNCHANGED ledgerVars
        /\ pc' = [pc EXCEPT ![w] = "next"]
        /\ picked' = [picked EXCEPT ![w] = None]
        /\ changed' = [changed EXCEPT ![w] = @ \cup {r[1]}]
        /\ UNCHANGED <<safetyBuffer, expiresAt, session, order, now, batch, owed, crashes>>

\* Mutant: a run that changed nothing does not mark itself finished.
WorkerFinishStuck(w) ==
    /\ pc[w] = "next"
    /\ batch[w] = {}
    /\ changed[w] # {}
    /\ ExpireCheckoutStates(changed[w])
    /\ pc' = [pc EXCEPT ![w] = "idle"]
    /\ changed' = [changed EXCEPT ![w] = {}]
    /\ UNCHANGED <<ledgerVars, safetyBuffer, expiresAt, now, batch, picked, owed, crashes>>

WorkerFinish(w) ==
    /\ pc[w] = "next"
    /\ batch[w] = {}
    /\ ExpireCheckoutStates(changed[w])
    /\ pc' = [pc EXCEPT ![w] = "idle"]
    /\ changed' = [changed EXCEPT ![w] = {}]
    /\ UNCHANGED <<ledgerVars, safetyBuffer, expiresAt, now, batch, picked, owed, crashes>>

\* The process dies: a worker run and the confirms in flight are forgotten.
Crash(w) ==
    /\ crashes < MaxCrashes
    /\ pc[w] # "idle" \/ owed # {}
    /\ pc' = [pc EXCEPT ![w] = "idle"]
    /\ batch' = [batch EXCEPT ![w] = {}]
    /\ picked' = [picked EXCEPT ![w] = None]
    /\ changed' = [changed EXCEPT ![w] = {}]
    /\ owed' = {}
    /\ crashes' = crashes + 1
    /\ UNCHANGED <<ledgerVars, safetyBuffer, expiresAt, session, order, now>>

Tick ==
    /\ now < MaxTime
    /\ now' = now + 1
    /\ UNCHANGED <<ledgerVars, safetyBuffer, expiresAt, session, order,
                   workerVars, owed, crashes>>

-----------------------------------------------------------------------------
WorkerStep(w) ==
    \/ WorkerList(w)
    \/ \E r \in Reservation : WorkerRead(w, r)
    \/ WorkerExpire(w)
    \/ WorkerFinish(w)

Next ==
    \/ \E s \in Stock, d \in Delta : Adjust(s, d)
    \/ \E c \in Checkout, W \in SUBSET Stock \ {{}}, channel \in Channel, t \in Lifetime :
          \E want \in [W -> Quantity] : ReserveCheckout(c, want, channel, t)
    \/ \E r \in Reservation : Release(r) \/ Confirm(r) \/ ConfirmTooLate(r)
    \/ \E c \in Checkout : ExpireOwed(c)
    \/ \E w \in Worker : WorkerStep(w) \/ Crash(w)
    \/ Tick

Spec == Init /\ [][Next]_vars

\* The timer fires again and again and a run that was started goes on.
FairSpec == Spec /\ \A w \in Worker : WF_vars(WorkerStep(w))

-----------------------------------------------------------------------------
\* A reservation that ended stays as it ended, with the quantity it had: the
\* worker's read before the lock never revives or re-closes a row that a
\* release or a confirm got to first.
ReservationsEndOnce ==
    [][\A r \in Reservation :
          status[r] \notin {"NONE", "ACTIVE"} =>
             status'[r] = status[r] /\ quantity'[r] = quantity[r]]_vars

\* An overdue reservation does not keep its stock for ever, whichever worker
\* run crashes or overlaps another and however small the batch is.
OverdueIsClosed ==
    \A r \in Reservation : Due(r) ~> status[r] # "ACTIVE"
=============================================================================
