# Verification of the e-commerce web server

The program is the NestJS backend of a multi-channel shop (`src/src`): a
website storefront and a point-of-sale (POS) system sell from one stock. State
lives in PostgreSQL through Prisma; the isolation level is READ COMMITTED, no
table has a check constraint on its balances, and handlers protect themselves
with row locks (`SELECT ... FOR UPDATE`) and conditional updates
(`updateMany ... where status = ACTIVE`), or not at all. Several server processes
may run at the same time, each with an expiry worker on a timer.

The models keep the control of these handlers (what they read, lock, check and
write, in which transactions) and abstract prices, names, addresses and audit
rows. What is read and written under one lock is one action; what is read before
the lock, and what commits in another transaction, is another.

## Inventory of the system

| part | state | operations | what is hard | what makes it correct |
|---|---|---|---|---|
| inventory (`modules/inventory`) | balance row per stock item (total, reserved, sold, safety buffer), reservation row per checkout and item | adjust, reserve, release, confirm, expiry worker | worker reads before it locks; runs overlap; crash between closing reservations and closing their checkouts | balances equal the reservations behind them; held + sold never exceed the total; a reservation ends once; overdue stock comes back |
| checkout (`modules/checkout`) | session row | create (session, reserve, alert, compensating delete), findOne, confirm, cancel | an error or a crash between the three steps of create | no stock without an end: cancelled sessions hold none, orphans expire |
| orders (`modules/order`) | order row, link from reservations | confirmCheckout, cancelCheckout, expireCheckout, updateStatus, cancel, refund | confirmCheckout reads reservations without stock locks; cancel, expiry, payment and refund race | paid means sold; closed stays closed; a refund returns stock once |
| payments (`modules/payment`) | payment rows, webhook event rows | createIntent, webhook, PayWay callback, KHQR poll | reports repeat, contradict, overtake each other and fail half-way | paid exactly when one payment is confirmed; an event is processed only if its payment is settled |
| POS payments (`modules/pos/payments`) | payment ledger of several tenders, refund rows | create, poll of findOne, refund | sums are read without a lock, cash commits before the order is recomputed, refunds are checked before they are written | the status follows the ledger; no overpayment, no over-refund; what is sold was paid |
| POS orders (`modules/pos/orders`) | order lines, their reservations, totals | create, update, cancel, assignTable | update is four transactions; a reservation is resized from a stale read | lines, holds and totals agree; what the kitchen has is not taken away |
| POS kitchen (`modules/pos/kitchen`) | tickets, counters of the lines | sendToKitchen, updateStatus | both read, decide and then write without a lock | counters match tickets; a ticket only moves forward |
| POS shifts (`modules/pos/shifts`) | one row per shift | open, current, close | close sums payments and refunds in two reads without a lock, while both go on | the drawer is expected to hold what was really paid in, less what was paid out |
| POS sync, devices, tables, audit | one row each; sync cursor | replay a batch, pull changes | a cursor over several capped lists | no change skipped |
| idempotency (`common/interceptors`) | one record per key | run, replay, retry | repeated and concurrent requests, crash while running, failure after the effect | one body per key; executed again only after a failure; one answer |
| shipments (`modules/logistics`) | parcels of an order, `fulfillmentStatus` | create, update, updateStatus | remaining units, transitions and the roll-up are computed from reads without a lock | never ships more than was ordered; FULFILLED means delivered; an ended parcel stays ended |
| outbox (`infrastructure/rabbitmq`) | outbox rows | write with the change or after it; relay: list, publish, mark, emit, count a failure | crash between publish and mark or mark and emit, several relays on the same rows, attempts run out | an event of a committed change reaches the broker at least once, unless it really failed `maxAttempts` times |
| sessions (`modules/sessions`, `modules/authenticated`) | session rows with the hash of one refresh token | login, refresh, switchMerchant, logout, logoutAll, guard, removal of a user | every operation is several statements without a lock | a token is exchanged once; a revoked session stays as it is; a removed user is out |
| carts (`modules/storefront/cart`) | cart and lines | add, update, checkout | lost updates, double conversion | one cart becomes one checkout |
| notifications, cache (`modules/merchant/notification`, `infrastructure/redis`) | alert rows, cached catalogue | sync, fill, invalidate | read and write without a lock | the alert and the cache follow the stock |
| everything else | administration records | one row write each | nothing | |

How they interact: checkout and POS orders call `InventoryService.reserveCheckout`;
website orders, POS orders and both kinds of payment write the reservation and
balance rows themselves, under the same stock locks; the expiry worker closes
reservations and then sessions and orders; payments settle orders; the kitchen
counts on the lines POS orders edit; shipments and order handlers both write
`fulfillmentStatus`; after every commit of the website the stock alerts are
recomputed, outside the transaction, and an error there reaches the caller. The
idempotency interceptor wraps the POS endpoints. POS handlers write outbox rows,
which the relay of every process publishes. A shift belongs to the orders taken
in it, and a payment to the shift of its order.

`PROJECT.json` lists all components with their status and, under `hazards`,
what is hard to test in this code with the line where it bites.

## Modules

```
StockLedger              what every channel promises about balances and reservations
  StockLedgerProofs      ... and the proof that the promise is enough
  Inventory              the inventory service and its workers
    MCInventory          instances for TLC
    Orders               checkout sessions and website orders, on top of Inventory
      Storefront         + payments: the whole website sale
        StorefrontProofs ... and Inventory implement StockLedger; paid once, sold if paid,
                         events settled, nothing held for the ended
        MCStorefront     instances for TLC
  PosPayments            tenders and refunds at the counter
    MCPosPayments        instance for TLC
    Shifts               + the closing of the cash drawer
      PosPaymentsProofs  ... what is sold was paid, and what adds up between requests
      MCShifts           instance for TLC
  PosOrders              edits of an order at the counter
    Kitchen              + kitchen tickets cut from it
      KitchenProofs      ... the kitchen gets what was ordered, orders hold their lines
      MCKitchen          instances for TLC
Idempotency              the record of one idempotency key
  IdempotencyProofs      ... one body, one answer
  MCIdempotency          instance for TLC
Shipments                the parcels of one order
  ShipmentsProofs        ... never more than ordered, FULFILLED when delivered
  MCShipments            instance for TLC
Delivery                 what an outbox promises
  Outbox                 the outbox rows and the relays
    OutboxProofs         ... implements Delivery (its safety part)
    MCOutbox             instances for TLC
Sessions                 refresh tokens and the guard
  SessionsProofs         ... one exchange, final revocation
  MCSessions             instance for TLC
```

**StockLedger** is the abstract specification. Its state is the two tables as
functions. `BookRows`, `CloseRows`, `SellRows`, `RestockRows` are what the
transactions write; `Book`, `Close`, `Sell`, `Restock`, `Resize`, `AdjustTotal`
add when they may be written, and `LedgerSpec` is their closure. `Held(q, S, s)`
is how many units of `s` the reservations `S` stand for, defined as the size of
a set with one element per unit, so that sums need no recursion and can be
reasoned about with the library's cardinality theorems. `returned` is a history
variable: the confirmed reservations whose units a refund put back (the code
keeps them CONFIRMED). `Resize` is the change of live reservations in place by
`adjustReservedQuantity` of the POS orders.

**Inventory** uses the writes of StockLedger under the guards of the code, never
the contract's. `adjust`, `reserveCheckout`, `release` and `confirm` re-read
under the stock lock what they use and are one action. The worker is four:
list the overdue rows, read one, close it under the lock, close the checkouts.
`Worker` is the set of runs that may overlap, because `setInterval` does not
wait for a slow run and every process has its own timer. A handler that throws
rolls back and is no action; an error *after* a commit is modelled where it
matters (`ConfirmTooLate` then `ExpireOwed`).

**Orders** adds the session and order rows. `CheckoutService.create` is
`OpenSession`, `ReserveCart`, then `HandOutToken` or, on any error, the
compensating `DeleteSession`. `confirmCheckout` is `BeginConfirm` (reads the
reservations) and `CommitConfirm` (writes), with the session lock held in
between (`confirming`): everything that needs that lock waits, releases and
expiries of single reservations do not. `cart[c]` is the tracked part of the
cart; a cart of NON_STOCKED products has none.

**Storefront** adds payments and reports about them. A report is a webhook, a
PayWay callback, or the answer to a KHQR poll (event id `khqr`). Each report
handled at the same time is a member of `Request` and goes through the
transactions of the code: `Receive`, `Reopen` (a failed event again),
`ConfirmPayment`/`FailPayment`/`AlreadySettled`, then the stock alerts (`Answer`
or `Throw`) and `LogProcessingFailure`. Event ids are free, so two reports may
carry one id with different verdicts, as PayWay's do.

**PosPayments** has the payment ledger of POS orders: `Create` (checks the amount
against what confirmed payments leave open), `Insert` (a confirmed cash row, or
a pending QR code), `Poll` (the bank confirms a code), `ReadLedger` and
`WriteLedger` (`applyPaymentStatusFromLedger`: confirms the payment, sums, reads
the ACTIVE reservations; then locks the stock and writes the status and, when
covered, the sale), `BeginRefund`, `RefundOrder` (the stock comes back through
`OrderService.refund`) and `RecordRefund`. `request[q]` holds what a request
remembers between two transactions. `Meanwhile` says which of `Cancel` and
`Expire` may come in between.

**Shifts** composes `PosPayments` with `PosShiftsService.close`: `BeginClose`
(the shift is OPEN, its confirmed cash payments are summed) and `CloseShift` (its
refunds are summed, the row is written without looking at it again). `orderly` is
a history variable: it stays true while requests come one after the other, on an
open shift, no payment is begun while a QR code is open, and no process dies.
Its properties come in two sorts: what holds whatever overlaps (`SoldIsCovered`,
`ClosedOnRealCash`), and what holds as long as `orderly` does.

**PosOrders** is `update` in the transactions of the code: `BeginUpdate` (reads
the order, compares the wanted products with its lines, checks the floor of the
kitchen), `ReadRows`/`WriteRows` (`adjustReservedQuantity`: the reservation is
read before the lock, written after it), `BookLines` (`reserveCheckout` for new
products), `LinkLines` (their lines), `ReadTotals`/`WriteTotals`. **Kitchen**
adds `BeginSend`/`CommitSend` and `BeginMove`/`CommitMove`, and composes both.

**Idempotency** has one action per statement on the record of a key: `Begin`
(create), `Lookup`, `Reclaim` (the unconditional update of a failed record),
`Handle`, `Save`, `Fail`, `Crash`. A handler that fails may have committed part
of its work. A response is named after the request that computed it.

**Shipments** has `create` as `BeginCreate` (remaining units), `Insert` (the row,
and the roll-up that reads the other parcels) and `Commit`; `updateStatus` as
`BeginMove`, `Write` (from here the row is locked) and `Commit`. The order is
moved by `Advance`, `Cancel` and `Settle` (payment, refund, expiry), of which
those that lock it `FOR UPDATE` wait for an insert that refers to it.

**Delivery** is the abstract specification of an outbox, over three variables:
which changes `happened`, which events were `delivered`, how often handing one
over was `refused`. **Outbox** is the code: `CommitChange` (the row in the
transaction, or later by `WriteRow` for the events written aside, class `Aside`),
and for each process a relay with `ListRows`, `Publish`, `Mark`, `Emit`,
`NoteFailure` (the catch block) and `BreakOff`. `due` is what `findMany` of
`relayPending` selects, in its order. It implements `Delivery` for the events
written with their change (`Inside`), by
`Promised == INSTANCE Delivery WITH happened <- changed \cap Inside, delivered <-
broker \cap Inside, refused <- failures`.

**Sessions** has one action per statement of `login`, `refresh`, `switchMerchant`,
`logout`/`logoutAll`, and one for the transaction that removes a user. Tokens are
numbers in the order of their generation; `parent` is a history variable, the
token each was given for. `known` and `signed` are what clients were given, so
that a process that dies with an answer loses it. `Admitted` is the guard of
`JwtStrategy.validate`.

Operators whose comment starts with "Mutant" are plausible bugs of the
definition that follows them; no specification uses them. They are put in its
place to see that the properties notice.

## What is checked

| run | question | bounds and why they are enough |
|---|---|---|
| inventory_workers | does the service keep the contract, end each reservation once, and close every overdue one, with overlapping dying workers and corrections of the stock? | two checkouts on two channels against a total of 2 that may grow or shrink, a buffer of 1: both fit, one fits, or only at the counter; two workers with a batch of one against two rows, two lifetimes so that the order of expiry matters; one crash |
| storefront_reports | are repeated, contradicting, failing and dying reports applied once, and is an order sold if and only if it is paid? | two reports at a time, two ids and the poll: enough for every order of receive, settle, fail, retry; two items, so that a part of a cart can run short or be corrected away; a second payment slot, which must stay unused while the first is open; one crash |
| counter | what survives any overlap at the counter, and what holds when requests come one after the other? | two requests, two tenders, two payments of one or two units for an order of two: exact, partial, over; a refund of each part; cancellation and expiry in between; either one crash or a closing (`MaxDisturbances`) |
| counter_halves | disagreement 1 below | two halves of one order |
| counter_waiter | do lines, holds and counters agree, with payment, cancellation and expiry between any two transactions of an edit? | two products, at most two units of each, balances that fit all, some or none |
| counter_waiters | what do two overlapping staff requests never break? | two requests, two tickets, one crash |
| counter_editpaid | disagreement 2 below | one edit, one payment |
| idempotency_key | is a request executed and answered once? | four requests: one that runs, one that overlaps it, two that retry; two bodies, two failures, one crash |
| shipments_parcels | is an order shipped and reported exactly? | two items, two parcels, two requests: split, cancelled, replaced |
| outbox_relays | does every event written with its change reach the broker, or really fail too often? | two relays on one event of each class; three failures against two attempts, so that a relay may count on an outdated read and a row may be given up; one crash |
| outbox_clients | disagreement 3 below | one event, no failures, one crash |
| sessions_devices | what can two devices of one user do to each other's and their own session? | two sessions, two requests, three tokens: a login and two exchanges of one token, or two logins and one; one merchant that is joined and left |

Bounds are named constants: `MaxTime`, `MaxTotal`, `InitialTotal`, `MaxCrashes`,
`MaxIntents`, `MaxPayments`, `MaxTickets`, `Balance` (the values a balance may
take in an edit at the counter), `MaxFailures`, `MaxShipments`, `MaxTokens`,
`MaxDisturbances`. `BatchSize`, `BatchLimit` and `MaxAttempts` are settings of the
program, set low. `Meanwhile` and
`Manual` choose which of the surrounding handlers an instance contains. Deadlock
checking is off everywhere: clocks, payments, tickets and parcels are bounded, so
an instance stops when all is done. `MCShipments` does not go on after a commit
on a stale read, of which its properties claim nothing.

Several properties hold only under a named condition that says exactly when the
code does not protect itself. `orderly` (`Shifts`, above). `ReadsAreFresh`
(`Shifts`, `Kitchen`): what a request read still holds when it writes; then every
step is one of the stock contract's. `contested` (`Idempotency`): two retries took over one failed record.
`stale` (`Shipments`): a transaction committed on reads that no longer held.

**Fairness.** `FairOutbox` assumes that the timer of each process fires and its
run goes on (weak fairness of `RelayStep`), and that a backoff passes. The broker
need not accept an event at the first try: failures are bounded by `MaxFailures`,
which exceeds `MaxAttempts`, so that both ends of `InTheEnd` are reached. A
`BreakOff` takes nothing away from this, as the next timer lists the row again.
`FairSpec` of `Inventory` assumes weak fairness of the steps of each
worker and nothing else: the timer fires again and again and a started run goes
on. It does not assume that time passes or that clients act. A crash is bounded
by `MaxCrashes`; the timer of a restarted process fires again.

## Disagreements between the code and what it says

Three are kept as runs that TLC refutes (`PROJECT.json`, `findings`):

1. *Two halves confirmed at once leave a covered order PARTIAL*
   (`counter_halves`): each transaction sums only its own payment.
2. *Removing a line while the order is being paid releases a sold reservation*
   (`counter_editpaid`): `reservedStock` goes down twice and below zero.
3. *A process that dies after it marked an event never tells its clients*
   (`outbox_clients`), although `docs/pos-backend-api.md:270` guarantees it.

These were met on the way; the runs above exclude them by their bounds or by a
named condition. At the counter:

* two QR codes for the whole amount can both be paid (`pos-payments.service.ts:74`);
* a crash after the cash is booked leaves the order PENDING for ever (326);
* two refunds of one payment return more than was paid (160);
* two payments that complete an order sell its reservation twice (490);
* a QR code paid after the cancellation makes a CANCELLED order PAID (468);
* the hold of an order paid in part expires; it is later PAID with nothing sold
  (`inventory.service.ts:591`);
* a QR code confirmed after a full refund makes a REFUNDED order PAID, and the
  next refund returns its stock a second time (473);
* payments never look at the shift, although "a cashier must have an OPEN shift
  before [...] taking payments" (`docs/pos-backend-api.md:64`): cash taken after the
  closing belongs to the closed shift and is in nobody's count; so is cash taken
  between the two sums of `close` and its write, and of two closings at once the
  later overwrites the earlier (`shifts.service.ts:120`, 151);
* the last of several partial refunds cannot return the stock, because the order
  is PARTIAL by then (`pos-payments.service.ts:185`);
* an edit whose new lines are refused keeps the old totals
  (`pos-orders.service.ts:345`); two overlapping edits leave a balance that counts
  both and a reservation that has one (522); an edit under way goes on after the
  order was cancelled (358); lines added to a PAID order can never be paid (258);
  a removed product cannot be added again (`inventory.service.ts:307`);
* two requests send the same units to the kitchen twice (`kitchen.service.ts:35`);
  two moves at once revive a CANCELLED ticket (166); a READY ticket cannot be
  cancelled (16), against `docs/pos-backend-api.md:131`.

On the website:

* staff release a reservation while `confirmCheckout` is between its read and its
  write, and the order is paid without that item (`order.service.ts:166`);
* the customer's cancel turns a REFUNDED order into CANCELLED (339);
* an order of NON_STOCKED products only cannot be paid (`payment.service.ts:288`).

Elsewhere:

* outbox rows are written in a statement of their own after the commit at
  `pos-orders.service.ts:184`, 398, 448, `pos-payments.service.ts:235`, 327 and
  `sync.service.ts:116`, so that a crash loses the event; `outbox.service.ts:13-18`
  asks for the transaction of the change;
* the catch block of the relay turns a row another relay has PUBLISHED back into
  PENDING or FAILED (`outbox-relay.worker.ts:122`), which publishes it again or reports
  it as given up; only clients of the process that relays an event hear of it (118);
  the poll that confirms a QR code writes no `payment.confirmed` event at all;
* a login that has read its user before the removal inserts a session afterwards
  (`sessions.service.ts:15`), which nothing revokes; it is useless because the guard
  and `refresh` check the user;
* two retries of one failed request both execute, and the second answer replaces
  the first (`idempotency.interceptor.ts:143`; `docs/pos-backend-api.md:41` says the
  original response is returned verbatim); a process that dies leaves its key
  refused for ever;
* two shipments created at once ship more than was ordered, two moves at once
  reopen an ended shipment, two deliveries at once leave the order PROCESSING
  (`shipments.service.ts:128`, 285, 411); moving an order to PROCESSING after
  everything was delivered takes FULFILLED back, and a shipment that moves after
  the cancellation overwrites CANCELLED (`order.service.ts:460`).

## What is proved

TLAPS proves, for every value of the constants:

* `LedgerCorrect`: `LedgerSpec => []LedgerInv`. The inductive invariant is the
  conjunction of `LedgerTypeOK`, `ReservedBalanced`, `SoldBalanced`,
  `NoOversell` and `ReturnedWereSold`. `NoOversell` alone is not inductive: that
  closing a reservation leaves `reservedStock` a natural number, and that
  closing overdue rows frees exactly the room `Book` counts on, both need the
  balances; `SoldBalanced` needs `ReturnedWereSold` so that a later sale is not
  taken for one already returned. The lemmas `HeldUnion`, `HeldMinus`,
  `HeldSame`, `HeldNothing` and `HeldOne` are the arithmetic of sums of
  reservations; each action, `Resize` included, has a lemma of its own.
* `InventoryImplementsLedger`: `Spec => LedgerSpec`. The main step is
  `ReserveKeepsContract`: the service checks each line against the stock left
  after closing *that* item's overdue rows, the contract speaks of the whole
  cart's. The typing of the service and the ledger's invariant are proved
  together (`InventoryInvariant`), since each step needs the types to be a step
  of the ledger, and the types rest on balances that stay natural.
* `InventoryNeverOversells`, `InventoryTypeCorrect` and
  `InventoryReservationsEndOnce` follow.
* `StorefrontKeepsLedger`, `StorefrontTypeCorrect`, `OrdersArePaidOnce`,
  `OutcomesStayDecided`, `EventsAreSettled`: the website. The invariant `SaleInv` says
  that there is no order before its session is confirmed (`CheckoutInOrder`), that
  an open payment is the only one of its order and the order unpaid
  (`OpenIsUnpaid`), that an order is paid by one confirmed payment (`PaidByOne`), and
  that only refunded orders had units put back (`PaidIsSold`), which is why a
  refund is a `Restock` of the contract. `EventsInv` adds that a RECEIVED event has
  a request that processes it or is about to note its failure.
* `CancelledOrdersHoldNothing`, `OrdersSellWhatIsPaid`: stock and orders end
  together. `HoldInv` adds that reservations lapse with the deadline of their
  session and begin only while it is being created (`RowsEndWithSession`), that what
  a worker waits for is overdue for good (`PickedIsOverdue`), that every line of an
  order in time is live and linked (`LinesStayHeld`), and that what an order holds is
  linked to it, so that whoever ends it finds it (`HeldIsLinked`). The reads of
  `confirmCheckout` are stale when it writes, but only a reservation whose time is
  up can have ended in between, and then the payment is refused. This fails when
  staff release a reservation by hand, hence the assumption `"release" \notin Manual`.
* The counter and its drawer (`PosPaymentsProofs`), in three layers.
  - `CounterSalesAreCovered`, and `ShiftSalesAreCovered` with the shift: whatever
    overlaps, dies or is stale, an order that is PAID or REFUNDED and every
    reservation sold is covered by confirmed payments. `PosInv` adds that what a
    request read as confirmed still is (payments are never taken back to PENDING,
    and the sum of confirmed payments only grows), so that a decision made on an
    old sum is still right.
  - `TillTypesCorrect`, `DrawerHoldsRealCash`: `DrawerInv` says the same of the
    drawer. What a clerk summed up is at most the confirmed cash there will be when
    he writes.
  - `OrderlyStatusFollows`, `OrderlyMoneyAddsUp`, `OrderlyDrawerAddsUp`,
    `OrderlyKeepsContract`: while `orderly`. None of the four is inductive. `InOrder`
    adds what the one request at work remembers, exactly (`PlanOK`: the sums it
    read are the sums there are, so what it is about to write follows from the
    ledger), that the status of every other order agrees with its payments
    (`Agrees` unless `Busy`), that an open QR code fits what is still to be paid
    (`PendingOK`), that no refund exceeds its payment (`RefundsOK`) and when an order
    is REFUNDED (`RefundedOK`).
* The kitchen (`KitchenProofs`), in three parts that differ in what they assume of
  the staff, because the code does.
  - With any requests that overlap and die (`AnyInv`): `CounterTypesCorrect`,
    `SentIsOnTickets` (`sentToKitchenQuantity` is incremented in the transaction that
    cuts the ticket) and `CounterNeverOversells` (an edit on a stale read spoils the
    balances, but never takes more than the total).
  - With one staff request at a time (`OneAtATime`, a hypothesis on the constant
    `Request`, which the run `counter_waiter` instantiates), that may die, while
    payment, cancellation and expiry come in between any two transactions
    (`SingleInv`): `KitchenGetsWhatWasOrdered`, `UnitsCountedOnce`, `OneTicketMover`,
    `CounterKeepsContract`. `SingleInv` adds that the plan of an edit still fits the
    lines it was made from, and that what a send or a move read of its lines and
    ticket still holds. The hypothesis is needed: no handler locks the order, and with
    `Request = {q1, q2}` TLC finds a counterexample to each of these four.
  - With one request that does not die (`LiveInv`, under `MaxCrashes = 0`):
    `OpenOrdersHoldTheirLines`. Between the transactions of an edit the lines and the
    reservations do differ; `LiveInv` says by what: by the reservations it has just
    booked and not yet linked to lines. A request that dies there leaves them so (TLC
    finds the state with `MaxCrashes = 1`), hence the hypothesis.
* Shipments (`ShipmentsProofs`). `ShipInv` says what a request may rely on when it
  commits whatever others did: the parcel it inserts is nobody else's, the one it
  moves is there and holds the units it held, and one request at a time writes it.
  `ShipmentsTypes` and `TerminalStays` follow. `FreshInv` adds, while no
  request committed on a stale read, that the parcels carry at most what was ordered
  and that `fulfillmentStatus` is the last roll-up (`RollupOK`):
  `NothingOvershipped`, `FulfilledTells`. The roll-up compares two totals over all
  items; that they are equal only when each item is delivered needs
  `NeverOvershipped`, item by item.
* `KeyHasOneBody`, `KeyAnswersAgree`, `KeyStoredIsFinal`: the idempotency record.
  The invariant `KeyInvariant` says whose body the record has (`OneOwner`: the hash
  never changes after the insertion, and whoever retries has compared it), and
  that, while no retry was contested, one request runs at most, on a record
  IN_PROGRESS, and whoever was answered has the response of a COMPLETED record
  (`OneAttempt`).

* `KeyRetriesFollowFailures`: the number of executions under a key is at most one
  more than the number of failures; the invariant counts those that were
  answered or are under way (`Attempts`).
* `OutboxGivesUpLate`, `OutboxTypeCorrect`, `OutboxDelivers`: a row is FAILED only
  after `MaxAttempts` failures, although each relay writes counts from its own
  reads. The invariant bounds every count in a row or in a relay's memory by the
  failures there were, strictly where a failure is still to be noted
  (`CountsAreReal`), and says that rows belong to committed changes
  (`OfChanges`) and that what is marked was handed over (`HandedOver`). From it
  each step of the outbox is a step of `Delivery` or leaves its variables alone:
  `OutboxSpec => Promised!SafeDelivery`.
* `TokensAreExchangedOnce`, `RevokedSessionsAreFinal`, `RemovedUsersStayOut`,
  `SessionsTypeCorrect`: the invariant `SessionsInvariant` adds that a token is in one
  session at most, and in none once it was exchanged (`Chain`), which is why the
  second conditional update finds nothing; and what a request carries from one
  statement to the next (`OnItsWay`): its token is of no other session, and a
  refresh that found its user active and answers after the removal does so for a
  session the removal has revoked.

The assumptions are the named `ASSUME`s of the modules: finitely many checkouts,
positive quantities (`@Min(1)` on the request), buffers and totals that are natural
(`@Min(0)`), positive lifetimes, amounts that are natural numbers, the two tenders
`CASH` and `KHQR`, an order of finitely many items and at least one, bounds that are
natural numbers, a value `None` that is no body and no request. Some theorems have
hypotheses of their own, explained above: `"release" \notin Manual` of
`OrdersSellWhatIsPaid`, and those of the kitchen.

Sums are cardinalities everywhere (one element per unit), in `StockLedger`, `Shifts`
and `Shipments` alike: the library's theorems about finite sets then give what folds
would need an induction for.

Only model-checked: liveness (`OverdueIsClosed`, the second half of `DeliversInside`),
which is out of the prover's reach. Every other property of a passing run is a
theorem; `DeliversInside` is one in its safety part (`OutboxDelivers`).

## Not modelled

Prices and delivery quotes (data), the movement and audit rows (written with
every change, read by nobody), the providers' protocols behind a report,
deadlocks between row locks (PostgreSQL aborts one transaction, which then did
not happen), the reference a KHQR intent is found by, and the components that
`PROJECT.json` marks `not_modelled`. Not modelled although they have hazards of
their own: the pull cursor and the replay of the POS sync, carts, stock alerts
(read and written without a lock, `notification.service.ts:117`), a cache fill that
races an invalidation (`commerce-cache.service.ts:53`).

By lines, most of `src/src` is the Prisma client generated from the schema
(`src/src/generated`, about four lines in five), which has no logic of its own and is
not modelled; of the services with concurrent state the models cover the larger
part.

## Plan

1. Done: the stock engine, the inventory service, checkout, orders and payments of
   the website; payments, orders, kitchen and shifts of the counter; idempotency;
   shipments; the outbox with its abstract specification; sessions; the theorems
   above.
2. Next: the sync cursor, carts, stock alerts with the catalogue cache, and the
   KHQR references of website payments.
3. Theorems: with those components, their invariants; at the counter, what is left of
   `LinesAreHeld` after a crash, and what two requests with fresh reads keep.
