------------------------------- MODULE Kitchen -------------------------------
(***************************************************************************)
(* Kitchen tickets, on top of the orders they are cut from.  Sending an    *)
(* order to the kitchen and moving a ticket are transactions that read     *)
(* without a lock and then write: two steps each, like the edits of        *)
(* PosOrders they interleave with.                                         *)
(***************************************************************************)
EXTENDS PosOrders

CONSTANTS MaxTickets,  \* bound: tickets ever cut
          MaxCrashes   \* bound: how often a request dies

ASSUME KitchenAssumption == MaxTickets \in Nat /\ MaxCrashes \in Nat

VARIABLES
    ticket,     \* KitchenOrder.status
    portion,    \* KitchenOrderItem.quantity of each ticket
    prepared,   \* OrderItem.preparedQuantity
    scrapped,   \* OrderItem.cancelledQuantity
    crashes

kitchenVars == <<ticket, portion, prepared, scrapped, crashes>>
counterVars == <<ledgerVars, posOrderVars, kitchenVars>>

Ticket == 1 .. MaxTickets
TicketStatus == {"PENDING", "ACCEPTED", "PREPARING", "READY", "COMPLETED", "CANCELLED"}

\* Mutant: a ready ticket can still be cancelled.
NextStatusesReady(st) ==
    CASE st = "PENDING"   -> {"ACCEPTED", "CANCELLED"}
      [] st = "ACCEPTED"  -> {"PREPARING", "CANCELLED"}
      [] st = "PREPARING" -> {"READY", "CANCELLED"}
      [] st = "READY"     -> {"COMPLETED", "CANCELLED"}
      [] OTHER            -> {}

\* NEXT_STATUSES.
NextStatuses(st) ==
    CASE st = "PENDING"   -> {"ACCEPTED", "CANCELLED"}
      [] st = "ACCEPTED"  -> {"PREPARING", "CANCELLED"}
      [] st = "PREPARING" -> {"READY", "CANCELLED"}
      [] st = "READY"     -> {"COMPLETED"}
      [] OTHER            -> {}

KitchenInit ==
    /\ PosOrdersInit
    /\ ticket = [k \in Ticket |-> "NONE"]
    /\ portion = [k \in Ticket |-> [l \in Line |-> 0]]
    /\ prepared = [l \in Line |-> 0]
    /\ scrapped = [l \in Line |-> 0]
    /\ crashes = 0

\* The held balance is not bounded below: a stale edit can bring it under zero.
KitchenTypeOK ==
    /\ reservedStock \in [Stock -> Int]
    /\ soldStock \in [Stock -> Nat]
    /\ status \in [Reservation -> ReservationStatus]
    /\ quantity \in [Reservation -> Nat]
    /\ order \in [Checkout -> {"PENDING_PAYMENT", "PAID", "CANCELLED", "EXPIRED"}]
    /\ linked \subseteq Reservation
    /\ \A f \in {line, sent, prepared, scrapped} : f \in [Line -> Nat]
    /\ total \in [Checkout -> [Stock -> Nat]]
    /\ ticket \in [Ticket -> TicketStatus \cup {"NONE"}]
    /\ portion \in [Ticket -> [Line -> Nat]]
    /\ \A q \in Request : request[q].pc \in
          {"idle", "adjusting", "writing", "booking", "linking", "summing", "totalling",
           "sending", "moving"}

-----------------------------------------------------------------------------
\* sendToKitchen: what the kitchen does not have yet, ...
BeginSend(q, o) ==
    LET pending == {l \in LinesOf(o) : line[l] > sent[l]}
    IN  /\ request[q] = Idle
        /\ Open(o)
        /\ pending # {}
        /\ Goto(q, [pc |-> "sending", order |-> o,
                    portion |-> [l \in Line |-> IF l \in pending THEN line[l] - sent[l] ELSE 0]])
        /\ UNCHANGED <<ledgerVars, order, linked, line, sent, total, kitchenVars>>

\* Mutant: what the kitchen has is set to what was ordered when it was read.
CommitSendBlind(q) ==
    LET asked == request[q]
    IN  /\ asked.pc = "sending"
        /\ \E k \in Ticket :
              /\ ticket[k] = "NONE" /\ \A x \in 1 .. (k - 1) : ticket[x] # "NONE"
              /\ ticket' = [ticket EXCEPT ![k] = "PENDING"]
              /\ portion' = [portion EXCEPT ![k] = asked.portion]
        /\ sent' = [l \in Line |-> IF asked.portion[l] > 0 THEN line[l] ELSE sent[l]]
        /\ Goto(q, Idle)
        /\ UNCHANGED <<ledgerVars, order, linked, line, total, prepared, scrapped,
                       crashes>>

\* ... a ticket for it, and the count.  A line deleted meanwhile undoes it all.
CommitSend(q) ==
    LET asked == request[q]
    IN  /\ asked.pc = "sending"
        /\ \/ /\ \A l \in Line : asked.portion[l] > 0 => line[l] > 0
              /\ \E k \in Ticket :
                    /\ ticket[k] = "NONE" /\ \A x \in 1 .. (k - 1) : ticket[x] # "NONE"
                    /\ ticket' = [ticket EXCEPT ![k] = "PENDING"]
                    /\ portion' = [portion EXCEPT ![k] = asked.portion]
              /\ sent' = [l \in Line |-> sent[l] + asked.portion[l]]
           \/ /\ \E l \in Line : asked.portion[l] > 0 /\ line[l] = 0
              /\ UNCHANGED <<ticket, portion, sent>>
        /\ Goto(q, Idle)
        /\ UNCHANGED <<ledgerVars, order, linked, line, total, prepared, scrapped,
                       crashes>>

\* Mutant: any status is accepted.
BeginMoveAnywhere(q, k, st) ==
    /\ request[q] = Idle
    /\ ticket[k] \notin {"NONE", st}
    /\ Goto(q, [pc |-> "moving", ticket |-> k, to |-> st])
    /\ UNCHANGED <<ledgerVars, order, linked, line, sent, total, kitchenVars>>

\* updateStatus: the check of the transition ...
BeginMove(q, k, st) ==
    /\ request[q] = Idle
    /\ ticket[k] # "NONE"
    /\ st \in NextStatuses(ticket[k])
    /\ Goto(q, [pc |-> "moving", ticket |-> k, to |-> st])
    /\ UNCHANGED <<ledgerVars, order, linked, line, sent, total, kitchenVars>>

\* Mutant: a cancelled ticket takes its units back from the prepared ones.
CommitMoveTakingBack(q) ==
    LET asked == request[q]
        k == asked.ticket
    IN  /\ asked.pc = "moving"
        /\ ticket' = [ticket EXCEPT ![k] = asked.to]
        /\ prepared' = [l \in Line |-> prepared[l]
              + (IF asked.to = "READY" THEN portion[k][l] ELSE 0)
              - (IF asked.to = "CANCELLED" THEN portion[k][l] ELSE 0)]
        /\ Goto(q, Idle)
        /\ UNCHANGED <<ledgerVars, order, linked, line, sent, total, portion,
                       scrapped, crashes>>

\* ... and the writes, with the counters of the lines.
CommitMove(q) ==
    LET asked == request[q]
        k == asked.ticket
        counted(f, st) == [l \in Line |-> f[l] + (IF asked.to = st THEN portion[k][l] ELSE 0)]
    IN  /\ asked.pc = "moving"
        /\ ticket' = [ticket EXCEPT ![k] = asked.to]
        /\ prepared' = counted(prepared, "READY")
        /\ scrapped' = counted(scrapped, "CANCELLED")
        /\ Goto(q, Idle)
        /\ UNCHANGED <<ledgerVars, order, linked, line, sent, total, portion, crashes>>

\* A process dies between two transactions of a request.
CrashRequest(q) ==
    /\ crashes < MaxCrashes
    /\ request[q] # Idle
    /\ crashes' = crashes + 1
    /\ Goto(q, Idle)
    /\ UNCHANGED <<ledgerVars, order, linked, line, sent, total,
                   ticket, portion, prepared, scrapped>>

KitchenNext ==
    \/ OrderStep /\ UNCHANGED kitchenVars
    \/ \E q \in Request :
          \/ \E o \in Checkout : BeginSend(q, o)
          \/ \E k \in Ticket, st \in TicketStatus : BeginMove(q, k, st)
          \/ CommitSend(q) \/ CommitMove(q) \/ CrashRequest(q)

CounterSpec == KitchenInit /\ [][KitchenNext]_counterVars

-----------------------------------------------------------------------------
\* The units the tickets with a status in St have of line l.
OnTickets(St, l) ==
    Cardinality(UNION {{k} \X (1 .. portion[k][l]) : k \in {x \in Ticket : ticket[x] \in St}})

\* What the order believes to be in the kitchen is what the tickets say, with
\* any requests overlapping or dying (the increments of sendToKitchen).
SentMatchesTickets == \A l \in Line : sent[l] = OnTickets(TicketStatus, l)

\* While an order is open and nobody is at work on it, its live reservations
\* hold just what its lines say (update, adjustReservedQuantity).
LinesAreHeld ==
    AllIdle => \A r \in Reservation :
        order[r[1]] = "PENDING_PAYMENT" =>
            /\ Ordered(r[1])[r[2]] = IF status[r] = "ACTIVE" THEN quantity[r] ELSE 0
            /\ status[r] = "ACTIVE" => r \in linked

\* The kitchen never gets more of a line than was ordered, and an edit never
\* takes back what it already has (the floor of update, the delta of sendToKitchen).
NeverBelowSent == \A l \in Line : sent[l] <= line[l]

\* A ticket's units are counted once, as prepared or as cancelled
\* (the counters updateStatus moves).
CountedOnce ==
    \A l \in Line : /\ prepared[l] = OnTickets({"READY", "COMPLETED"}, l)
                    /\ scrapped[l] = OnTickets({"CANCELLED"}, l)

\* An edit about to write has read its reservations as they are now.
ReadsAreFresh ==
    \A q \in Request : request[q].pc = "writing" =>
        \A l \in DOMAIN request[q].change :
            /\ status[RowOf(l)] = "ACTIVE"
            /\ quantity[RowOf(l)] = request[q].held[l]

\* Unless an edit relies on a reservation that changed after it was read, every
\* write to the stock is one the stock engine's contract allows, however the
\* transactions of edits, payments, cancellations and the worker interleave.
KeepsLedgerContract == [][ReadsAreFresh => LedgerNext]_ledgerVars

\* A sold reservation stays as it was sold: edits adjust the reservations of an
\* order that has not been paid (adjustReservedQuantity).
SoldStaySold ==
    [][\A r \in Reservation : status[r] = "CONFIRMED" =>
          status'[r] = "CONFIRMED" /\ quantity'[r] = quantity[r]]_counterVars

\* Tickets only move along the status machine, whoever moves them.
TicketsMoveForward ==
    [][\A k \in Ticket : ticket[k] \in {"NONE", ticket'[k]} \/ ticket'[k] \in NextStatuses(ticket[k])]_counterVars
==============================================================================
