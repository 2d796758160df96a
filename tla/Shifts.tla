------------------------------- MODULE Shifts -------------------------------
(***************************************************************************)
(* The shift of a cash drawer, closed while payments and refunds of its    *)
(* orders go on: PosPayments composed with PosShiftsService.close.  All    *)
(* orders were taken in this shift, and a payment belongs to the shift of  *)
(* its order, whichever shift is open when it is made.                     *)
(*                                                                         *)
(* close is one transaction that locks nothing: it reads the shift and     *)
(* sums the payments, sums the refunds and writes, and each of these sees  *)
(* what others have committed by then.                                     *)
(***************************************************************************)
EXTENDS PosPayments

CONSTANTS Clerk,           \* requests that close the shift
          MaxDisturbances  \* bound: closings and dying requests together

VARIABLES
    shift,        \* PosShift.status
    expectedCash, \* PosShift.expectedCash, less the opening cash
    clerk,        \* what a closing request does next, and what it counted
    orderly       \* history: requests came as the documentation asks, see Orderly

shiftVars == <<shift, expectedCash, clerk>>
counterVars == <<posPaymentVars, shiftVars, orderly>>

CashPayments == {p \in WithPayment("CONFIRMED") : provider[p] = "CASH"}
CashRefunds == {p \in Payment : provider[p] = "CASH"}
SumOf(f, S) == Cardinality(UNION {{p} \X (1 .. f[p]) : p \in S})

ShiftInit ==
    /\ PosInit
    /\ shift = "OPEN"
    /\ expectedCash = 0
    /\ clerk = [k \in Clerk |-> Idle]
    /\ orderly = TRUE

-----------------------------------------------------------------------------
\* Mutant: what was paid with a QR code is counted as well.
BeginCloseCountingAll(k) ==
    /\ clerk[k] = Idle
    /\ shift = "OPEN"
    /\ clerk' = [clerk EXCEPT ![k] =
                    [pc |-> "closing", paid |-> SumOf(amount, WithPayment("CONFIRMED"))]]
    /\ UNCHANGED <<posPaymentVars, shift, expectedCash>>

\* The shift is OPEN; its confirmed cash payments are summed up ...
BeginClose(k) ==
    /\ clerk[k] = Idle
    /\ shift = "OPEN"
    /\ clerk' = [clerk EXCEPT ![k] = [pc |-> "closing", paid |-> SumOf(amount, CashPayments)]]
    /\ UNCHANGED <<posPaymentVars, shift, expectedCash>>

\* Mutant: refunds of all tenders are taken out of the drawer.
CloseShiftRefundingAll(k) ==
    /\ clerk[k].pc = "closing"
    /\ shift' = "CLOSED"
    /\ expectedCash' = clerk[k].paid - SumOf(refunded, Payment)
    /\ clerk' = [clerk EXCEPT ![k] = Idle]
    /\ UNCHANGED posPaymentVars

\* ... then its refunds, and the update does not ask whether the shift is
\* still open, nor whether anything was paid since.
CloseShift(k) ==
    /\ clerk[k].pc = "closing"
    /\ shift' = "CLOSED"
    /\ expectedCash' = clerk[k].paid - SumOf(refunded, CashRefunds)
    /\ clerk' = [clerk EXCEPT ![k] = Idle]
    /\ UNCHANGED posPaymentVars

-----------------------------------------------------------------------------
AtWork == {q \in Request : request[q] # Idle}
Closing == {k \in Clerk : clerk[k] # Idle}

\* One request at a time, each settled before the next: no payment is begun
\* while the payment of a QR code is open or when the shift is closed.
Orderly ==
    /\ \A q, x \in AtWork : q = x
    /\ \A k, j \in Closing : k = j
    /\ AtWork = {} \/ Closing = {}
    /\ AtWork # {} => shift = "OPEN"
    /\ (\E q \in Request : request[q].pc = "creating") => WithPayment("PENDING") = {}

CounterStep ==
    \/ PosNext /\ UNCHANGED shiftVars
    \/ \E k \in Clerk : BeginClose(k) \/ CloseShift(k)

Disturbances == crashes + IF shift = "CLOSED" \/ Closing # {} THEN 1 ELSE 0

CounterNext ==
    /\ CounterStep
    /\ Disturbances' <= MaxDisturbances
    /\ orderly' = (orderly /\ Orderly' /\ crashes' = crashes)

CounterSpec == ShiftInit /\ [][CounterNext]_counterVars

-----------------------------------------------------------------------------
CounterTypeOK ==
    /\ PosTypeOK
    /\ shift \in {"OPEN", "CLOSED"}
    /\ expectedCash \in Int
    /\ \A k \in Clerk : clerk[k].pc \in {"idle", "closing"}
    /\ orderly \in BOOLEAN

\* While requests come one after the other the payment status follows the
\* ledger, also when the order is cancelled or expires between two steps.
OrderlyStatus == orderly => StatusFollowsLedger

\* While requests come one after the other nobody pays more than the order
\* costs or gets back more than was paid (the checks of create and refund).
OrderlyMoney == orderly => NeverOverpaid /\ RefundsWithinPayments

\* The reservations a recomputation is about to sell are still live.
ReadsAreFresh ==
    \A q \in Request : request[q].pc = "writing" => request[q].rows \subseteq WithStatus("ACTIVE")

\* While requests come one after the other, and no reservation ends between its
\* read and its sale, every write to the stock is one the contract of the
\* stock engine allows.
OrderlyContract == [][orderly' /\ ReadsAreFresh => LedgerNext]_ledgerVars

\* Whatever overlaps: a drawer is never expected to hold cash that no customer
\* paid in (close sums confirmed cash payments only).
ClosedOnRealCash == shift = "CLOSED" => expectedCash <= SumOf(amount, CashPayments)

\* A shift that is closed between requests adds up: expectedCash = openingCash
\* + cashPayments - cashRefunds (docs/pos-backend-api.md).
OrderlyDrawer ==
    orderly /\ shift = "CLOSED" /\ AtWork = {} =>
        expectedCash = SumOf(amount, CashPayments) - SumOf(refunded, CashRefunds)
=============================================================================
