------------------------- MODULE PosPaymentsProofs -------------------------
(***************************************************************************)
(* Payments at the counter and the shift they belong to, proved for any    *)
(* orders, payments, requests and clerks, in three parts:                  *)
(*                                                                         *)
(*   1. whatever requests overlap or die, an order that is PAID and stock  *)
(*      that is sold are covered by confirmed payments;                    *)
(*   2. and every variable keeps its type, the stock is never negative,    *)
(*      and a drawer is never expected to hold more than was paid in;      *)
(*   3. while requests come one after the other, the payment status, the   *)
(*      money, the drawer and the writes to the stock are in order.        *)
(*                                                                         *)
(* The sums of money are cardinalities, like the sums of units in          *)
(* StockLedgerProofs.                                                      *)
(***************************************************************************)
EXTENDS Shifts, StockLedgerProofs

-----------------------------------------------------------------------------
(* 1. The payments, whatever overlaps and dies                             *)
-----------------------------------------------------------------------------

LEMMA PaymentsFinite == IsFiniteSet(Payment)
<1>1. IsFiniteSet(1 .. MaxPayments)
  BY PosPaymentsAssumption, FS_Interval
<1>2. IsFiniteSet(Checkout)
  BY LedgerAssumption
<1> QED
  BY <1>1, <1>2, FS_Product DEF Payment

\* Finitely many payments with natural amounts add up to a finite set.
LEMMA MoneyFinite ==
    ASSUME NEW a, NEW S \in SUBSET Payment, NEW o \in Checkout, \A p \in S : a[p] \in Nat
    PROVE  IsFiniteSet(Units(a, S, o))
<1>1. IsFiniteSet({x \in S : x[2] = o})
  BY PaymentsFinite, FS_Subset
<1> QED
  BY <1>1, BlocksFinite DEF Units, Blocks

\* A sum of money is a natural number.
LEMMA MoneyType ==
    ASSUME NEW a, NEW S \in SUBSET Payment, NEW o \in Checkout, \A p \in S : a[p] \in Nat
    PROVE  Held(a, S, o) \in Nat
BY MoneyFinite, FS_CardinalityType DEF Held

\* More payments, of the same amounts, add up to at least as much.
LEMMA MoneyGrows ==
    ASSUME NEW a, NEW b, NEW S, NEW T \in SUBSET Payment, NEW o \in Checkout,
           S \subseteq T, \A p \in T : b[p] \in Nat, \A p \in S : a[p] = b[p]
    PROVE  Held(a, S, o) <= Held(b, T, o)
<1>1. Units(a, S, o) \subseteq Units(b, T, o)
  BY DEF Units
<1>2. IsFiniteSet(Units(b, T, o))
  BY MoneyFinite
<1> QED
  BY <1>1, <1>2, FS_Subset DEF Held

\* One more payment adds its amount.
LEMMA MoneyAdds ==
    ASSUME NEW a, NEW S \in SUBSET Payment, NEW p \in Payment \ S,
           \A x \in S \cup {p} : a[x] \in Nat
    PROVE  Held(a, S \cup {p}, OrderOf(p)) = Held(a, S, OrderOf(p)) + a[p]
<1> DEFINE o == OrderOf(p)
           R == {x \in S : x[2] = o}
<1>1. {x \in S \cup {p} : x[2] = o} = R \cup {p} /\ p \notin R
  BY DEF OrderOf
<1>2. IsFiniteSet(R)
  BY PaymentsFinite, FS_Subset
<1>3. Cardinality(Blocks(a, R \cup {p})) = Cardinality(Blocks(a, R)) + a[p]
  BY <1>1, <1>2, BlocksAdd
<1> QED
  BY <1>1, <1>3 DEF Held, Units, Blocks

-----------------------------------------------------------------------------
\* The payments a request that is about to write counted on.
CountedOn(q) == WithPayment("CONFIRMED") \cup {request[q].payment}

About(q) == /\ request[q].payment \in Payment
            /\ payment[request[q].payment] # "NONE"
            /\ request[q].refund \in Nat

RequestOK(q) ==
    \/ request[q] = Idle
    \/ /\ request[q].pc = "creating"
       /\ request[q].order \in Checkout
       /\ request[q].tender \in Tender
       /\ request[q].amount \in Amount
    \/ /\ request[q].pc \in {"applying", "refunding", "recording"}
       /\ About(q)
    \/ /\ request[q].pc = "writing"
       /\ About(q)
       /\ request[q].flip \in BOOLEAN
       /\ ~request[q].flip => payment[request[q].payment] = "CONFIRMED"
       /\ request[q].rows \in SUBSET {r \in Reservation : r[1] = OrderOf(request[q].payment)}
       /\ request[q].net \in Int
       /\ request[q].net <= Held(amount, CountedOn(q), OrderOf(request[q].payment))

MoneyTypeOK ==
    /\ status \in [Reservation -> ReservationStatus]
    /\ paymentStatus \in [Checkout -> {"PENDING", "PARTIAL", "PAID", "REFUNDED"}]
    /\ payment \in [Payment -> {"NONE", "PENDING", "CONFIRMED"}]
    /\ amount \in [Payment -> Nat]
    /\ refunded \in [Payment -> Nat]
    /\ DOMAIN request = Request

\* What a request remembers is no more than the payments that will be
\* confirmed when it writes: confirmed payments are never taken back.
PosInv ==
    /\ MoneyTypeOK
    /\ \A q \in Request : RequestOK(q)
    /\ SoldIsCovered

\* Nobody has paid, and nothing is sold.
LEMMA PosInitInv == PosInit => PosInv
<1> SUFFICES ASSUME PosInit PROVE PosInv
  OBVIOUS
<1>1. MoneyTypeOK
  BY DEF PosInit, MoneyTypeOK, ReservationStatus
<1>2. \A q \in Request : RequestOK(q)
  BY DEF PosInit, RequestOK
<1>3. SoldIsCovered
  BY DEF PosInit, SoldIsCovered, WithStatus
<1> QED
  BY <1>1, <1>2, <1>3 DEF PosInv

\* While confirmed payments stay, with their amounts, what is covered stays
\* covered and what a request counted on stays true.
LEMMA CoveredStays ==
    ASSUME PosInv, MoneyTypeOK',
           WithPayment("CONFIRMED") \subseteq WithPayment("CONFIRMED")',
           \A p \in Payment : payment[p] # "NONE" => payment'[p] # "NONE" /\ amount'[p] = amount[p]
    PROVE  /\ \A o \in Checkout : Paid(o) \in Nat /\ Paid(o)' \in Nat /\ Paid(o) <= Paid(o)'
           /\ \A q \in Request : request'[q] = request[q] => RequestOK(q)'
<1> USE DEF PosInv, MoneyTypeOK
<1>1. ASSUME NEW o \in Checkout
      PROVE  Paid(o) \in Nat /\ Paid(o)' \in Nat /\ Paid(o) <= Paid(o)'
  <2>1. Paid(o) \in Nat
    BY MoneyType DEF Paid, WithPayment
  <2>2. Held(amount', WithPayment("CONFIRMED")', o) \in Nat
    BY MoneyType DEF WithPayment
  <2>3. Held(amount, WithPayment("CONFIRMED"), o) <= Held(amount', WithPayment("CONFIRMED")', o)
    BY MoneyGrows DEF WithPayment
  <2> QED
    BY <2>1, <2>2, <2>3 DEF Paid, Held, Units
<1>2. ASSUME NEW q \in Request, request'[q] = request[q]
      PROVE  RequestOK(q)'
  <2> DEFINE p == request[q].payment
             o == OrderOf(p)
  <2>1. CASE request[q].pc # "writing"
    BY <1>2, <2>1 DEF RequestOK, About, Idle
  <2>2. CASE request[q].pc = "writing"
    <3>1. /\ About(q)
          /\ request[q].flip \in BOOLEAN
          /\ ~request[q].flip => payment[p] = "CONFIRMED"
          /\ request[q].rows \in SUBSET {r \in Reservation : r[1] = o}
          /\ request[q].net \in Int
          /\ request[q].net <= Held(amount, CountedOn(q), o)
      BY <2>2 DEF RequestOK, Idle
    <3>2. o \in Checkout
      BY <3>1 DEF About, Payment, OrderOf
    <3>3. Held(amount, CountedOn(q), o) \in Nat
      BY <3>1, <3>2, MoneyType DEF CountedOn, About, WithPayment
    <3>4. Held(amount', CountedOn(q)', o) \in Nat
      BY <1>2, <3>1, <3>2, MoneyType DEF CountedOn, About, WithPayment
    <3>5. Held(amount, CountedOn(q), o) <= Held(amount', CountedOn(q)', o)
      <4>1. CountedOn(q) \subseteq CountedOn(q)'
        BY <1>2 DEF CountedOn
      <4>2. CountedOn(q)' \in SUBSET Payment
        BY <1>2, <3>1 DEF CountedOn, About, WithPayment
      <4>3. \A x \in CountedOn(q) : amount[x] = amount'[x]
        BY <3>1 DEF CountedOn, About, WithPayment
      <4> QED
        BY <3>2, <4>1, <4>2, <4>3, MoneyGrows
    <3>6. request[q].net <= Held(amount', CountedOn(q)', o)
      BY <3>1, <3>3, <3>4, <3>5
    <3>7. About(q)'
      BY <1>2, <3>1 DEF About
    <3>8. ~request[q].flip => payment'[p] = "CONFIRMED"
      BY <3>1 DEF About, WithPayment
    <3> QED
      BY <1>2, <2>2, <3>1, <3>6, <3>7, <3>8 DEF RequestOK, OrderOf, Held, Units
  <2> QED
    BY <2>1, <2>2
<1> QED
  BY <1>1, <1>2

\* So an action that neither pays an order nor sells keeps what is covered.
LEMMA CoveredKept ==
    ASSUME PosInv, MoneyTypeOK',
           WithPayment("CONFIRMED") \subseteq WithPayment("CONFIRMED")',
           \A p \in Payment : payment[p] # "NONE" => payment'[p] # "NONE" /\ amount'[p] = amount[p],
           \A o \in Checkout : paymentStatus'[o] \in {"PAID", "REFUNDED"}
                                  => paymentStatus[o] \in {"PAID", "REFUNDED"},
           \A r \in Reservation : status'[r] = "CONFIRMED" => status[r] = "CONFIRMED"
    PROVE  SoldIsCovered'
<1>1. \A o \in Checkout : Paid(o) \in Nat /\ Paid(o)' \in Nat /\ Paid(o) <= Paid(o)'
  BY CoveredStays
<1>2. \A o \in Checkout : Total[o] \in Nat
  BY PosPaymentsAssumption
<1>3. ASSUME NEW o \in Checkout, paymentStatus'[o] \in {"PAID", "REFUNDED"}
      PROVE  Paid(o)' >= Total[o]
  BY <1>1, <1>2, <1>3 DEF PosInv, SoldIsCovered
<1>4. ASSUME NEW r \in Reservation, status'[r] = "CONFIRMED"
      PROVE  Paid(r[1])' >= Total[r[1]]
  <2>1. r[1] \in Checkout /\ r \in WithStatus("CONFIRMED")
    BY <1>4 DEF Reservation, WithStatus
  <2> QED
    BY <1>1, <1>2, <2>1 DEF PosInv, SoldIsCovered
<1> QED
  BY <1>3, <1>4 DEF SoldIsCovered, WithStatus

-----------------------------------------------------------------------------
\* Steps that write only what they remember, which is sound.
LEMMA RememberInv ==
    ASSUME PosInv, NEW q \in Request, NEW next,
           request' = [request EXCEPT ![q] = next],
           RequestOK(q)',
           UNCHANGED <<ledgerVars, order, paymentStatus, payment, amount, provider, refunded>>
    PROVE  PosInv'
<1> USE DEF PosInv, ledgerVars
<1>1. MoneyTypeOK'
  BY DEF MoneyTypeOK
<1>2. WithPayment("CONFIRMED")' = WithPayment("CONFIRMED")
  BY DEF WithPayment
<1>3. \A x \in Request : x # q => request'[x] = request[x]
  BY DEF MoneyTypeOK
<1>4. \A x \in Request : RequestOK(x)'
  BY <1>1, <1>2, <1>3, CoveredStays
<1>5. SoldIsCovered'
  BY <1>1, <1>2, CoveredKept
<1> QED
  BY <1>1, <1>4, <1>5

\* A request gives up, or is refused.
LEMMA IdleInv ==
    ASSUME PosInv, NEW q \in Request, Goto(q, Idle),
           UNCHANGED <<ledgerVars, order, paymentStatus, payment, amount, provider, refunded>>
    PROVE  PosInv'
<1>1. RequestOK(q)'
  BY DEF PosInv, MoneyTypeOK, Goto, RequestOK
<1> QED
  BY <1>1, RememberInv DEF Goto

\* A checked payment remembers the order and an amount.
LEMMA CreateInv ==
    ASSUME PosInv, NEW q \in Request, NEW o \in Checkout, NEW t \in Tender, NEW a \in Amount,
           Create(q, o, t, a)
    PROVE  PosInv'
<1>1. RequestOK(q)'
  BY DEF PosInv, MoneyTypeOK, Create, Goto, RequestOK
<1> QED
  BY <1>1, RememberInv DEF Create, Goto

\* A new payment row takes an unused number, so no sum loses anything.
LEMMA InsertInv ==
    ASSUME PosInv, NEW q \in Request, Insert(q)
    PROVE  PosInv'
<1> USE DEF PosInv
<1> DEFINE asked == request[q]
<1>1. asked.pc = "creating" /\ asked.order \in Checkout /\ asked.amount \in Amount
  BY DEF Insert, RequestOK, Idle, MoneyTypeOK
<1>2. PICK p \in Unused(asked.order) :
        /\ payment' = [payment EXCEPT ![p] =
              IF asked.tender = "CASH" THEN "CONFIRMED" ELSE "PENDING"]
        /\ amount' = [amount EXCEPT ![p] = asked.amount]
        /\ provider' = [provider EXCEPT ![p] = asked.tender]
        /\ Goto(q, IF asked.tender = "CASH"
                   THEN [pc |-> "applying", payment |-> p, refund |-> 0]
                   ELSE Idle)
  BY DEF Insert
<1>3. p \in Payment /\ payment[p] = "NONE"
  BY DEF Unused
<1>4. UNCHANGED <<ledgerVars, order, paymentStatus, refunded, crashes>>
  BY DEF Insert
<1>5. asked.amount \in Nat
  BY <1>1, PosPaymentsAssumption
<1>6. MoneyTypeOK'
  BY <1>2, <1>3, <1>4, <1>5 DEF MoneyTypeOK, Goto, ledgerVars
<1>7. \A x \in Payment : payment[x] # "NONE" => payment'[x] = payment[x] /\ amount'[x] = amount[x]
  BY <1>2, <1>3 DEF MoneyTypeOK
<1>8. WithPayment("CONFIRMED") \subseteq WithPayment("CONFIRMED")'
  BY <1>7 DEF WithPayment
<1>9. \A x \in Payment : payment[x] # "NONE" => payment'[x] # "NONE" /\ amount'[x] = amount[x]
  BY <1>7
<1>10. RequestOK(q)'
  BY <1>2, <1>3 DEF MoneyTypeOK, Goto, RequestOK, About
<1>11. \A x \in Request : x # q => request'[x] = request[x]
  BY <1>2 DEF MoneyTypeOK, Goto
<1>12. \A x \in Request : RequestOK(x)'
  BY <1>6, <1>8, <1>9, <1>10, <1>11, CoveredStays
<1>13. SoldIsCovered'
  BY <1>4, <1>6, <1>8, <1>9, CoveredKept DEF ledgerVars
<1> QED
  BY <1>6, <1>12, <1>13

\* A poll and a refund remember a payment that exists.
LEMMA PollInv ==
    ASSUME PosInv, NEW q \in Request, NEW p \in Payment, Poll(q, p)
    PROVE  PosInv'
<1>1. RequestOK(q)'
  BY DEF PosInv, MoneyTypeOK, Poll, Goto, RequestOK, About
<1> QED
  BY <1>1, RememberInv DEF Poll, Goto

LEMMA BeginRefundInv ==
    ASSUME PosInv, NEW q \in Request, NEW p \in Payment, NEW a \in Amount,
           NEW returnStock \in BOOLEAN, BeginRefund(q, p, a, returnStock)
    PROVE  PosInv'
<1>1. a \in Nat
  BY PosPaymentsAssumption
<1>2. RequestOK(q)'
  BY <1>1 DEF PosInv, MoneyTypeOK, BeginRefund, Goto, RequestOK, About
<1> QED
  BY <1>2, RememberInv DEF BeginRefund, Goto

\* The net amount read is at most what is confirmed once the request wrote.
LEMMA ReadLedgerInv ==
    ASSUME PosInv, NEW q \in Request, ReadLedger(q)
    PROVE  PosInv'
<1> USE DEF PosInv
<1> DEFINE asked == request[q]
           p == asked.payment
           o == OrderOf(p)
           flip == payment[p] = "PENDING"
           net == NetPaid(o) + (IF flip THEN amount[p] ELSE 0) - asked.refund
           next == [pc |-> "writing", payment |-> p, refund |-> asked.refund, flip |-> flip,
                    net |-> net, was |-> paymentStatus[o], rows |-> LiveRows(o)]
<1>1. /\ asked.pc = "applying"
      /\ request' = [request EXCEPT ![q] = next]
      /\ UNCHANGED <<ledgerVars, order, paymentStatus, payment, amount, provider, refunded,
                     crashes>>
  BY DEF ReadLedger, Goto
<1>2. /\ p \in Payment /\ payment[p] \in {"PENDING", "CONFIRMED"}
      /\ asked.refund \in Nat
  BY <1>1 DEF RequestOK, About, Idle, MoneyTypeOK
<1>3. o \in Checkout
  BY <1>2 DEF Payment, OrderOf
<1>4. Paid(o) \in Nat /\ Refunded(o) \in Nat /\ amount[p] \in Nat
  BY <1>2, <1>3, MoneyType DEF Paid, Refunded, WithPayment, MoneyTypeOK
<1>5. net \in Int /\ net <= Paid(o) + (IF flip THEN amount[p] ELSE 0)
  BY <1>2, <1>4 DEF NetPaid
<1>6. Held(amount, WithPayment("CONFIRMED") \cup {p}, o)
         = Paid(o) + (IF flip THEN amount[p] ELSE 0)
  <2>1. CASE flip
    <3>1. p \in Payment \ WithPayment("CONFIRMED")
      BY <1>2, <2>1 DEF WithPayment
    <3>2. \A x \in WithPayment("CONFIRMED") \cup {p} : amount[x] \in Nat
      BY <1>2 DEF WithPayment, MoneyTypeOK
    <3>3. WithPayment("CONFIRMED") \in SUBSET Payment
      BY DEF WithPayment
    <3>4. Held(amount, WithPayment("CONFIRMED") \cup {p}, o)
            = Held(amount, WithPayment("CONFIRMED"), o) + amount[p]
      BY <3>1, <3>2, <3>3, MoneyAdds
    <3> QED
      BY <2>1, <3>4 DEF Paid
  <2>2. CASE ~flip
    <3>1. WithPayment("CONFIRMED") \cup {p} = WithPayment("CONFIRMED")
      BY <1>2, <2>2 DEF WithPayment
    <3>2. Held(amount, WithPayment("CONFIRMED") \cup {p}, o) = Paid(o)
      BY <3>1, Zenon DEF Paid
    <3> QED
      BY <1>4, <2>2, <3>2
  <2> QED
    BY <2>1, <2>2
<1>7. request'[q] = next
  BY <1>1 DEF MoneyTypeOK
<1>8. LiveRows(o) \in SUBSET {r \in Reservation : r[1] = o}
  BY DEF LiveRows, Rows
<1> HIDE DEF net
<1>9. CountedOn(q)' = WithPayment("CONFIRMED") \cup {p}
  BY <1>1, <1>7 DEF CountedOn, WithPayment
<1>10. Held(amount, CountedOn(q), o)' = Held(amount, WithPayment("CONFIRMED") \cup {p}, o)
  BY <1>1, <1>9 DEF Held, Units, OrderOf
<1>11. net <= Held(amount, WithPayment("CONFIRMED") \cup {p}, o)
  BY <1>5, <1>6
<1>12. RequestOK(q)'
  <2>1. About(q)'
    BY <1>1, <1>2, <1>7 DEF About
  <2>2. ~flip => payment[p] = "CONFIRMED"
    BY <1>2
  <2>3. (request[q].net <= Held(amount, CountedOn(q), OrderOf(request[q].payment)))'
    BY <1>1, <1>7, <1>9, <1>11 DEF Held, Units, OrderOf
  <2>4. (request[q].rows \in SUBSET {r \in Reservation : r[1] = OrderOf(request[q].payment)})'
    BY <1>7, <1>8 DEF OrderOf
  <2>5. request'[q].pc = "writing" /\ request'[q].net \in Int
    BY <1>5, <1>7
  <2>6. request'[q].flip = flip /\ request'[q].payment = p
    BY <1>7
  <2>7. flip \in BOOLEAN
    OBVIOUS
  <2>8. request'[q].flip \in BOOLEAN
    BY <2>6, <2>7, Zenon
  <2>9. ~request'[q].flip => payment'[request'[q].payment] = "CONFIRMED"
    BY <1>1, <2>2, <2>6
  <2> QED
    BY <2>1, <2>3, <2>4, <2>5, <2>8, <2>9 DEF RequestOK
<1> QED
  BY <1>1, <1>12, RememberInv

\* The write confirms the payment it counted on, and pays the order and sells
\* its stock only when those payments cover the total.
LEMMA WriteLedgerInv ==
    ASSUME PosInv, NEW q \in Request, WriteLedger(q)
    PROVE  PosInv'
<1> USE DEF PosInv
<1> DEFINE asked == request[q]
           p == asked.payment
           o == OrderOf(p)
           covered == asked.net >= Total[o] /\ asked.was # "PAID"
<1>1. asked.pc = "writing" /\ request' = [request EXCEPT ![q] = Idle] /\ CommitRows(asked)
  BY DEF WriteLedger, Goto
<1>2. /\ About(q)
      /\ asked.flip \in BOOLEAN
      /\ ~asked.flip => payment[p] = "CONFIRMED"
      /\ asked.rows \in SUBSET {r \in Reservation : r[1] = o}
      /\ asked.net \in Int
      /\ asked.net <= Held(amount, CountedOn(q), o)
  BY <1>1 DEF RequestOK, Idle
<1>3. p \in Payment /\ o \in Checkout /\ asked.refund \in Nat
  BY <1>2 DEF About, Payment, OrderOf
<1>4. /\ payment' = [payment EXCEPT ![p] = IF asked.flip THEN "CONFIRMED" ELSE @]
      /\ refunded' = [refunded EXCEPT ![p] = @ + asked.refund]
      /\ amount' = amount
  BY <1>1 DEF CommitRows
<1>5. \/ /\ covered
         /\ status' = [r \in Reservation |->
                          IF r \in Sellable(asked.rows) THEN "CONFIRMED" ELSE status[r]]
         /\ paymentStatus' = [paymentStatus EXCEPT ![o] = "PAID"]
      \/ /\ status' = status
         /\ \A x \in Checkout : paymentStatus'[x] \in {"PAID", "REFUNDED"}
                                   => paymentStatus[x] \in {"PAID", "REFUNDED"}
         /\ paymentStatus' \in [Checkout -> {"PENDING", "PARTIAL", "PAID", "REFUNDED"}]
  <2>1. CASE covered
    BY <2>1 DEF WriteLedger, SellRows
  <2>2. CASE ~covered
    BY <1>3, <2>2 DEF WriteLedger, MoneyTypeOK, ledgerVars
  <2> QED
    BY <2>1, <2>2
<1>6. MoneyTypeOK'
  <2>1. status' \in [Reservation -> ReservationStatus]
    BY <1>5 DEF MoneyTypeOK, ReservationStatus
  <2>2. paymentStatus' \in [Checkout -> {"PENDING", "PARTIAL", "PAID", "REFUNDED"}]
    BY <1>5 DEF MoneyTypeOK
  <2>3. payment' \in [Payment -> {"NONE", "PENDING", "CONFIRMED"}]
    BY <1>4 DEF MoneyTypeOK
  <2>4. refunded' \in [Payment -> Nat]
    BY <1>3, <1>4 DEF MoneyTypeOK
  <2> QED
    BY <1>1, <1>4, <2>1, <2>2, <2>3, <2>4 DEF MoneyTypeOK
<1>7. WithPayment("CONFIRMED")' = CountedOn(q)
  BY <1>2, <1>3, <1>4 DEF WithPayment, CountedOn, MoneyTypeOK
<1>8. \A x \in Payment : payment[x] # "NONE" => payment'[x] # "NONE" /\ amount'[x] = amount[x]
  BY <1>3, <1>4 DEF MoneyTypeOK
<1>9. WithPayment("CONFIRMED") \subseteq WithPayment("CONFIRMED")'
  BY <1>7 DEF CountedOn
<1>10. /\ \A x \in Checkout : Paid(x) \in Nat /\ Paid(x)' \in Nat /\ Paid(x) <= Paid(x)'
       /\ \A x \in Request : request'[x] = request[x] => RequestOK(x)'
  BY <1>6, <1>8, <1>9, CoveredStays
<1>11. \A x \in Request : RequestOK(x)'
  <2>1. RequestOK(q)'
    BY <1>1 DEF RequestOK, MoneyTypeOK
  <2>2. \A x \in Request : x # q => request'[x] = request[x]
    BY <1>1 DEF MoneyTypeOK
  <2> QED
    BY <1>10, <2>1, <2>2
<1>12. SoldIsCovered'
  <2>1. CASE covered /\ status' = [r \in Reservation |->
                          IF r \in Sellable(asked.rows) THEN "CONFIRMED" ELSE status[r]]
             /\ paymentStatus' = [paymentStatus EXCEPT ![o] = "PAID"]
    <3>1. \A x \in Checkout : Total[x] \in Nat
      BY PosPaymentsAssumption
    <3> PICK paidFor \in Checkout : paidFor = o
      BY <1>3
    <3>2. Paid(paidFor)' = Held(amount, CountedOn(q), paidFor)
      BY <1>4, <1>7 DEF Paid, Held, Units
    <3>3. Paid(paidFor)' >= Total[paidFor]
      BY <1>2, <1>10, <2>1, <3>1, <3>2
    <3>4. \A x \in Checkout : Paid(x) >= Total[x] => Paid(x)' >= Total[x]
      BY <1>10, <3>1
    <3>5. \A x \in Checkout : paymentStatus'[x] \in {"PAID", "REFUNDED"} => Paid(x)' >= Total[x]
      BY <2>1, <3>3, <3>4 DEF SoldIsCovered, MoneyTypeOK
    <3>6. \A r \in Reservation : status'[r] = "CONFIRMED" => Paid(r[1])' >= Total[r[1]]
      <4> SUFFICES ASSUME NEW r \in Reservation, status'[r] = "CONFIRMED"
                   PROVE  Paid(r[1])' >= Total[r[1]]
        OBVIOUS
      <4>1. CASE r \in Sellable(asked.rows)
        <5>1. r[1] = paidFor
          BY <1>2, <4>1 DEF Sellable
        <5> QED
          BY <3>3, <5>1
      <4>2. CASE r \notin Sellable(asked.rows)
        <5>1. r \in WithStatus("CONFIRMED") /\ r[1] \in Checkout
          BY <2>1, <4>2 DEF WithStatus, Reservation
        <5> QED
          BY <3>4, <5>1 DEF SoldIsCovered
      <4> QED
        BY <4>1, <4>2
    <3> QED
      BY <3>5, <3>6 DEF SoldIsCovered, WithStatus
  <2>2. CASE /\ status' = status
             /\ \A x \in Checkout : paymentStatus'[x] \in {"PAID", "REFUNDED"}
                                       => paymentStatus[x] \in {"PAID", "REFUNDED"}
    BY <1>6, <1>8, <1>9, <2>2, CoveredKept
  <2> QED
    BY <1>5, <2>1, <2>2
<1> QED
  BY <1>6, <1>11, <1>12

-----------------------------------------------------------------------------
\* An action on orders and stock that touches no payment, sells nothing and
\* marks nothing PAID or REFUNDED that was neither.
LEMMA OrderStepInv ==
    ASSUME PosInv,
           UNCHANGED <<payment, amount>>,
           refunded' \in [Payment -> Nat],
           DOMAIN request' = Request,
           \A x \in Request : request'[x] = request[x] \/ RequestOK(x)',
           status' \in [Reservation -> ReservationStatus],
           \A r \in Reservation : status'[r] = "CONFIRMED" => status[r] = "CONFIRMED",
           paymentStatus' \in [Checkout -> {"PENDING", "PARTIAL", "PAID", "REFUNDED"}],
           \A o \in Checkout : paymentStatus'[o] \in {"PAID", "REFUNDED"}
                                  => paymentStatus[o] \in {"PAID", "REFUNDED"}
    PROVE  PosInv'
<1>1. MoneyTypeOK'
  BY DEF PosInv, MoneyTypeOK
<1>2. WithPayment("CONFIRMED")' = WithPayment("CONFIRMED")
  BY DEF WithPayment
<1>3. \A q \in Request : RequestOK(q)'
  BY <1>1, <1>2, CoveredStays
<1>4. SoldIsCovered'
  BY <1>1, <1>2, CoveredKept
<1> QED
  BY <1>1, <1>3, <1>4 DEF PosInv

\* A full refund turns PAID into REFUNDED and leaves the rows CONFIRMED.
LEMMA RefundOrderInv ==
    ASSUME PosInv, NEW q \in Request, RefundOrder(q)
    PROVE  PosInv'
<1> USE DEF PosInv, MoneyTypeOK
<1> DEFINE o == OrderOf(request[q].payment)
           next == [pc |-> "recording", payment |-> request[q].payment,
                    refund |-> request[q].refund]
<1>1. request[q].pc = "refunding" /\ About(q)
  BY DEF RefundOrder, RequestOK, Idle
<1>2. o \in Checkout
  BY <1>1 DEF About, Payment, OrderOf
<1>3. UNCHANGED <<payment, amount, refunded>>
  BY DEF RefundOrder
<1>4. \/ request' = [request EXCEPT ![q] = Idle]
      \/ request' = [request EXCEPT ![q] = next]
  BY DEF RefundOrder, Goto
<1>5. RequestOK(q)'
  <2>1. CASE request' = [request EXCEPT ![q] = Idle]
    BY <2>1 DEF RequestOK
  <2>2. CASE request' = [request EXCEPT ![q] = next]
    <3>1. /\ request'[q].payment = request[q].payment
          /\ request'[q].refund = request[q].refund
          /\ request'[q].pc = "recording"
      BY <2>2
    <3> QED
      BY <1>1, <1>3, <3>1 DEF RequestOK, About
  <2> QED
    BY <1>4, <2>1, <2>2
<1>6. \A x \in Request : request'[x] = request[x] \/ RequestOK(x)'
  BY <1>4, <1>5
<1>7. status' = status
  BY DEF RefundOrder, RestockRows, ledgerVars
<1>8. /\ paymentStatus' \in [Checkout -> {"PENDING", "PARTIAL", "PAID", "REFUNDED"}]
      /\ \A x \in Checkout : paymentStatus'[x] \in {"PAID", "REFUNDED"}
                                => paymentStatus[x] \in {"PAID", "REFUNDED"}
  BY <1>2 DEF RefundOrder
<1>9. DOMAIN request' = Request
  BY <1>4
<1> QED
  BY <1>3, <1>6, <1>7, <1>8, <1>9, OrderStepInv

\* The refund row adds a natural amount.
LEMMA RecordRefundInv ==
    ASSUME PosInv, NEW q \in Request, RecordRefund(q)
    PROVE  PosInv'
<1> USE DEF PosInv, MoneyTypeOK
<1>1. About(q)
  BY DEF RecordRefund, RequestOK, Idle
<1>2. refunded' \in [Payment -> Nat]
  BY <1>1 DEF RecordRefund, About
<1>3. \A x \in Request : request'[x] = request[x] \/ RequestOK(x)'
  BY DEF RecordRefund, Goto, RequestOK
<1> QED
  BY <1>2, <1>3, OrderStepInv DEF RecordRefund, Goto, ledgerVars

\* A cancellation and the expiry close reservations and pay nothing.
LEMMA CancelInv ==
    ASSUME PosInv, NEW o \in Checkout, Cancel(o) \/ Expire(o)
    PROVE  PosInv'
<1> USE DEF PosInv, MoneyTypeOK
<1>1. UNCHANGED <<paymentStatus, payment, amount, refunded, request>>
  BY DEF Cancel, Expire
<1>2. /\ status' \in [Reservation -> ReservationStatus]
      /\ \A r \in Reservation : status'[r] = "CONFIRMED" => status[r] = "CONFIRMED"
  BY DEF Cancel, Expire, CloseRows, ReservationStatus
<1> QED
  BY <1>1, <1>2, OrderStepInv

\* Every step of the counter's payments keeps the invariant.
LEMMA PosStepInv == PosInv /\ [PosNext]_posPaymentVars => PosInv'
<1> SUFFICES ASSUME PosInv, [PosNext]_posPaymentVars PROVE PosInv'
  OBVIOUS
<1>1. CASE UNCHANGED posPaymentVars
  BY <1>1, OrderStepInv DEF posPaymentVars, posVars, ledgerVars, PosInv, MoneyTypeOK
<1>2. ASSUME NEW q \in Request, NEW o \in Checkout, NEW t \in Tender, NEW a \in Amount,
             Create(q, o, t, a)
      PROVE  PosInv'
  BY <1>2, CreateInv
<1>3. ASSUME NEW q \in Request, NEW p \in Payment, Poll(q, p)
      PROVE  PosInv'
  BY <1>3, PollInv
<1>4. ASSUME NEW q \in Request, NEW p \in Payment, NEW a \in Amount,
             NEW returnStock \in BOOLEAN, BeginRefund(q, p, a, returnStock)
      PROVE  PosInv'
  BY <1>4, BeginRefundInv
<1>5. ASSUME NEW q \in Request, Insert(q)
      PROVE  PosInv'
  BY <1>5, InsertInv
<1>6. ASSUME NEW q \in Request, ReadLedger(q)
      PROVE  PosInv'
  BY <1>6, ReadLedgerInv
<1>7. ASSUME NEW q \in Request, WriteLedger(q)
      PROVE  PosInv'
  BY <1>7, WriteLedgerInv
<1>8. ASSUME NEW q \in Request, RefundOrder(q)
      PROVE  PosInv'
  BY <1>8, RefundOrderInv
<1>9. ASSUME NEW q \in Request, RecordRefund(q)
      PROVE  PosInv'
  BY <1>9, RecordRefundInv
<1>10. ASSUME NEW q \in Request, CrashRequest(q)
       PROVE  PosInv'
  BY <1>10, IdleInv DEF CrashRequest
<1>11. ASSUME NEW o \in Checkout, Cancel(o) \/ Expire(o)
       PROVE  PosInv'
  BY <1>11, CancelInv
<1> QED
  BY <1>1, <1>2, <1>3, <1>4, <1>5, <1>6, <1>7, <1>8, <1>9, <1>10, <1>11 DEF PosNext

\* However requests overlap, die or lose a race: an order that is PAID or was
\* refunded, and every reservation sold, is covered by confirmed payments.
THEOREM CounterSalesAreCovered == PosSpec => []SoldIsCovered
<1>1. PosInit => PosInv
  BY PosInitInv
<1>2. PosInv /\ [PosNext]_posPaymentVars => PosInv'
  BY PosStepInv
<1>3. PosInv => SoldIsCovered
  BY DEF PosInv
<1> QED
  BY <1>1, <1>2, <1>3, PTL DEF PosSpec

-----------------------------------------------------------------------------
(* 2. The stock and the drawer, whatever overlaps and dies                 *)
-----------------------------------------------------------------------------

TillTypeOK ==
    /\ LedgerTypeOK
    /\ order \in [Checkout -> {"PENDING_PAYMENT", "PAID", "CANCELLED", "EXPIRED", "REFUNDED"}]
    /\ provider \in [Payment -> {"NONE", "CASH", "KHQR"}]
    /\ crashes \in Nat
    /\ orderly \in BOOLEAN

CashTaken == SumOf(amount, CashPayments)

ClerkOK(k) ==
    \/ clerk[k] = Idle
    \/ /\ clerk[k].pc = "closing"
       /\ clerk[k].paid \in Nat
       /\ clerk[k].paid <= CashTaken

\* What a clerk counted, and what a closed shift expects, is at most what was
\* paid in cash: that only ever grows.
DrawerInv ==
    /\ expectedCash \in Int
    /\ shift \in {"OPEN", "CLOSED"}
    /\ shift = "CLOSED" => expectedCash <= CashTaken
    /\ DOMAIN clerk = Clerk
    /\ \A k \in Clerk : ClerkOK(k)

AnyInv == PosInv /\ TillTypeOK /\ DrawerInv

LEMMA AnyInvTypes == AnyInv => CounterTypeOK
<1> SUFFICES ASSUME AnyInv PROVE CounterTypeOK
  OBVIOUS
<1>1. \A q \in Request : request[q].pc \in
          {"idle", "creating", "applying", "writing", "refunding", "recording"}
  BY DEF AnyInv, PosInv, RequestOK, Idle
<1>2. \A k \in Clerk : clerk[k].pc \in {"idle", "closing"}
  BY DEF AnyInv, DrawerInv, ClerkOK, Idle
<1> QED
  BY <1>1, <1>2 DEF AnyInv, PosInv, MoneyTypeOK, TillTypeOK, DrawerInv, CounterTypeOK, PosTypeOK

\* Every step of the counter is one of its payments, or leaves them alone.
LEMMA CounterIsPos == [CounterNext]_counterVars => [PosNext]_posPaymentVars
BY DEF CounterNext, CounterStep, BeginClose, CloseShift, counterVars

\* A payment is never taken back, nor is its amount or its tender changed.
LEMMA PaymentsStay ==
    ASSUME PosInv, [PosNext]_posPaymentVars
    PROVE  \A p \in Payment : payment[p] # "NONE" =>
              /\ payment'[p] # "NONE" /\ amount'[p] = amount[p] /\ provider'[p] = provider[p]
              /\ payment[p] = "CONFIRMED" => payment'[p] = "CONFIRMED"
<1> DEFINE Stay == \A p \in Payment : payment[p] # "NONE" =>
              /\ payment'[p] # "NONE" /\ amount'[p] = amount[p] /\ provider'[p] = provider[p]
              /\ payment[p] = "CONFIRMED" => payment'[p] = "CONFIRMED"
<1>1. CASE UNCHANGED <<payment, amount, provider>>
  BY <1>1
<1>2. ASSUME NEW q \in Request, Insert(q) PROVE Stay
  <2>1. PICK p \in Payment :
          /\ payment[p] = "NONE"
          /\ \A x \in Payment : x # p =>
                payment'[x] = payment[x] /\ amount'[x] = amount[x] /\ provider'[x] = provider[x]
    <3>1. PICK p \in Unused(request[q].order) :
            /\ payment' = [payment EXCEPT ![p] =
                  IF request[q].tender = "CASH" THEN "CONFIRMED" ELSE "PENDING"]
            /\ amount' = [amount EXCEPT ![p] = request[q].amount]
            /\ provider' = [provider EXCEPT ![p] = request[q].tender]
      BY <1>2 DEF Insert
    <3>2. p \in Payment /\ payment[p] = "NONE"
      BY DEF Unused
    <3> QED
      BY <3>1, <3>2
  <2> QED
    BY <2>1
<1>3. ASSUME NEW q \in Request, WriteLedger(q) PROVE Stay
  <2>1. /\ payment' = [payment EXCEPT ![request[q].payment] =
                          IF request[q].flip THEN "CONFIRMED" ELSE @]
        /\ UNCHANGED <<amount, provider>>
    BY <1>3 DEF WriteLedger, CommitRows
  <2> QED
    BY <2>1 DEF PosInv, MoneyTypeOK
<1> QED
  BY <1>1, <1>2, <1>3 DEF PosNext, posPaymentVars, posVars, Create, Poll, BeginRefund, ReadLedger,
     RefundOrder, RecordRefund, CrashRequest, Cancel, Expire

\* Reservations of one order, each with no more units than are held of its
\* stock item, have no more units than are held together.
LEMMA OneOrderHolds ==
    ASSUME LedgerTypeOK, NEW o \in Checkout, NEW S \in SUBSET Reservation,
           \A r \in S : r[1] = o /\ quantity[r] <= reservedStock[r[2]],
           NEW s \in Stock
    PROVE  Held(quantity, S, s) <= reservedStock[s]
<1>1. quantity \in Quantities /\ reservedStock[s] \in Nat
  BY DEF LedgerTypeOK, Quantities
<1>2. CASE <<o, s>> \in S
  <2>1. Held(quantity, S, s) = quantity[<<o, s>>]
    BY <1>1, <1>2, HeldOne
  <2>2. quantity[<<o, s>>] <= reservedStock[s]
    BY <1>2
  <2> QED
    BY <2>1, <2>2
<1>3. CASE <<o, s>> \notin S
  <2>1. \A r \in S : r[2] # s
    BY <1>3 DEF Reservation
  <2>2. Held(quantity, S, s) = 0
    BY <2>1, HeldNothing
  <2> QED
    BY <1>1, <2>2
<1> QED
  BY <1>2, <1>3

\* The stock is never negative, whatever was read before.
LEMMA StockTypes ==
    ASSUME LedgerTypeOK, PosInv, [PosNext]_posPaymentVars
    PROVE  LedgerTypeOK'
<1> USE DEF LedgerTypeOK
<1>1. quantity \in Quantities
  BY DEF Quantities
<1>2. CASE UNCHANGED ledgerVars
  BY <1>2 DEF ledgerVars
<1>3. ASSUME NEW D \in SUBSET Reservation, NEW st \in {"RELEASED", "EXPIRED"}, CloseRows(D, st),
             \A s \in Stock : Held(quantity, D, s) <= reservedStock[s]
      PROVE  LedgerTypeOK'
  <2>1. \A s \in Stock : Held(quantity, D, s) \in Nat
    BY <1>1, HeldType
  <2>2. reservedStock' \in [Stock -> Nat]
    BY <1>3, <2>1 DEF CloseRows
  <2>3. status' \in [Reservation -> ReservationStatus]
    BY <1>3 DEF CloseRows, ReservationStatus
  <2> QED
    BY <1>3, <2>2, <2>3 DEF CloseRows
<1>4. ASSUME NEW o \in Checkout, Cancel(o) \/ Expire(o) PROVE LedgerTypeOK'
  <2>1. LiveRows(o) \in SUBSET Reservation
    BY DEF LiveRows, Rows
  <2> QED
    BY <1>3, <1>4, <2>1 DEF Cancel, Expire
<1>5. ASSUME NEW q \in Request, WriteLedger(q) PROVE LedgerTypeOK'
  <2> DEFINE o == OrderOf(request[q].payment)
             S == Sellable(request[q].rows)
  <2>1. SellRows(S) \/ UNCHANGED ledgerVars
    BY <1>5 DEF WriteLedger
  <2>2. o \in Checkout /\ request[q].rows \in SUBSET {r \in Reservation : r[1] = o}
    BY <1>5 DEF WriteLedger, PosInv, RequestOK, Idle, About, Payment, OrderOf
  <2>3. /\ S \in SUBSET Reservation
        /\ \A r \in S : r[1] = o /\ quantity[r] <= reservedStock[r[2]]
    BY <2>2 DEF Sellable
  <2> HIDE DEF S
  <2>4. \A s \in Stock : Held(quantity, S, s) <= reservedStock[s] /\ Held(quantity, S, s) \in Nat
    BY <1>1, <2>2, <2>3, OneOrderHolds, HeldType
  <2>5. CASE SellRows(S)
    <3>1. reservedStock' \in [Stock -> Nat] /\ soldStock' \in [Stock -> Nat]
      BY <2>4, <2>5 DEF SellRows
    <3>2. status' \in [Reservation -> ReservationStatus]
      BY <2>5 DEF SellRows, ReservationStatus
    <3> QED
      BY <2>5, <3>1, <3>2 DEF SellRows
  <2> QED
    BY <1>2, <2>1, <2>5
<1>6. ASSUME NEW q \in Request, RefundOrder(q) PROVE LedgerTypeOK'
  <2> DEFINE S == Returnable(OrderOf(request[q].payment))
  <2>1. \/ UNCHANGED ledgerVars
        \/ RestockRows(S) /\ \A s \in Stock : Held(quantity, S, s) <= soldStock[s]
    BY <1>6 DEF RefundOrder
  <2>2. S \in SUBSET Reservation
    BY DEF Returnable, Rows
  <2> HIDE DEF S
  <2>3. \A s \in Stock : Held(quantity, S, s) \in Nat
    BY <1>1, <2>2, HeldType
  <2>4. CASE RestockRows(S) /\ \A s \in Stock : Held(quantity, S, s) <= soldStock[s]
    <3>1. soldStock' \in [Stock -> Nat]
      BY <2>3, <2>4 DEF RestockRows
    <3> QED
      BY <2>2, <2>4, <3>1 DEF RestockRows
  <2> QED
    BY <1>2, <2>1, <2>4
<1> QED
  BY <1>2, <1>4, <1>5, <1>6 DEF PosNext, posPaymentVars, Create, Insert, Poll, BeginRefund,
     ReadLedger, RecordRefund, CrashRequest

LEMMA TillTypes ==
    ASSUME TillTypeOK, PosInv, [CounterNext]_counterVars
    PROVE  TillTypeOK'
<1>1. [PosNext]_posPaymentVars
  BY CounterIsPos
<1>2. LedgerTypeOK'
  BY <1>1, StockTypes DEF TillTypeOK
<1>3. orderly' \in BOOLEAN
  BY DEF CounterNext, counterVars, TillTypeOK
<1>4. order' \in [Checkout -> {"PENDING_PAYMENT", "PAID", "CANCELLED", "EXPIRED", "REFUNDED"}]
  <2> USE DEF TillTypeOK
  <2>1. CASE UNCHANGED order
    BY <2>1
  <2>2. ASSUME NEW q \in Request, WriteLedger(q) \/ RefundOrder(q)
        PROVE  UNCHANGED order \/ \E o : \E st \in {"PAID", "REFUNDED"} :
                                     order' = [order EXCEPT ![o] = st]
    BY <2>2 DEF WriteLedger, RefundOrder
  <2>3. ASSUME NEW o \in Checkout, Cancel(o) \/ Expire(o)
        PROVE  order' = [order EXCEPT ![o] = "CANCELLED"]
               \/ order' = [order EXCEPT ![o] =
                     IF @ = "PENDING_PAYMENT" /\ paymentStatus[o] = "PENDING" THEN "EXPIRED" ELSE @]
    BY <2>3 DEF Cancel, Expire
  <2> QED
    BY <1>1, <2>1, <2>2, <2>3 DEF PosNext, posPaymentVars, posVars, Create, Insert, Poll,
       BeginRefund, ReadLedger, RecordRefund, CrashRequest
<1>5. provider' \in [Payment -> {"NONE", "CASH", "KHQR"}]
  <2> USE DEF TillTypeOK
  <2>1. CASE UNCHANGED provider
    BY <2>1
  <2>2. ASSUME NEW q \in Request, Insert(q)
        PROVE  provider' \in [Payment -> {"NONE", "CASH", "KHQR"}]
    <3>1. request[q].tender \in Tender
      BY <2>2 DEF Insert, PosInv, RequestOK, Idle
    <3>2. \E p \in Payment : provider' = [provider EXCEPT ![p] = request[q].tender]
      BY <2>2 DEF Insert, Unused
    <3> QED
      BY <3>1, <3>2, PosPaymentsAssumption
  <2> QED
    BY <1>1, <2>1, <2>2 DEF PosNext, posPaymentVars, posVars, Create, Poll, BeginRefund,
       ReadLedger, WriteLedger, CommitRows, RefundOrder, RecordRefund, CrashRequest, Cancel, Expire
<1>6. crashes' \in Nat
  <2> USE DEF TillTypeOK
  <2>1. UNCHANGED crashes \/ crashes' = crashes + 1
    BY <1>1 DEF PosNext, posPaymentVars, posVars, Create, Insert, Poll, BeginRefund,
       ReadLedger, WriteLedger, CommitRows, RefundOrder, RecordRefund, CrashRequest, Cancel, Expire
  <2> QED
    BY <2>1
<1> QED
  BY <1>2, <1>3, <1>4, <1>5, <1>6 DEF TillTypeOK

-----------------------------------------------------------------------------
\* What payments with natural amounts add up to.
LEMMA SumType ==
    ASSUME NEW a, NEW S \in SUBSET Payment, \A p \in S : a[p] \in Nat
    PROVE  IsFiniteSet(Blocks(a, S)) /\ SumOf(a, S) \in Nat
<1>1. IsFiniteSet(S)
  BY PaymentsFinite, FS_Subset
<1>2. IsFiniteSet(Blocks(a, S)) /\ Cardinality(Blocks(a, S)) \in Nat
  BY <1>1, BlocksFinite
<1>3. SumOf(a, S) = Cardinality(Blocks(a, S))
  BY DEF SumOf, Blocks
<1> QED
  BY <1>2, <1>3

LEMMA SumGrows ==
    ASSUME NEW a, NEW b, NEW S, NEW T \in SUBSET Payment, S \subseteq T,
           \A p \in T : b[p] \in Nat, \A p \in S : a[p] = b[p]
    PROVE  SumOf(a, S) <= SumOf(b, T)
<1>1. Blocks(a, S) \subseteq Blocks(b, T)
  BY DEF Blocks
<1>2. IsFiniteSet(Blocks(b, T))
  BY SumType
<1> QED
  BY <1>1, <1>2, FS_Subset DEF SumOf, Blocks

\* The cash paid in only grows.
LEMMA CashGrows ==
    ASSUME PosInv, PosInv', [PosNext]_posPaymentVars
    PROVE  CashTaken \in Nat /\ CashTaken' \in Nat /\ CashTaken <= CashTaken'
<1>1. CashPayments \in SUBSET Payment /\ \A p \in CashPayments : amount[p] \in Nat
  BY DEF CashPayments, WithPayment, PosInv, MoneyTypeOK
<1>2. CashPayments' \in SUBSET Payment /\ \A p \in CashPayments' : amount'[p] \in Nat
  BY DEF CashPayments, WithPayment, PosInv, MoneyTypeOK
<1>3. CashPayments \subseteq CashPayments' /\ \A p \in CashPayments : amount[p] = amount'[p]
  BY PaymentsStay DEF CashPayments, WithPayment
<1>4. SumOf(amount, CashPayments) \in Nat
  BY <1>1, SumType
<1>5. SumOf(amount', CashPayments') \in Nat
  BY <1>2, SumType
<1>6. SumOf(amount, CashPayments) <= SumOf(amount', CashPayments')
  BY <1>2, <1>3, SumGrows
<1>7. CashTaken' = SumOf(amount', CashPayments')
  BY DEF CashTaken, SumOf
<1> QED
  BY <1>4, <1>5, <1>6, <1>7 DEF CashTaken

LEMMA DrawerKept ==
    ASSUME PosInv, PosInv', DrawerInv, [CounterNext]_counterVars
    PROVE  DrawerInv'
<1>1. [PosNext]_posPaymentVars
  BY CounterIsPos
<1>2. CashTaken \in Nat /\ CashTaken' \in Nat /\ CashTaken <= CashTaken'
  BY <1>1, CashGrows
<1>3. CASE UNCHANGED shiftVars
  <2>1. UNCHANGED <<shift, expectedCash, clerk>>
    BY <1>3 DEF shiftVars
  <2>2. \A k \in Clerk : ClerkOK(k)'
    BY <1>2, <2>1 DEF DrawerInv, ClerkOK
  <2> QED
    BY <1>2, <2>1, <2>2 DEF DrawerInv
<1>4. ASSUME NEW k \in Clerk, BeginClose(k) PROVE DrawerInv'
  <2>1. /\ clerk' = [clerk EXCEPT ![k] = [pc |-> "closing", paid |-> CashTaken]]
        /\ UNCHANGED <<shift, expectedCash>>
    BY <1>4 DEF BeginClose, CashTaken
  <2>2. ASSUME NEW j \in Clerk PROVE ClerkOK(j)'
    <3>1. CASE j = k
      BY <1>2, <2>1, <3>1 DEF DrawerInv, ClerkOK
    <3>2. CASE j # k
      BY <1>2, <2>1, <3>2 DEF DrawerInv, ClerkOK
    <3> QED
      BY <3>1, <3>2
  <2> QED
    BY <1>2, <2>1, <2>2 DEF DrawerInv
<1>5. ASSUME NEW k \in Clerk, CloseShift(k) PROVE DrawerInv'
  <2>1. /\ clerk[k].pc = "closing" /\ shift' = "CLOSED"
        /\ expectedCash' = clerk[k].paid - SumOf(refunded, CashRefunds)
        /\ clerk' = [clerk EXCEPT ![k] = Idle]
    BY <1>5 DEF CloseShift
  <2>2. clerk[k].paid \in Nat /\ clerk[k].paid <= CashTaken
    BY <2>1 DEF DrawerInv, ClerkOK, Idle
  <2>3. SumOf(refunded, CashRefunds) \in Nat
    BY SumType DEF CashRefunds, PosInv, MoneyTypeOK
  <2>4. ASSUME NEW j \in Clerk PROVE ClerkOK(j)'
    <3>1. CASE j = k
      BY <2>1, <3>1 DEF DrawerInv, ClerkOK
    <3>2. CASE j # k
      BY <1>2, <2>1, <3>2 DEF DrawerInv, ClerkOK
    <3> QED
      BY <3>1, <3>2
  <2>5. expectedCash' \in Int /\ expectedCash' <= CashTaken'
    BY <1>2, <2>1, <2>2, <2>3
  <2> QED
    BY <2>1, <2>4, <2>5 DEF DrawerInv
<1> QED
  BY <1>3, <1>4, <1>5 DEF CounterNext, CounterStep, counterVars

LEMMA ShiftInitInv == ShiftInit => AnyInv
<1> SUFFICES ASSUME ShiftInit PROVE AnyInv
  OBVIOUS
<1>1. PosInv
  BY PosInitInv DEF ShiftInit
<1>2. LedgerTypeOK
  <2>1. quantity \in [Reservation -> Nat]
    BY LedgerAssumption DEF ShiftInit, PosInit
  <2>2. \A s \in Stock : Held(quantity, Reservation, s) \in Nat
    BY <2>1, HeldType DEF Quantities
  <2>3. totalStock \in [Stock -> Nat]
    <3>1. \A s \in Stock : totalStock[s] \in Nat
      BY PosPaymentsAssumption DEF ShiftInit, PosInit
    <3> QED
      BY <3>1 DEF ShiftInit, PosInit
  <2> QED
    BY <2>1, <2>2, <2>3 DEF ShiftInit, PosInit, LedgerTypeOK, ReservationStatus
<1>3. TillTypeOK
  BY <1>2 DEF ShiftInit, PosInit, TillTypeOK
<1>4. DrawerInv
  BY DEF ShiftInit, DrawerInv, ClerkOK
<1> QED
  BY <1>1, <1>3, <1>4 DEF AnyInv

LEMMA CounterStepInv == AnyInv /\ [CounterNext]_counterVars => AnyInv'
<1> SUFFICES ASSUME AnyInv, [CounterNext]_counterVars PROVE AnyInv'
  OBVIOUS
<1>1. PosInv'
  BY CounterIsPos, PosStepInv DEF AnyInv
<1> QED
  BY <1>1, TillTypes, DrawerKept DEF AnyInv

\* Whatever overlaps and dies, every variable keeps its type; in particular
\* no balance of the stock goes below zero.
THEOREM TillTypesCorrect == CounterSpec => []CounterTypeOK
BY ShiftInitInv, CounterStepInv, AnyInvTypes, PTL DEF CounterSpec

\* An order that is PAID or was refunded, and every reservation sold, is
\* covered by confirmed payments, also while shifts are closed.
THEOREM ShiftSalesAreCovered == CounterSpec => []SoldIsCovered
<1>1. AnyInv => SoldIsCovered
  BY DEF AnyInv, PosInv
<1> QED
  BY <1>1, ShiftInitInv, CounterStepInv, PTL DEF CounterSpec

\* However closings and payments interleave, a closed drawer is not expected to
\* hold cash that no customer paid in.
THEOREM DrawerHoldsRealCash == CounterSpec => []ClosedOnRealCash
<1>1. AnyInv => ClosedOnRealCash
  BY DEF AnyInv, DrawerInv, ClosedOnRealCash, CashTaken
<1> QED
  BY <1>1, ShiftInitInv, CounterStepInv, PTL DEF CounterSpec

-----------------------------------------------------------------------------
(* 3. Requests that come one after the other                               *)
-----------------------------------------------------------------------------

\* The payment status says what the ledger says.
Agrees(o) ==
    paymentStatus[o] \in IF NetPaid(o) >= Total[o] THEN {"PAID"}
                         ELSE IF NetPaid(o) > 0 THEN {"PARTIAL"}
                         ELSE {"PENDING", "REFUNDED"}

\* The order whose payment status a request is about to write, or whose refund
\* it is about to record.
Busy(q, o) ==
    /\ request[q].pc \in {"applying", "writing", "recording"}
    /\ OrderOf(request[q].payment) = o

Refundable(q) ==
    LET p == request[q].payment
    IN  /\ request[q].refund <= amount[p] - refunded[p]
        /\ request[q].refund > 0 => payment[p] = "CONFIRMED"

\* What the request at work read is still so.
PlanOK(q) ==
    LET asked == request[q]
        p == asked.payment
        o == OrderOf(p)
    IN  /\ asked.pc = "creating" =>
              /\ order[asked.order] # "REFUNDED"
              /\ NetPaid(asked.order) + asked.amount <= Total[asked.order]
        /\ asked.pc \in {"applying", "writing", "refunding", "recording"} => Refundable(q)
        /\ asked.pc \in {"applying", "writing", "refunding"} => order[o] # "REFUNDED"
        /\ asked.pc = "writing" =>
              /\ asked.was = paymentStatus[o]
              /\ asked.flip = (payment[p] = "PENDING")
              /\ asked.net = NetPaid(o) + (IF asked.flip THEN amount[p] ELSE 0) - asked.refund
        /\ asked.pc \in {"refunding", "recording"} => NetPaid(o) - asked.refund <= 0
        /\ asked.pc = "recording" => paymentStatus[o] = "REFUNDED"

\* One QR code is open at a time, and its order has room for its amount.
PendingOK ==
    /\ \A p, x \in WithPayment("PENDING") : p = x
    /\ \A p \in WithPayment("PENDING") :
          /\ amount[p] > 0
          /\ NetPaid(OrderOf(p)) + amount[p] <= Total[OrderOf(p)]
          /\ order[OrderOf(p)] # "REFUNDED"

\* Only confirmed payments are refunded, and up to their amount.
RefundsOK ==
    \A p \in Payment : /\ refunded[p] <= amount[p]
                       /\ refunded[p] > 0 => payment[p] = "CONFIRMED"

\* Units go back on the shelf with the order's refund, which is final.
RefundedOK ==
    /\ \A r \in returned : order[r[1]] = "REFUNDED"
    /\ \A o \in Checkout : order[o] = "REFUNDED" => paymentStatus[o] = "REFUNDED"

\* While a clerk counts, nobody pays; once the shift is closed, nobody does.
DrawerAddsUp ==
    /\ \A k \in Clerk : clerk[k] # Idle => clerk[k].paid = CashTaken
    /\ shift = "CLOSED" => expectedCash = CashTaken - SumOf(refunded, CashRefunds)

InOrder ==
    /\ Orderly
    /\ \A q \in Request : PlanOK(q)
    /\ \A o \in Checkout : (\A q \in Request : ~Busy(q, o)) => Agrees(o)
    /\ PendingOK
    /\ RefundsOK
    /\ RefundedOK
    /\ NeverOverpaid
    /\ DrawerAddsUp

OrderlyInv == orderly => InOrder

-----------------------------------------------------------------------------
\* Net amounts, and what one payment or refund changes of them.
LEMMA NetTypes ==
    ASSUME MoneyTypeOK, NEW o \in Checkout
    PROVE  /\ Paid(o) \in Nat /\ Refunded(o) \in Nat /\ NetPaid(o) \in Int
           /\ Total[o] \in Nat \ {0}
<1>1. Paid(o) \in Nat
  BY MoneyType DEF Paid, WithPayment, MoneyTypeOK
<1>2. Refunded(o) \in Nat
  BY MoneyType DEF Refunded, MoneyTypeOK
<1> QED
  BY <1>1, <1>2, PosPaymentsAssumption DEF NetPaid

LEMMA MoneyAddsAt ==
    ASSUME NEW a, NEW S \in SUBSET Payment, NEW p \in Payment \ S, NEW o \in Checkout,
           \A x \in S \cup {p} : a[x] \in Nat
    PROVE  Held(a, S \cup {p}, o) = Held(a, S, o) + (IF OrderOf(p) = o THEN a[p] ELSE 0)
<1>1. Held(a, S, o) \in Nat
  BY MoneyType
<1>2. CASE OrderOf(p) = o
  <2>1. Held(a, S \cup {p}, OrderOf(p)) = Held(a, S, OrderOf(p)) + a[p]
    BY MoneyAdds
  <2> QED
    BY <1>2, <2>1
<1>3. CASE OrderOf(p) # o
  <2>1. {x \in S \cup {p} : x[2] = o} = {x \in S : x[2] = o}
    BY <1>3 DEF OrderOf
  <2>2. Held(a, S \cup {p}, o) = Held(a, S, o)
    BY <2>1 DEF Held, Units
  <2> QED
    BY <1>1, <1>3, <2>2
<1> QED
  BY <1>2, <1>3

LEMMA MoneySame ==
    ASSUME NEW a, NEW b, NEW S, NEW o, \A x \in S : a[x] = b[x]
    PROVE  Held(a, S, o) = Held(b, S, o)
<1>1. Units(a, S, o) = Units(b, S, o)
  BY DEF Units
<1> QED
  BY <1>1 DEF Held

\* One more confirmed payment adds its amount to its order.
LEMMA PaidAfter ==
    ASSUME MoneyTypeOK, MoneyTypeOK', NEW o \in Checkout,
           NEW p \in Payment \ WithPayment("CONFIRMED"),
           WithPayment("CONFIRMED")' = WithPayment("CONFIRMED") \cup {p},
           \A x \in WithPayment("CONFIRMED") : amount'[x] = amount[x]
    PROVE  Paid(o)' = Paid(o) + (IF OrderOf(p) = o THEN amount'[p] ELSE 0)
<1> DEFINE C == WithPayment("CONFIRMED")
<1>1. C \in SUBSET Payment /\ p \in Payment \ C
  BY DEF WithPayment
<1>2. \A x \in C \cup {p} : amount'[x] \in Nat
  BY <1>1 DEF MoneyTypeOK
<1>3. Paid(o)' = Held(amount', C \cup {p}, o)
  BY DEF Paid, Held, Units
<1>4. Paid(o) = Held(amount, C, o)
  BY DEF Paid
<1> HIDE DEF C
<1>5. Held(amount', C \cup {p}, o)
         = Held(amount', C, o) + (IF OrderOf(p) = o THEN amount'[p] ELSE 0)
  BY <1>1, <1>2, MoneyAddsAt
<1>6. Held(amount', C, o) = Held(amount, C, o)
  BY MoneySame DEF C
<1> QED
  BY <1>3, <1>4, <1>5, <1>6

LEMMA PaidSame ==
    ASSUME NEW o, WithPayment("CONFIRMED")' = WithPayment("CONFIRMED"),
           \A x \in WithPayment("CONFIRMED") : amount'[x] = amount[x]
    PROVE  Paid(o)' = Paid(o)
<1>1. Paid(o)' = Held(amount', WithPayment("CONFIRMED"), o)
  BY DEF Paid, Held, Units
<1>2. Held(amount', WithPayment("CONFIRMED"), o) = Held(amount, WithPayment("CONFIRMED"), o)
  BY MoneySame
<1> QED
  BY <1>1, <1>2 DEF Paid

\* One more refund row adds its amount to what its order got back.
LEMMA MoneyRaised ==
    ASSUME NEW b \in [Payment -> Nat], NEW c \in [Payment -> Nat], NEW o \in Checkout,
           NEW p \in Payment, NEW a \in Nat, c[p] = b[p] + a,
           \A x \in Payment \ {p} : c[x] = b[x]
    PROVE  Held(c, Payment, o) = Held(b, Payment, o) + (IF OrderOf(p) = o THEN a ELSE 0)
<1> DEFINE S == Payment \ {p}
<1>1. S \in SUBSET Payment /\ p \in Payment \ S /\ S \cup {p} = Payment
  OBVIOUS
<1>2. \A x \in S : c[x] = b[x]
  OBVIOUS
<1> HIDE DEF S
<1>3. /\ \A x \in S \cup {p} : b[x] \in Nat
      /\ \A x \in S \cup {p} : c[x] \in Nat
  BY <1>1
<1>4. Held(b, S \cup {p}, o) = Held(b, S, o) + (IF OrderOf(p) = o THEN b[p] ELSE 0)
  BY <1>1, <1>3, MoneyAddsAt
<1>5. Held(c, S \cup {p}, o) = Held(c, S, o) + (IF OrderOf(p) = o THEN c[p] ELSE 0)
  BY <1>1, <1>3, MoneyAddsAt
<1>6. Held(c, S, o) = Held(b, S, o)
  BY <1>2, MoneySame
<1>7. Held(b, S, o) \in Nat
  BY <1>1, <1>3, MoneyType
<1>8. b[p] \in Nat
  OBVIOUS
<1>9. Held(b, Payment, o) = Held(b, S, o) + (IF OrderOf(p) = o THEN b[p] ELSE 0)
  BY <1>1, <1>4
<1>10. Held(c, Payment, o) = Held(c, S, o) + (IF OrderOf(p) = o THEN c[p] ELSE 0)
  BY <1>1, <1>5
<1> QED
  BY <1>6, <1>7, <1>8, <1>9, <1>10

LEMMA RefundedAfter ==
    ASSUME MoneyTypeOK, NEW o \in Checkout, NEW p \in Payment, NEW a \in Nat,
           refunded' = [refunded EXCEPT ![p] = @ + a]
    PROVE  Refunded(o)' = Refunded(o) + (IF OrderOf(p) = o THEN a ELSE 0)
<1>1. /\ refunded \in [Payment -> Nat] /\ refunded' \in [Payment -> Nat]
      /\ refunded'[p] = refunded[p] + a
      /\ \A x \in Payment \ {p} : refunded'[x] = refunded[x]
  BY DEF MoneyTypeOK
<1>2. Held(refunded', Payment, o)
         = Held(refunded, Payment, o) + (IF OrderOf(p) = o THEN a ELSE 0)
  BY ONLY <1>1, MoneyRaised, o \in Checkout, p \in Payment, a \in Nat
<1>3. Refunded(o)' = Held(refunded', Payment, o)
  BY DEF Refunded, Held, Units
<1> QED
  BY <1>2, <1>3 DEF Refunded

LEMMA NetSame ==
    ASSUME UNCHANGED <<payment, amount, refunded>>, NEW o
    PROVE  NetPaid(o)' = NetPaid(o)
<1>1. Paid(o)' = Paid(o)
  BY PaidSame DEF WithPayment
<1>2. Refunded(o)' = Refunded(o)
  BY DEF Refunded, Held, Units
<1> QED
  BY <1>1, <1>2 DEF NetPaid

\* An order was paid at least what is left of any one of its payments.
LEMMA NetCovers ==
    ASSUME MoneyTypeOK, RefundsOK, NEW p \in Payment, payment[p] = "CONFIRMED"
    PROVE  NetPaid(OrderOf(p)) >= amount[p] - refunded[p]
<1> DEFINE o == OrderOf(p)
           T == WithPayment("CONFIRMED") \ {p}
<1>1. /\ T \in SUBSET Payment /\ p \in Payment \ T
      /\ T \cup {p} = WithPayment("CONFIRMED")
      /\ o \in Checkout
  BY DEF WithPayment, Payment, OrderOf
<1>2. /\ \A x \in Payment : amount[x] \in Nat /\ refunded[x] \in Nat /\ refunded[x] <= amount[x]
      /\ \A x \in Payment : x \notin WithPayment("CONFIRMED") => refunded[x] = 0
  BY DEF MoneyTypeOK, RefundsOK, WithPayment
<1>3. Refunded(o) = Held(refunded, T \cup {p}, o)
  <2>1. Units(refunded, Payment, o) = Units(refunded, WithPayment("CONFIRMED"), o)
    <3>1. Units(refunded, WithPayment("CONFIRMED"), o) \subseteq Units(refunded, Payment, o)
      BY DEF Units, WithPayment
    <3>2. Units(refunded, Payment, o) \subseteq Units(refunded, WithPayment("CONFIRMED"), o)
      <4> SUFFICES ASSUME NEW x \in Payment, x[2] = o, NEW u \in {x} \X (1 .. refunded[x])
                   PROVE  u \in Units(refunded, WithPayment("CONFIRMED"), o)
        BY DEF Units
      <4>1. x \in WithPayment("CONFIRMED")
        BY <1>2
      <4> QED
        BY <4>1 DEF Units
    <3> QED
      BY <3>1, <3>2
  <2> QED
    BY <1>1, <2>1 DEF Refunded, Held
<1>4. Paid(o) = Held(amount, T \cup {p}, o)
  BY <1>1 DEF Paid
<1> HIDE DEF T
<1>5. /\ Held(amount, T \cup {p}, o) = Held(amount, T, o) + amount[p]
      /\ Held(refunded, T \cup {p}, o) = Held(refunded, T, o) + refunded[p]
  BY <1>1, <1>2, MoneyAdds
<1>6. Held(refunded, T, o) <= Held(amount, T, o)
  <2>1. Units(refunded, T, o) \subseteq Units(amount, T, o)
    <3> SUFFICES ASSUME NEW x \in T, x[2] = o, NEW u \in {x} \X (1 .. refunded[x])
                 PROVE  u \in Units(amount, T, o)
      BY DEF Units
    <3>1. 1 .. refunded[x] \subseteq 1 .. amount[x]
      BY <1>1, <1>2
    <3> QED
      BY <3>1 DEF Units
  <2>2. IsFiniteSet(Units(amount, T, o))
    BY <1>1, <1>2, MoneyFinite
  <2> QED
    BY <2>1, <2>2, FS_Subset DEF Held
<1>7. Held(refunded, T, o) \in Nat /\ Held(amount, T, o) \in Nat
  BY <1>1, <1>2, MoneyType
<1> QED
  BY <1>2, <1>3, <1>4, <1>5, <1>6, <1>7 DEF NetPaid

-----------------------------------------------------------------------------
\* What a request is about, while it is about a payment.
LEMMA AboutPayment ==
    ASSUME AnyInv, NEW q \in Request,
           request[q].pc \in {"applying", "writing", "refunding", "recording"}
    PROVE  \E p \in Payment : /\ p = request[q].payment
                             /\ OrderOf(p) \in Checkout
                             /\ payment[p] # "NONE"
                             /\ request[q].refund \in Nat
BY DEF AnyInv, PosInv, RequestOK, About, Idle, Payment, OrderOf

\* A request at work is alone, and no clerk closes the shift meanwhile.
LEMMA Alone ==
    ASSUME AnyInv, InOrder, Orderly', NEW q \in Request, NEW next, Goto(q, next),
           request[q].pc # "idle" \/ next.pc # "idle", UNCHANGED shiftVars
    PROVE  /\ request'[q] = next
           /\ \A x \in Request \ {q} : request[x] = Idle /\ request'[x] = Idle
           /\ \A o \in Checkout : ~Busy(q, o) => Agrees(o)
           /\ DrawerAddsUp'
<1>1. /\ DOMAIN request = Request
      /\ request' = [request EXCEPT ![q] = next]
      /\ UNCHANGED <<shift, expectedCash, clerk>>
  BY DEF AnyInv, PosInv, MoneyTypeOK, Goto, shiftVars
<1>2. request'[q] = next /\ \A x \in Request \ {q} : request'[x] = request[x]
  BY <1>1
<1>3. q \in AtWork \/ q \in AtWork'
  BY <1>2 DEF AtWork, Idle
<1>4. \A x \in Request \ {q} : request[x] = Idle /\ request'[x] = Idle
  BY <1>2, <1>3 DEF InOrder, Orderly, AtWork
<1>5. \A k \in Clerk : clerk[k] = Idle
  BY <1>1, <1>3 DEF InOrder, Orderly, Closing
<1>6. shift = "OPEN"
  BY <1>1, <1>3 DEF InOrder, Orderly
<1>7. DrawerAddsUp'
  BY <1>1, <1>5, <1>6 DEF DrawerAddsUp
<1>8. \A x \in Request \ {q}, o \in Checkout : ~Busy(x, o)
  BY <1>4 DEF Busy, Idle
<1>9. \A o \in Checkout : ~Busy(q, o) => Agrees(o)
  BY <1>8 DEF InOrder
<1> QED
  BY <1>2, <1>4, <1>7, <1>9

\* So it is its plan and the orders it is not busy with that matter.
LEMMA AloneInOrder ==
    ASSUME Orderly', DrawerAddsUp', NEW q \in Request,
           \A x \in Request \ {q} : request'[x] = Idle,
           PlanOK(q)', \A o \in Checkout : ~Busy(q, o)' => Agrees(o)',
           PendingOK', RefundsOK', RefundedOK', NeverOverpaid'
    PROVE  InOrder'
<1>1. \A x \in Request \ {q} : PlanOK(x)'
  BY DEF PlanOK, Idle
<1>2. \A o \in Checkout : (\A x \in Request : ~Busy(x, o)') => Agrees(o)'
  OBVIOUS
<1> QED
  BY <1>1, <1>2 DEF InOrder

\* A step that leaves orders and their ledger alone.
LEMMA LedgerStays ==
    ASSUME InOrder, UNCHANGED <<order, paymentStatus, payment, amount, refunded, returned>>
    PROVE  /\ \A o : NetPaid(o)' = NetPaid(o)
           /\ \A o \in Checkout : Agrees(o) => Agrees(o)'
           /\ PendingOK' /\ RefundsOK' /\ RefundedOK' /\ NeverOverpaid'
<1>1. \A o : NetPaid(o)' = NetPaid(o)
  BY NetSame
<1>2. \A o \in Checkout : Agrees(o) => Agrees(o)'
  BY <1>1 DEF Agrees
<1>3. PendingOK'
  BY <1>1 DEF InOrder, PendingOK, WithPayment, OrderOf
<1>4. RefundsOK' /\ RefundedOK'
  BY DEF InOrder, RefundsOK, RefundedOK
<1>5. NeverOverpaid'
  BY <1>1 DEF InOrder, NeverOverpaid
<1> QED
  BY <1>1, <1>2, <1>3, <1>4, <1>5

\* A request that only reads, and leaves with a plan.
LEMMA ReadInOrder ==
    ASSUME AnyInv, InOrder, Orderly', NEW q \in Request, NEW next, Goto(q, next),
           request[q].pc # "idle" \/ next.pc # "idle", UNCHANGED shiftVars,
           UNCHANGED <<order, paymentStatus, payment, amount, refunded, returned>>,
           \A o \in Checkout : Busy(q, o) => Busy(q, o)',
           PlanOK(q)'
    PROVE  InOrder'
<1>1. /\ \A x \in Request \ {q} : request'[x] = Idle
      /\ \A o \in Checkout : ~Busy(q, o) => Agrees(o)
      /\ DrawerAddsUp'
  BY Alone
<1>2. /\ \A o \in Checkout : Agrees(o) => Agrees(o)'
      /\ PendingOK' /\ RefundsOK' /\ RefundedOK' /\ NeverOverpaid'
  BY LedgerStays
<1>3. \A o \in Checkout : ~Busy(q, o)' => Agrees(o)'
  BY <1>1, <1>2
<1> QED
  BY <1>1, <1>2, <1>3, AloneInOrder

LEMMA CreateInOrder ==
    ASSUME AnyInv, InOrder, Orderly', UNCHANGED shiftVars,
           NEW q \in Request, NEW o \in Checkout, NEW t \in Tender, NEW a \in Amount,
           Create(q, o, t, a)
    PROVE  InOrder'
<1> DEFINE next == [pc |-> "creating", order |-> o, tender |-> t, amount |-> a]
<1>1. /\ request[q] = Idle
      /\ order[o] # "REFUNDED"
      /\ a <= Remaining(o)
      /\ Goto(q, next)
      /\ UNCHANGED <<order, paymentStatus, payment, amount, refunded, returned>>
  BY DEF Create, ledgerVars
<1>2. next.pc = "creating" /\ next.order = o /\ next.amount = a
  OBVIOUS
<1>3. request'[q] = next
  BY <1>1 DEF AnyInv, PosInv, MoneyTypeOK, Goto
<1> HIDE DEF next
<1>4. \A x \in Checkout : ~Busy(q, x)
  BY <1>1 DEF Busy, Idle
<1>5. NetPaid(o)' = NetPaid(o)
  BY <1>1, NetSame
<1>6. NetPaid(o) + a <= Total[o]
  <2>1. NetPaid(o) \in Int /\ Total[o] \in Nat
    BY NetTypes DEF AnyInv, PosInv
  <2>2. a \in Nat \ {0}
    BY PosPaymentsAssumption
  <2> QED
    BY <1>1, <2>1, <2>2 DEF Remaining
<1>7. PlanOK(q)'
  BY <1>1, <1>2, <1>3, <1>5, <1>6 DEF PlanOK
<1> QED
  BY <1>1, <1>2, <1>4, <1>7, ReadInOrder

LEMMA PollInOrder ==
    ASSUME AnyInv, InOrder, Orderly', UNCHANGED shiftVars,
           NEW q \in Request, NEW p \in Payment, Poll(q, p)
    PROVE  InOrder'
<1> DEFINE next == [pc |-> "applying", payment |-> p, refund |-> 0]
<1>1. /\ request[q] = Idle
      /\ payment[p] = "PENDING"
      /\ Goto(q, next)
      /\ UNCHANGED <<order, paymentStatus, payment, amount, refunded, returned>>
  BY DEF Poll, ledgerVars
<1>2. next.pc = "applying" /\ next.payment = p /\ next.refund = 0
  OBVIOUS
<1>3. request'[q] = next
  BY <1>1 DEF AnyInv, PosInv, MoneyTypeOK, Goto
<1> HIDE DEF next
<1>4. \A x \in Checkout : ~Busy(q, x)
  BY <1>1 DEF Busy, Idle
<1>5. order[OrderOf(p)] # "REFUNDED"
  BY <1>1 DEF InOrder, PendingOK, WithPayment
<1>6. 0 <= amount[p] - refunded[p]
  BY DEF InOrder, RefundsOK, AnyInv, PosInv, MoneyTypeOK
<1>7. PlanOK(q)'
  BY <1>1, <1>2, <1>3, <1>5, <1>6 DEF PlanOK, Refundable, OrderOf
<1> QED
  BY <1>1, <1>2, <1>4, <1>7, ReadInOrder

LEMMA BeginRefundInOrder ==
    ASSUME AnyInv, InOrder, Orderly', UNCHANGED shiftVars,
           NEW q \in Request, NEW p \in Payment, NEW a \in Amount, NEW returnStock \in BOOLEAN,
           BeginRefund(q, p, a, returnStock)
    PROVE  InOrder'
<1> DEFINE o == OrderOf(p)
           next == [pc |-> IF NetPaid(o) - a <= 0 /\ returnStock THEN "refunding" ELSE "applying",
                    payment |-> p, refund |-> a]
<1>1. /\ request[q] = Idle
      /\ payment[p] = "CONFIRMED"
      /\ a <= amount[p] - refunded[p]
      /\ Goto(q, next)
      /\ UNCHANGED <<order, paymentStatus, payment, amount, refunded, returned>>
  BY DEF BeginRefund, ledgerVars
<1>2. /\ next.pc \in {"refunding", "applying"}
      /\ next.pc = "refunding" => NetPaid(o) - a <= 0
      /\ next.payment = p /\ next.refund = a
  OBVIOUS
<1>3. request'[q] = next
  BY <1>1 DEF AnyInv, PosInv, MoneyTypeOK, Goto
<1> HIDE DEF next
<1>4. \A x \in Checkout : ~Busy(q, x)
  BY <1>1 DEF Busy, Idle
<1>5. NetPaid(o)' = NetPaid(o)
  BY <1>1, NetSame
<1>6. order[o] # "REFUNDED"
  <2>1. o \in Checkout
    BY DEF Payment, OrderOf
  <2>2. Agrees(o)
    BY <1>1, <1>2, <1>4, <2>1, Alone
  <2>3. NetPaid(o) >= amount[p] - refunded[p]
    BY <1>1, NetCovers DEF AnyInv, PosInv, InOrder
  <2>4. a \in Nat \ {0} /\ amount[p] \in Nat /\ refunded[p] \in Nat
    BY PosPaymentsAssumption DEF AnyInv, PosInv, MoneyTypeOK
  <2>5. NetPaid(o) \in Int /\ Total[o] \in Nat
    BY <2>1, NetTypes DEF AnyInv, PosInv
  <2>6. NetPaid(o) > 0
    BY <1>1, <2>3, <2>4, <2>5
  <2>7. paymentStatus[o] # "REFUNDED"
    BY <2>2, <2>6 DEF Agrees
  <2> QED
    BY <2>1, <2>7 DEF InOrder, RefundedOK
<1>7. PlanOK(q)'
  BY <1>1, <1>2, <1>3, <1>5, <1>6 DEF PlanOK, Refundable, OrderOf
<1> QED
  BY <1>1, <1>2, <1>4, <1>7, ReadInOrder

LEMMA ReadLedgerInOrder ==
    ASSUME AnyInv, InOrder, Orderly', UNCHANGED shiftVars,
           NEW q \in Request, ReadLedger(q)
    PROVE  InOrder'
<1>0. PICK p \in Payment : p = request[q].payment
  BY AboutPayment DEF ReadLedger
<1> DEFINE o == OrderOf(p)
           flip == payment[p] = "PENDING"
           next == [pc |-> "writing", payment |-> p, refund |-> request[q].refund, flip |-> flip,
                    net |-> NetPaid(o) + (IF flip THEN amount[p] ELSE 0) - request[q].refund,
                    was |-> paymentStatus[o], rows |-> LiveRows(o)]
<1>1. /\ request[q].pc = "applying"
      /\ Goto(q, next)
      /\ UNCHANGED <<order, paymentStatus, payment, amount, refunded, returned>>
  BY <1>0 DEF ReadLedger, ledgerVars
<1>2. /\ next.pc = "writing" /\ next.payment = p /\ next.refund = request[q].refund
      /\ next.flip = flip /\ next.was = paymentStatus[o]
      /\ next.net = NetPaid(o) + (IF flip THEN amount[p] ELSE 0) - request[q].refund
  OBVIOUS
<1>3. request'[q] = next
  BY <1>1 DEF AnyInv, PosInv, MoneyTypeOK, Goto
<1> HIDE DEF next
<1>4. \A x \in Checkout : Busy(q, x) => Busy(q, x)'
  BY <1>0, <1>1, <1>2, <1>3 DEF Busy, OrderOf
<1>5. NetPaid(o)' = NetPaid(o)
  BY <1>1, NetSame
<1>6. Refundable(q) /\ order[o] # "REFUNDED"
  BY <1>0, <1>1 DEF InOrder, PlanOK
<1>7. Refundable(q)'
  BY <1>0, <1>1, <1>2, <1>3, <1>6 DEF Refundable
<1>8. PlanOK(q)'
  <2>1. OrderOf(request'[q].payment) = o
    BY <1>2, <1>3
  <2>2. /\ request'[q].was = paymentStatus'[o]
        /\ request'[q].flip = (payment'[p] = "PENDING")
    BY <1>1, <1>2, <1>3
  <2>3. request'[q].net = NetPaid(o)' + (IF request'[q].flip THEN amount'[p] ELSE 0)
                             - request'[q].refund
    BY <1>1, <1>2, <1>3, <1>5
  <2> QED
    BY <1>1, <1>2, <1>3, <1>6, <1>7, <2>1, <2>2, <2>3 DEF PlanOK, OrderOf
<1> QED
  BY <1>1, <1>2, <1>4, <1>8, ReadInOrder

-----------------------------------------------------------------------------
\* A new payment: cash counts at once, and its request is busy with the order;
\* a QR code counts for nothing yet.
LEMMA InsertInOrder ==
    ASSUME AnyInv, AnyInv', InOrder, Orderly', UNCHANGED shiftVars,
           NEW q \in Request, Insert(q)
    PROVE  InOrder'
<1>1. PICK o \in Checkout, a \in Amount :
        request[q].pc = "creating" /\ o = request[q].order /\ a = request[q].amount
  BY DEF Insert, AnyInv, PosInv, RequestOK, Idle
<1>2. PICK p \in Unused(o) :
        /\ payment' = [payment EXCEPT ![p] =
              IF request[q].tender = "CASH" THEN "CONFIRMED" ELSE "PENDING"]
        /\ amount' = [amount EXCEPT ![p] = a]
        /\ Goto(q, IF request[q].tender = "CASH"
                   THEN [pc |-> "applying", payment |-> p, refund |-> 0] ELSE Idle)
        /\ UNCHANGED <<order, paymentStatus, refunded, returned>>
  BY <1>1 DEF Insert, ledgerVars
<1>3. p \in Payment /\ OrderOf(p) = o /\ payment[p] = "NONE"
  BY DEF Unused
<1>4. MoneyTypeOK /\ MoneyTypeOK'
  BY DEF AnyInv, PosInv
<1>5. /\ amount'[p] = a /\ a \in Nat \ {0}
      /\ \A x \in Payment \ {p} : payment'[x] = payment[x] /\ amount'[x] = amount[x]
  BY <1>2, <1>4, PosPaymentsAssumption DEF MoneyTypeOK
<1>6. refunded'[p] = 0
  BY <1>2, <1>3, <1>4 DEF InOrder, RefundsOK, MoneyTypeOK
<1>7. WithPayment("PENDING") = {}
  BY <1>1 DEF InOrder, Orderly
<1>8. order[o] # "REFUNDED" /\ NetPaid(o) + a <= Total[o]
  BY <1>1 DEF InOrder, PlanOK
<1>9. RefundsOK'
  BY <1>2, <1>3, <1>4, <1>5, <1>6 DEF InOrder, RefundsOK, MoneyTypeOK
<1>10. RefundedOK'
  BY <1>2 DEF InOrder, RefundedOK
<1>11. \A x \in Checkout : Refunded(x)' = Refunded(x)
  BY <1>2 DEF Refunded, Held, Units
<1>12. \A x \in Checkout : Paid(x) \in Nat /\ Refunded(x) \in Nat /\ Total[x] \in Nat
  BY <1>4, NetTypes
<1>13. \A x \in Checkout : ~Busy(q, x)
  BY <1>1 DEF Busy
<1>14. CASE request[q].tender = "CASH"
  <2> DEFINE next == [pc |-> "applying", payment |-> p, refund |-> 0]
  <2>1. Goto(q, next) /\ payment'[p] = "CONFIRMED"
    BY <1>2, <1>3, <1>4, <1>14 DEF MoneyTypeOK
  <2>2. next.pc = "applying" /\ next.payment = p /\ next.refund = 0
    OBVIOUS
  <2> HIDE DEF next
  <2>3. /\ request'[q] = next
        /\ \A x \in Request \ {q} : request'[x] = Idle
        /\ \A x \in Checkout : Agrees(x)
        /\ DrawerAddsUp'
    BY <1>1, <1>13, <2>1, Alone
  <2>4. ASSUME NEW x \in Checkout
        PROVE  NetPaid(x)' = NetPaid(x) + (IF o = x THEN a ELSE 0)
    <3>1. WithPayment("CONFIRMED")' = WithPayment("CONFIRMED") \cup {p}
      BY <1>3, <1>5, <2>1 DEF WithPayment
    <3>2. p \in Payment \ WithPayment("CONFIRMED")
      BY <1>3 DEF WithPayment
    <3>3. \A y \in WithPayment("CONFIRMED") : amount'[y] = amount[y]
      BY <1>3, <1>5 DEF WithPayment
    <3>4. Paid(x)' = Paid(x) + (IF o = x THEN a ELSE 0)
      BY <1>3, <1>4, <1>5, <3>1, <3>2, <3>3, PaidAfter
    <3> QED
      BY <1>5, <1>11, <1>12, <3>4 DEF NetPaid
  <2>5. \A x \in Checkout : ~Busy(q, x)' => Agrees(x)'
    <3> SUFFICES ASSUME NEW x \in Checkout, ~Busy(q, x)' PROVE Agrees(x)'
      OBVIOUS
    <3>1. x # o
      BY <1>3, <2>2, <2>3 DEF Busy, OrderOf
    <3>2. NetPaid(x)' = NetPaid(x)
      BY <1>12, <2>4, <3>1 DEF NetPaid
    <3> QED
      BY <1>2, <2>3, <3>2 DEF Agrees
  <2>6. PendingOK'
    <3>1. WithPayment("PENDING")' = {}
      BY <1>5, <1>7, <2>1 DEF WithPayment
    <3> QED
      BY <3>1 DEF PendingOK
  <2>7. NeverOverpaid'
    <3>1. ASSUME NEW x \in Checkout PROVE NetPaid(x)' <= Total[x]
      <4>1. NetPaid(x) <= Total[x]
        BY DEF InOrder, NeverOverpaid
      <4> QED
        BY <1>5, <1>8, <1>12, <2>4, <4>1 DEF NetPaid
    <3> QED
      BY <3>1 DEF NeverOverpaid
  <2>8. PlanOK(q)'
    <3>1. Refundable(q)'
      BY <1>5, <1>6, <2>1, <2>2, <2>3 DEF Refundable
    <3> QED
      BY <1>2, <1>3, <1>8, <2>2, <2>3, <3>1 DEF PlanOK, OrderOf
  <2> QED
    BY <1>9, <1>10, <2>3, <2>5, <2>6, <2>7, <2>8, AloneInOrder
<1>15. CASE request[q].tender # "CASH"
  <2>1. Goto(q, Idle) /\ payment'[p] = "PENDING"
    BY <1>2, <1>3, <1>4, <1>15 DEF MoneyTypeOK
  <2>2. /\ request'[q] = Idle
        /\ \A x \in Request \ {q} : request'[x] = Idle
        /\ \A x \in Checkout : Agrees(x)
        /\ DrawerAddsUp'
    BY <1>1, <1>13, <2>1, Alone
  <2>3. ASSUME NEW x \in Checkout PROVE NetPaid(x)' = NetPaid(x)
    <3>1. WithPayment("CONFIRMED")' = WithPayment("CONFIRMED")
      BY <1>3, <1>5, <2>1 DEF WithPayment
    <3>2. \A y \in WithPayment("CONFIRMED") : amount'[y] = amount[y]
      BY <1>3, <1>5 DEF WithPayment
    <3>3. Paid(x)' = Paid(x)
      BY <3>1, <3>2, PaidSame
    <3> QED
      BY <1>11, <3>3 DEF NetPaid
  <2>4. \A x \in Checkout : Agrees(x)'
    BY <1>2, <2>2, <2>3 DEF Agrees
  <2>5. PendingOK'
    <3>1. WithPayment("PENDING")' = {p}
      BY <1>3, <1>5, <1>7, <2>1 DEF WithPayment
    <3>2. /\ amount'[p] > 0
          /\ NetPaid(OrderOf(p))' + amount'[p] <= Total[OrderOf(p)]
          /\ order'[OrderOf(p)] # "REFUNDED"
      BY <1>2, <1>3, <1>5, <1>8, <2>3
    <3> QED
      BY <3>1, <3>2 DEF PendingOK, OrderOf
  <2>6. NeverOverpaid'
    BY <2>3 DEF InOrder, NeverOverpaid
  <2>7. PlanOK(q)'
    BY <2>2 DEF PlanOK, Idle
  <2> QED
    BY <1>9, <1>10, <2>2, <2>4, <2>5, <2>6, <2>7, AloneInOrder
<1> QED
  BY <1>14, <1>15

-----------------------------------------------------------------------------
\* A recomputation writes what is true once it has written.
LEMMA WriteLedgerInOrder ==
    ASSUME AnyInv, AnyInv', InOrder, Orderly', UNCHANGED shiftVars,
           NEW q \in Request, WriteLedger(q)
    PROVE  InOrder'
<1>1. request[q].pc = "writing"
  BY DEF WriteLedger
<1>2. PICK p \in Payment : /\ p = request[q].payment
                           /\ OrderOf(p) \in Checkout
                           /\ payment[p] # "NONE"
                           /\ request[q].refund \in Nat
  BY <1>1, AboutPayment
<1> DEFINE o == OrderOf(p)
           flip == request[q].flip
           net == request[q].net
           refund == request[q].refund
<1>3. /\ Refundable(q) /\ order[o] # "REFUNDED"
      /\ request[q].was = paymentStatus[o]
      /\ flip \in BOOLEAN /\ (flip <=> payment[p] = "PENDING")
      /\ net = NetPaid(o) + (IF flip THEN amount[p] ELSE 0) - refund
  BY <1>1, <1>2 DEF InOrder, PlanOK
<1>4. MoneyTypeOK /\ MoneyTypeOK'
  BY DEF AnyInv, PosInv
<1>5. /\ Goto(q, Idle)
      /\ payment' = [payment EXCEPT ![p] = IF flip THEN "CONFIRMED" ELSE @]
      /\ refunded' = [refunded EXCEPT ![p] = @ + refund]
      /\ amount' = amount
      /\ returned' = returned
      /\ IF net >= Total[o] /\ request[q].was # "PAID"
         THEN /\ order' = [order EXCEPT ![o] = "PAID"]
              /\ paymentStatus' = [paymentStatus EXCEPT ![o] = "PAID"]
         ELSE /\ paymentStatus' = [paymentStatus EXCEPT ![o] =
                    IF net > 0 /\ net < Total[o] THEN "PARTIAL"
                    ELSE IF net <= 0 /\ request[q].was # "PENDING" THEN "PENDING"
                    ELSE @]
              /\ order' = order
  BY <1>2 DEF WriteLedger, CommitRows, SellRows, ledgerVars
<1>6. /\ request'[q] = Idle
      /\ \A x \in Request \ {q} : request'[x] = Idle
      /\ \A x \in Checkout : ~Busy(q, x) => Agrees(x)
      /\ DrawerAddsUp'
  BY <1>1, <1>5, Alone
<1>7. /\ refunded[p] \in Nat /\ amount[p] \in Nat
      /\ refund <= amount[p] - refunded[p]
      /\ flip => refund = 0
  <2>1. refunded[p] \in Nat /\ amount[p] \in Nat
    BY <1>4 DEF MoneyTypeOK
  <2>2. /\ refund <= amount[p] - refunded[p]
        /\ refund > 0 => payment[p] = "CONFIRMED"
    BY <1>2, <1>3 DEF Refundable
  <2> QED
    BY <1>2, <1>3, <2>1, <2>2
<1>8. /\ flip => payment'[p] = "CONFIRMED"
      /\ ~flip => payment'[p] = payment[p]
      /\ refunded'[p] = refunded[p] + refund
      /\ \A x \in Payment \ {p} : payment'[x] = payment[x] /\ refunded'[x] = refunded[x]
  BY <1>4, <1>5 DEF MoneyTypeOK
<1>9. \A x \in Checkout : Paid(x) \in Nat /\ Refunded(x) \in Nat /\ Total[x] \in Nat \ {0}
  BY <1>4, NetTypes
<1>10. flip \in BOOLEAN
  BY <1>3
<1> HIDE DEF flip, net, refund
<1>11. ASSUME NEW x \in Checkout
       PROVE  NetPaid(x)' = NetPaid(x)
                 + (IF o = x THEN (IF flip THEN amount[p] ELSE 0) - refund ELSE 0)
  <2>1. Refunded(x)' = Refunded(x) + (IF o = x THEN refund ELSE 0)
    BY <1>2, <1>4, <1>5, RefundedAfter DEF refund
  <2>2. Paid(x)' = Paid(x) + (IF o = x THEN (IF flip THEN amount[p] ELSE 0) ELSE 0)
    <3>1. CASE flip
      <4>1. WithPayment("CONFIRMED")' = WithPayment("CONFIRMED") \cup {p}
        BY <1>8, <3>1 DEF WithPayment
      <4>2. p \in Payment \ WithPayment("CONFIRMED")
        BY <1>3, <3>1 DEF WithPayment
      <4>3. \A y \in WithPayment("CONFIRMED") : amount'[y] = amount[y]
        BY <1>5
      <4>4. Paid(x)' = Paid(x) + (IF o = x THEN amount'[p] ELSE 0)
        BY <1>4, <4>1, <4>2, <4>3, PaidAfter
      <4> QED
        BY <1>5, <3>1, <4>4
    <3>2. CASE ~flip
      <4>1. WithPayment("CONFIRMED")' = WithPayment("CONFIRMED")
        BY <1>8, <3>2 DEF WithPayment
      <4>2. \A y \in WithPayment("CONFIRMED") : amount'[y] = amount[y]
        BY <1>5
      <4>3. Paid(x)' = Paid(x)
        BY <4>1, <4>2, PaidSame
      <4> QED
        BY <1>9, <3>2, <4>3
    <3> QED
      BY <3>1, <3>2
  <2>3. Paid(x) \in Nat /\ Refunded(x) \in Nat /\ refund \in Nat
    BY <1>2, <1>9 DEF refund
  <2> QED
    BY <1>7, <2>1, <2>2, <2>3 DEF NetPaid
<1>12. NetPaid(o)' = net /\ NetPaid(o) \in Int /\ net \in Int /\ Total[o] \in Nat \ {0}
  <2>1. NetPaid(o)' = NetPaid(o) + (IF flip THEN amount[p] ELSE 0) - refund
    BY <1>2, <1>7, <1>9, <1>11 DEF NetPaid, refund
  <2>2. NetPaid(o) \in Int /\ refund \in Nat
    BY <1>2, <1>9 DEF NetPaid, refund
  <2> QED
    BY <1>2, <1>3, <1>7, <1>9, <2>1, <2>2
<1>13. \A x \in Checkout : x # o => NetPaid(x)' = NetPaid(x)
  BY <1>9, <1>11 DEF NetPaid
<1>14. /\ \A x \in Checkout : x # o => /\ paymentStatus'[x] = paymentStatus[x]
                                       /\ order'[x] = order[x]
       /\ order'[o] # "REFUNDED"
  <2>1. order' = order \/ order' = [order EXCEPT ![o] = "PAID"]
    BY <1>5
  <2>2. \E st : paymentStatus' = [paymentStatus EXCEPT ![o] = st]
    BY <1>5
  <2>3. order \in [Checkout -> {"PENDING_PAYMENT", "PAID", "CANCELLED", "EXPIRED", "REFUNDED"}]
    BY DEF AnyInv, TillTypeOK
  <2> QED
    BY <1>2, <1>3, <1>4, <2>1, <2>2, <2>3 DEF MoneyTypeOK
<1>15. ASSUME NEW x \in Checkout PROVE Agrees(x)'
  <2>1. CASE x # o
    <3>1. ~Busy(q, x)
      BY <1>2, <2>1 DEF Busy
    <3>2. Agrees(x)
      BY <1>6, <3>1
    <3> QED
      BY <1>13, <1>14, <2>1, <3>2 DEF Agrees
  <2>2. CASE x = o
    <3>1. paymentStatus[o] \in {"PENDING", "PARTIAL", "PAID", "REFUNDED"}
      BY <1>2, <1>4 DEF MoneyTypeOK
    <3>2. paymentStatus'[o] = IF net >= Total[o] /\ request[q].was # "PAID" THEN "PAID"
                              ELSE IF net > 0 /\ net < Total[o] THEN "PARTIAL"
                              ELSE IF net <= 0 /\ request[q].was # "PENDING" THEN "PENDING"
                              ELSE paymentStatus[o]
      <4> DEFINE paid == net >= Total[o] /\ request[q].was # "PAID"
                 below == IF net > 0 /\ net < Total[o] THEN "PARTIAL"
                          ELSE IF net <= 0 /\ request[q].was # "PENDING" THEN "PENDING"
                          ELSE paymentStatus[o]
      <4>1. IF paid THEN paymentStatus' = [paymentStatus EXCEPT ![o] = "PAID"]
            ELSE paymentStatus' = [paymentStatus EXCEPT ![o] = below]
        BY <1>5
      <4> HIDE DEF paid, below
      <4>2. paymentStatus'[o] = IF paid THEN "PAID" ELSE below
        BY <1>2, <1>4, <4>1 DEF MoneyTypeOK
      <4> QED
        BY <4>2 DEF paid, below
    <3>3. CASE net >= Total[o]
      <4>1. paymentStatus'[o] = "PAID"
        BY <1>3, <1>12, <3>2, <3>3
      <4> QED
        BY <1>12, <2>2, <3>3, <4>1 DEF Agrees
    <3>4. CASE net > 0 /\ net < Total[o]
      <4>1. paymentStatus'[o] = "PARTIAL"
        BY <1>12, <3>2, <3>4
      <4> QED
        BY <1>12, <2>2, <3>4, <4>1 DEF Agrees
    <3>5. CASE net <= 0
      <4>1. paymentStatus'[o] = "PENDING"
        BY <1>3, <1>12, <3>2, <3>5
      <4> QED
        BY <1>12, <2>2, <3>5, <4>1 DEF Agrees
    <3> QED
      BY <1>12, <3>3, <3>4, <3>5
  <2> QED
    BY <2>1, <2>2
<1>16. PendingOK'
  <2>1. CASE flip
    <3>1. p \in WithPayment("PENDING")
      BY <1>3, <2>1 DEF WithPayment
    <3>2. \A x \in WithPayment("PENDING") : x = p
      BY <3>1 DEF InOrder, PendingOK
    <3>3. WithPayment("PENDING")' = {}
      BY <1>8, <2>1, <3>2 DEF WithPayment
    <3> QED
      BY <3>3 DEF PendingOK
  <2>2. CASE ~flip
    <3>1. WithPayment("PENDING")' = WithPayment("PENDING")
      BY <1>8, <2>2 DEF WithPayment
    <3>2. ASSUME NEW x \in WithPayment("PENDING")
          PROVE  /\ amount'[x] > 0
                 /\ NetPaid(OrderOf(x))' + amount'[x] <= Total[OrderOf(x)]
                 /\ order'[OrderOf(x)] # "REFUNDED"
      <4>1. /\ amount[x] > 0
            /\ NetPaid(OrderOf(x)) + amount[x] <= Total[OrderOf(x)]
            /\ order[OrderOf(x)] # "REFUNDED"
        BY DEF InOrder, PendingOK
      <4>2. OrderOf(x) \in Checkout /\ amount[x] \in Nat
        BY <1>4 DEF WithPayment, Payment, OrderOf, MoneyTypeOK
      <4>3. NetPaid(OrderOf(x)) \in Int /\ Total[OrderOf(x)] \in Nat
        BY <1>9, <4>2 DEF NetPaid
      <4>4. NetPaid(OrderOf(x))' \in Int /\ NetPaid(OrderOf(x))' <= NetPaid(OrderOf(x))
        <5>1. refund \in Nat
          BY <1>2 DEF refund
        <5> QED
          BY <1>11, <2>2, <4>2, <4>3, <5>1
      <4> QED
        BY <1>5, <1>14, <4>1, <4>2, <4>3, <4>4
    <3> QED
      BY <3>1, <3>2 DEF InOrder, PendingOK, OrderOf
  <2> QED
    BY <1>10, <2>1, <2>2
<1>17. RefundsOK'
  <2>1. ASSUME NEW x \in Payment
        PROVE  refunded'[x] <= amount'[x] /\ (refunded'[x] > 0 => payment'[x] = "CONFIRMED")
    <3>1. refunded[x] <= amount[x] /\ (refunded[x] > 0 => payment[x] = "CONFIRMED")
      BY DEF InOrder, RefundsOK
    <3>2. CASE x # p
      BY <1>5, <1>8, <3>1, <3>2
    <3>3. CASE x = p
      <4>1. refund > 0 => payment[p] = "CONFIRMED"
        BY <1>2, <1>3 DEF Refundable, refund
      <4>2. refund \in Nat
        BY <1>2 DEF refund
      <4> QED
        BY <1>3, <1>5, <1>7, <1>8, <3>1, <3>3, <4>1, <4>2
    <3> QED
      BY <3>2, <3>3
  <2> QED
    BY <2>1 DEF RefundsOK
<1>18. RefundedOK'
  <2>1. \A r \in returned : r[1] \in Checkout
    BY DEF AnyInv, TillTypeOK, LedgerTypeOK, Reservation
  <2> QED
    BY <1>3, <1>5, <1>14, <2>1 DEF InOrder, RefundedOK
<1>19. NeverOverpaid'
  <2>1. ASSUME NEW x \in Checkout PROVE NetPaid(x)' <= Total[x]
    <3>1. NetPaid(x) <= Total[x]
      BY DEF InOrder, NeverOverpaid
    <3>2. CASE x # o
      BY <1>13, <3>1, <3>2
    <3>3. CASE x = o /\ flip
      <4>1. p \in WithPayment("PENDING")
        BY <1>3, <3>3 DEF WithPayment
      <4>2. NetPaid(o) + amount[p] <= Total[o]
        BY <4>1 DEF InOrder, PendingOK
      <4> QED
        BY <1>7, <1>11, <1>12, <3>3, <4>2
    <3>4. CASE x = o /\ ~flip
      <4>1. refund \in Nat
        BY <1>2 DEF refund
      <4> QED
        BY <1>11, <1>12, <3>1, <3>4, <4>1
    <3> QED
      BY <1>10, <3>2, <3>3, <3>4
  <2> QED
    BY <2>1 DEF NeverOverpaid
<1>20. PlanOK(q)'
  BY <1>6 DEF PlanOK, Idle
<1> QED
  BY <1>6, <1>15, <1>16, <1>17, <1>18, <1>19, <1>20, AloneInOrder

-----------------------------------------------------------------------------
\* The order that is refunded was PAID and its units were not put back before.
LEMMA RefundOrderInOrder ==
    ASSUME AnyInv, AnyInv', InOrder, Orderly', UNCHANGED shiftVars,
           NEW q \in Request, RefundOrder(q)
    PROVE  InOrder'
<1>1. request[q].pc = "refunding"
  BY DEF RefundOrder
<1>2. PICK p \in Payment : /\ p = request[q].payment
                           /\ OrderOf(p) \in Checkout
                           /\ payment[p] # "NONE"
                           /\ request[q].refund \in Nat
  BY <1>1, AboutPayment
<1> DEFINE o == OrderOf(p)
           next == [pc |-> "recording", payment |-> p, refund |-> request[q].refund]
<1>3. Refundable(q) /\ order[o] # "REFUNDED" /\ NetPaid(o) - request[q].refund <= 0
  BY <1>1, <1>2 DEF InOrder, PlanOK
<1>4. \A x \in Checkout : ~Busy(q, x)
  BY <1>1 DEF Busy
<1>5. /\ UNCHANGED <<payment, amount, refunded>>
      /\ \/ Goto(q, Idle) /\ UNCHANGED <<order, paymentStatus, returned>>
         \/ /\ paymentStatus[o] = "PAID"
            /\ returned' = returned \cup Returnable(o)
            /\ order' = [order EXCEPT ![o] = "REFUNDED"]
            /\ paymentStatus' = [paymentStatus EXCEPT ![o] = "REFUNDED"]
            /\ Goto(q, next)
  BY <1>2, <1>3 DEF RefundOrder, RestockRows, ledgerVars
<1>6. CASE Goto(q, Idle) /\ UNCHANGED <<order, paymentStatus, returned>>
  <2>1. request'[q] = Idle
    BY <1>6 DEF AnyInv, PosInv, MoneyTypeOK, Goto
  <2>2. PlanOK(q)'
    BY <2>1 DEF PlanOK, Idle
  <2> QED
    BY <1>1, <1>4, <1>5, <1>6, <2>2, ReadInOrder
<1>7. CASE /\ paymentStatus[o] = "PAID"
           /\ returned' = returned \cup Returnable(o)
           /\ order' = [order EXCEPT ![o] = "REFUNDED"]
           /\ paymentStatus' = [paymentStatus EXCEPT ![o] = "REFUNDED"]
           /\ Goto(q, next)
  <2>1. next.pc = "recording" /\ next.payment = p /\ next.refund = request[q].refund
    OBVIOUS
  <2> HIDE DEF next
  <2>2. /\ request'[q] = next
        /\ \A x \in Request \ {q} : request'[x] = Idle
        /\ \A x \in Checkout : Agrees(x)
        /\ DrawerAddsUp'
    BY <1>1, <1>4, <1>7, Alone
  <2>3. \A x : NetPaid(x)' = NetPaid(x)
    BY <1>5, NetSame
  <2>4. /\ order'[o] = "REFUNDED" /\ paymentStatus'[o] = "REFUNDED"
        /\ \A x \in Checkout \ {o} : order'[x] = order[x] /\ paymentStatus'[x] = paymentStatus[x]
    BY <1>2, <1>7 DEF AnyInv, PosInv, MoneyTypeOK, TillTypeOK
  <2>5. \A x \in Checkout : ~Busy(q, x)' => Agrees(x)'
    <3> SUFFICES ASSUME NEW x \in Checkout, ~Busy(q, x)' PROVE Agrees(x)'
      OBVIOUS
    <3>1. x # o
      BY <2>1, <2>2 DEF Busy, OrderOf
    <3> QED
      BY <2>2, <2>3, <2>4, <3>1 DEF Agrees
  <2>6. PlanOK(q)'
    <3>1. Refundable(q)'
      BY <1>2, <1>3, <1>5, <2>1, <2>2 DEF Refundable
    <3> QED
      BY <1>2, <1>3, <2>1, <2>2, <2>3, <2>4, <3>1 DEF PlanOK, OrderOf
  <2>7. PendingOK'
    <3>1. WithPayment("PENDING")' = WithPayment("PENDING")
      BY <1>5 DEF WithPayment
    <3>2. ASSUME NEW x \in WithPayment("PENDING") PROVE OrderOf(x) \in Checkout \ {o}
      <4>1. OrderOf(x) \in Checkout
        BY DEF WithPayment, Payment, OrderOf
      <4>2. amount[x] > 0 /\ NetPaid(OrderOf(x)) + amount[x] <= Total[OrderOf(x)]
        BY DEF InOrder, PendingOK
      <4>3. /\ NetPaid(OrderOf(x)) \in Int /\ Total[OrderOf(x)] \in Nat
            /\ amount[x] \in Nat
        BY <4>1, NetTypes DEF AnyInv, PosInv, MoneyTypeOK, WithPayment
      <4>4. NetPaid(OrderOf(x)) < Total[OrderOf(x)]
        BY <4>2, <4>3
      <4>5. paymentStatus[OrderOf(x)] # "PAID"
        BY <2>2, <4>1, <4>3, <4>4 DEF Agrees
      <4> QED
        BY <1>7, <4>1, <4>5
    <3>3. ASSUME NEW x \in WithPayment("PENDING")
          PROVE  /\ amount'[x] > 0
                 /\ NetPaid(OrderOf(x))' + amount'[x] <= Total[OrderOf(x)]
                 /\ order'[OrderOf(x)] # "REFUNDED"
      BY <1>5, <2>3, <2>4, <3>2 DEF InOrder, PendingOK
    <3> QED
      BY <3>1, <3>3 DEF InOrder, PendingOK, OrderOf
  <2>8. RefundsOK'
    BY <1>5 DEF InOrder, RefundsOK
  <2>9. RefundedOK'
    <3>1. \A r \in Returnable(o) : r[1] = o
      BY DEF Returnable, Rows
    <3>2. \A r \in returned : r[1] \in Checkout /\ order[r[1]] = "REFUNDED"
      BY DEF AnyInv, TillTypeOK, LedgerTypeOK, Reservation, InOrder, RefundedOK
    <3>3. \A r \in returned' : order'[r[1]] = "REFUNDED"
      BY <1>7, <2>4, <3>1, <3>2
    <3>4. \A x \in Checkout : order'[x] = "REFUNDED" => paymentStatus'[x] = "REFUNDED"
      BY <2>4 DEF InOrder, RefundedOK
    <3> QED
      BY <3>3, <3>4 DEF RefundedOK
  <2>10. NeverOverpaid'
    BY <2>3 DEF InOrder, NeverOverpaid
  <2> QED
    BY <2>2, <2>5, <2>6, <2>7, <2>8, <2>9, <2>10, AloneInOrder
<1> QED
  BY <1>5, <1>6, <1>7

\* The refund row takes the last of the money.
LEMMA RecordRefundInOrder ==
    ASSUME AnyInv, AnyInv', InOrder, Orderly', UNCHANGED shiftVars,
           NEW q \in Request, RecordRefund(q)
    PROVE  InOrder'
<1>1. request[q].pc = "recording"
  BY DEF RecordRefund
<1>2. PICK p \in Payment : /\ p = request[q].payment
                           /\ OrderOf(p) \in Checkout
                           /\ payment[p] # "NONE"
                           /\ request[q].refund \in Nat
  BY <1>1, AboutPayment
<1> DEFINE o == OrderOf(p)
           refund == request[q].refund
<1>3. /\ Refundable(q) /\ NetPaid(o) - refund <= 0 /\ paymentStatus[o] = "REFUNDED"
  BY <1>1, <1>2 DEF InOrder, PlanOK
<1>4. /\ refunded' = [refunded EXCEPT ![p] = @ + refund]
      /\ Goto(q, Idle)
      /\ UNCHANGED <<order, paymentStatus, payment, amount, returned>>
  BY <1>2 DEF RecordRefund, ledgerVars
<1>5. MoneyTypeOK /\ MoneyTypeOK'
  BY DEF AnyInv, PosInv
<1>6. /\ request'[q] = Idle
      /\ \A x \in Request \ {q} : request'[x] = Idle
      /\ \A x \in Checkout : ~Busy(q, x) => Agrees(x)
      /\ DrawerAddsUp'
  BY <1>1, <1>4, Alone
<1>7. refund \in Nat
  BY <1>2
<1> HIDE DEF refund
<1>8. \A x \in Checkout : Paid(x) \in Nat /\ Refunded(x) \in Nat /\ Total[x] \in Nat \ {0}
  BY <1>5, NetTypes
<1>9. ASSUME NEW x \in Checkout
      PROVE  NetPaid(x)' = NetPaid(x) - (IF o = x THEN refund ELSE 0)
  <2>1. Refunded(x)' = Refunded(x) + (IF o = x THEN refund ELSE 0)
    BY <1>4, <1>5, <1>7, RefundedAfter
  <2>2. Paid(x)' = Paid(x)
    <3>1. WithPayment("CONFIRMED")' = WithPayment("CONFIRMED")
      BY <1>4 DEF WithPayment
    <3> QED
      BY <1>4, <3>1, PaidSame
  <2> QED
    BY <1>7, <1>8, <2>1, <2>2 DEF NetPaid
<1>10. \A x \in Checkout : NetPaid(x) \in Int /\ NetPaid(x)' \in Int /\ NetPaid(x)' <= NetPaid(x)
  <2>1. \A x \in Checkout : NetPaid(x) \in Int
    BY <1>8 DEF NetPaid
  <2> QED
    BY <1>7, <1>9, <2>1
<1>11. ASSUME NEW x \in Checkout PROVE Agrees(x)'
  <2>1. CASE x = o
    <3>1. NetPaid(o)' <= 0
      BY <1>2, <1>3, <1>9
    <3>2. ~(NetPaid(o)' >= Total[o]) /\ ~(NetPaid(o)' > 0)
      BY <1>2, <1>8, <1>10, <3>1
    <3> QED
      BY <1>3, <1>4, <2>1, <3>2 DEF Agrees
  <2>2. CASE x # o
    <3>1. Agrees(x)
      BY <1>2, <1>6, <2>2 DEF Busy
    <3>2. NetPaid(x)' = NetPaid(x)
      BY <1>9, <1>10, <2>2
    <3> QED
      BY <1>4, <3>1, <3>2 DEF Agrees
  <2> QED
    BY <2>1, <2>2
<1>12. PendingOK'
  <2>1. WithPayment("PENDING")' = WithPayment("PENDING")
    BY <1>4 DEF WithPayment
  <2>2. ASSUME NEW x \in WithPayment("PENDING")
        PROVE  /\ amount'[x] > 0
               /\ NetPaid(OrderOf(x))' + amount'[x] <= Total[OrderOf(x)]
               /\ order'[OrderOf(x)] # "REFUNDED"
    <3>1. /\ amount[x] > 0
          /\ NetPaid(OrderOf(x)) + amount[x] <= Total[OrderOf(x)]
          /\ order[OrderOf(x)] # "REFUNDED"
      BY DEF InOrder, PendingOK
    <3>2. OrderOf(x) \in Checkout /\ amount[x] \in Nat
      BY <1>5 DEF WithPayment, Payment, OrderOf, MoneyTypeOK
    <3> QED
      BY <1>4, <1>8, <1>10, <3>1, <3>2
  <2> QED
    BY <2>1, <2>2 DEF InOrder, PendingOK, OrderOf
<1>13. RefundsOK'
  <2>1. ASSUME NEW x \in Payment
        PROVE  refunded'[x] <= amount'[x] /\ (refunded'[x] > 0 => payment'[x] = "CONFIRMED")
    <3>1. /\ refunded[x] <= amount[x] /\ (refunded[x] > 0 => payment[x] = "CONFIRMED")
          /\ refunded[x] \in Nat /\ amount[x] \in Nat
      BY <1>5 DEF InOrder, RefundsOK, MoneyTypeOK
    <3>2. refunded'[x] = refunded[x] + (IF x = p THEN refund ELSE 0)
      BY <1>4, <1>5, <3>1 DEF MoneyTypeOK
    <3>3. /\ refund <= amount[p] - refunded[p]
          /\ refund > 0 => payment[p] = "CONFIRMED"
      BY <1>2, <1>3 DEF Refundable, refund
    <3>4. CASE x = p
      BY <1>4, <1>7, <3>1, <3>2, <3>3, <3>4
    <3>5. CASE x # p
      BY <1>4, <3>1, <3>2, <3>5
    <3> QED
      BY <3>4, <3>5
  <2> QED
    BY <2>1 DEF RefundsOK
<1>14. RefundedOK'
  BY <1>4 DEF InOrder, RefundedOK
<1>15. NeverOverpaid'
  <2>1. ASSUME NEW x \in Checkout PROVE NetPaid(x)' <= Total[x]
    <3>1. NetPaid(x) <= Total[x]
      BY DEF InOrder, NeverOverpaid
    <3> QED
      BY <1>8, <1>10, <3>1
  <2> QED
    BY <2>1 DEF NeverOverpaid
<1>16. PlanOK(q)'
  BY <1>6 DEF PlanOK, Idle
<1> QED
  BY <1>6, <1>11, <1>12, <1>13, <1>14, <1>15, <1>16, AloneInOrder

-----------------------------------------------------------------------------
\* A step that leaves the payments, and what requests remember, alone.
LEMMA UndisturbedInOrder ==
    ASSUME AnyInv, InOrder, Orderly', DrawerAddsUp',
           UNCHANGED <<paymentStatus, payment, amount, refunded, request, returned>>,
           \A x \in Checkout : order'[x] = "REFUNDED" <=> order[x] = "REFUNDED"
    PROVE  InOrder'
<1>1. \A x : NetPaid(x)' = NetPaid(x)
  BY NetSame
<1>2. ASSUME NEW q \in Request PROVE PlanOK(q)'
  <2>1. PlanOK(q)
    BY DEF InOrder
  <2>2. CASE request[q].pc = "creating"
    <3>1. PICK o \in Checkout : o = request[q].order
      BY <2>2 DEF AnyInv, PosInv, RequestOK, Idle
    <3>2. NetPaid(o)' = NetPaid(o)
      BY <1>1
    <3> QED
      BY <2>1, <2>2, <3>1, <3>2 DEF PlanOK
  <2>3. CASE request[q].pc \in {"applying", "writing", "refunding", "recording"}
    <3>1. PICK p \in Payment : p = request[q].payment /\ OrderOf(p) \in Checkout
      BY <2>3, AboutPayment
    <3>2. NetPaid(OrderOf(p))' = NetPaid(OrderOf(p))
      BY <1>1
    <3>3. Refundable(q)'
      BY <2>1, <2>3, <3>1 DEF PlanOK, Refundable
    <3> QED
      BY <2>1, <2>3, <3>1, <3>2, <3>3 DEF PlanOK, OrderOf
  <2>4. CASE request[q].pc \notin {"creating", "applying", "writing", "refunding", "recording"}
    BY <2>4 DEF PlanOK
  <2> QED
    BY <2>2, <2>3, <2>4
<1>3. \A o \in Checkout : (\A q \in Request : ~Busy(q, o)') => Agrees(o)'
  <2> SUFFICES ASSUME NEW o \in Checkout, \A q \in Request : ~Busy(q, o)' PROVE Agrees(o)'
    OBVIOUS
  <2>1. \A q \in Request : ~Busy(q, o)
    BY DEF Busy, OrderOf
  <2>2. Agrees(o)
    BY <2>1 DEF InOrder
  <2> QED
    BY <1>1, <2>2 DEF Agrees
<1>4. PendingOK'
  <2>1. \A x \in WithPayment("PENDING") : OrderOf(x) \in Checkout
    BY DEF WithPayment, Payment, OrderOf
  <2>2. \A x \in WithPayment("PENDING") : order'[OrderOf(x)] # "REFUNDED"
    BY <2>1 DEF InOrder, PendingOK
  <2> QED
    BY <1>1, <2>2 DEF InOrder, PendingOK, WithPayment, OrderOf
<1>5. RefundsOK'
  BY DEF InOrder, RefundsOK
<1>6. RefundedOK'
  <2>1. \A r \in returned : r[1] \in Checkout
    BY DEF AnyInv, TillTypeOK, LedgerTypeOK, Reservation
  <2> QED
    BY <2>1 DEF InOrder, RefundedOK
<1>7. NeverOverpaid'
  BY <1>1 DEF InOrder, NeverOverpaid
<1> QED
  BY <1>2, <1>3, <1>4, <1>5, <1>6, <1>7 DEF InOrder

\* What is summed up for the drawer depends on the payments only.
LEMMA DrawerSame ==
    ASSUME UNCHANGED <<payment, amount, provider, refunded>>
    PROVE  CashTaken' = CashTaken /\ SumOf(refunded, CashRefunds)' = SumOf(refunded, CashRefunds)
BY DEF CashTaken, CashPayments, CashRefunds, WithPayment, SumOf

LEMMA MeanwhileInOrder ==
    ASSUME AnyInv, InOrder, Orderly', UNCHANGED shiftVars,
           NEW o \in Checkout, Cancel(o) \/ Expire(o)
    PROVE  InOrder'
<1>1. UNCHANGED <<paymentStatus, payment, amount, provider, refunded, request, returned>>
  BY DEF Cancel, Expire, CloseRows
<1>2. DrawerAddsUp'
  BY <1>1, DrawerSame DEF InOrder, DrawerAddsUp, shiftVars
<1>3. order \in [Checkout -> {"PENDING_PAYMENT", "PAID", "CANCELLED", "EXPIRED", "REFUNDED"}]
  BY DEF AnyInv, TillTypeOK
<1>4. CASE Cancel(o)
  <2>1. order[o] # "REFUNDED" /\ order' = [order EXCEPT ![o] = "CANCELLED"]
    BY <1>4 DEF Cancel
  <2>2. \A x \in Checkout : order'[x] = "REFUNDED" <=> order[x] = "REFUNDED"
    BY <1>3, <2>1
  <2> QED
    BY <1>1, <1>2, <2>2, UndisturbedInOrder
<1>5. CASE Expire(o)
  <2>1. order' = [order EXCEPT ![o] =
            IF @ = "PENDING_PAYMENT" /\ paymentStatus[o] = "PENDING" THEN "EXPIRED" ELSE @]
    BY <1>5 DEF Expire
  <2>2. \A x \in Checkout : order'[x] = "REFUNDED" <=> order[x] = "REFUNDED"
    BY <1>3, <2>1
  <2> QED
    BY <1>1, <1>2, <2>2, UndisturbedInOrder
<1> QED
  BY <1>4, <1>5

\* A clerk counts all cash that was paid in; nobody pays or is refunded until
\* the shift is closed.
LEMMA ClerkInOrder ==
    ASSUME AnyInv, InOrder, Orderly', NEW k \in Clerk, BeginClose(k) \/ CloseShift(k)
    PROVE  InOrder'
<1>1. UNCHANGED <<order, paymentStatus, payment, amount, provider, refunded, request, returned>>
  BY DEF BeginClose, CloseShift, posPaymentVars, posVars, ledgerVars
<1>2. CashTaken' = CashTaken /\ SumOf(refunded, CashRefunds)' = SumOf(refunded, CashRefunds)
  BY <1>1, DrawerSame
<1>3. DOMAIN clerk = Clerk
  BY DEF AnyInv, DrawerInv
<1>4. CASE BeginClose(k)
  <2>1. /\ shift = "OPEN" /\ shift' = shift
        /\ clerk' = [clerk EXCEPT ![k] = [pc |-> "closing", paid |-> CashTaken]]
    BY <1>4 DEF BeginClose, CashTaken
  <2>2. \A j \in Clerk : clerk'[j] # Idle => clerk'[j].paid = CashTaken
    BY <1>3, <2>1 DEF InOrder, DrawerAddsUp
  <2> QED
    BY <1>1, <1>2, <2>1, <2>2, UndisturbedInOrder DEF DrawerAddsUp
<1>5. CASE CloseShift(k)
  <2>1. /\ clerk[k].pc = "closing"
        /\ expectedCash' = clerk[k].paid - SumOf(refunded, CashRefunds)
        /\ clerk' = [clerk EXCEPT ![k] = Idle]
    BY <1>5 DEF CloseShift
  <2>2. clerk[k].paid = CashTaken
    BY <2>1 DEF InOrder, DrawerAddsUp, Idle
  <2>3. \A j \in Clerk : clerk'[j] # Idle => clerk'[j].paid = CashTaken
    BY <1>3, <2>1 DEF InOrder, DrawerAddsUp
  <2> QED
    BY <1>1, <1>2, <2>1, <2>2, <2>3, UndisturbedInOrder DEF DrawerAddsUp
<1> QED
  BY <1>4, <1>5

LEMMA CounterStepOrderly ==
    AnyInv /\ AnyInv' /\ OrderlyInv /\ [CounterNext]_counterVars => OrderlyInv'
<1> SUFFICES ASSUME AnyInv, AnyInv', OrderlyInv, [CounterNext]_counterVars, orderly'
             PROVE  InOrder'
  BY DEF OrderlyInv
<1>1. CASE UNCHANGED counterVars
  <2>1. /\ UNCHANGED <<order, paymentStatus, payment, amount, provider, refunded>>
        /\ UNCHANGED <<request, returned>>
        /\ UNCHANGED <<shift, expectedCash, clerk, orderly>>
    BY <1>1 DEF counterVars, posPaymentVars, posVars, ledgerVars, shiftVars
  <2>2. InOrder
    BY <2>1 DEF OrderlyInv
  <2>3. Orderly'
    BY <2>1, <2>2 DEF InOrder, Orderly, AtWork, Closing, WithPayment
  <2>4. DrawerAddsUp'
    BY <2>1, <2>2, DrawerSame DEF InOrder, DrawerAddsUp
  <2> QED
    BY <2>1, <2>2, <2>3, <2>4, UndisturbedInOrder
<1>2. CASE CounterNext
  <2>1. InOrder /\ Orderly' /\ crashes' = crashes
    BY <1>2 DEF CounterNext, OrderlyInv
  <2>2. ASSUME NEW q \in Request, CrashRequest(q) PROVE FALSE
    BY <2>1, <2>2 DEF CrashRequest, AnyInv, TillTypeOK
  <2>3. CASE PosNext /\ UNCHANGED shiftVars
    BY <2>1, <2>2, <2>3, CreateInOrder, PollInOrder, BeginRefundInOrder, InsertInOrder,
       ReadLedgerInOrder, WriteLedgerInOrder, RefundOrderInOrder, RecordRefundInOrder,
       MeanwhileInOrder DEF PosNext
  <2>4. CASE \E k \in Clerk : BeginClose(k) \/ CloseShift(k)
    BY <2>1, <2>4, ClerkInOrder
  <2> QED
    BY <1>2, <2>3, <2>4 DEF CounterNext, CounterStep
<1> QED
  BY <1>1, <1>2

\* Nothing is paid and nobody is at work.
LEMMA ShiftInitOrderly == ShiftInit => OrderlyInv
<1> SUFFICES ASSUME ShiftInit PROVE InOrder
  BY DEF OrderlyInv
<1>1. /\ request = [q \in Request |-> Idle] /\ clerk = [k \in Clerk |-> Idle]
      /\ shift = "OPEN"
      /\ payment = [p \in Payment |-> "NONE"]
      /\ refunded = [p \in Payment |-> 0] /\ amount = [p \in Payment |-> 0]
      /\ order = [o \in Checkout |-> "PENDING_PAYMENT"]
      /\ paymentStatus = [o \in Checkout |-> "PENDING"]
      /\ returned = {}
  BY DEF ShiftInit, PosInit
<1>2. AtWork = {} /\ Closing = {}
  BY <1>1 DEF AtWork, Closing
<1>3. Orderly
  BY <1>1, <1>2 DEF Orderly, Idle
<1>4. WithPayment("CONFIRMED") = {} /\ WithPayment("PENDING") = {}
  BY <1>1 DEF WithPayment
<1>5. ASSUME NEW o \in Checkout PROVE NetPaid(o) = 0 /\ Total[o] \in Nat \ {0}
  <2>1. Units(amount, WithPayment("CONFIRMED"), o) = {}
    BY <1>4 DEF Units
  <2>2. Units(refunded, Payment, o) = {}
    BY <1>1 DEF Units
  <2>3. Cardinality({}) = 0
    BY FS_EmptySet
  <2>4. Paid(o) = 0 /\ Refunded(o) = 0
    BY <2>1, <2>2, <2>3 DEF Paid, Refunded, Held
  <2> QED
    BY <2>4, PosPaymentsAssumption DEF NetPaid
<1>6. \A q \in Request : PlanOK(q)
  BY <1>1 DEF PlanOK, Idle
<1>7. \A o \in Checkout : Agrees(o)
  BY <1>1, <1>5 DEF Agrees
<1>8. PendingOK /\ RefundsOK /\ RefundedOK
  BY <1>1, <1>4 DEF PendingOK, RefundsOK, RefundedOK
<1>9. NeverOverpaid
  BY <1>5 DEF NeverOverpaid
<1>10. DrawerAddsUp
  BY <1>1 DEF DrawerAddsUp
<1> QED
  BY <1>3, <1>6, <1>7, <1>8, <1>9, <1>10 DEF InOrder

LEMMA CounterInOrder == CounterSpec => [](AnyInv /\ OrderlyInv)
BY ShiftInitInv, CounterStepInv, ShiftInitOrderly, CounterStepOrderly, PTL DEF CounterSpec

\* While requests come one after the other the payment status follows the
\* ledger of payments and refunds.
THEOREM OrderlyStatusFollows == CounterSpec => []OrderlyStatus
<1>1. AnyInv /\ OrderlyInv => OrderlyStatus
  <2> SUFFICES ASSUME InOrder, \A q \in Request : request[q] = Idle, NEW o \in Checkout
               PROVE  Agrees(o)
    BY DEF OrderlyInv, OrderlyStatus, StatusFollowsLedger, Agrees
  <2>1. \A q \in Request : ~Busy(q, o)
    BY DEF Busy, Idle
  <2> QED
    BY <2>1 DEF InOrder
<1> QED
  BY <1>1, CounterInOrder, PTL

\* ... nobody pays more than an order costs, or gets back more than was paid ...
THEOREM OrderlyMoneyAddsUp == CounterSpec => []OrderlyMoney
<1>1. AnyInv /\ OrderlyInv => OrderlyMoney
  BY DEF OrderlyInv, InOrder, RefundsOK, RefundsWithinPayments, OrderlyMoney
<1> QED
  BY <1>1, CounterInOrder, PTL

\* ... and a shift closed between them expects the cash that is in the drawer.
THEOREM OrderlyDrawerAddsUp == CounterSpec => []OrderlyDrawer
<1>1. AnyInv /\ OrderlyInv => OrderlyDrawer
  BY DEF OrderlyInv, InOrder, DrawerAddsUp, OrderlyDrawer, CashTaken
<1> QED
  BY <1>1, CounterInOrder, PTL

\* While requests come one after the other, and what a recomputation read of
\* the reservations is still so when it sells them, every write to the stock is
\* one of the contract of the stock engine: a sale of live reservations, a
\* release, or a refund of sold units that were not put back before.
THEOREM OrderlyKeepsContract == CounterSpec => OrderlyContract
<1>1. ASSUME AnyInv, InOrder, NEW q \in Request, WriteLedger(q), ReadsAreFresh,
             ~UNCHANGED ledgerVars
      PROVE  LedgerNext
  <2> DEFINE S == Sellable(request[q].rows)
  <2>1. SellRows(S) /\ S \subseteq WithStatus("ACTIVE")
    BY <1>1 DEF WriteLedger, ReadsAreFresh, Sellable
  <2> HIDE DEF S
  <2>2. S \in SUBSET WithStatus("ACTIVE") /\ Sell(S)
    BY <2>1 DEF Sell
  <2> QED
    BY <2>2 DEF LedgerNext
<1>2. ASSUME AnyInv, InOrder, NEW q \in Request, RefundOrder(q), ~UNCHANGED ledgerVars
      PROVE  LedgerNext
  <2> DEFINE o == OrderOf(request[q].payment)
             S == Returnable(o)
  <2>1. RestockRows(S) /\ order[o] # "REFUNDED"
    BY <1>2 DEF RefundOrder
  <2>2. \A r \in S : r \in WithStatus("CONFIRMED") /\ r[1] = o
    BY DEF Returnable, Rows, WithStatus
  <2>3. \A r \in S : r \notin returned
    BY <1>2, <2>1, <2>2 DEF InOrder, RefundedOK
  <2> HIDE DEF S
  <2>4. S \in SUBSET (WithStatus("CONFIRMED") \ returned) /\ Restock(S)
    BY <2>1, <2>2, <2>3 DEF Restock
  <2> QED
    BY <2>4 DEF LedgerNext
<1>3. ASSUME NEW o \in Checkout, Cancel(o) \/ Expire(o)
      PROVE  LedgerNext
  <2>1. PICK st \in {"RELEASED", "EXPIRED"} : CloseRows(LiveRows(o), st)
    BY <1>3 DEF Cancel, Expire
  <2>2. LiveRows(o) \in SUBSET WithStatus("ACTIVE")
    BY DEF LiveRows, Rows, WithStatus
  <2>3. Close(LiveRows(o), st)
    BY <2>1, <2>2 DEF Close
  <2> QED
    BY <2>2, <2>3 DEF LedgerNext
<1>4. ASSUME AnyInv, OrderlyInv, CounterNext, orderly', ReadsAreFresh, ~UNCHANGED ledgerVars
      PROVE  LedgerNext
  <2>1. InOrder
    BY <1>4 DEF CounterNext, OrderlyInv
  <2>2. \/ \E q \in Request : WriteLedger(q) \/ RefundOrder(q)
        \/ \E o \in Checkout : Cancel(o) \/ Expire(o)
    BY <1>4 DEF CounterNext, CounterStep, BeginClose, CloseShift, posPaymentVars, PosNext, Create,
       Insert, Poll, BeginRefund, ReadLedger, RecordRefund, CrashRequest
  <2> QED
    BY <1>1, <1>2, <1>3, <1>4, <2>1, <2>2
<1>5. AnyInv /\ OrderlyInv /\ [CounterNext]_counterVars
         => [orderly' /\ ReadsAreFresh => LedgerNext]_ledgerVars
  <2>1. UNCHANGED counterVars => UNCHANGED ledgerVars
    BY DEF counterVars, posPaymentVars
  <2> QED
    BY <1>4, <2>1
<1> QED
  BY <1>5, CounterInOrder, PTL DEF CounterSpec, OrderlyContract
=============================================================================
