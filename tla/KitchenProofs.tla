--------------------------- MODULE KitchenProofs ---------------------------
(***************************************************************************)
(* Edits of open orders and the tickets cut from them, proved for any      *)
(* orders, stock items and tickets, in three parts:                        *)
(*                                                                         *)
(*   1. with any requests overlapping and dying, every variable keeps its  *)
(*      type, no stock is promised twice, and what an order believes to be *)
(*      in the kitchen is what the tickets say;                            *)
(*   2. with one request at a time, which may die, the kitchen never has   *)
(*      more than was ordered, tickets move forward and are counted once,  *)
(*      and the stock engine's contract is kept;                           *)
(*   3. with one request at a time that does not die, an open order holds  *)
(*      just what its lines say.                                           *)
(***************************************************************************)
EXTENDS Kitchen, StockLedgerProofs

-----------------------------------------------------------------------------
(* 1. Whatever overlaps and dies                                           *)
-----------------------------------------------------------------------------

StockOK ==
    /\ totalStock \in [Stock -> Int]
    /\ reservedStock \in [Stock -> Int]
    /\ soldStock \in [Stock -> Nat]
    /\ status \in [Reservation -> ReservationStatus]
    /\ quantity \in [Reservation -> Nat]
    /\ NoOversell

OrdersOK ==
    /\ order \in [Checkout -> {"PENDING_PAYMENT", "PAID", "CANCELLED", "EXPIRED"}]
    /\ linked \subseteq Reservation
    /\ line \in [Line -> Nat]
    /\ total \in [Checkout -> [Stock -> Nat]]
    /\ crashes \in Nat

TicketsOK ==
    /\ sent \in [Line -> Nat]
    /\ prepared \in [Line -> Nat]
    /\ scrapped \in [Line -> Nat]
    /\ ticket \in [Ticket -> TicketStatus \cup {"NONE"}]
    /\ portion \in [Ticket -> [Line -> Nat]]
    /\ SentMatchesTickets

\* What a request remembers of the products it adds, ...
AddOK(add) == DOMAIN add \subseteq Stock /\ \A s \in DOMAIN add : add[s] \in Quantity

\* ... and of the lines it changes: those of one order, one per product.
ChangeOK(o, change) ==
    /\ DOMAIN change \subseteq {l \in Line : RowOf(l)[1] = o}
    /\ \A l \in DOMAIN change : change[l] \in Int
    /\ \A l, m \in DOMAIN change : RowOf(l) = RowOf(m) => l = m

RequestOK(q) ==
    \/ request[q] = Idle
    \/ /\ request[q].pc \in {"adjusting", "writing"}
       /\ request[q].order \in Checkout
       /\ ChangeOK(request[q].order, request[q].change)
       /\ AddOK(request[q].add)
       /\ request[q].pc = "writing" =>
             \A l \in DOMAIN request[q].change : request[q].held[l] \in Nat
    \/ /\ request[q].pc \in {"booking", "linking"}
       /\ request[q].order \in Checkout
       /\ AddOK(request[q].add)
    \/ /\ request[q].pc = "summing"
       /\ request[q].order \in Checkout
    \/ /\ request[q].pc = "totalling"
       /\ request[q].order \in Checkout
       /\ request[q].sum \in [Stock -> Nat]
    \/ /\ request[q].pc = "sending"
       /\ request[q].portion \in [Line -> Nat]
    \/ /\ request[q].pc = "moving"
       /\ request[q].ticket \in Ticket
       /\ ticket[request[q].ticket] # "NONE"
       /\ request[q].to \in TicketStatus

RequestsOK == DOMAIN request = Request /\ \A q \in Request : RequestOK(q)

AnyInv == StockOK /\ OrdersOK /\ TicketsOK /\ RequestsOK

LEMMA AnyInvTypes == AnyInv => KitchenTypeOK
<1> SUFFICES ASSUME AnyInv PROVE KitchenTypeOK
  OBVIOUS
<1>1. \A q \in Request : request[q].pc \in
          {"idle", "adjusting", "writing", "booking", "linking", "summing", "totalling",
           "sending", "moving"}
  <2> TAKE q \in Request
  <2>1. RequestOK(q)
    BY DEF AnyInv, RequestsOK
  <2> QED
    BY <2>1 DEF RequestOK, Idle
<1> QED
  BY <1>1 DEF AnyInv, StockOK, OrdersOK, TicketsOK, KitchenTypeOK

-----------------------------------------------------------------------------
\* The writes to the stock never promise a unit twice.
LEMMA SellKeepsStock ==
    ASSUME StockOK, NEW S \in SUBSET Reservation, SellRows(S)
    PROVE  StockOK'
<1> USE DEF StockOK
<1>1. \A s \in Stock : Held(quantity, S, s) \in Nat
  BY HeldType DEF Quantities
<1>2. /\ reservedStock' = [s \in Stock |-> reservedStock[s] - Held(quantity, S, s)]
      /\ soldStock' = [s \in Stock |-> soldStock[s] + Held(quantity, S, s)]
      /\ status' = [r \in Reservation |-> IF r \in S THEN "CONFIRMED" ELSE status[r]]
      /\ UNCHANGED <<totalStock, quantity>>
  BY DEF SellRows
<1>3. reservedStock' \in [Stock -> Int] /\ soldStock' \in [Stock -> Nat]
  BY <1>1, <1>2
<1>4. status' \in [Reservation -> ReservationStatus]
  BY <1>2 DEF ReservationStatus
<1>5. NoOversell'
  BY <1>1, <1>2 DEF NoOversell
<1> QED
  BY <1>2, <1>3, <1>4, <1>5

LEMMA CloseKeepsStock ==
    ASSUME StockOK, NEW D \in SUBSET Reservation, NEW st \in {"RELEASED", "EXPIRED"},
           CloseRows(D, st)
    PROVE  StockOK'
<1> USE DEF StockOK
<1>1. \A s \in Stock : Held(quantity, D, s) \in Nat
  BY HeldType DEF Quantities
<1>2. /\ reservedStock' = [s \in Stock |-> reservedStock[s] - Held(quantity, D, s)]
      /\ status' = [r \in Reservation |-> IF r \in D THEN st ELSE status[r]]
      /\ UNCHANGED <<totalStock, soldStock, quantity>>
  BY DEF CloseRows
<1>3. reservedStock' \in [Stock -> Int]
  BY <1>1, <1>2
<1>4. status' \in [Reservation -> ReservationStatus]
  BY <1>2 DEF ReservationStatus
<1>5. NoOversell'
  BY <1>1, <1>2 DEF NoOversell
<1> QED
  BY <1>2, <1>3, <1>4, <1>5

LEMMA BookKeepsStock ==
    ASSUME StockOK, NEW c \in Checkout, NEW want, AddOK(want),
           \A s \in DOMAIN want : want[s] <= AvailableStock(s),
           BookRows(c, want, {})
    PROVE  StockOK'
<1> USE DEF StockOK
<1>1. \A s \in Stock : Held(quantity, {}, s) = 0
  BY HeldNothing
<1>2. \A s \in DOMAIN want : want[s] \in Nat \ {0} /\ s \in Stock
  BY LedgerAssumption DEF AddOK
<1>3. /\ reservedStock' = [s \in Stock |->
             reservedStock[s] - Held(quantity, {}, s)
               + (IF s \in DOMAIN want THEN want[s] ELSE 0)]
      /\ status' = [r \in Reservation |->
             IF r \in {} THEN "EXPIRED"
             ELSE IF r[1] = c /\ r[2] \in DOMAIN want THEN "ACTIVE" ELSE status[r]]
      /\ quantity' = [r \in Reservation |->
             IF r[1] = c /\ r[2] \in DOMAIN want THEN want[r[2]] ELSE quantity[r]]
      /\ UNCHANGED <<totalStock, soldStock>>
  BY DEF BookRows
<1>4. \A s \in Stock : reservedStock'[s] \in Int
  BY <1>1, <1>2, <1>3
<1>5. reservedStock' \in [Stock -> Int]
  BY <1>3, <1>4
<1>6. quantity' \in [Reservation -> Nat] /\ status' \in [Reservation -> ReservationStatus]
  BY <1>2, <1>3 DEF ReservationStatus
<1>7. ASSUME NEW s \in Stock
      PROVE  reservedStock'[s] + soldStock'[s] <= totalStock'[s]
  <2>1. reservedStock[s] + soldStock[s] <= totalStock[s]
    BY DEF NoOversell
  <2>2. reservedStock[s] \in Int /\ soldStock[s] \in Nat /\ totalStock[s] \in Int
    OBVIOUS
  <2>3. CASE s \in DOMAIN want
    <3>1. want[s] \in Nat \ {0} /\ want[s] <= AvailableStock(s)
      BY <1>2, <2>3
    <3>2. want[s] <= totalStock[s] - reservedStock[s] - soldStock[s]
      BY <2>2, <3>1 DEF AvailableStock
    <3>3. reservedStock'[s] = reservedStock[s] - 0 + want[s]
      BY <1>1, <1>3, <2>3
    <3> QED
      BY <1>3, <2>2, <3>1, <3>2, <3>3
  <2>4. CASE s \notin DOMAIN want
    <3>1. reservedStock'[s] = reservedStock[s] - 0 + 0
      BY <1>1, <1>3, <2>4
    <3> QED
      BY <1>3, <2>1, <2>2, <3>1
  <2> QED
    BY <2>3, <2>4
<1> QED
  BY <1>3, <1>5, <1>6, <1>7 DEF NoOversell

\* An edit takes no more than is left; its lines and rows stay natural numbers.
LEMMA AdjustKeepsStock ==
    ASSUME StockOK, line \in [Line -> Nat], NEW o \in Checkout, NEW change, ChangeOK(o, change),
           NEW new, \A l \in DOMAIN change : new[l] \in Int,
           CanAdjust(change, new), AdjustRows(change, new)
    PROVE  StockOK' /\ line' \in [Line -> Nat]
<1> USE DEF StockOK
<1> DEFINE edited(r) == {l \in DOMAIN change : RowOf(l) = r}
           gone == {l \in DOMAIN change : new[l] <= 0}
           at(s) == {l \in DOMAIN change : RowOf(l)[2] = s}
<1>1. /\ reservedStock' = [s \in Stock |-> reservedStock[s] +
             (IF at(s) = {} THEN 0 ELSE change[CHOOSE l \in at(s) : TRUE])]
      /\ status' = [r \in Reservation |->
             IF edited(r) \cap gone # {} THEN "RELEASED" ELSE status[r]]
      /\ quantity' = [r \in Reservation |->
             IF edited(r) \ gone = {} THEN quantity[r]
             ELSE new[CHOOSE l \in edited(r) \ gone : TRUE]]
      /\ line' = [l \in Line |->
             IF l \in gone THEN 0 ELSE IF l \in DOMAIN change THEN new[l] ELSE line[l]]
      /\ UNCHANGED <<totalStock, soldStock>>
  BY DEF AdjustRows
<1>2. ASSUME NEW s \in Stock
      PROVE  reservedStock'[s] \in Int /\ reservedStock'[s] + soldStock[s] <= totalStock[s]
  <2>1. /\ reservedStock[s] \in Int /\ soldStock[s] \in Nat /\ totalStock[s] \in Int
        /\ reservedStock[s] + soldStock[s] <= totalStock[s]
    BY DEF NoOversell
  <2>2. CASE at(s) = {}
    <3>1. reservedStock'[s] = reservedStock[s] + 0
      BY <1>1, <2>2
    <3> QED
      BY <2>1, <3>1
  <2>3. CASE at(s) # {}
    <3> DEFINE l == CHOOSE l \in at(s) : TRUE
    <3>1. l \in DOMAIN change /\ RowOf(l)[2] = s
      BY <2>3
    <3>2. change[l] \in Int /\ change[l] <= AvailableStock(s)
      BY <3>1 DEF ChangeOK, CanAdjust
    <3>3. reservedStock'[s] = reservedStock[s] + change[l]
      BY <1>1, <2>3
    <3> HIDE DEF l
    <3> QED
      BY <2>1, <3>2, <3>3 DEF AvailableStock
  <2> QED
    BY <2>2, <2>3
<1>3. ASSUME NEW r \in Reservation
      PROVE  quantity'[r] \in Nat /\ status'[r] \in ReservationStatus
  <2>1. CASE edited(r) \ gone = {}
    BY <1>1, <2>1 DEF ReservationStatus
  <2>2. CASE edited(r) \ gone # {}
    <3> DEFINE l == CHOOSE l \in edited(r) \ gone : TRUE
    <3>1. l \in DOMAIN change /\ ~(new[l] <= 0)
      BY <2>2
    <3>2. quantity'[r] = new[l]
      BY <1>1, <2>2
    <3> HIDE DEF l
    <3>3. quantity'[r] \in Nat
      BY <3>1, <3>2
    <3> QED
      BY <1>1, <3>3 DEF ReservationStatus
  <2> QED
    BY <2>1, <2>2
<1>4. line' \in [Line -> Nat]
  BY <1>1
<1> QED
  BY <1>1, <1>2, <1>3, <1>4 DEF NoOversell

-----------------------------------------------------------------------------
\* A ticket that joins St adds its portion.
LEMMA OnTicketsAdds ==
    ASSUME NEW k \in Ticket, NEW l, NEW St,
           ticket[k] \notin St,
           {x \in Ticket : ticket'[x] \in St} = {x \in Ticket : ticket[x] \in St} \cup {k},
           \A x \in Ticket : ticket[x] \in St => portion'[x][l] = portion[x][l],
           \A x \in Ticket : portion'[x][l] \in Nat
    PROVE  OnTickets(St, l)' = OnTickets(St, l) + portion'[k][l]
<1> DEFINE K == {x \in Ticket : ticket[x] \in St}
           g == [x \in Ticket |-> portion'[x][l]]
<1>1. IsFiniteSet(K)
  <2>1. IsFiniteSet(Ticket)
    BY KitchenAssumption, FS_Interval DEF Ticket
  <2> QED
    BY <2>1, FS_Subset
<1>2. K \cup {k} \subseteq Ticket /\ k \notin K
  OBVIOUS
<1>3. Blocks(g, K) = UNION {{x} \X (1 .. portion[x][l]) : x \in K}
  BY DEF Blocks
<1>4. Blocks(g, K \cup {k}) = UNION {{x} \X (1 .. portion'[x][l]) : x \in K \cup {k}}
  BY <1>2 DEF Blocks
<1>5. \A x \in K \cup {k} : g[x] \in Nat
  OBVIOUS
<1>6. g[k] = portion'[k][l]
  OBVIOUS
<1>7. OnTickets(St, l) = Cardinality(Blocks(g, K))
  BY <1>3 DEF OnTickets
<1>8. OnTickets(St, l)' = Cardinality(Blocks(g, K \cup {k}))
  BY <1>4 DEF OnTickets
<1> HIDE DEF K, g
<1>9. Cardinality(Blocks(g, K \cup {k})) = Cardinality(Blocks(g, K)) + g[k]
  BY <1>1, <1>2, <1>5, BlocksAdd
<1> QED
  BY <1>6, <1>7, <1>8, <1>9

\* While the same tickets are in St, with their portions, nothing changes.
LEMMA OnTicketsSame ==
    ASSUME NEW l, NEW St,
           {x \in Ticket : ticket'[x] \in St} = {x \in Ticket : ticket[x] \in St},
           \A x \in Ticket : ticket[x] \in St => portion'[x][l] = portion[x][l]
    PROVE  OnTickets(St, l)' = OnTickets(St, l)
<1> DEFINE K == {x \in Ticket : ticket[x] \in St}
<1>1. UNION {{x} \X (1 .. portion'[x][l]) : x \in K}
         = UNION {{x} \X (1 .. portion[x][l]) : x \in K}
  OBVIOUS
<1> QED
  BY <1>1 DEF OnTickets

\* While no ticket and no count changes, they go on agreeing.
LEMMA SentStays ==
    ASSUME SentMatchesTickets, UNCHANGED <<ticket, portion, sent>>
    PROVE  SentMatchesTickets'
BY DEF SentMatchesTickets, OnTickets

-----------------------------------------------------------------------------
\* What the others remember stays true: tickets are never taken back.
LEMMA OthersRemember ==
    ASSUME RequestsOK, NEW q \in Request, NEW next, Goto(q, next),
           \A k \in Ticket : ticket[k] # "NONE" => ticket'[k] # "NONE",
           RequestOK(q)'
    PROVE  RequestsOK'
<1>1. DOMAIN request' = Request
  BY DEF RequestsOK, Goto
<1>2. ASSUME NEW x \in Request, x # q
      PROVE  RequestOK(x)'
  <2>1. request'[x] = request[x]
    BY <1>2 DEF RequestsOK, Goto
  <2>2. RequestOK(x)
    BY DEF RequestsOK
  <2> QED
    BY <2>1, <2>2 DEF RequestOK
<1> QED
  BY <1>1, <1>2 DEF RequestsOK

LEMMA WentTo ==
    ASSUME RequestsOK, NEW q \in Request, NEW next, Goto(q, next)
    PROVE  request'[q] = next
BY DEF RequestsOK, Goto

\* A request that goes idle, or reads and remembers something true.
LEMMA IdleIsOK ==
    ASSUME RequestsOK, NEW q \in Request, Goto(q, Idle)
    PROVE  RequestOK(q)'
BY DEF RequestsOK, Goto, RequestOK

LEMMA ReadKeepsInv ==
    ASSUME AnyInv, NEW q \in Request, NEW next, Goto(q, next),
           UNCHANGED <<ledgerVars, order, linked, line, sent, total, kitchenVars>>,
           RequestOK(q)'
    PROVE  AnyInv'
<1> USE DEF AnyInv
<1>1. StockOK'
  BY DEF StockOK, NoOversell, ledgerVars
<1>2. OrdersOK'
  BY DEF OrdersOK, kitchenVars
<1>3. TicketsOK'
  <2>1. UNCHANGED <<sent, prepared, scrapped, ticket, portion>>
    BY DEF kitchenVars
  <2>2. SentMatchesTickets'
    BY <2>1, SentStays DEF TicketsOK
  <2> QED
    BY <2>1, <2>2 DEF TicketsOK
<1>4. RequestsOK'
  BY OthersRemember DEF kitchenVars
<1> QED
  BY <1>1, <1>2, <1>3, <1>4

\* Edits and what happens to orders leave the tickets alone.
LEMMA TicketsKept ==
    ASSUME TicketsOK, UNCHANGED <<sent, kitchenVars>>
    PROVE  TicketsOK' /\ UNCHANGED <<ticket, portion, prepared, scrapped, crashes>>
<1>1. UNCHANGED <<sent, prepared, scrapped, ticket, portion, crashes>>
  BY DEF kitchenVars
<1>2. SentMatchesTickets'
  BY <1>1, SentStays DEF TicketsOK
<1> QED
  BY <1>1, <1>2 DEF TicketsOK

-----------------------------------------------------------------------------
\* The edit remembers one line per product, and products without a line.
LEMMA BeginUpdateKeeps ==
    ASSUME AnyInv, NEW q \in Request, NEW o \in Checkout,
           NEW W \in SUBSET Stock, NEW want \in [W -> Quantity],
           BeginUpdate(q, o, want), UNCHANGED kitchenVars
    PROVE  AnyInv'
<1> DEFINE known == {s \in Stock : LinesFor(<<o, s>>) # {}}
           wanted(s) == IF s \in DOMAIN want THEN want[s] ELSE 0
           add == [s \in DOMAIN want \ known |-> want[s]]
           C(last) == {last[s] : s \in {x \in known : line[last[x]] # wanted(x)}}
           change(last) == [l \in C(last) |-> wanted(RowOf(l)[2]) - line[l]]
           next(last) == [pc |-> "adjusting", order |-> o, change |-> change(last), add |-> add]
<1>1. PICK last \in [known -> LinesOf(o)] :
          /\ \A s \in known : last[s] \in LinesFor(<<o, s>>)
          /\ Goto(q, next(last))
  BY DEF BeginUpdate
<1>2. UNCHANGED <<ledgerVars, order, linked, line, sent, total>>
  BY DEF BeginUpdate
<1>3. AddOK(add)
  BY DEF AddOK
<1>4. \A l \in C(last) : l \in Line /\ RowOf(l)[1] = o /\ RowOf(l)[2] \in Stock
  BY <1>1 DEF LinesFor, Line, RowOf, Reservation
<1>5. \A l \in C(last) : wanted(RowOf(l)[2]) \in Int /\ line[l] \in Int
  <2>1. \A x : wanted(x) \in Int
    <3>1. Quantity \subseteq Int
      BY LedgerAssumption
    <3>2. \A s \in DOMAIN want : want[s] \in Int
      BY <3>1
    <3> QED
      BY <3>2
  <2>2. \A l \in Line : line[l] \in Int
    BY DEF AnyInv, OrdersOK
  <2> QED
    BY <1>4, <2>1, <2>2
<1>6. ASSUME NEW l \in C(last), NEW m \in C(last), RowOf(l) = RowOf(m)
      PROVE  l = m
  <2>1. PICK s \in known : l = last[s]
    OBVIOUS
  <2>2. PICK t \in known : m = last[t]
    OBVIOUS
  <2>3. RowOf(l) = <<o, s>> /\ RowOf(m) = <<o, t>>
    BY <1>1, <2>1, <2>2 DEF LinesFor
  <2> QED
    BY <1>6, <2>1, <2>2, <2>3
<1>7. ChangeOK(o, change(last))
  <2> HIDE DEF C, wanted
  <2>1. /\ DOMAIN change(last) = C(last)
        /\ \A l \in C(last) : change(last)[l] = wanted(RowOf(l)[2]) - line[l]
    OBVIOUS
  <2>2. \A l \in C(last) : change(last)[l] \in Int
    BY <1>5, <2>1
  <2> HIDE DEF change
  <2> QED
    BY <1>4, <1>6, <2>1, <2>2 DEF ChangeOK
<1>8. request'[q] = next(last)
  BY <1>1, WentTo DEF AnyInv
<1> HIDE DEF add, change
<1>9. RequestOK(q)'
  BY <1>3, <1>7, <1>8 DEF RequestOK
<1> QED
  BY <1>1, <1>2, <1>9, ReadKeepsInv

LEMMA ReadRowsKeeps ==
    ASSUME AnyInv, NEW q \in Request, ReadRows(q), UNCHANGED kitchenVars
    PROVE  AnyInv'
<1> USE DEF AnyInv
<1> DEFINE asked == request[q]
           change == asked.change
           next == [pc |-> "writing", order |-> asked.order, change |-> change,
                    add |-> asked.add, held |-> [l \in DOMAIN change |-> quantity[RowOf(l)]]]
<1>1. /\ asked.pc = "adjusting"
      /\ Goto(q, next) \/ Goto(q, Idle)
      /\ UNCHANGED <<ledgerVars, order, linked, line, sent, total>>
  BY DEF ReadRows
<1>2. asked.order \in Checkout /\ ChangeOK(asked.order, change) /\ AddOK(asked.add)
  BY <1>1 DEF RequestsOK, RequestOK, Idle
<1>3. CASE Goto(q, Idle)
  BY <1>1, <1>3, IdleIsOK, ReadKeepsInv
<1>4. CASE Goto(q, next)
  <2>1. request'[q] = next
    BY <1>4, WentTo
  <2>2. \A l \in DOMAIN change : quantity[RowOf(l)] \in Nat
    BY <1>2 DEF ChangeOK, Line, RowOf, StockOK
  <2>3. RequestOK(q)'
    BY <1>2, <2>1, <2>2 DEF RequestOK
  <2> QED
    BY <1>1, <1>4, <2>3, ReadKeepsInv
<1> QED
  BY <1>1, <1>3, <1>4

LEMMA WriteRowsKeeps ==
    ASSUME AnyInv, NEW q \in Request, WriteRows(q), UNCHANGED kitchenVars
    PROVE  AnyInv'
<1> USE DEF AnyInv
<1> DEFINE asked == request[q]
           o == asked.order
           new == [l \in DOMAIN asked.change |-> asked.held[l] + asked.change[l]]
           next == AfterRows(q, o, asked.add)
<1>1. /\ asked.pc = "writing"
      /\ \/ CanAdjust(asked.change, new) /\ AdjustRows(asked.change, new) /\ Goto(q, next)
         \/ Goto(q, Idle) /\ UNCHANGED <<ledgerVars, line>>
      /\ UNCHANGED <<order, linked, sent, total>>
  BY DEF WriteRows
<1>2. /\ o \in Checkout /\ ChangeOK(o, asked.change) /\ AddOK(asked.add)
      /\ \A l \in DOMAIN asked.change : asked.held[l] \in Nat
  BY <1>1 DEF RequestsOK, RequestOK, Idle
<1>3. TicketsOK' /\ UNCHANGED <<ticket, crashes>>
  BY <1>1, TicketsKept
<1>4. CASE Goto(q, Idle) /\ UNCHANGED <<ledgerVars, line>>
  <2>1. RequestOK(q)'
    BY <1>4, IdleIsOK
  <2> QED
    BY <1>1, <1>4, <2>1, ReadKeepsInv
<1>5. CASE CanAdjust(asked.change, new) /\ AdjustRows(asked.change, new) /\ Goto(q, next)
  <2>1. \A l \in DOMAIN asked.change : new[l] \in Int
    BY <1>2 DEF ChangeOK
  <2> HIDE DEF new
  <2>2. StockOK' /\ line' \in [Line -> Nat]
    BY <1>2, <1>5, <2>1, AdjustKeepsStock DEF OrdersOK
  <2>3. OrdersOK'
    BY <1>1, <1>3, <2>2 DEF OrdersOK
  <2>4. request'[q] = next
    BY <1>5, WentTo
  <2>5. RequestOK(q)'
    BY <1>2, <2>4 DEF RequestOK, AfterRows
  <2>6. RequestsOK'
    BY <1>3, <1>5, <2>5, OthersRemember
  <2> QED
    BY <1>3, <2>2, <2>3, <2>6
<1> QED
  BY <1>1, <1>4, <1>5

LEMMA BookLinesKeeps ==
    ASSUME AnyInv, NEW q \in Request, BookLines(q), UNCHANGED kitchenVars
    PROVE  AnyInv'
<1> USE DEF AnyInv
<1> DEFINE asked == request[q]
           o == asked.order
           kept == {s \in DOMAIN asked.add :
                       status[<<o, s>>] = "ACTIVE" /\ quantity[<<o, s>>] = asked.add[s]}
           new == [s \in DOMAIN asked.add \ kept |-> asked.add[s]]
           next == [pc |-> "linking", order |-> o, add |-> asked.add]
<1>1. /\ asked.pc = "booking"
      /\ \/ /\ \A s \in DOMAIN new : new[s] <= AvailableStock(s)
            /\ BookRows(o, new, {}) /\ Goto(q, next)
         \/ Goto(q, Idle) /\ UNCHANGED ledgerVars
      /\ UNCHANGED <<order, linked, line, sent, total>>
  BY DEF BookLines
<1>2. o \in Checkout /\ AddOK(asked.add)
  BY <1>1 DEF RequestsOK, RequestOK, Idle
<1>3. TicketsOK' /\ UNCHANGED <<ticket, crashes>>
  BY <1>1, TicketsKept
<1>4. CASE Goto(q, Idle) /\ UNCHANGED ledgerVars
  <2>1. RequestOK(q)'
    BY <1>4, IdleIsOK
  <2> QED
    BY <1>1, <1>4, <2>1, ReadKeepsInv
<1>5. CASE /\ \A s \in DOMAIN new : new[s] <= AvailableStock(s)
           /\ BookRows(o, new, {}) /\ Goto(q, next)
  <2>1. AddOK(new)
    BY <1>2 DEF AddOK
  <2> HIDE DEF new
  <2>2. StockOK'
    BY <1>2, <1>5, <2>1, BookKeepsStock
  <2>3. OrdersOK'
    BY <1>1, <1>3 DEF OrdersOK
  <2>4. request'[q] = next
    BY <1>5, WentTo
  <2>5. RequestOK(q)'
    BY <1>2, <2>4 DEF RequestOK
  <2>6. RequestsOK'
    BY <1>3, <1>5, <2>5, OthersRemember
  <2> QED
    BY <1>3, <2>2, <2>3, <2>6
<1> QED
  BY <1>1, <1>4, <1>5

LEMMA LinkLinesKeeps ==
    ASSUME AnyInv, NEW q \in Request, LinkLines(q), UNCHANGED kitchenVars
    PROVE  AnyInv'
<1> USE DEF AnyInv
<1> DEFINE asked == request[q]
           o == asked.order
           fresh(l) == /\ RowOf(l)[1] = o
                       /\ RowOf(l)[2] \in DOMAIN asked.add
                       /\ l[2] = Cardinality(LinesFor(RowOf(l))) + 1
           next == [pc |-> "summing", order |-> o]
<1>1. /\ asked.pc = "linking"
      /\ linked' = linked \cup LiveRows(o)
      /\ line' = [l \in Line |-> IF fresh(l) THEN asked.add[RowOf(l)[2]] ELSE line[l]]
      /\ Goto(q, next)
      /\ UNCHANGED <<ledgerVars, order, sent, total>>
  BY DEF LinkLines
<1>2. o \in Checkout /\ AddOK(asked.add)
  BY <1>1 DEF RequestsOK, RequestOK, Idle
<1>3. TicketsOK' /\ UNCHANGED <<ticket, crashes>>
  BY <1>1, TicketsKept
<1>4. StockOK'
  BY <1>1 DEF StockOK, NoOversell, ledgerVars
<1>5. \A s \in DOMAIN asked.add : asked.add[s] \in Nat
  BY <1>2, LedgerAssumption DEF AddOK
<1>6. line' \in [Line -> Nat]
  <2>1. \A l \in Line : fresh(l) => asked.add[RowOf(l)[2]] \in Nat
    BY <1>5
  <2> HIDE DEF fresh
  <2> QED
    BY <1>1, <2>1 DEF OrdersOK
<1>7. OrdersOK'
  BY <1>1, <1>3, <1>6 DEF OrdersOK, LiveRows, Rows
<1>8. request'[q] = next
  BY <1>1, WentTo
<1>9. RequestOK(q)'
  BY <1>2, <1>8 DEF RequestOK
<1>10. RequestsOK'
  BY <1>1, <1>3, <1>9, OthersRemember
<1> QED
  BY <1>3, <1>4, <1>7, <1>10

\* The sum of an order's lines is a natural number per product.
LEMMA OrderedType ==
    ASSUME OrdersOK, NEW o \in Checkout
    PROVE  Ordered(o) \in [Stock -> Nat]
<1>1. ASSUME NEW s \in Stock
      PROVE  Cardinality(UNION {{l} \X (1 .. line[l]) : l \in LinesFor(<<o, s>>)}) \in Nat
  <2> DEFINE L == LinesFor(<<o, s>>)
  <2>1. IsFiniteSet({<<o, s>>} \X (1 .. 2))
    BY OneBlock
  <2>2. L \subseteq {<<o, s>>} \X (1 .. 2)
    BY DEF LinesFor, Line, RowOf
  <2>3. IsFiniteSet(L)
    BY <2>1, <2>2, FS_Subset
  <2>4. \A l \in L : line[l] \in Nat
    BY DEF LinesFor, OrdersOK
  <2> HIDE DEF L
  <2>5. Cardinality(Blocks(line, L)) \in Nat
    BY <2>3, <2>4, BlocksFinite
  <2> QED
    BY <2>5 DEF Blocks, L
<1> QED
  BY <1>1 DEF Ordered

LEMMA TotalsKeep ==
    ASSUME AnyInv, NEW q \in Request, ReadTotals(q) \/ WriteTotals(q), UNCHANGED kitchenVars
    PROVE  AnyInv'
<1> USE DEF AnyInv
<1>1. CASE ReadTotals(q)
  <2> DEFINE next == [pc |-> "totalling", order |-> request[q].order,
                      sum |-> Ordered(request[q].order)]
  <2>1. /\ request[q].pc = "summing" /\ Goto(q, next)
        /\ UNCHANGED <<ledgerVars, order, linked, line, sent, total>>
    BY <1>1 DEF ReadTotals
  <2>2. request[q].order \in Checkout
    BY <2>1 DEF RequestsOK, RequestOK, Idle
  <2>3. Ordered(request[q].order) \in [Stock -> Nat]
    BY <2>2, OrderedType
  <2>4. request'[q] = next
    BY <2>1, WentTo
  <2>5. RequestOK(q)'
    BY <2>2, <2>3, <2>4 DEF RequestOK
  <2> QED
    BY <2>1, <2>5, ReadKeepsInv
<1>2. CASE WriteTotals(q)
  <2>1. /\ request[q].pc = "totalling" /\ Goto(q, Idle)
        /\ total' = [total EXCEPT ![request[q].order] = request[q].sum]
        /\ UNCHANGED <<ledgerVars, order, linked, line, sent>>
    BY <1>2 DEF WriteTotals
  <2>2. request[q].order \in Checkout /\ request[q].sum \in [Stock -> Nat]
    BY <2>1 DEF RequestsOK, RequestOK, Idle
  <2>3. TicketsOK' /\ UNCHANGED <<ticket, crashes>>
    BY <2>1, TicketsKept
  <2>4. StockOK'
    BY <2>1 DEF StockOK, NoOversell, ledgerVars
  <2>5. OrdersOK'
    BY <2>1, <2>2, <2>3 DEF OrdersOK
  <2>6. RequestsOK'
    BY <2>1, <2>3, IdleIsOK, OthersRemember
  <2> QED
    BY <2>3, <2>4, <2>5, <2>6
<1> QED
  BY <1>1, <1>2

\* Payment, cancellation and expiry write the stock and the order.
LEMMA MeanwhileKeeps ==
    ASSUME AnyInv, NEW o \in Checkout, Pay(o) \/ Cancel(o) \/ Expire(o), UNCHANGED kitchenVars
    PROVE  AnyInv'
<1> USE DEF AnyInv
<1>1. UNCHANGED <<linked, line, sent, total, request>>
  BY DEF Pay, Cancel, Expire
<1>2. TicketsOK' /\ UNCHANGED <<ticket, crashes>>
  BY <1>1, TicketsKept
<1>3. RequestsOK'
  <2>1. \A q \in Request : RequestOK(q)'
    BY <1>1, <1>2 DEF RequestsOK, RequestOK
  <2> QED
    BY <1>1, <2>1 DEF RequestsOK
<1>4. order' \in [Checkout -> {"PENDING_PAYMENT", "PAID", "CANCELLED", "EXPIRED"}]
  BY DEF Pay, Cancel, Expire, OrdersOK
<1>5. OrdersOK'
  BY <1>1, <1>2, <1>4 DEF OrdersOK
<1>6. LinkedRows(o) \in SUBSET Reservation /\ LiveRows(o) \in SUBSET Reservation
  BY DEF LinkedRows, LiveRows, Rows
<1>7. StockOK'
  <2>1. CASE Pay(o)
    <3> DEFINE S == {r \in LinkedRows(o) : quantity[r] <= reservedStock[r[2]]}
    <3>1. S \in SUBSET Reservation /\ SellRows(S)
      BY <1>6, <2>1 DEF Pay
    <3> QED
      BY <3>1, SellKeepsStock
  <2>2. CASE Cancel(o)
    BY <1>6, <2>2, CloseKeepsStock DEF Cancel
  <2>3. CASE Expire(o)
    <3>1. PICK D \in SUBSET LiveRows(o) : CloseRows(D, "EXPIRED")
      BY <2>3 DEF Expire
    <3>2. D \in SUBSET Reservation
      BY <1>6
    <3> QED
      BY <3>1, <3>2, CloseKeepsStock
  <2> QED
    BY <2>1, <2>2, <2>3
<1> QED
  BY <1>2, <1>3, <1>5, <1>7

-----------------------------------------------------------------------------
LEMMA BeginSendKeeps ==
    ASSUME AnyInv, NEW q \in Request, NEW o \in Checkout, BeginSend(q, o)
    PROVE  AnyInv'
<1> USE DEF AnyInv
<1> DEFINE pending == {l \in LinesOf(o) : line[l] > sent[l]}
           cut == [l \in Line |-> IF l \in pending THEN line[l] - sent[l] ELSE 0]
           next == [pc |-> "sending", order |-> o, portion |-> cut]
<1>1. /\ Goto(q, next)
      /\ UNCHANGED <<ledgerVars, order, linked, line, sent, total, kitchenVars>>
  BY DEF BeginSend
<1>2. cut \in [Line -> Nat]
  BY DEF OrdersOK, TicketsOK
<1>3. request'[q] = next
  BY <1>1, WentTo
<1> HIDE DEF cut
<1>4. RequestOK(q)'
  BY <1>2, <1>3 DEF RequestOK
<1> QED
  BY <1>1, <1>4, ReadKeepsInv

\* The tickets and the count grow by the same portion.
LEMMA CommitSendKeeps ==
    ASSUME AnyInv, NEW q \in Request, CommitSend(q)
    PROVE  AnyInv'
<1> USE DEF AnyInv
<1> DEFINE asked == request[q]
<1>1. /\ asked.pc = "sending" /\ Goto(q, Idle)
      /\ UNCHANGED <<ledgerVars, order, linked, line, total, prepared, scrapped, crashes>>
  BY DEF CommitSend
<1>2. asked.portion \in [Line -> Nat]
  BY <1>1 DEF RequestsOK, RequestOK, Idle
<1>3. StockOK'
  BY <1>1 DEF StockOK, NoOversell, ledgerVars
<1>4. OrdersOK'
  BY <1>1 DEF OrdersOK
<1>5. RequestOK(q)'
  BY <1>1, IdleIsOK
<1>6. CASE UNCHANGED <<ticket, portion, sent>>
  <2>1. TicketsOK'
    BY <1>1, <1>6, TicketsKept DEF kitchenVars
  <2>2. RequestsOK'
    BY <1>1, <1>5, <1>6, OthersRemember
  <2> QED
    BY <1>3, <1>4, <2>1, <2>2
<1>7. ASSUME NEW k \in Ticket, ticket[k] = "NONE",
             ticket' = [ticket EXCEPT ![k] = "PENDING"],
             portion' = [portion EXCEPT ![k] = asked.portion],
             sent' = [l \in Line |-> sent[l] + asked.portion[l]]
      PROVE  AnyInv'
  <2>1. /\ ticket' \in [Ticket -> TicketStatus \cup {"NONE"}]
        /\ portion' \in [Ticket -> [Line -> Nat]]
        /\ sent' \in [Line -> Nat]
    BY <1>2, <1>7 DEF TicketsOK, TicketStatus
  <2>2. ASSUME NEW l \in Line
        PROVE  sent'[l] = OnTickets(TicketStatus, l)'
    <3>1. sent[l] = OnTickets(TicketStatus, l)
      BY DEF TicketsOK, SentMatchesTickets
    <3>2. ticket[k] \notin TicketStatus
      BY <1>7 DEF TicketStatus
    <3>3. {x \in Ticket : ticket'[x] \in TicketStatus}
             = {x \in Ticket : ticket[x] \in TicketStatus} \cup {k}
      BY <1>7 DEF TicketsOK, TicketStatus
    <3>4. /\ \A x \in Ticket : ticket[x] \in TicketStatus => portion'[x][l] = portion[x][l]
          /\ \A x \in Ticket : portion'[x][l] \in Nat
      BY <1>7, <2>1, <3>2 DEF TicketsOK
    <3>5. OnTickets(TicketStatus, l)' = OnTickets(TicketStatus, l) + portion'[k][l]
      BY <3>2, <3>3, <3>4, OnTicketsAdds
    <3>6. portion'[k][l] = asked.portion[l]
      BY <1>7 DEF TicketsOK
    <3> QED
      BY <1>7, <3>1, <3>5, <3>6
  <2>3. TicketsOK'
    BY <1>1, <2>1, <2>2 DEF TicketsOK, SentMatchesTickets
  <2>4. RequestsOK'
    BY <1>1, <1>5, <1>7, OthersRemember DEF TicketsOK
  <2> QED
    BY <1>3, <1>4, <2>3, <2>4
<1> QED
  BY <1>6, <1>7 DEF CommitSend

LEMMA BeginMoveKeeps ==
    ASSUME AnyInv, NEW q \in Request, NEW k \in Ticket, NEW st \in TicketStatus,
           BeginMove(q, k, st)
    PROVE  AnyInv'
<1> USE DEF AnyInv
<1> DEFINE next == [pc |-> "moving", ticket |-> k, to |-> st]
<1>1. /\ Goto(q, next) /\ ticket[k] # "NONE"
      /\ UNCHANGED <<ledgerVars, order, linked, line, sent, total, kitchenVars>>
  BY DEF BeginMove
<1>2. request'[q] = next /\ ticket' = ticket
  BY <1>1, WentTo DEF kitchenVars
<1>3. RequestOK(q)'
  BY <1>1, <1>2 DEF RequestOK
<1> QED
  BY <1>1, <1>3, ReadKeepsInv

\* A move adds natural numbers, and a ticket stays a ticket.
LEMMA CommitMoveKeeps ==
    ASSUME AnyInv, NEW q \in Request, CommitMove(q)
    PROVE  AnyInv'
<1> USE DEF AnyInv
<1> DEFINE asked == request[q]
           k == asked.ticket
           counted(f, st) == [l \in Line |-> f[l] + (IF asked.to = st THEN portion[k][l] ELSE 0)]
<1>1. /\ asked.pc = "moving" /\ Goto(q, Idle)
      /\ ticket' = [ticket EXCEPT ![k] = asked.to]
      /\ prepared' = counted(prepared, "READY")
      /\ scrapped' = counted(scrapped, "CANCELLED")
      /\ UNCHANGED <<ledgerVars, order, linked, line, sent, total, portion, crashes>>
  BY DEF CommitMove
<1>2. k \in Ticket /\ ticket[k] # "NONE" /\ asked.to \in TicketStatus
  BY <1>1 DEF RequestsOK, RequestOK, Idle
<1>3. StockOK'
  BY <1>1 DEF StockOK, NoOversell, ledgerVars
<1>4. OrdersOK'
  BY <1>1 DEF OrdersOK
<1>5. /\ ticket' \in [Ticket -> TicketStatus \cup {"NONE"}]
      /\ \A x \in Ticket : ticket'[x] \in TicketStatus <=> ticket[x] \in TicketStatus
      /\ \A x \in Ticket : ticket[x] # "NONE" => ticket'[x] # "NONE"
  BY <1>1, <1>2 DEF TicketsOK, TicketStatus
<1>6. prepared' \in [Line -> Nat] /\ scrapped' \in [Line -> Nat]
  <2>1. \A l \in Line : portion[k][l] \in Nat
    BY <1>2 DEF TicketsOK
  <2> QED
    BY <1>1, <2>1 DEF TicketsOK
<1>7. SentMatchesTickets'
  <2> SUFFICES ASSUME NEW l \in Line PROVE sent'[l] = OnTickets(TicketStatus, l)'
    BY DEF SentMatchesTickets
  <2>1. {x \in Ticket : ticket'[x] \in TicketStatus} = {x \in Ticket : ticket[x] \in TicketStatus}
    BY <1>5
  <2>2. OnTickets(TicketStatus, l)' = OnTickets(TicketStatus, l)
    BY <1>1, <2>1, OnTicketsSame
  <2> QED
    BY <1>1, <2>2 DEF TicketsOK, SentMatchesTickets
<1>8. TicketsOK'
  BY <1>1, <1>5, <1>6, <1>7 DEF TicketsOK
<1>9. RequestsOK'
  BY <1>1, <1>5, IdleIsOK, OthersRemember
<1> QED
  BY <1>3, <1>4, <1>8, <1>9

LEMMA CrashKeeps ==
    ASSUME AnyInv, NEW q \in Request, CrashRequest(q)
    PROVE  AnyInv'
<1> USE DEF AnyInv
<1>1. /\ Goto(q, Idle) /\ crashes' = crashes + 1
      /\ UNCHANGED <<ledgerVars, order, linked, line, sent, total,
                     ticket, portion, prepared, scrapped>>
  BY DEF CrashRequest
<1>2. StockOK'
  BY <1>1 DEF StockOK, NoOversell, ledgerVars
<1>3. OrdersOK'
  BY <1>1 DEF OrdersOK
<1>4. TicketsOK'
  <2>1. SentMatchesTickets'
    BY <1>1, SentStays DEF TicketsOK
  <2> QED
    BY <1>1, <2>1 DEF TicketsOK
<1>5. RequestsOK'
  BY <1>1, IdleIsOK, OthersRemember
<1> QED
  BY <1>2, <1>3, <1>4, <1>5

-----------------------------------------------------------------------------
LEMMA KitchenInitInv == KitchenInit => AnyInv
<1> SUFFICES ASSUME KitchenInit PROVE AnyInv
  OBVIOUS
<1>1. PICK Wt \in SUBSET Reservation :
         /\ status = [r \in Reservation |-> IF r \in Wt THEN "ACTIVE" ELSE "NONE"]
         /\ linked = Wt
         /\ \E want \in [Wt -> Quantity] :
               quantity = [r \in Reservation |-> IF r \in Wt THEN want[r] ELSE 0]
  BY DEF KitchenInit, PosOrdersInit
<1>2. quantity \in [Reservation -> Nat]
  <2>1. PICK want \in [Wt -> Quantity] :
           quantity = [r \in Reservation |-> IF r \in Wt THEN want[r] ELSE 0]
    BY <1>1
  <2>2. \A r \in Wt : want[r] \in Nat
    BY LedgerAssumption
  <2> QED
    BY <2>1, <2>2
<1>3. \A s \in Stock : Held(quantity, Reservation, s) \in Nat
  BY <1>2, HeldType DEF Quantities
<1>4. /\ reservedStock \in [Stock -> Int]
      /\ totalStock \in [Stock -> Int]
      /\ soldStock = [s \in Stock |-> 0]
      /\ \A s \in Stock : reservedStock[s] <= totalStock[s]
  <2>1. /\ reservedStock = [s \in Stock |-> Held(quantity, Reservation, s)]
        /\ totalStock \in [Stock -> InitialTotal]
        /\ soldStock = [s \in Stock |-> 0]
        /\ \A s \in Stock : reservedStock[s] <= totalStock[s]
    BY DEF KitchenInit, PosOrdersInit
  <2>2. totalStock \in [Stock -> Int]
    <3>1. InitialTotal \subseteq Int
      BY PosOrdersAssumption
    <3>2. \A s \in Stock : totalStock[s] \in Int
      BY <2>1, <3>1
    <3> QED
      BY <2>1, <3>2
  <2> QED
    BY <1>3, <2>1, <2>2
<1>5. StockOK
  <2>1. status \in [Reservation -> ReservationStatus]
    BY <1>1 DEF ReservationStatus
  <2>2. soldStock \in [Stock -> Nat] /\ NoOversell
    BY <1>4 DEF NoOversell
  <2> QED
    BY <1>2, <1>4, <2>1, <2>2 DEF StockOK
<1>6. OrdersOK
  <2>1. line \in [Line -> Nat]
    BY <1>2 DEF Line, RowOf, KitchenInit, PosOrdersInit
  <2>2. total \in [Checkout -> [Stock -> Nat]]
    BY <1>2 DEF Reservation, KitchenInit, PosOrdersInit
  <2> QED
    BY <1>1, <2>1, <2>2 DEF OrdersOK, KitchenInit, PosOrdersInit
<1>7. TicketsOK
  <2>1. ASSUME NEW l \in Line
        PROVE  sent[l] = OnTickets(TicketStatus, l)
    <3>1. {x \in Ticket : ticket[x] \in TicketStatus} = {}
      BY DEF TicketStatus, KitchenInit
    <3>2. OnTickets(TicketStatus, l) = Cardinality({})
      BY <3>1 DEF OnTickets
    <3> QED
      BY <3>2, FS_EmptySet DEF KitchenInit, PosOrdersInit
  <2> QED
    BY <2>1 DEF TicketsOK, SentMatchesTickets, KitchenInit, PosOrdersInit
<1>8. RequestsOK
  BY DEF RequestsOK, RequestOK, KitchenInit, PosOrdersInit
<1> QED
  BY <1>5, <1>6, <1>7, <1>8 DEF AnyInv

LEMMA KitchenStepInv == AnyInv /\ [KitchenNext]_counterVars => AnyInv'
<1> SUFFICES ASSUME AnyInv, [KitchenNext]_counterVars PROVE AnyInv'
  OBVIOUS
<1>1. CASE UNCHANGED counterVars
  <2>1. /\ UNCHANGED <<ledgerVars, order, linked, line, sent, total, request, kitchenVars>>
    BY <1>1 DEF counterVars, posOrderVars
  <2>2. StockOK' /\ OrdersOK' /\ TicketsOK'
    BY <2>1, TicketsKept DEF AnyInv, StockOK, NoOversell, ledgerVars, OrdersOK
  <2>3. RequestsOK'
    BY <2>1 DEF AnyInv, RequestsOK, RequestOK, kitchenVars
  <2> QED
    BY <2>2, <2>3 DEF AnyInv
<1>2. CASE OrderStep /\ UNCHANGED kitchenVars
  <2>1. ASSUME NEW q \in Request, NEW o \in Checkout, NEW W \in SUBSET Stock,
               NEW want \in [W -> Quantity], BeginUpdate(q, o, want)
        PROVE  AnyInv'
    BY <1>2, <2>1, BeginUpdateKeeps
  <2>2. ASSUME NEW q \in Request, ReadRows(q)
        PROVE  AnyInv'
    BY <1>2, <2>2, ReadRowsKeeps
  <2>3. ASSUME NEW q \in Request, WriteRows(q)
        PROVE  AnyInv'
    BY <1>2, <2>3, WriteRowsKeeps
  <2>4. ASSUME NEW q \in Request, BookLines(q)
        PROVE  AnyInv'
    BY <1>2, <2>4, BookLinesKeeps
  <2>5. ASSUME NEW q \in Request, LinkLines(q)
        PROVE  AnyInv'
    BY <1>2, <2>5, LinkLinesKeeps
  <2>6. ASSUME NEW q \in Request, ReadTotals(q) \/ WriteTotals(q)
        PROVE  AnyInv'
    BY <1>2, <2>6, TotalsKeep
  <2>7. ASSUME NEW o \in Checkout, Pay(o) \/ Cancel(o) \/ Expire(o)
        PROVE  AnyInv'
    BY <1>2, <2>7, MeanwhileKeeps
  <2> QED
    BY <1>2, <2>1, <2>2, <2>3, <2>4, <2>5, <2>6, <2>7 DEF OrderStep
<1>3. ASSUME NEW q \in Request, NEW o \in Checkout, BeginSend(q, o)
      PROVE  AnyInv'
  BY <1>3, BeginSendKeeps
<1>4. ASSUME NEW q \in Request, NEW k \in Ticket, NEW st \in TicketStatus, BeginMove(q, k, st)
      PROVE  AnyInv'
  BY <1>4, BeginMoveKeeps
<1>5. ASSUME NEW q \in Request, CommitSend(q) \/ CommitMove(q) \/ CrashRequest(q)
      PROVE  AnyInv'
  BY <1>5, CommitSendKeeps, CommitMoveKeeps, CrashKeeps
<1> QED
  BY <1>1, <1>2, <1>3, <1>4, <1>5 DEF KitchenNext

\* Whatever overlaps and dies, every variable of the counter's orders and of the
\* kitchen keeps its type (update, sendToKitchen and updateStatus).
THEOREM CounterTypesCorrect == CounterSpec => []KitchenTypeOK
<1>1. AnyInv => KitchenTypeOK
  BY AnyInvTypes
<1> QED
  BY <1>1, KitchenInitInv, KitchenStepInv, PTL DEF CounterSpec

\* However requests overlap, die or rely on what they read before: the units
\* an order believes to be in the kitchen are those of its tickets.
THEOREM SentIsOnTickets == CounterSpec => []SentMatchesTickets
<1>1. AnyInv => SentMatchesTickets
  BY DEF AnyInv, TicketsOK
<1> QED
  BY <1>1, KitchenInitInv, KitchenStepInv, PTL DEF CounterSpec

\* Also edits that rely on a reservation that changed meanwhile never take
\* more units than are left (adjustReservedQuantity, createReservations).
THEOREM CounterNeverOversells == CounterSpec => []NoOversell
<1>1. AnyInv => NoOversell
  BY DEF AnyInv, StockOK
<1> QED
  BY <1>1, KitchenInitInv, KitchenStepInv, PTL DEF CounterSpec

-----------------------------------------------------------------------------
(* 2. One request at a time                                                *)
-----------------------------------------------------------------------------

\* Nobody else is at work between the transactions of a request; payments,
\* cancellations, the worker and crashes still come between them.
OneAtATime == \A p, q \in Request : p = q

\* A row has one line at most, and the line says what the row holds.
LinesAreRows ==
    \A r \in Reservation :
        /\ line[<<r, 2>>] = 0
        /\ line[<<r, 1>>] > 0 => line[<<r, 1>>] = quantity[r]

\* What an edit remembers: the lines are as they were read, and it leaves a
\* line what is in the kitchen.
EditOK(o, change) ==
    \A l \in DOMAIN change :
        /\ line[l] > 0
        /\ line[l] + change[l] \in Quantity \cup {0}
        /\ sent[l] <= line[l] + change[l]

NewLinesOK(o, add) == \A s \in DOMAIN add : line[<<<<o, s>>, 1>>] = 0

PlanOK(q) ==
    LET asked == request[q]
    IN  /\ asked.pc \in {"adjusting", "writing"} =>
              EditOK(asked.order, asked.change) /\ NewLinesOK(asked.order, asked.add)
        /\ asked.pc = "writing" =>
              \A l \in DOMAIN asked.change : asked.held[l] = line[l]
        /\ asked.pc \in {"booking", "linking"} => NewLinesOK(asked.order, asked.add)
        /\ asked.pc = "linking" =>
              \A s \in DOMAIN asked.add : quantity[<<asked.order, s>>] = asked.add[s]
        /\ asked.pc = "sending" => \A l \in Line : sent[l] + asked.portion[l] <= line[l]
        /\ asked.pc = "moving" => asked.to \in NextStatuses(ticket[asked.ticket])

SingleInv ==
    /\ LinesAreRows
    /\ NeverBelowSent
    /\ CountedOnce
    /\ \A q \in Request : PlanOK(q)

\* Only the request at work has a plan, so only its own must stay true.
LEMMA OwnPlan ==
    ASSUME OneAtATime, NEW q \in Request, PlanOK(q)'
    PROVE  \A x \in Request : PlanOK(x)'
BY DEF OneAtATime

LEMMA CountedStays ==
    ASSUME CountedOnce, UNCHANGED <<ticket, portion, prepared, scrapped>>
    PROVE  CountedOnce'
BY DEF CountedOnce, OnTickets

\* A request that reads and remembers something true.
LEMMA ReadKeepsSingle ==
    ASSUME OneAtATime, SingleInv, NEW q \in Request, PlanOK(q)',
           UNCHANGED <<quantity, line, sent, ticket, portion, prepared, scrapped>>
    PROVE  SingleInv'
<1>1. LinesAreRows' /\ NeverBelowSent'
  BY DEF SingleInv, LinesAreRows, NeverBelowSent
<1>2. CountedOnce'
  BY CountedStays DEF SingleInv
<1> QED
  BY <1>1, <1>2, OwnPlan DEF SingleInv

LEMMA IdlePlan ==
    ASSUME RequestsOK, NEW q \in Request, Goto(q, Idle)
    PROVE  PlanOK(q)'
BY WentTo DEF PlanOK, Idle

\* A changed line is the first, and only, line of its row.
LEMMA FirstLines ==
    ASSUME LinesAreRows, NEW o, NEW change, ChangeOK(o, change), EditOK(o, change)
    PROVE  \A l \in DOMAIN change :
               /\ RowOf(l) \in Reservation /\ RowOf(l)[1] = o /\ l = <<RowOf(l), 1>>
               /\ line[l] = quantity[RowOf(l)]
<1> SUFFICES ASSUME NEW l \in DOMAIN change
             PROVE  /\ RowOf(l) \in Reservation /\ RowOf(l)[1] = o /\ l = <<RowOf(l), 1>>
                    /\ line[l] = quantity[RowOf(l)]
  OBVIOUS
<1>1. l \in Line /\ RowOf(l)[1] = o /\ line[l] > 0
  BY DEF ChangeOK, EditOK
<1>2. RowOf(l) \in Reservation /\ (l = <<RowOf(l), 1>> \/ l = <<RowOf(l), 2>>)
  BY <1>1 DEF Line, RowOf
<1>3. PICK r \in Reservation : r = RowOf(l)
  BY <1>2
<1>4. line[<<r, 2>>] = 0 /\ (line[<<r, 1>>] > 0 => line[<<r, 1>>] = quantity[r])
  BY DEF LinesAreRows
<1>5. l # <<r, 2>>
  BY <1>1, <1>4
<1> QED
  BY <1>1, <1>2, <1>3, <1>4, <1>5

-----------------------------------------------------------------------------
LEMMA BeginUpdateSingle ==
    ASSUME OneAtATime, AnyInv, SingleInv, NEW q \in Request, NEW o \in Checkout,
           NEW W \in SUBSET Stock, NEW want \in [W -> Quantity],
           BeginUpdate(q, o, want), UNCHANGED kitchenVars
    PROVE  SingleInv'
<1> DEFINE known == {s \in Stock : LinesFor(<<o, s>>) # {}}
           wanted(s) == IF s \in DOMAIN want THEN want[s] ELSE 0
           add == [s \in DOMAIN want \ known |-> want[s]]
           C(last) == {last[s] : s \in {x \in known : line[last[x]] # wanted(x)}}
           change(last) == [l \in C(last) |-> wanted(RowOf(l)[2]) - line[l]]
           next(last) == [pc |-> "adjusting", order |-> o, change |-> change(last), add |-> add]
<1>1. PICK last \in [known -> LinesOf(o)] :
          /\ \A s \in known : last[s] \in LinesFor(<<o, s>>)
          /\ \A l \in C(last) : change(last)[l] < 0 => MayReduce(l, wanted(RowOf(l)[2]))
          /\ Goto(q, next(last))
  BY DEF BeginUpdate
<1>2. UNCHANGED <<ledgerVars, order, linked, line, sent, total>>
  BY DEF BeginUpdate
<1>3. \A l \in C(last) : l \in Line /\ line[l] > 0
  BY <1>1 DEF LinesFor
<1>4. \A x : wanted(x) \in Quantity \cup {0} /\ wanted(x) \in Nat
  <2>1. Quantity \subseteq Nat
    BY LedgerAssumption
  <2>2. \A s \in DOMAIN want : want[s] \in Quantity
    OBVIOUS
  <2> QED
    BY <2>1, <2>2
<1>5. NewLinesOK(o, add)
  <2> SUFFICES ASSUME NEW s \in DOMAIN want \ known
               PROVE  line[<<<<o, s>>, 1>>] = 0
    BY DEF NewLinesOK
  <2>1. s \in Stock /\ LinesFor(<<o, s>>) = {}
    OBVIOUS
  <2>2. <<<<o, s>>, 1>> \in Line /\ RowOf(<<<<o, s>>, 1>>) = <<o, s>>
    BY <2>1 DEF Line, Reservation, RowOf
  <2>3. ~(line[<<<<o, s>>, 1>>] > 0) /\ line[<<<<o, s>>, 1>>] \in Nat
    BY <2>1, <2>2 DEF LinesFor, AnyInv, OrdersOK
  <2> QED
    BY <2>3
<1>6. DOMAIN change(last) = C(last)
  OBVIOUS
<1>7. \A l \in C(last) : change(last)[l] = wanted(RowOf(l)[2]) - line[l]
  <2> HIDE DEF C, wanted
  <2> QED
    OBVIOUS
<1> HIDE DEF add, change, C, wanted
<1>8. EditOK(o, change(last))
  <2> SUFFICES ASSUME NEW l \in C(last)
               PROVE  /\ line[l] > 0
                      /\ line[l] + change(last)[l] \in Quantity \cup {0}
                      /\ sent[l] <= line[l] + change(last)[l]
    BY <1>6 DEF EditOK
  <2> DEFINE w == wanted(RowOf(l)[2])
  <2>1. l \in Line /\ line[l] > 0 /\ line[l] \in Nat /\ sent[l] \in Nat /\ sent[l] <= line[l]
    BY <1>3 DEF AnyInv, OrdersOK, TicketsOK, SingleInv, NeverBelowSent
  <2>2. w \in Nat /\ w \in Quantity \cup {0}
    BY <1>4
  <2>3. change(last)[l] = w - line[l]
    BY <1>7
  <2>4. change(last)[l] < 0 => w >= sent[l]
    BY <1>1 DEF MayReduce
  <2> HIDE DEF w
  <2>5. line[l] + change(last)[l] = w
    BY <2>1, <2>2, <2>3
  <2> QED
    BY <2>1, <2>2, <2>3, <2>4, <2>5
<1>9. request'[q] = next(last)
  BY <1>1, WentTo DEF AnyInv
<1>10. PlanOK(q)'
  BY <1>2, <1>5, <1>8, <1>9 DEF PlanOK, EditOK, NewLinesOK
<1> QED
  BY <1>2, <1>10, ReadKeepsSingle DEF ledgerVars, kitchenVars

LEMMA ReadRowsSingle ==
    ASSUME OneAtATime, AnyInv, SingleInv, NEW q \in Request, ReadRows(q), UNCHANGED kitchenVars
    PROVE  SingleInv'
<1> DEFINE asked == request[q]
           change == asked.change
           held == [l \in DOMAIN change |-> quantity[RowOf(l)]]
           next == [pc |-> "writing", order |-> asked.order, change |-> change,
                    add |-> asked.add, held |-> held]
<1>1. /\ asked.pc = "adjusting"
      /\ Goto(q, next) \/ Goto(q, Idle)
      /\ UNCHANGED <<ledgerVars, order, linked, line, sent, total>>
  BY DEF ReadRows
<1>2. ChangeOK(asked.order, change)
  BY <1>1 DEF AnyInv, RequestsOK, RequestOK, Idle
<1>3. EditOK(asked.order, change) /\ NewLinesOK(asked.order, asked.add) /\ LinesAreRows
  BY <1>1 DEF SingleInv, PlanOK
<1>4. \A l \in DOMAIN change : held[l] = line[l]
  BY <1>2, <1>3, FirstLines
<1>5. PlanOK(q)'
  <2>1. CASE Goto(q, Idle)
    BY <2>1, IdlePlan DEF AnyInv
  <2>2. CASE Goto(q, next)
    <3>1. request'[q] = next
      BY <2>2, WentTo DEF AnyInv
    <3> HIDE DEF held
    <3> QED
      BY <1>1, <1>3, <1>4, <3>1 DEF PlanOK, EditOK, NewLinesOK
  <2> QED
    BY <1>1, <2>1, <2>2
<1> QED
  BY <1>1, <1>5, ReadKeepsSingle DEF ledgerVars, kitchenVars

\* What an edit writes, line by line and row by row.
LEMMA AdjustWrites ==
    ASSUME LinesAreRows, NEW o, NEW change, ChangeOK(o, change), EditOK(o, change),
           line \in [Line -> Nat],
           NEW new, \A l \in DOMAIN change : new[l] = line[l] + change[l],
           AdjustRows(change, new)
    PROVE  /\ line' = [l \in Line |-> IF l \in DOMAIN change THEN new[l] ELSE line[l]]
           /\ \A r \in Reservation :
                 /\ quantity'[r] = IF <<r, 1>> \in DOMAIN change /\ new[<<r, 1>>] > 0
                                   THEN new[<<r, 1>>] ELSE quantity[r]
                 /\ status'[r] = IF <<r, 1>> \in DOMAIN change /\ new[<<r, 1>>] = 0
                                 THEN "RELEASED" ELSE status[r]
           /\ \A s \in Stock :
                 reservedStock'[s] = reservedStock[s] +
                    (IF <<<<o, s>>, 1>> \in DOMAIN change THEN change[<<<<o, s>>, 1>>] ELSE 0)
<1> DEFINE edited(r) == {l \in DOMAIN change : RowOf(l) = r}
           gone == {l \in DOMAIN change : new[l] <= 0}
           at(s) == {l \in DOMAIN change : RowOf(l)[2] = s}
<1>1. /\ reservedStock' = [s \in Stock |-> reservedStock[s] +
             (IF at(s) = {} THEN 0 ELSE change[CHOOSE l \in at(s) : TRUE])]
      /\ status' = [r \in Reservation |->
             IF edited(r) \cap gone # {} THEN "RELEASED" ELSE status[r]]
      /\ quantity' = [r \in Reservation |->
             IF edited(r) \ gone = {} THEN quantity[r]
             ELSE new[CHOOSE l \in edited(r) \ gone : TRUE]]
      /\ line' = [l \in Line |->
             IF l \in gone THEN 0 ELSE IF l \in DOMAIN change THEN new[l] ELSE line[l]]
  BY DEF AdjustRows
<1>2. \A l \in DOMAIN change :
          /\ RowOf(l) \in Reservation /\ RowOf(l)[1] = o /\ l = <<RowOf(l), 1>>
          /\ l \in Line
  BY FirstLines DEF ChangeOK
<1>3. \A l \in DOMAIN change : new[l] \in Nat
  <2>1. Quantity \cup {0} \subseteq Nat
    BY LedgerAssumption
  <2> QED
    BY <2>1 DEF EditOK
<1>4. line' = [l \in Line |-> IF l \in DOMAIN change THEN new[l] ELSE line[l]]
  BY <1>1, <1>3
<1>5. ASSUME NEW r \in Reservation
      PROVE  /\ quantity'[r] = IF <<r, 1>> \in DOMAIN change /\ new[<<r, 1>>] > 0
                               THEN new[<<r, 1>>] ELSE quantity[r]
             /\ status'[r] = IF <<r, 1>> \in DOMAIN change /\ new[<<r, 1>>] = 0
                             THEN "RELEASED" ELSE status[r]
  <2>1. /\ status'[r] = IF edited(r) \cap gone # {} THEN "RELEASED" ELSE status[r]
        /\ quantity'[r] = IF edited(r) \ gone = {} THEN quantity[r]
                          ELSE new[CHOOSE l \in edited(r) \ gone : TRUE]
    BY <1>1
  <2>2. CASE <<r, 1>> \notin DOMAIN change
    <3>1. edited(r) = {}
      BY <1>2, <2>2
    <3> QED
      BY <2>1, <2>2, <3>1
  <2>3. CASE <<r, 1>> \in DOMAIN change
    <3>1. edited(r) = {<<r, 1>>}
      BY <1>2, <2>3 DEF RowOf
    <3>2. new[<<r, 1>>] \in Nat
      BY <1>3, <2>3
    <3>3. CASE new[<<r, 1>>] = 0
      <4>1. edited(r) \ gone = {} /\ edited(r) \cap gone # {}
        BY <2>3, <3>1, <3>3
      <4> QED
        BY <2>1, <2>3, <3>3, <4>1
    <3>4. CASE new[<<r, 1>>] > 0
      <4>1. edited(r) \ gone = {<<r, 1>>} /\ edited(r) \cap gone = {}
        BY <2>3, <3>1, <3>2, <3>4
      <4>2. (CHOOSE l \in {<<r, 1>>} : TRUE) = <<r, 1>>
        OBVIOUS
      <4>3. quantity'[r] = new[<<r, 1>>]
        BY <2>1, <4>1, <4>2
      <4> QED
        BY <2>1, <2>3, <3>4, <4>1, <4>3
    <3> QED
      BY <3>2, <3>3, <3>4
  <2> QED
    BY <2>2, <2>3
<1>6. ASSUME NEW s \in Stock
      PROVE  reservedStock'[s] = reservedStock[s] +
                (IF <<<<o, s>>, 1>> \in DOMAIN change THEN change[<<<<o, s>>, 1>>] ELSE 0)
  <2> DEFINE m == <<<<o, s>>, 1>>
  <2>1. ASSUME NEW l \in at(s)
        PROVE  l = m
    <3>1. PICK r \in Reservation : r = RowOf(l)
      BY <1>2, <2>1
    <3>2. r = <<o, s>> /\ l = <<r, 1>>
      BY <1>2, <2>1, <3>1 DEF Reservation
    <3> QED
      BY <3>2
  <2>2. m \in DOMAIN change => m \in at(s)
    BY DEF RowOf
  <2>3. CASE m \in DOMAIN change
    <3>1. at(s) = {m}
      BY <2>1, <2>2, <2>3
    <3>2. (CHOOSE l \in {m} : TRUE) = m
      OBVIOUS
    <3>3. reservedStock'[s] = reservedStock[s] + change[CHOOSE l \in {m} : TRUE]
      BY <1>1, <3>1
    <3> QED
      BY <2>3, <3>2, <3>3
  <2>4. CASE m \notin DOMAIN change
    <3>1. at(s) = {}
      BY <2>1, <2>4
    <3> QED
      BY <1>1, <2>4, <3>1
  <2> QED
    BY <2>3, <2>4
<1> QED
  BY <1>4, <1>5, <1>6

\* An edit that nobody overlapped sets each line, and the row it stands for, to
\* what was wanted.
LEMMA WriteRowsSingle ==
    ASSUME OneAtATime, AnyInv, SingleInv, NEW q \in Request, WriteRows(q), UNCHANGED kitchenVars
    PROVE  SingleInv'
<1> DEFINE asked == request[q]
           o == asked.order
           change == asked.change
           new == [l \in DOMAIN change |-> asked.held[l] + change[l]]
           next == AfterRows(q, o, asked.add)
<1>1. /\ asked.pc = "writing"
      /\ \/ AdjustRows(change, new) /\ Goto(q, next)
         \/ Goto(q, Idle) /\ UNCHANGED <<ledgerVars, line>>
      /\ UNCHANGED <<order, linked, sent, total>>
  BY DEF WriteRows
<1>2. ChangeOK(o, change) /\ AddOK(asked.add) /\ o \in Checkout
  BY <1>1 DEF AnyInv, RequestsOK, RequestOK, Idle
<1>3. /\ EditOK(o, change) /\ NewLinesOK(o, asked.add)
      /\ \A l \in DOMAIN change : asked.held[l] = line[l]
      /\ LinesAreRows /\ NeverBelowSent
  BY <1>1 DEF SingleInv, PlanOK
<1>4. UNCHANGED <<ticket, portion, prepared, scrapped>>
  BY DEF kitchenVars
<1>5. CASE Goto(q, Idle) /\ UNCHANGED <<ledgerVars, line>>
  <2>1. PlanOK(q)'
    BY <1>5, IdlePlan DEF AnyInv
  <2> QED
    BY <1>1, <1>4, <1>5, <2>1, ReadKeepsSingle DEF ledgerVars
<1>6. CASE AdjustRows(change, new) /\ Goto(q, next)
  <2>1. \A l \in DOMAIN change : new[l] = line[l] + change[l]
    BY <1>3
  <2> HIDE DEF new
  <2>2. line \in [Line -> Nat]
    BY DEF AnyInv, OrdersOK
  <2>3. /\ line' = [l \in Line |-> IF l \in DOMAIN change THEN new[l] ELSE line[l]]
        /\ \A r \in Reservation :
              quantity'[r] = IF <<r, 1>> \in DOMAIN change /\ new[<<r, 1>>] > 0
                             THEN new[<<r, 1>>] ELSE quantity[r]
    BY <1>2, <1>3, <1>6, <2>1, <2>2, AdjustWrites
  <2>4. \A l \in DOMAIN change : line[l] > 0 /\ new[l] >= sent[l]
    BY <1>3, <2>1 DEF EditOK
  <2>5. LinesAreRows'
    <3> SUFFICES ASSUME NEW r \in Reservation
                 PROVE  /\ line'[<<r, 2>>] = 0
                        /\ line'[<<r, 1>>] > 0 => line'[<<r, 1>>] = quantity'[r]
      BY DEF LinesAreRows
    <3>1. /\ line[<<r, 2>>] = 0
          /\ line[<<r, 1>>] > 0 => line[<<r, 1>>] = quantity[r]
          /\ <<r, 1>> \in Line /\ <<r, 2>> \in Line
      BY <1>3 DEF LinesAreRows, Line
    <3>2. <<r, 2>> \notin DOMAIN change
      BY <2>4, <3>1
    <3> QED
      BY <2>3, <3>1, <3>2
  <2>6. NeverBelowSent'
    BY <1>1, <1>3, <2>3, <2>4 DEF NeverBelowSent
  <2>7. ASSUME NEW s \in DOMAIN asked.add
        PROVE  line'[<<<<o, s>>, 1>>] = 0
    <3>1. line[<<<<o, s>>, 1>>] = 0 /\ <<<<o, s>>, 1>> \in Line
      BY <1>2, <1>3 DEF NewLinesOK, AddOK, Line, Reservation
    <3>2. <<<<o, s>>, 1>> \notin DOMAIN change
      BY <2>4, <3>1
    <3> QED
      BY <2>3, <3>1, <3>2
  <2>8. request'[q] = next
    BY <1>6, WentTo DEF AnyInv
  <2>9. PlanOK(q)'
    BY <2>7, <2>8 DEF PlanOK, AfterRows, NewLinesOK
  <2>10. CountedOnce'
    BY <1>4, CountedStays DEF SingleInv
  <2> QED
    BY <2>5, <2>6, <2>9, <2>10, OwnPlan DEF SingleInv
<1> QED
  BY <1>1, <1>5, <1>6

\* New rows are those of products without a line.
LEMMA BookLinesSingle ==
    ASSUME OneAtATime, AnyInv, SingleInv, NEW q \in Request, BookLines(q), UNCHANGED kitchenVars
    PROVE  SingleInv'
<1> DEFINE asked == request[q]
           o == asked.order
           kept == {s \in DOMAIN asked.add :
                       status[<<o, s>>] = "ACTIVE" /\ quantity[<<o, s>>] = asked.add[s]}
           new == [s \in DOMAIN asked.add \ kept |-> asked.add[s]]
           next == [pc |-> "linking", order |-> o, add |-> asked.add]
<1>1. /\ asked.pc = "booking"
      /\ \/ BookRows(o, new, {}) /\ Goto(q, next)
         \/ Goto(q, Idle) /\ UNCHANGED ledgerVars
      /\ UNCHANGED <<order, linked, line, sent, total>>
  BY DEF BookLines
<1>2. AddOK(asked.add) /\ o \in Checkout
  BY <1>1 DEF AnyInv, RequestsOK, RequestOK, Idle
<1>3. NewLinesOK(o, asked.add) /\ LinesAreRows /\ NeverBelowSent
  BY <1>1 DEF SingleInv, PlanOK
<1>4. UNCHANGED <<ticket, portion, prepared, scrapped>>
  BY DEF kitchenVars
<1>5. CASE Goto(q, Idle) /\ UNCHANGED ledgerVars
  <2>1. PlanOK(q)'
    BY <1>5, IdlePlan DEF AnyInv
  <2> QED
    BY <1>1, <1>4, <1>5, <2>1, ReadKeepsSingle DEF ledgerVars
<1>6. CASE BookRows(o, new, {}) /\ Goto(q, next)
  <2>1. DOMAIN new = DOMAIN asked.add \ kept /\ \A s \in DOMAIN new : new[s] = asked.add[s]
    OBVIOUS
  <2>2. quantity' = [r \in Reservation |->
           IF r[1] = o /\ r[2] \in DOMAIN new THEN new[r[2]] ELSE quantity[r]]
    BY <1>6 DEF BookRows
  <2>3. LinesAreRows'
    <3> SUFFICES ASSUME NEW r \in Reservation
                 PROVE  /\ line[<<r, 2>>] = 0
                        /\ line[<<r, 1>>] > 0 => line[<<r, 1>>] = quantity'[r]
      BY <1>1 DEF LinesAreRows
    <3>1. /\ line[<<r, 2>>] = 0
          /\ line[<<r, 1>>] > 0 => line[<<r, 1>>] = quantity[r]
      BY <1>3 DEF LinesAreRows
    <3>2. CASE r[1] = o /\ r[2] \in DOMAIN new
      <4>1. r = <<o, r[2]>> /\ r[2] \in DOMAIN asked.add
        BY <2>1, <3>2 DEF Reservation
      <4>2. line[<<<<o, r[2]>>, 1>>] = 0
        BY <1>3, <4>1 DEF NewLinesOK
      <4>3. line[<<r, 1>>] = 0
        BY <4>1, <4>2
      <4> QED
        BY <3>1, <4>3
    <3>3. CASE ~(r[1] = o /\ r[2] \in DOMAIN new)
      BY <2>2, <3>1, <3>3
    <3> QED
      BY <3>2, <3>3
  <2>4. NeverBelowSent'
    BY <1>1, <1>3 DEF NeverBelowSent
  <2>5. ASSUME NEW s \in DOMAIN asked.add
        PROVE  quantity'[<<o, s>>] = asked.add[s]
    <3>1. <<o, s>> \in Reservation /\ <<o, s>>[1] = o /\ <<o, s>>[2] = s
      BY <1>2 DEF AddOK, Reservation
    <3>2. CASE s \in kept
      BY <2>1, <2>2, <3>1, <3>2
    <3>3. CASE s \notin kept
      BY <2>1, <2>2, <3>1, <3>3
    <3> QED
      BY <3>2, <3>3
  <2>6. request'[q] = next
    BY <1>6, WentTo DEF AnyInv
  <2>7. PlanOK(q)'
    BY <1>1, <1>3, <2>5, <2>6 DEF PlanOK, NewLinesOK
  <2>8. CountedOnce'
    BY <1>4, CountedStays DEF SingleInv
  <2> QED
    BY <2>3, <2>4, <2>7, <2>8, OwnPlan DEF SingleInv
<1> QED
  BY <1>1, <1>5, <1>6

\* The new lines are the first ones of their rows.
LEMMA LinkWrites ==
    ASSUME AnyInv, LinesAreRows, NEW q \in Request, LinkLines(q),
           NewLinesOK(request[q].order, request[q].add)
    PROVE  \A r \in Reservation :
              /\ line'[<<r, 2>>] = 0
              /\ line'[<<r, 1>>] =
                    IF r[1] = request[q].order /\ r[2] \in DOMAIN request[q].add
                    THEN request[q].add[r[2]] ELSE line[<<r, 1>>]
<1> DEFINE asked == request[q]
           o == asked.order
           fresh(l) == /\ RowOf(l)[1] = o
                       /\ RowOf(l)[2] \in DOMAIN asked.add
                       /\ l[2] = Cardinality(LinesFor(RowOf(l))) + 1
<1>1. line' = [l \in Line |-> IF fresh(l) THEN asked.add[RowOf(l)[2]] ELSE line[l]]
  BY DEF LinkLines
<1> TAKE r \in Reservation
<1>2. /\ <<r, 1>> \in Line /\ RowOf(<<r, 1>>) = r
      /\ <<r, 2>> \in Line /\ RowOf(<<r, 2>>) = r
  BY DEF Line, RowOf
<1>3. line[<<r, 2>>] = 0
  BY DEF LinesAreRows
<1>4. CASE r[1] = o /\ r[2] \in DOMAIN asked.add
  <2>1. line[<<r, 1>>] = 0
    <3>1. r = <<o, r[2]>>
      BY <1>4 DEF Reservation
    <3>2. line[<<<<o, r[2]>>, 1>>] = 0
      BY <1>4 DEF NewLinesOK
    <3> QED
      BY <3>1, <3>2
  <2>2. LinesFor(r) = {}
    <3> SUFFICES ASSUME NEW l \in LinesFor(r) PROVE FALSE
      OBVIOUS
    <3>1. l \in Line /\ RowOf(l) = r /\ line[l] > 0
      BY DEF LinesFor
    <3>2. l = <<r, 1>> \/ l = <<r, 2>>
      BY <3>1 DEF Line, RowOf
    <3>3. line[l] = 0
      BY <1>3, <2>1, <3>2
    <3> QED
      BY <3>1, <3>3
  <2>3. Cardinality(LinesFor(r)) = 0
    BY <2>2, FS_EmptySet
  <2>4. fresh(<<r, 1>>) /\ ~fresh(<<r, 2>>)
    BY <1>2, <1>4, <2>3
  <2> HIDE DEF fresh
  <2> QED
    BY <1>1, <1>2, <1>3, <1>4, <2>4
<1>5. CASE ~(r[1] = o /\ r[2] \in DOMAIN asked.add)
  <2>1. ~fresh(<<r, 1>>) /\ ~fresh(<<r, 2>>)
    BY <1>2, <1>5
  <2> HIDE DEF fresh
  <2> QED
    BY <1>1, <1>2, <1>3, <1>5, <2>1
<1> QED
  BY <1>4, <1>5

LEMMA LinkLinesSingle ==
    ASSUME OneAtATime, AnyInv, SingleInv, NEW q \in Request, LinkLines(q), UNCHANGED kitchenVars
    PROVE  SingleInv'
<1> DEFINE asked == request[q]
           o == asked.order
<1>1. /\ asked.pc = "linking" /\ Goto(q, [pc |-> "summing", order |-> o])
      /\ UNCHANGED <<ledgerVars, order, sent, total>>
  BY DEF LinkLines
<1>2. AddOK(asked.add) /\ o \in Checkout
  BY <1>1 DEF AnyInv, RequestsOK, RequestOK, Idle
<1>3. /\ NewLinesOK(o, asked.add) /\ LinesAreRows /\ NeverBelowSent
      /\ \A s \in DOMAIN asked.add : quantity[<<o, s>>] = asked.add[s]
  BY <1>1 DEF SingleInv, PlanOK
<1>4. \A r \in Reservation :
         /\ line'[<<r, 2>>] = 0
         /\ line'[<<r, 1>>] = IF r[1] = o /\ r[2] \in DOMAIN asked.add
                              THEN asked.add[r[2]] ELSE line[<<r, 1>>]
  BY <1>3, LinkWrites
<1>5. quantity' = quantity /\ sent' = sent
  BY <1>1 DEF ledgerVars
<1>6. ASSUME NEW r \in Reservation, r[1] = o, r[2] \in DOMAIN asked.add
      PROVE  quantity[r] = asked.add[r[2]] /\ line[<<r, 1>>] = 0
  <2>1. r = <<o, r[2]>>
    BY <1>6 DEF Reservation
  <2>2. quantity[<<o, r[2]>>] = asked.add[r[2]] /\ line[<<<<o, r[2]>>, 1>>] = 0
    BY <1>3, <1>6 DEF NewLinesOK
  <2> QED
    BY <2>1, <2>2
<1>7. LinesAreRows'
  BY <1>3, <1>4, <1>5, <1>6 DEF LinesAreRows
<1>8. NeverBelowSent'
  <2> SUFFICES ASSUME NEW l \in Line PROVE sent[l] <= line'[l]
    BY <1>5 DEF NeverBelowSent
  <2>1. PICK r \in Reservation : l = <<r, 1>> \/ l = <<r, 2>>
    BY DEF Line
  <2>2. sent[l] <= line[l] /\ sent[l] \in Nat /\ line[l] \in Nat
    BY <1>3 DEF NeverBelowSent, AnyInv, TicketsOK, OrdersOK
  <2>3. CASE l = <<r, 2>>
    <3>1. line[l] = 0 /\ line'[l] = 0
      BY <1>3, <1>4, <2>3 DEF LinesAreRows
    <3> QED
      BY <2>2, <3>1
  <2>4. CASE l = <<r, 1>> /\ r[1] = o /\ r[2] \in DOMAIN asked.add
    <3>1. asked.add[r[2]] \in Nat
      BY <1>2, <2>4, LedgerAssumption DEF AddOK
    <3>2. line'[l] = asked.add[r[2]] /\ line[l] = 0
      BY <1>4, <1>6, <2>4
    <3> QED
      BY <2>2, <3>1, <3>2
  <2>5. CASE l = <<r, 1>> /\ ~(r[1] = o /\ r[2] \in DOMAIN asked.add)
    BY <1>4, <2>2, <2>5
  <2> QED
    BY <2>1, <2>3, <2>4, <2>5
<1>9. PlanOK(q)'
  <2>1. request'[q] = [pc |-> "summing", order |-> o]
    BY <1>1, WentTo DEF AnyInv
  <2> QED
    BY <2>1 DEF PlanOK
<1>10. CountedOnce'
  BY CountedStays DEF SingleInv, kitchenVars
<1> QED
  BY <1>7, <1>8, <1>9, <1>10, OwnPlan DEF SingleInv

LEMMA TotalsSingle ==
    ASSUME OneAtATime, AnyInv, SingleInv, NEW q \in Request,
           ReadTotals(q) \/ WriteTotals(q), UNCHANGED kitchenVars
    PROVE  SingleInv'
<1> DEFINE next == [pc |-> "totalling", order |-> request[q].order,
                    sum |-> Ordered(request[q].order)]
<1>1. Goto(q, Idle) \/ Goto(q, next)
  BY DEF ReadTotals, WriteTotals
<1>2. UNCHANGED <<quantity, line, sent, ticket, portion, prepared, scrapped>>
  BY DEF ReadTotals, WriteTotals, ledgerVars, kitchenVars
<1>3. CASE Goto(q, next)
  <2>1. request'[q] = next
    BY <1>3, WentTo DEF AnyInv
  <2>2. PlanOK(q)'
    BY <2>1 DEF PlanOK
  <2> QED
    BY <1>2, <2>2, ReadKeepsSingle
<1>4. CASE Goto(q, Idle)
  BY <1>2, <1>4, IdlePlan, ReadKeepsSingle DEF AnyInv
<1> QED
  BY <1>1, <1>3, <1>4

\* Payment, cancellation and expiry write no line and no quantity.
LEMMA MeanwhileSingle ==
    ASSUME SingleInv,
           UNCHANGED <<quantity, line, sent, request, ticket, portion, prepared, scrapped>>
    PROVE  SingleInv'
<1>1. LinesAreRows' /\ NeverBelowSent'
  BY DEF SingleInv, LinesAreRows, NeverBelowSent
<1>2. CountedOnce'
  BY CountedStays DEF SingleInv
<1>3. \A q \in Request : PlanOK(q)'
  BY DEF SingleInv, PlanOK, EditOK, NewLinesOK
<1> QED
  BY <1>1, <1>2, <1>3 DEF SingleInv

-----------------------------------------------------------------------------
\* Just what is missing from the kitchen is sent.
LEMMA BeginSendSingle ==
    ASSUME OneAtATime, AnyInv, SingleInv, NEW q \in Request, NEW o \in Checkout, BeginSend(q, o)
    PROVE  SingleInv'
<1> DEFINE pending == {l \in LinesOf(o) : line[l] > sent[l]}
           cut == [l \in Line |-> IF l \in pending THEN line[l] - sent[l] ELSE 0]
           next == [pc |-> "sending", order |-> o, portion |-> cut]
<1>1. /\ Goto(q, next)
      /\ UNCHANGED <<ledgerVars, order, linked, line, sent, total, kitchenVars>>
  BY DEF BeginSend
<1>2. \A l \in Line : sent[l] + cut[l] <= line[l]
  BY DEF SingleInv, NeverBelowSent, AnyInv, OrdersOK, TicketsOK
<1>3. request'[q] = next
  BY <1>1, WentTo DEF AnyInv
<1> HIDE DEF cut
<1>4. PlanOK(q)'
  BY <1>1, <1>2, <1>3 DEF PlanOK
<1> QED
  BY <1>1, <1>4, ReadKeepsSingle DEF ledgerVars, kitchenVars

\* It is still missing when the ticket is written.
LEMMA CommitSendSingle ==
    ASSUME OneAtATime, AnyInv, SingleInv, NEW q \in Request, CommitSend(q)
    PROVE  SingleInv'
<1> DEFINE asked == request[q]
<1>1. /\ asked.pc = "sending" /\ Goto(q, Idle)
      /\ UNCHANGED <<ledgerVars, order, linked, line, total, prepared, scrapped, crashes>>
  BY DEF CommitSend
<1>2. PlanOK(q)'
  BY <1>1, IdlePlan DEF AnyInv
<1>3. CASE UNCHANGED <<ticket, portion, sent>>
  BY <1>1, <1>2, <1>3, ReadKeepsSingle DEF ledgerVars
<1>4. ASSUME NEW k \in Ticket, ticket[k] = "NONE",
             ticket' = [ticket EXCEPT ![k] = "PENDING"],
             portion' = [portion EXCEPT ![k] = asked.portion],
             sent' = [l \in Line |-> sent[l] + asked.portion[l]]
      PROVE  SingleInv'
  <2>1. LinesAreRows'
    BY <1>1 DEF SingleInv, LinesAreRows, ledgerVars
  <2>2. NeverBelowSent'
    BY <1>1, <1>4 DEF SingleInv, PlanOK, NeverBelowSent
  <2>3. /\ \A x \in Ticket : x # k => ticket'[x] = ticket[x] /\ portion'[x] = portion[x]
        /\ ticket'[k] = "PENDING"
    BY <1>4 DEF AnyInv, TicketsOK
  <2>4. ASSUME NEW St \in {{"READY", "COMPLETED"}, {"CANCELLED"}}, NEW l \in Line
        PROVE  OnTickets(St, l)' = OnTickets(St, l)
    <3>1. "NONE" \notin St /\ "PENDING" \notin St
      OBVIOUS
    <3>2. /\ {x \in Ticket : ticket'[x] \in St} = {x \in Ticket : ticket[x] \in St}
          /\ \A x \in Ticket : ticket[x] \in St => portion'[x][l] = portion[x][l]
      BY <1>4, <2>3, <3>1
    <3> QED
      BY <3>2, OnTicketsSame
  <2>5. CountedOnce'
    <3> SUFFICES ASSUME NEW l \in Line
                 PROVE  /\ prepared'[l] = OnTickets({"READY", "COMPLETED"}, l)'
                        /\ scrapped'[l] = OnTickets({"CANCELLED"}, l)'
      BY DEF CountedOnce
    <3> QED
      BY <1>1, <2>4 DEF SingleInv, CountedOnce
  <2> QED
    BY <1>2, <2>1, <2>2, <2>5, OwnPlan DEF SingleInv
<1> QED
  BY <1>3, <1>4 DEF CommitSend

LEMMA BeginMoveSingle ==
    ASSUME OneAtATime, AnyInv, SingleInv, NEW q \in Request, NEW k \in Ticket,
           NEW st \in TicketStatus, BeginMove(q, k, st)
    PROVE  SingleInv'
<1> DEFINE next == [pc |-> "moving", ticket |-> k, to |-> st]
<1>1. /\ Goto(q, next) /\ st \in NextStatuses(ticket[k])
      /\ UNCHANGED <<ledgerVars, order, linked, line, sent, total, kitchenVars>>
  BY DEF BeginMove
<1>2. request'[q] = next /\ ticket' = ticket
  BY <1>1, WentTo DEF AnyInv, kitchenVars
<1>3. PlanOK(q)'
  BY <1>1, <1>2 DEF PlanOK
<1> QED
  BY <1>1, <1>3, ReadKeepsSingle DEF ledgerVars, kitchenVars

\* A ticket becomes ready, or cancelled, once: each is reached from before it only.
LEMMA CommitMoveSingle ==
    ASSUME OneAtATime, AnyInv, SingleInv, NEW q \in Request, CommitMove(q)
    PROVE  SingleInv'
<1> DEFINE asked == request[q]
           k == asked.ticket
           to == asked.to
           counted(f, st) == [l \in Line |-> f[l] + (IF to = st THEN portion[k][l] ELSE 0)]
<1>1. /\ asked.pc = "moving" /\ Goto(q, Idle)
      /\ ticket' = [ticket EXCEPT ![k] = to]
      /\ prepared' = counted(prepared, "READY")
      /\ scrapped' = counted(scrapped, "CANCELLED")
      /\ UNCHANGED <<ledgerVars, order, linked, line, sent, total, portion, crashes>>
  BY DEF CommitMove
<1>2. /\ k \in Ticket
      /\ portion \in [Ticket -> [Line -> Nat]]
      /\ ticket'[k] = to
      /\ \A x \in Ticket : x # k => ticket'[x] = ticket[x]
  BY <1>1 DEF AnyInv, RequestsOK, RequestOK, Idle, TicketsOK
<1>3. to \in NextStatuses(ticket[k])
  BY <1>1 DEF SingleInv, PlanOK
<1>4. /\ to = "READY" => ticket[k] = "PREPARING"
      /\ to = "COMPLETED" => ticket[k] = "READY"
      /\ to = "CANCELLED" => ticket[k] \in {"PENDING", "ACCEPTED", "PREPARING"}
      /\ to \notin {"READY", "COMPLETED", "CANCELLED"} => ticket[k] \in {"PENDING", "ACCEPTED"}
  BY <1>3 DEF NextStatuses
<1>5. ASSUME NEW l \in Line
      PROVE  OnTickets({"READY", "COMPLETED"}, l)'
                = OnTickets({"READY", "COMPLETED"}, l) + (IF to = "READY" THEN portion[k][l] ELSE 0)
  <2> DEFINE St == {"READY", "COMPLETED"}
  <2>1. CASE to = "READY"
    <3>1. ticket[k] \notin St
      BY <1>4, <2>1
    <3>2. {x \in Ticket : ticket'[x] \in St} = {x \in Ticket : ticket[x] \in St} \cup {k}
      BY <1>2, <2>1
    <3>3. OnTickets(St, l)' = OnTickets(St, l) + portion'[k][l]
      <4> HIDE DEF St
      <4> QED
        BY <1>1, <1>2, <3>1, <3>2, OnTicketsAdds
    <3> QED
      BY <1>1, <2>1, <3>3
  <2>2. CASE to # "READY"
    <3>1. {x \in Ticket : ticket'[x] \in St} = {x \in Ticket : ticket[x] \in St}
      BY <1>2, <1>4, <2>2
    <3>2. OnTickets(St, l)' = OnTickets(St, l)
      <4> HIDE DEF St
      <4> QED
        BY <1>1, <3>1, OnTicketsSame
    <3>3. OnTickets(St, l) = prepared[l] /\ prepared[l] \in Nat
      BY DEF SingleInv, CountedOnce, AnyInv, TicketsOK
    <3> QED
      BY <2>2, <3>2, <3>3
  <2> QED
    BY <2>1, <2>2
<1>6. ASSUME NEW l \in Line
      PROVE  OnTickets({"CANCELLED"}, l)'
                = OnTickets({"CANCELLED"}, l) + (IF to = "CANCELLED" THEN portion[k][l] ELSE 0)
  <2> DEFINE St == {"CANCELLED"}
  <2>1. CASE to = "CANCELLED"
    <3>1. ticket[k] \notin St
      BY <1>4, <2>1
    <3>2. {x \in Ticket : ticket'[x] \in St} = {x \in Ticket : ticket[x] \in St} \cup {k}
      BY <1>2, <2>1
    <3>3. OnTickets(St, l)' = OnTickets(St, l) + portion'[k][l]
      <4> HIDE DEF St
      <4> QED
        BY <1>1, <1>2, <3>1, <3>2, OnTicketsAdds
    <3> QED
      BY <1>1, <2>1, <3>3
  <2>2. CASE to # "CANCELLED"
    <3>1. {x \in Ticket : ticket'[x] \in St} = {x \in Ticket : ticket[x] \in St}
      BY <1>2, <1>4, <2>2
    <3>2. OnTickets(St, l)' = OnTickets(St, l)
      <4> HIDE DEF St
      <4> QED
        BY <1>1, <3>1, OnTicketsSame
    <3>3. OnTickets(St, l) = scrapped[l] /\ scrapped[l] \in Nat
      BY DEF SingleInv, CountedOnce, AnyInv, TicketsOK
    <3> QED
      BY <2>2, <3>2, <3>3
  <2> QED
    BY <2>1, <2>2
<1>7. CountedOnce'
  <2> SUFFICES ASSUME NEW l \in Line
               PROVE  /\ prepared'[l] = OnTickets({"READY", "COMPLETED"}, l)'
                      /\ scrapped'[l] = OnTickets({"CANCELLED"}, l)'
    BY DEF CountedOnce
  <2> QED
    BY <1>1, <1>5, <1>6 DEF SingleInv, CountedOnce
<1>8. LinesAreRows' /\ NeverBelowSent'
  BY <1>1 DEF SingleInv, LinesAreRows, NeverBelowSent, ledgerVars
<1>9. PlanOK(q)'
  BY <1>1, IdlePlan DEF AnyInv
<1> QED
  BY <1>7, <1>8, <1>9, OwnPlan DEF SingleInv

LEMMA CrashSingle ==
    ASSUME OneAtATime, AnyInv, SingleInv, NEW q \in Request, CrashRequest(q)
    PROVE  SingleInv'
<1>1. /\ Goto(q, Idle)
      /\ UNCHANGED <<quantity, line, sent, ticket, portion, prepared, scrapped>>
  BY DEF CrashRequest, ledgerVars
<1> QED
  BY <1>1, IdlePlan, ReadKeepsSingle DEF AnyInv

LEMMA KitchenInitSingle == KitchenInit => SingleInv
<1> SUFFICES ASSUME KitchenInit PROVE SingleInv
  OBVIOUS
<1>1. /\ line = [l \in Line |-> IF l[2] = 1 THEN quantity[RowOf(l)] ELSE 0]
      /\ sent = [l \in Line |-> 0]
      /\ request = [q \in Request |-> Idle]
      /\ ticket = [k \in Ticket |-> "NONE"]
      /\ prepared = [l \in Line |-> 0]
      /\ scrapped = [l \in Line |-> 0]
  BY DEF KitchenInit, PosOrdersInit
<1>2. line \in [Line -> Nat]
  BY KitchenInitInv DEF AnyInv, OrdersOK
<1>3. LinesAreRows
  <2> SUFFICES ASSUME NEW r \in Reservation
               PROVE  line[<<r, 2>>] = 0 /\ line[<<r, 1>>] = quantity[r]
    BY DEF LinesAreRows
  <2>1. <<r, 1>> \in Line /\ <<r, 2>> \in Line /\ RowOf(<<r, 1>>) = r
    BY DEF Line, RowOf
  <2> QED
    BY <1>1, <2>1
<1>4. NeverBelowSent
  BY <1>1, <1>2 DEF NeverBelowSent
<1>5. CountedOnce
  <2>1. ASSUME NEW St \in {{"READY", "COMPLETED"}, {"CANCELLED"}}, NEW l
        PROVE  OnTickets(St, l) = 0
    <3>1. {x \in Ticket : ticket[x] \in St} = {}
      BY <1>1
    <3>2. OnTickets(St, l) = Cardinality({})
      BY <3>1 DEF OnTickets
    <3> QED
      BY <3>2, FS_EmptySet
  <2> QED
    BY <1>1, <2>1 DEF CountedOnce
<1>6. \A q \in Request : PlanOK(q)
  BY <1>1 DEF PlanOK, Idle
<1> QED
  BY <1>3, <1>4, <1>5, <1>6 DEF SingleInv

LEMMA KitchenStepSingle ==
    OneAtATime /\ AnyInv /\ SingleInv /\ [KitchenNext]_counterVars => SingleInv'
<1> SUFFICES ASSUME OneAtATime, AnyInv, SingleInv, [KitchenNext]_counterVars PROVE SingleInv'
  OBVIOUS
<1>1. CASE UNCHANGED counterVars
  BY <1>1, MeanwhileSingle DEF counterVars, posOrderVars, kitchenVars, ledgerVars
<1>2. CASE OrderStep /\ UNCHANGED kitchenVars
  <2>1. ASSUME NEW q \in Request, NEW o \in Checkout, NEW W \in SUBSET Stock,
               NEW want \in [W -> Quantity], BeginUpdate(q, o, want)
        PROVE  SingleInv'
    BY <1>2, <2>1, BeginUpdateSingle
  <2>2. ASSUME NEW q \in Request, ReadRows(q) \/ WriteRows(q)
        PROVE  SingleInv'
    BY <1>2, <2>2, ReadRowsSingle, WriteRowsSingle
  <2>3. ASSUME NEW q \in Request, BookLines(q) \/ LinkLines(q)
        PROVE  SingleInv'
    BY <1>2, <2>3, BookLinesSingle, LinkLinesSingle
  <2>4. ASSUME NEW q \in Request, ReadTotals(q) \/ WriteTotals(q)
        PROVE  SingleInv'
    BY <1>2, <2>4, TotalsSingle
  <2>5. ASSUME NEW o \in Checkout, Pay(o) \/ Cancel(o) \/ Expire(o)
        PROVE  SingleInv'
    <3>1. UNCHANGED <<quantity, line, sent, request>>
      BY <2>5 DEF Pay, Cancel, Expire, SellRows, CloseRows
    <3> QED
      BY <1>2, <3>1, MeanwhileSingle DEF kitchenVars
  <2> QED
    BY <1>2, <2>1, <2>2, <2>3, <2>4, <2>5 DEF OrderStep
<1>3. ASSUME NEW q \in Request, NEW o \in Checkout, BeginSend(q, o)
      PROVE  SingleInv'
  BY <1>3, BeginSendSingle
<1>4. ASSUME NEW q \in Request, NEW k \in Ticket, NEW st \in TicketStatus, BeginMove(q, k, st)
      PROVE  SingleInv'
  BY <1>4, BeginMoveSingle
<1>5. ASSUME NEW q \in Request, CommitSend(q) \/ CommitMove(q) \/ CrashRequest(q)
      PROVE  SingleInv'
  BY <1>5, CommitSendSingle, CommitMoveSingle, CrashSingle
<1> QED
  BY <1>1, <1>2, <1>3, <1>4, <1>5 DEF KitchenNext

\* While requests do not overlap, and whatever dies: the kitchen never gets more
\* of a line than was ordered, and no edit takes back what it has.
THEOREM KitchenGetsWhatWasOrdered == OneAtATime => (CounterSpec => []NeverBelowSent)
<1> SUFFICES ASSUME OneAtATime PROVE CounterSpec => []NeverBelowSent
  OBVIOUS
<1>1. SingleInv => NeverBelowSent
  BY DEF SingleInv
<1>2. AnyInv /\ SingleInv /\ [KitchenNext]_counterVars => SingleInv'
  BY KitchenStepSingle
<1> QED
  BY <1>1, <1>2, KitchenInitInv, KitchenStepInv, KitchenInitSingle, PTL DEF CounterSpec

\* The units of a ticket are counted once, as prepared or as cancelled.
THEOREM UnitsCountedOnce == OneAtATime => (CounterSpec => []CountedOnce)
<1> SUFFICES ASSUME OneAtATime PROVE CounterSpec => []CountedOnce
  OBVIOUS
<1>1. SingleInv => CountedOnce
  BY DEF SingleInv
<1>2. AnyInv /\ SingleInv /\ [KitchenNext]_counterVars => SingleInv'
  BY KitchenStepSingle
<1> QED
  BY <1>1, <1>2, KitchenInitInv, KitchenStepInv, KitchenInitSingle, PTL DEF CounterSpec

\* Every move is one of NEXT_STATUSES from where the ticket is by then.
THEOREM OneTicketMover == OneAtATime => (CounterSpec => TicketsMoveForward)
<1> SUFFICES ASSUME OneAtATime PROVE CounterSpec => TicketsMoveForward
  OBVIOUS
<1> DEFINE Forward == \A k \in Ticket :
              ticket[k] \in {"NONE", ticket'[k]} \/ ticket'[k] \in NextStatuses(ticket[k])
<1>1. AnyInv /\ SingleInv /\ [KitchenNext]_counterVars => SingleInv'
  BY KitchenStepSingle
<1>2. ASSUME AnyInv, SingleInv, KitchenNext PROVE Forward
  <2>1. CASE UNCHANGED ticket
    BY <2>1
  <2>2. ASSUME NEW q \in Request, CommitSend(q) PROVE Forward
    <3>1. \/ UNCHANGED ticket
          \/ \E k \in Ticket : ticket[k] = "NONE" /\ ticket' = [ticket EXCEPT ![k] = "PENDING"]
      BY <2>2 DEF CommitSend
    <3> QED
      BY <1>2, <3>1 DEF AnyInv, TicketsOK
  <2>3. ASSUME NEW q \in Request, CommitMove(q) PROVE Forward
    <3>1. /\ ticket' = [ticket EXCEPT ![request[q].ticket] = request[q].to]
          /\ request[q].to \in NextStatuses(ticket[request[q].ticket])
      BY <1>2, <2>3 DEF CommitMove, SingleInv, PlanOK
    <3> QED
      BY <1>2, <3>1 DEF AnyInv, TicketsOK
  <2> QED
    BY <1>2, <2>1, <2>2, <2>3
       DEF KitchenNext, kitchenVars, BeginSend, BeginMove, CrashRequest
<1>3. AnyInv /\ SingleInv /\ [KitchenNext]_counterVars => [Forward]_counterVars
  BY <1>2
<1> QED
  BY <1>1, <1>3, KitchenInitInv, KitchenStepInv, KitchenInitSingle,
     PTL DEF CounterSpec, TicketsMoveForward

-----------------------------------------------------------------------------
\* A fresh edit is a resize of live rows: those that stay and those that go.
LEMMA WriteRowsResizes ==
    ASSUME AnyInv, SingleInv, ReadsAreFresh, NEW q \in Request, WriteRows(q),
           ~UNCHANGED ledgerVars
    PROVE  LedgerNext
<1> DEFINE asked == request[q]
           o == asked.order
           change == asked.change
           new == [l \in DOMAIN change |-> asked.held[l] + change[l]]
           here(r) == <<r, 1>> \in DOMAIN change
           R == {r \in Reservation : here(r) /\ new[<<r, 1>>] > 0}
           D == {r \in Reservation : here(r) /\ new[<<r, 1>>] = 0}
           f == [r \in R |-> new[<<r, 1>>]]
           more(s) == Held(f, R, s) - Held(quantity, R \cup D, s)
<1>1. asked.pc = "writing" /\ CanAdjust(change, new) /\ AdjustRows(change, new)
  BY DEF WriteRows
<1>2. ChangeOK(o, change) /\ o \in Checkout
  BY <1>1 DEF AnyInv, RequestsOK, RequestOK, Idle
<1>3. /\ EditOK(o, change) /\ LinesAreRows
      /\ \A l \in DOMAIN change : asked.held[l] = line[l]
  BY <1>1 DEF SingleInv, PlanOK
<1>4. \A l \in DOMAIN change : new[l] = line[l] + change[l]
  BY <1>3
<1>5. \A l \in DOMAIN change : status[RowOf(l)] = "ACTIVE"
  BY <1>1 DEF ReadsAreFresh
<1> HIDE DEF new
<1>6. /\ line \in [Line -> Nat] /\ quantity \in Quantities
      /\ reservedStock \in [Stock -> Int] /\ totalStock \in [Stock -> Int]
      /\ soldStock \in [Stock -> Nat]
      /\ status \in [Reservation -> ReservationStatus]
      /\ NoOversell
  BY DEF AnyInv, OrdersOK, StockOK, Quantities
<1>7. /\ \A r \in Reservation :
            /\ quantity'[r] = IF here(r) /\ new[<<r, 1>>] > 0 THEN new[<<r, 1>>] ELSE quantity[r]
            /\ status'[r] = IF here(r) /\ new[<<r, 1>>] = 0 THEN "RELEASED" ELSE status[r]
      /\ \A s \in Stock :
            reservedStock'[s] = reservedStock[s] +
               (IF <<<<o, s>>, 1>> \in DOMAIN change THEN change[<<<<o, s>>, 1>>] ELSE 0)
  BY <1>1, <1>2, <1>3, <1>4, <1>6, AdjustWrites
<1>8. \A l \in DOMAIN change :
         /\ RowOf(l) \in Reservation /\ RowOf(l)[1] = o /\ l = <<RowOf(l), 1>>
         /\ line[l] = quantity[RowOf(l)]
         /\ new[l] \in Quantity \cup {0} /\ new[l] \in Nat
         /\ change[l] \in Int /\ change[l] = new[l] - line[l] /\ line[l] \in Nat
  <2>1. Quantity \cup {0} \subseteq Nat
    BY LedgerAssumption
  <2>2. \A l \in DOMAIN change : line[l] \in Nat /\ change[l] \in Int
    BY <1>2, <1>6 DEF ChangeOK
  <2>3. \A l \in DOMAIN change : new[l] \in Quantity \cup {0} /\ new[l] \in Nat
    BY <1>3, <1>4, <2>1 DEF EditOK
  <2>4. \A l \in DOMAIN change : change[l] = new[l] - line[l]
    BY <1>4, <2>2
  <2> QED
    BY <1>2, <1>3, <2>2, <2>3, <2>4, FirstLines
<1>9. /\ R \in SUBSET WithStatus("ACTIVE") /\ D \in SUBSET WithStatus("ACTIVE")
      /\ R \cap D = {} /\ \A r \in R \cup D : r[1] = o
      /\ R \in SUBSET Reservation /\ R \cup D \in SUBSET Reservation
  <2>1. \A r \in Reservation : here(r) => status[r] = "ACTIVE" /\ r[1] = o
    BY <1>5, <1>8 DEF RowOf
  <2> QED
    BY <2>1 DEF WithStatus
<1>10. f \in [R -> Quantity]
  <2>1. \A r \in R : new[<<r, 1>>] \in Quantity
    BY <1>8
  <2> QED
    BY <2>1
<1>11. ASSUME NEW s \in Stock
       PROVE  /\ more(s) = IF <<<<o, s>>, 1>> \in DOMAIN change
                           THEN change[<<<<o, s>>, 1>>] ELSE 0
              /\ more(s) <= totalStock[s] - soldStock[s] - reservedStock[s]
  <2> DEFINE t == <<o, s>>
             l == <<t, 1>>
  <2>1. t \in Reservation /\ RowOf(l) = t /\ t[2] = s
    BY <1>2 DEF Reservation, RowOf
  <2>2. \A r \in Reservation : r[1] = o /\ r[2] = s => r = t
    BY DEF Reservation
  <2>3. reservedStock[s] + soldStock[s] <= totalStock[s]
    BY <1>6 DEF NoOversell
  <2>4. CASE l \notin DOMAIN change
    <3>1. \A r \in R \cup D : r[2] # s
      BY <1>9, <2>2, <2>4
    <3>2. Held(f, R, s) = 0 /\ Held(quantity, R \cup D, s) = 0
      <4> HIDE DEF R, D, f
      <4> QED
        BY <1>9, <3>1, HeldNothing
    <3> QED
      BY <1>6, <2>3, <2>4, <3>2
  <2>5. CASE l \in DOMAIN change
    <3>1. t \in R \cup D
      BY <1>8, <2>1, <2>5
    <3>2. Held(quantity, R \cup D, s) = quantity[t]
      <4> HIDE DEF R, D
      <4> QED
        BY <1>2, <1>6, <1>9, <3>1, HeldOne
    <3>3. Held(f, R, s) = new[l]
      <4>1. CASE new[l] > 0
        <5> DEFINE g == [r \in Reservation |-> IF r \in R THEN f[r] ELSE 0]
        <5>1. t \in R /\ f[t] = new[l]
          BY <2>1, <2>5, <4>1
        <5>2. g \in Quantities /\ g[t] = new[l] /\ \A r \in R : g[r] = f[r]
          <6>1. \A r \in R : f[r] \in Nat
            <7> HIDE DEF R, f
            <7> QED
              BY <1>10, LedgerAssumption
          <6> HIDE DEF R, f
          <6> QED
            BY <1>9, <2>1, <5>1, <6>1 DEF Quantities
        <5> HIDE DEF R, D, f, g
        <5>3. Held(g, R, s) = g[t]
          BY <1>2, <1>9, <5>1, <5>2, HeldOne
        <5>4. Held(f, R, s) = Held(g, R, s)
          BY <1>9, <5>2, HeldSame
        <5> QED
          BY <5>2, <5>3, <5>4
      <4>2. CASE new[l] = 0
        <5>1. \A r \in R : r[2] # s
          BY <1>9, <2>2, <4>2
        <5>2. Held(f, R, s) = 0
          <6> HIDE DEF R, D, f
          <6> QED
            BY <1>9, <5>1, HeldNothing
        <5> QED
          BY <4>2, <5>2
      <4> QED
        BY <1>8, <2>5, <4>1, <4>2
    <3>4. change[l] = new[l] - quantity[t] /\ change[l] \in Int
      BY <1>8, <2>1, <2>5
    <3>5. more(s) = change[l]
      BY <3>2, <3>3, <3>4
    <3>6. change[l] <= AvailableStock(s)
      BY <1>1, <2>1, <2>5 DEF CanAdjust
    <3>7. change[l] <= totalStock[s] - soldStock[s] - reservedStock[s]
      BY <1>6, <2>3, <3>4, <3>6 DEF AvailableStock
    <3> QED
      BY <2>5, <3>5, <3>7
  <2> QED
    BY <2>4, <2>5
<1>12. Resize(f, D)
  <2>1. DOMAIN f = R
    OBVIOUS
  <2>2. reservedStock' = [s \in Stock |-> reservedStock[s] + more(s)]
    <3>1. \A s \in Stock : reservedStock'[s] = reservedStock[s] + more(s)
      BY <1>7, <1>11
    <3>2. DOMAIN reservedStock' = Stock
          /\ reservedStock' = [s \in Stock |-> reservedStock'[s]]
      BY <1>1 DEF AdjustRows
    <3> HIDE DEF more
    <3> QED
      BY <3>1, <3>2
  <2>3. quantity' = [r \in Reservation |-> IF r \in R THEN f[r] ELSE quantity[r]]
    <3>1. \A r \in Reservation : quantity'[r] = IF r \in R THEN f[r] ELSE quantity[r]
      BY <1>7
    <3>2. quantity' = [r \in Reservation |-> quantity'[r]]
      BY <1>1 DEF AdjustRows
    <3> HIDE DEF R, f
    <3> QED
      BY <3>1, <3>2
  <2>4. status' = [r \in Reservation |-> IF r \in D THEN "RELEASED" ELSE status[r]]
    <3>1. \A r \in Reservation : status'[r] = IF r \in D THEN "RELEASED" ELSE status[r]
      BY <1>7
    <3>2. status' = [r \in Reservation |-> status'[r]]
      BY <1>1 DEF AdjustRows
    <3> HIDE DEF D
    <3> QED
      BY <3>1, <3>2
  <2>5. UNCHANGED <<totalStock, soldStock, returned>>
    BY <1>1 DEF AdjustRows
  <2> HIDE DEF R, D, f
  <2> QED
    BY <1>9, <1>11, <2>1, <2>2, <2>3, <2>4, <2>5 DEF Resize
<1> HIDE DEF R, D, f
<1> QED
  BY <1>9, <1>10, <1>12 DEF LedgerNext

LEMMA BookLinesBooks ==
    ASSUME AnyInv, NEW q \in Request, BookLines(q), ~UNCHANGED ledgerVars
    PROVE  LedgerNext
<1> DEFINE asked == request[q]
           o == asked.order
           kept == {s \in DOMAIN asked.add :
                       status[<<o, s>>] = "ACTIVE" /\ quantity[<<o, s>>] = asked.add[s]}
           V == DOMAIN asked.add \ kept
           new == [s \in V |-> asked.add[s]]
<1>1. /\ asked.pc = "booking" /\ BookRows(o, new, {})
      /\ \A s \in V : status[<<o, s>>] = "NONE" /\ new[s] <= AvailableStock(s)
  BY DEF BookLines
<1>2. o \in Checkout /\ AddOK(asked.add)
  BY <1>1 DEF AnyInv, RequestsOK, RequestOK, Idle
<1>3. V \in SUBSET Stock /\ new \in [V -> Quantity] /\ DOMAIN new = V
  BY <1>2 DEF AddOK
<1> HIDE DEF V, new
<1>4. ASSUME NEW s \in V
      PROVE  new[s] <= totalStock[s] - soldStock[s] - (reservedStock[s] - Held(quantity, {}, s))
  <2>1. Held(quantity, {}, s) = 0
    BY <1>3, HeldNothing
  <2>2. new[s] \in Nat \ {0} /\ new[s] <= AvailableStock(s)
    BY <1>1, <1>3, LedgerAssumption
  <2>3. /\ reservedStock[s] \in Int /\ soldStock[s] \in Nat /\ totalStock[s] \in Int
    BY <1>3 DEF AnyInv, StockOK
  <2> QED
    BY <2>1, <2>2, <2>3 DEF AvailableStock
<1>5. Book(o, new, {})
  BY <1>1, <1>3, <1>4 DEF Book
<1> QED
  BY <1>2, <1>3, <1>5 DEF LedgerNext

LEMMA MeanwhileContract ==
    ASSUME NEW o \in Checkout, Pay(o) \/ Cancel(o) \/ Expire(o)
    PROVE  LedgerNext
<1>1. LinkedRows(o) \in SUBSET WithStatus("ACTIVE") /\ LiveRows(o) \in SUBSET WithStatus("ACTIVE")
  BY DEF LinkedRows, LiveRows, Rows, WithStatus
<1>2. CASE Pay(o)
  <2> DEFINE S == {r \in LinkedRows(o) : quantity[r] <= reservedStock[r[2]]}
  <2>1. S \in SUBSET WithStatus("ACTIVE") /\ Sell(S)
    BY <1>1, <1>2 DEF Pay, Sell
  <2> QED
    BY <2>1 DEF LedgerNext
<1>3. CASE Cancel(o)
  <2>1. Close(LinkedRows(o), "RELEASED")
    BY <1>1, <1>3 DEF Cancel, Close
  <2> QED
    BY <1>1, <2>1 DEF LedgerNext
<1>4. CASE Expire(o)
  <2>1. PICK D \in SUBSET LiveRows(o) : CloseRows(D, "EXPIRED")
    BY <1>4 DEF Expire
  <2>2. D \in SUBSET WithStatus("ACTIVE") /\ Close(D, "EXPIRED")
    BY <1>1, <2>1 DEF Close
  <2> QED
    BY <2>2 DEF LedgerNext
<1> QED
  BY <1>2, <1>3, <1>4

\* Edits, payments, cancellations and the worker write to the stock only what
\* the stock engine's contract allows, unless an edit relies on a reservation
\* that changed after it was read (adjustReservedQuantity).
THEOREM CounterKeepsContract == OneAtATime => (CounterSpec => KeepsLedgerContract)
<1> SUFFICES ASSUME OneAtATime PROVE CounterSpec => KeepsLedgerContract
  OBVIOUS
<1>1. AnyInv /\ SingleInv /\ [KitchenNext]_counterVars => SingleInv'
  BY KitchenStepSingle
<1>2. ASSUME AnyInv, SingleInv, KitchenNext, ReadsAreFresh, ~UNCHANGED ledgerVars
      PROVE  LedgerNext
  <2>1. \/ \E q \in Request : WriteRows(q) \/ BookLines(q)
        \/ \E o \in Checkout : Pay(o) \/ Cancel(o) \/ Expire(o)
    BY <1>2 DEF KitchenNext, OrderStep, BeginUpdate, ReadRows, LinkLines, ReadTotals,
                WriteTotals, BeginSend, CommitSend, BeginMove, CommitMove, CrashRequest
  <2> QED
    BY <1>2, <2>1, WriteRowsResizes, BookLinesBooks, MeanwhileContract
<1>3. AnyInv /\ SingleInv /\ [KitchenNext]_counterVars => [ReadsAreFresh => LedgerNext]_ledgerVars
  <2>1. UNCHANGED counterVars => UNCHANGED ledgerVars
    BY DEF counterVars
  <2> QED
    BY <1>2, <2>1
<1> QED
  BY <1>1, <1>3, KitchenInitInv, KitchenStepInv, KitchenInitSingle,
     PTL DEF CounterSpec, KeepsLedgerContract

-----------------------------------------------------------------------------
(* 3. One request at a time, which does not die                            *)
-----------------------------------------------------------------------------

\* Request q has booked row r and not yet linked it.
Linking(q, r) ==
    /\ request[q].pc = "linking"
    /\ request[q].order = r[1]
    /\ r[2] \in DOMAIN request[q].add

\* Of an open order the rows with a line are live and linked, and no others are
\* live but those just booked.
LiveInv ==
    \A r \in Reservation : order[r[1]] = "PENDING_PAYMENT" =>
        /\ line[<<r, 1>>] > 0 => status[r] = "ACTIVE" /\ r \in linked
        /\ line[<<r, 1>>] = 0 /\ status[r] = "ACTIVE" => \E q \in Request : Linking(q, r)
        /\ \A q \in Request : Linking(q, r) => status[r] = "ACTIVE"

\* A step of a request that neither books nor links.
LEMMA StaysLive ==
    ASSUME OneAtATime, LiveInv, NEW q \in Request,
           request[q].pc # "linking", request'[q].pc # "linking",
           UNCHANGED <<order, status, linked, line>>
    PROVE  LiveInv'
<1>1. \A x \in Request, r \in Reservation : ~Linking(x, r) /\ ~Linking(x, r)'
  BY DEF OneAtATime, Linking
<1> QED
  BY <1>1 DEF LiveInv

LEMMA WriteRowsLive ==
    ASSUME OneAtATime, AnyInv, SingleInv, LiveInv, NEW q \in Request, WriteRows(q)
    PROVE  LiveInv'
<1> DEFINE asked == request[q]
           o == asked.order
           change == asked.change
           new == [l \in DOMAIN change |-> asked.held[l] + change[l]]
           next == AfterRows(q, o, asked.add)
<1>1. /\ asked.pc = "writing"
      /\ \/ AdjustRows(change, new) /\ Goto(q, next)
         \/ Goto(q, Idle) /\ UNCHANGED <<ledgerVars, line>>
      /\ UNCHANGED <<order, linked, sent, total>>
  BY DEF WriteRows
<1>2. request'[q].pc # "linking"
  <2>1. request'[q] \in {next, Idle}
    BY <1>1, WentTo DEF AnyInv
  <2> QED
    BY <2>1 DEF AfterRows, Idle
<1>3. \A x \in Request, r \in Reservation : ~Linking(x, r) /\ ~Linking(x, r)'
  BY <1>1, <1>2 DEF OneAtATime, Linking
<1>4. CASE Goto(q, Idle) /\ UNCHANGED <<ledgerVars, line>>
  BY <1>1, <1>2, <1>4, StaysLive DEF ledgerVars
<1>5. CASE AdjustRows(change, new)
  <2>1. ChangeOK(o, change) /\ o \in Checkout
    BY <1>1 DEF AnyInv, RequestsOK, RequestOK, Idle
  <2>2. /\ EditOK(o, change) /\ LinesAreRows
        /\ \A l \in DOMAIN change : asked.held[l] = line[l]
    BY <1>1 DEF SingleInv, PlanOK
  <2>3. \A l \in DOMAIN change : new[l] = line[l] + change[l]
    BY <2>2
  <2> HIDE DEF new
  <2>4. line \in [Line -> Nat]
    BY DEF AnyInv, OrdersOK
  <2>5. /\ line' = [l \in Line |-> IF l \in DOMAIN change THEN new[l] ELSE line[l]]
        /\ \A r \in Reservation :
              status'[r] = IF <<r, 1>> \in DOMAIN change /\ new[<<r, 1>>] = 0
                           THEN "RELEASED" ELSE status[r]
    BY <1>5, <2>1, <2>2, <2>3, <2>4, AdjustWrites
  <2>6. \A l \in DOMAIN change : line[l] > 0
    BY <2>2 DEF EditOK
  <2> SUFFICES ASSUME NEW r \in Reservation, order[r[1]] = "PENDING_PAYMENT"
               PROVE  /\ line'[<<r, 1>>] > 0 => status'[r] = "ACTIVE" /\ r \in linked
                      /\ line'[<<r, 1>>] = 0 => status'[r] # "ACTIVE"
    BY <1>1, <1>3 DEF LiveInv
  <2>7. /\ line[<<r, 1>>] > 0 => status[r] = "ACTIVE" /\ r \in linked
        /\ line[<<r, 1>>] = 0 => status[r] # "ACTIVE"
        /\ <<r, 1>> \in Line
    BY <1>3 DEF LiveInv, Line
  <2>8. CASE <<r, 1>> \in DOMAIN change
    BY <2>5, <2>6, <2>7, <2>8
  <2>9. CASE <<r, 1>> \notin DOMAIN change
    BY <2>5, <2>7, <2>9
  <2> QED
    BY <2>8, <2>9
<1> QED
  BY <1>1, <1>4, <1>5

LEMMA BookLinesLive ==
    ASSUME OneAtATime, AnyInv, LiveInv, NEW q \in Request, BookLines(q)
    PROVE  LiveInv'
<1> DEFINE asked == request[q]
           o == asked.order
           kept == {s \in DOMAIN asked.add :
                       status[<<o, s>>] = "ACTIVE" /\ quantity[<<o, s>>] = asked.add[s]}
           V == DOMAIN asked.add \ kept
           new == [s \in V |-> asked.add[s]]
           next == [pc |-> "linking", order |-> o, add |-> asked.add]
<1>1. /\ asked.pc = "booking"
      /\ \/ BookRows(o, new, {}) /\ Goto(q, next)
         \/ Goto(q, Idle) /\ UNCHANGED ledgerVars
      /\ UNCHANGED <<order, linked, line, sent, total>>
  BY DEF BookLines
<1>2. CASE Goto(q, Idle) /\ UNCHANGED ledgerVars
  <2>1. request'[q].pc # "linking"
    BY <1>2, WentTo DEF AnyInv, Idle
  <2> QED
    BY <1>1, <1>2, <2>1, StaysLive DEF ledgerVars
<1>3. CASE BookRows(o, new, {}) /\ Goto(q, next)
  <2>1. request'[q] = next
    BY <1>3, WentTo DEF AnyInv
  <2>2. \A x \in Request, r \in Reservation : ~Linking(x, r)
    BY <1>1 DEF OneAtATime, Linking
  <2>3. \A x \in Request, r \in Reservation :
           Linking(x, r)' <=> r[1] = o /\ r[2] \in DOMAIN asked.add
    BY <2>1 DEF OneAtATime, Linking
  <2>4. \A r \in Reservation :
           status'[r] = IF r[1] = o /\ r[2] \in V THEN "ACTIVE" ELSE status[r]
    BY <1>3 DEF BookRows
  <2>5. ASSUME NEW r \in Reservation, r[1] = o, r[2] \in DOMAIN asked.add
        PROVE  status'[r] = "ACTIVE"
    <3>1. CASE r[2] \in kept
      <4>1. r = <<o, r[2]>>
        BY <2>5 DEF Reservation
      <4>2. status[<<o, r[2]>>] = "ACTIVE"
        BY <3>1
      <4>3. status[r] = "ACTIVE"
        BY <4>1, <4>2
      <4> QED
        BY <2>4, <4>3
    <3>2. CASE r[2] \notin kept
      BY <2>4, <2>5, <3>2
    <3> QED
      BY <3>1, <3>2
  <2> SUFFICES ASSUME NEW r \in Reservation, order[r[1]] = "PENDING_PAYMENT"
               PROVE  /\ line[<<r, 1>>] > 0 => status'[r] = "ACTIVE" /\ r \in linked
                      /\ line[<<r, 1>>] = 0 /\ status'[r] = "ACTIVE"
                            => r[1] = o /\ r[2] \in DOMAIN asked.add
                      /\ r[1] = o /\ r[2] \in DOMAIN asked.add => status'[r] = "ACTIVE"
    BY <1>1, <2>3 DEF LiveInv
  <2>6. /\ line[<<r, 1>>] > 0 => status[r] = "ACTIVE" /\ r \in linked
        /\ line[<<r, 1>>] = 0 => status[r] # "ACTIVE"
    BY <2>2 DEF LiveInv
  <2>7. CASE r[1] = o /\ r[2] \in DOMAIN asked.add
    BY <2>5, <2>6, <2>7
  <2>8. CASE ~(r[1] = o /\ r[2] \in DOMAIN asked.add)
    <3>1. status'[r] = status[r]
      BY <2>4, <2>8
    <3> QED
      BY <2>6, <2>8, <3>1
  <2> QED
    BY <2>7, <2>8
<1> QED
  BY <1>1, <1>2, <1>3

LEMMA LinkLinesLive ==
    ASSUME OneAtATime, AnyInv, SingleInv, LiveInv, NEW q \in Request, LinkLines(q)
    PROVE  LiveInv'
<1> DEFINE asked == request[q]
           o == asked.order
<1>1. /\ asked.pc = "linking" /\ Goto(q, [pc |-> "summing", order |-> o])
      /\ linked' = linked \cup LiveRows(o)
      /\ UNCHANGED <<ledgerVars, order, sent, total>>
  BY DEF LinkLines
<1>2. AddOK(asked.add) /\ o \in Checkout
  BY <1>1 DEF AnyInv, RequestsOK, RequestOK, Idle
<1>3. NewLinesOK(o, asked.add) /\ LinesAreRows
  BY <1>1 DEF SingleInv, PlanOK
<1>4. \A r \in Reservation :
         line'[<<r, 1>>] = IF r[1] = o /\ r[2] \in DOMAIN asked.add
                           THEN asked.add[r[2]] ELSE line[<<r, 1>>]
  BY <1>3, LinkWrites
<1>5. /\ \A x \in Request, r \in Reservation :
            Linking(x, r) <=> r[1] = o /\ r[2] \in DOMAIN asked.add
      /\ \A x \in Request, r \in Reservation : ~Linking(x, r)'
  <2>1. request'[q].pc = "summing"
    BY <1>1, WentTo DEF AnyInv
  <2> QED
    BY <1>1, <2>1 DEF OneAtATime, Linking
<1>6. status' = status
  BY <1>1 DEF ledgerVars
<1> SUFFICES ASSUME NEW r \in Reservation, order[r[1]] = "PENDING_PAYMENT"
             PROVE  /\ line'[<<r, 1>>] > 0 => status[r] = "ACTIVE" /\ r \in linked'
                    /\ line'[<<r, 1>>] = 0 => status[r] # "ACTIVE"
  BY <1>1, <1>5, <1>6 DEF LiveInv
<1>7. CASE r[1] = o /\ r[2] \in DOMAIN asked.add
  <2>1. asked.add[r[2]] \in Nat \ {0}
    BY <1>2, <1>7, LedgerAssumption DEF AddOK
  <2>2. status[r] = "ACTIVE"
    BY <1>5, <1>7 DEF LiveInv
  <2>3. r \in LiveRows(o)
    BY <1>7, <2>2 DEF LiveRows, Rows
  <2> QED
    BY <1>1, <1>4, <1>7, <2>1, <2>2, <2>3
<1>8. CASE ~(r[1] = o /\ r[2] \in DOMAIN asked.add)
  BY <1>1, <1>4, <1>5, <1>8 DEF LiveInv
<1> QED
  BY <1>7, <1>8

\* Payment, cancellation and expiry touch only rows of the order they settle.
LEMMA MeanwhileLive ==
    ASSUME AnyInv, LiveInv, NEW o \in Checkout, Pay(o) \/ Cancel(o) \/ Expire(o)
    PROVE  LiveInv'
<1>1. order \in [Checkout -> {"PENDING_PAYMENT", "PAID", "CANCELLED", "EXPIRED"}]
  BY DEF AnyInv, OrdersOK
<1>2. /\ order'[o] # "PENDING_PAYMENT"
      /\ \A x \in Checkout : x # o => order'[x] = order[x]
      /\ UNCHANGED <<linked, line, request>>
  BY <1>1 DEF Pay, Cancel, Expire
<1>3. \A r \in Reservation : r[1] # o => status'[r] = status[r]
  <2>1. \A r \in LiveRows(o) : r[1] = o
    BY DEF LiveRows, Rows
  <2>2. \A r \in LinkedRows(o) : r[1] = o
    BY <2>1 DEF LinkedRows
  <2>3. CASE Pay(o)
    BY <2>2, <2>3 DEF Pay, SellRows
  <2>4. CASE Cancel(o)
    BY <2>2, <2>4 DEF Cancel, CloseRows
  <2>5. CASE Expire(o)
    BY <2>1, <2>5 DEF Expire, CloseRows
  <2> QED
    BY <2>3, <2>4, <2>5
<1>4. \A r \in Reservation : r[1] \in Checkout
  BY DEF Reservation
<1> QED
  BY <1>2, <1>3, <1>4 DEF LiveInv, Linking

LEMMA KitchenInitLive == KitchenInit => LiveInv
<1> SUFFICES ASSUME KitchenInit PROVE LiveInv
  OBVIOUS
<1>1. PICK Wt \in SUBSET Reservation :
         /\ status = [r \in Reservation |-> IF r \in Wt THEN "ACTIVE" ELSE "NONE"]
         /\ linked = Wt
         /\ \E want \in [Wt -> Quantity] :
               quantity = [r \in Reservation |-> IF r \in Wt THEN want[r] ELSE 0]
  BY DEF KitchenInit, PosOrdersInit
<1>2. PICK want \in [Wt -> Quantity] :
         quantity = [r \in Reservation |-> IF r \in Wt THEN want[r] ELSE 0]
  BY <1>1
<1>3. \A r \in Wt : want[r] \in Nat \ {0}
  BY LedgerAssumption
<1>4. \A r \in Reservation : line[<<r, 1>>] = quantity[r]
  BY DEF KitchenInit, PosOrdersInit, Line, RowOf
<1>5. \A q \in Request, r \in Reservation : ~Linking(q, r)
  BY DEF KitchenInit, PosOrdersInit, Linking, Idle
<1> QED
  BY <1>1, <1>2, <1>3, <1>4, <1>5 DEF LiveInv

LEMMA KitchenStepLive ==
    OneAtATime /\ MaxCrashes = 0 /\ AnyInv /\ SingleInv /\ LiveInv /\ [KitchenNext]_counterVars
        => LiveInv'
<1> SUFFICES ASSUME OneAtATime, MaxCrashes = 0, AnyInv, SingleInv, LiveInv,
                    [KitchenNext]_counterVars
             PROVE  LiveInv'
  OBVIOUS
<1>1. CASE UNCHANGED counterVars
  BY <1>1 DEF LiveInv, Linking, counterVars, posOrderVars, ledgerVars
<1>2. ASSUME NEW q \in Request, WriteRows(q) \/ BookLines(q) \/ LinkLines(q)
      PROVE  LiveInv'
  BY <1>2, WriteRowsLive, BookLinesLive, LinkLinesLive
<1>3. ASSUME NEW o \in Checkout, Pay(o) \/ Cancel(o) \/ Expire(o)
      PROVE  LiveInv'
  BY <1>3, MeanwhileLive
<1>4. ASSUME NEW q \in Request, CrashRequest(q) PROVE LiveInv'
  BY <1>4 DEF CrashRequest, AnyInv, OrdersOK
<1>5. ASSUME NEW q \in Request, NEW next, Goto(q, next), next.pc # "linking",
             request[q].pc # "linking", UNCHANGED <<order, status, linked, line>>
      PROVE  LiveInv'
  <2>1. request'[q] = next
    BY <1>5, WentTo DEF AnyInv
  <2> QED
    BY <1>5, <2>1, StaysLive
<1>6. ASSUME NEW q \in Request, NEW o \in Checkout, NEW W \in SUBSET Stock,
             NEW want \in [W -> Quantity], BeginUpdate(q, o, want)
      PROVE  LiveInv'
  <2>1. PICK next : Goto(q, next) /\ next.pc = "adjusting"
    BY <1>6 DEF BeginUpdate
  <2>2. request[q].pc # "linking" /\ UNCHANGED <<order, status, linked, line>>
    BY <1>6 DEF BeginUpdate, Idle, ledgerVars
  <2> QED
    BY <1>5, <2>1, <2>2
<1>7. ASSUME NEW q \in Request, ReadRows(q) \/ ReadTotals(q) \/ WriteTotals(q)
      PROVE  LiveInv'
  <2>1. PICK next : Goto(q, next) /\ next.pc \in {"writing", "totalling", "idle"}
    BY <1>7 DEF ReadRows, ReadTotals, WriteTotals, Idle
  <2>2. request[q].pc # "linking" /\ UNCHANGED <<order, status, linked, line>>
    BY <1>7 DEF ReadRows, ReadTotals, WriteTotals, ledgerVars
  <2> QED
    BY <1>5, <2>1, <2>2
<1>8. ASSUME NEW q \in Request,
             \/ \E o \in Checkout : BeginSend(q, o)
             \/ \E k \in Ticket, st \in TicketStatus : BeginMove(q, k, st)
             \/ CommitSend(q) \/ CommitMove(q)
      PROVE  LiveInv'
  <2>1. \E next : Goto(q, next) /\ next.pc # "linking"
    <3>1. CASE \E o \in Checkout : BeginSend(q, o)
      BY <3>1 DEF BeginSend
    <3>2. CASE \E k \in Ticket, st \in TicketStatus : BeginMove(q, k, st)
      BY <3>2 DEF BeginMove
    <3>3. CASE CommitSend(q) \/ CommitMove(q)
      BY <3>3 DEF CommitSend, CommitMove, Idle
    <3> QED
      BY <1>8, <3>1, <3>2, <3>3
  <2>2. request[q].pc # "linking" /\ UNCHANGED <<order, status, linked, line>>
    <3>1. CASE \E o \in Checkout : BeginSend(q, o)
      BY <3>1 DEF BeginSend, Idle, ledgerVars
    <3>2. CASE \E k \in Ticket, st \in TicketStatus : BeginMove(q, k, st)
      BY <3>2 DEF BeginMove, Idle, ledgerVars
    <3>3. CASE CommitSend(q) \/ CommitMove(q)
      BY <3>3 DEF CommitSend, CommitMove, ledgerVars
    <3> QED
      BY <1>8, <3>1, <3>2, <3>3
  <2> QED
    BY <1>5, <2>1, <2>2
<1> QED
  BY <1>1, <1>2, <1>3, <1>4, <1>6, <1>7, <1>8 DEF KitchenNext, OrderStep

\* A row's lines add up to its first line.
LEMMA OrderedIsLine ==
    ASSUME AnyInv, LinesAreRows, NEW r \in Reservation
    PROVE  Ordered(r[1])[r[2]] = line[<<r, 1>>]
<1> DEFINE l == <<r, 1>>
<1>1. r = <<r[1], r[2]>> /\ r[2] \in Stock
  BY DEF Reservation
<1>2. l \in Line /\ RowOf(l) = r /\ line[l] \in Nat /\ line[<<r, 2>>] = 0
  BY DEF Line, RowOf, LinesAreRows, AnyInv, OrdersOK
<1>3. \A m \in Line : RowOf(m) = r => m = l \/ m = <<r, 2>>
  BY DEF Line, RowOf
<1>4. LinesFor(<<r[1], r[2]>>) = LinesFor(r)
  BY <1>1
<1>5. Ordered(r[1])[r[2]] = Cardinality(UNION {{m} \X (1 .. line[m]) : m \in LinesFor(r)})
  BY <1>1, <1>4 DEF Ordered
<1>6. CASE line[l] > 0
  <2>1. LinesFor(r) = {l}
    BY <1>2, <1>3, <1>6 DEF LinesFor
  <2> HIDE DEF l
  <2>2. UNION {{m} \X (1 .. line[m]) : m \in {l}} = {l} \X (1 .. line[l])
    OBVIOUS
  <2>3. Cardinality({l} \X (1 .. line[l])) = line[l]
    BY <1>2, OneBlock
  <2> QED
    BY <1>5, <2>1, <2>2, <2>3 DEF l
<1>7. CASE line[l] = 0
  <2>1. LinesFor(r) = {}
    BY <1>2, <1>3, <1>7 DEF LinesFor
  <2>2. UNION {{m} \X (1 .. line[m]) : m \in {}} = {}
    OBVIOUS
  <2> QED
    BY <1>5, <1>7, <2>1, <2>2, FS_EmptySet
<1> QED
  BY <1>2, <1>6, <1>7

LEMMA LiveLinesHeld == AnyInv /\ SingleInv /\ LiveInv => LinesAreHeld
<1> SUFFICES ASSUME AnyInv, SingleInv, LiveInv, AllIdle,
                    NEW r \in Reservation, order[r[1]] = "PENDING_PAYMENT"
             PROVE  /\ Ordered(r[1])[r[2]] = IF status[r] = "ACTIVE" THEN quantity[r] ELSE 0
                    /\ status[r] = "ACTIVE" => r \in linked
  BY DEF LinesAreHeld
<1>1. \A q \in Request : ~Linking(q, r)
  BY DEF AllIdle, Idle, Linking
<1>2. Ordered(r[1])[r[2]] = line[<<r, 1>>] /\ LinesAreRows
  BY OrderedIsLine DEF SingleInv
<1>3. line[<<r, 1>>] \in Nat
  BY DEF AnyInv, OrdersOK, Line
<1>4. /\ line[<<r, 1>>] > 0 => status[r] = "ACTIVE" /\ r \in linked
      /\ line[<<r, 1>>] = 0 => status[r] # "ACTIVE"
  BY <1>1 DEF LiveInv
<1>5. line[<<r, 1>>] > 0 => line[<<r, 1>>] = quantity[r]
  BY <1>2 DEF LinesAreRows
<1> QED
  BY <1>2, <1>3, <1>4, <1>5

\* Whenever no edit is under way, the live reservations of an open order hold just
\* what its lines say, and all of them are linked to it; payments, cancellations
\* and the worker may come between the transactions of an edit.
THEOREM OpenOrdersHoldTheirLines ==
    OneAtATime /\ MaxCrashes = 0 => (CounterSpec => []LinesAreHeld)
<1> SUFFICES ASSUME OneAtATime, MaxCrashes = 0 PROVE CounterSpec => []LinesAreHeld
  OBVIOUS
<1>1. AnyInv /\ SingleInv /\ [KitchenNext]_counterVars => SingleInv'
  BY KitchenStepSingle
<1>2. AnyInv /\ SingleInv /\ LiveInv /\ [KitchenNext]_counterVars => LiveInv'
  BY KitchenStepLive
<1> QED
  BY <1>1, <1>2, KitchenInitInv, KitchenStepInv, KitchenInitSingle, KitchenInitLive,
     LiveLinesHeld, PTL DEF CounterSpec
=============================================================================
