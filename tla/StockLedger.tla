---------------------------- MODULE StockLedger ----------------------------
(***************************************************************************)
(* The stock engine that every selling channel goes through: one balance   *)
(* row per stock item (inventory_stocks) and at most one reservation row   *)
(* per checkout and stock item (inventory_reservations, unique on          *)
(* (checkoutSessionId, inventoryStockId)).                                 *)
(*                                                                         *)
(* BookRows, CloseRows, SellRows and RestockRows are what the transactions *)
(* of the services write.  LedgerSpec is the contract: which writes may    *)
(* happen when.  The services (Inventory, Storefront, the POS) use the     *)
(* writes under guards of their own and are checked against the contract.  *)
(***************************************************************************)
EXTENDS Integers, FiniteSets

CONSTANTS Stock,     \* the stock items of a merchant
          Checkout,  \* the checkout sessions that ever ask for stock
          Quantity,  \* the quantities a request line may ask for (@Min(1))
          Delta      \* the corrections a manual adjustment may carry

ASSUME LedgerAssumption ==
    /\ IsFiniteSet(Checkout)
    /\ Quantity \subseteq Nat \ {0}
    /\ Delta \subseteq Int

VARIABLES
    totalStock, reservedStock, soldStock,  \* the balance row of each stock item
    status, quantity,                      \* the reservation rows
    returned    \* history: confirmed reservations whose units a refund put back

ledgerVars == <<totalStock, reservedStock, soldStock, status, quantity, returned>>

\* A reservation row is identified by its checkout and its stock item.
Reservation == Checkout \X Stock

\* "NONE": no row.  The rest is enum InventoryReservationStatus.
ReservationStatus == {"NONE", "ACTIVE", "CONFIRMED", "RELEASED", "EXPIRED"}

LedgerTypeOK ==
    /\ totalStock \in [Stock -> Nat]
    /\ reservedStock \in [Stock -> Nat]
    /\ soldStock \in [Stock -> Nat]
    /\ status \in [Reservation -> ReservationStatus]
    /\ quantity \in [Reservation -> Nat]
    /\ returned \subseteq Reservation

-----------------------------------------------------------------------------
WithStatus(st) == {r \in Reservation : status[r] = st}

\* The units of stock item s that the reservations in S stand for under the
\* quantities q, one element per unit, and how many they are.
Units(q, S, s) == UNION {{r} \X (1 .. q[r]) : r \in {x \in S : x[2] = s}}
Held(q, S, s) == Cardinality(Units(q, S, s))

\* inventory-calculation.ts: never below zero.
AvailableStock(s) ==
    LET left == totalStock[s] - reservedStock[s] - soldStock[s]
    IN  IF left > 0 THEN left ELSE 0

-----------------------------------------------------------------------------
LedgerInit ==
    /\ totalStock \in [Stock -> Nat]
    /\ reservedStock = [s \in Stock |-> 0]
    /\ soldStock = [s \in Stock |-> 0]
    /\ status = [r \in Reservation |-> "NONE"]
    /\ quantity = [r \in Reservation |-> 0]
    /\ returned = {}

\* A manual correction may not cut the total below what is committed.
AdjustTotal(s, d) ==
    /\ totalStock[s] + d >= reservedStock[s] + soldStock[s]
    /\ totalStock' = [totalStock EXCEPT ![s] = @ + d]
    /\ UNCHANGED <<reservedStock, soldStock, status, quantity, returned>>

\* What a transaction writes, whatever it checked before.
BookRows(c, want, D) ==
    /\ reservedStock' = [s \in Stock |->
          reservedStock[s] - Held(quantity, D, s)
            + (IF s \in DOMAIN want THEN want[s] ELSE 0)]
    /\ status' = [r \in Reservation |->
          IF r \in D THEN "EXPIRED"
          ELSE IF r[1] = c /\ r[2] \in DOMAIN want THEN "ACTIVE" ELSE status[r]]
    /\ quantity' = [r \in Reservation |->
          IF r[1] = c /\ r[2] \in DOMAIN want THEN want[r[2]] ELSE quantity[r]]
    /\ UNCHANGED <<totalStock, soldStock, returned>>

CloseRows(D, st) ==
    /\ reservedStock' = [s \in Stock |-> reservedStock[s] - Held(quantity, D, s)]
    /\ status' = [r \in Reservation |-> IF r \in D THEN st ELSE status[r]]
    /\ UNCHANGED <<totalStock, soldStock, quantity, returned>>

SellRows(S) ==
    /\ reservedStock' = [s \in Stock |-> reservedStock[s] - Held(quantity, S, s)]
    /\ soldStock' = [s \in Stock |-> soldStock[s] + Held(quantity, S, s)]
    /\ status' = [r \in Reservation |-> IF r \in S THEN "CONFIRMED" ELSE status[r]]
    /\ UNCHANGED <<totalStock, quantity, returned>>

RestockRows(S) ==
    /\ soldStock' = [s \in Stock |-> soldStock[s] - Held(quantity, S, s)]
    /\ returned' = returned \cup S
    /\ UNCHANGED <<totalStock, reservedStock, status, quantity>>

-----------------------------------------------------------------------------
\* What the services promise each other to check first.

\* Checkout c books want[s] units of every stock item s in the domain of want,
\* all or none; the same transaction first closes the overdue reservations D.
Book(c, want, D) ==
    /\ D \subseteq WithStatus("ACTIVE")
    /\ \A s \in DOMAIN want :
          /\ status[<<c, s>>] = "NONE"
          /\ want[s] <= totalStock[s] - soldStock[s]
                          - (reservedStock[s] - Held(quantity, D, s))
    /\ BookRows(c, want, D)

\* An edit of orders: the live reservations in the domain of new hold new[r]
\* units from now on, those in D are released, if there are as many units left.
Resize(new, D) ==
    LET R == DOMAIN new
        more(s) == Held(new, R, s) - Held(quantity, R \cup D, s)
    IN  /\ R \cup D \subseteq WithStatus("ACTIVE")
        /\ R \cap D = {}
        /\ \A s \in Stock : more(s) <= totalStock[s] - soldStock[s] - reservedStock[s]
        /\ reservedStock' = [s \in Stock |-> reservedStock[s] + more(s)]
        /\ quantity' = [r \in Reservation |-> IF r \in R THEN new[r] ELSE quantity[r]]
        /\ status' = [r \in Reservation |-> IF r \in D THEN "RELEASED" ELSE status[r]]
        /\ UNCHANGED <<totalStock, soldStock, returned>>

\* Live reservations give their units back and end RELEASED or EXPIRED.
Close(D, st) == D \subseteq WithStatus("ACTIVE") /\ CloseRows(D, st)

\* Live reservations turn from held into sold.
Sell(S) == S \subseteq WithStatus("ACTIVE") /\ SellRows(S)

\* A refund puts sold units back on the shelf, once; the rows stay CONFIRMED.
Restock(S) == S \subseteq WithStatus("CONFIRMED") \ returned /\ RestockRows(S)

LedgerNext ==
    \/ \E s \in Stock, d \in Delta : AdjustTotal(s, d)
    \/ \E c \in Checkout, W \in SUBSET Stock, D \in SUBSET WithStatus("ACTIVE") :
          \E want \in [W -> Quantity] : Book(c, want, D)
    \/ \E R, D \in SUBSET WithStatus("ACTIVE") : \E new \in [R -> Quantity] : Resize(new, D)
    \/ \E D \in SUBSET WithStatus("ACTIVE"), st \in {"RELEASED", "EXPIRED"} : Close(D, st)
    \/ \E S \in SUBSET WithStatus("ACTIVE") : Sell(S)
    \/ \E S \in SUBSET (WithStatus("CONFIRMED") \ returned) : Restock(S)

LedgerSpec == LedgerInit /\ [][LedgerNext]_ledgerVars

-----------------------------------------------------------------------------
\* What is held is exactly what live reservations hold: no reservation is
\* counted twice, and none gives its units back twice or keeps them after it
\* ended (every increment and decrement of reservedStock in the services).
ReservedBalanced ==
    \A s \in Stock : reservedStock[s] = Held(quantity, WithStatus("ACTIVE"), s)

\* What is sold is exactly what confirmed reservations bought, less what
\* refunds put back (every increment and decrement of soldStock).
SoldBalanced ==
    \A s \in Stock : soldStock[s] = Held(quantity, WithStatus("CONFIRMED") \ returned, s)

\* No unit is promised twice: the units held and sold never exceed the total.
NoOversell == \A s \in Stock : reservedStock[s] + soldStock[s] <= totalStock[s]

\* A refund only ever puts back what was sold.
ReturnedWereSold == returned \subseteq WithStatus("CONFIRMED")

LedgerInv ==
    /\ LedgerTypeOK
    /\ ReservedBalanced
    /\ SoldBalanced
    /\ NoOversell
    /\ ReturnedWereSold
=============================================================================
