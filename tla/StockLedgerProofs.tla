------------------------- MODULE StockLedgerProofs -------------------------
(***************************************************************************)
(* The contract of the stock engine, proved for any set of stock items,    *)
(* any finite set of checkouts and any quantities: LedgerSpec keeps        *)
(* LedgerInv.  The sums of the invariant are cardinalities of sets of      *)
(* units, so the lemmas below are facts about finite sets.                 *)
(***************************************************************************)
EXTENDS StockLedger, FiniteSetTheorems, TLAPS

\* The sums of the models count the elements of blocks: f[k] units of every k in S.
Blocks(f, S) == UNION {{k} \X (1 .. f[k]) : k \in S}

\* One block has as many elements as it has units.
LEMMA OneBlock ==
    ASSUME NEW k, NEW n \in Nat
    PROVE  IsFiniteSet({k} \X (1 .. n)) /\ Cardinality({k} \X (1 .. n)) = n
<1> DEFINE A == {k}
           B == 1 .. n
<1>1. IsFiniteSet(A) /\ Cardinality(A) = 1
  BY FS_Singleton
<1>2. IsFiniteSet(B) /\ Cardinality(B) = n
  BY FS_Interval
<1> HIDE DEF A, B
<1>3. IsFiniteSet(A \X B) /\ Cardinality(A \X B) = Cardinality(A) * Cardinality(B)
  BY <1>1, <1>2, FS_Product
<1>4. IsFiniteSet(A \X B) /\ Cardinality(A \X B) = n
  BY <1>1, <1>2, <1>3
<1> QED
  BY <1>4 DEF A, B

\* Finitely many blocks are a finite set, so their sum is a natural number.
LEMMA BlocksFinite ==
    ASSUME NEW S, IsFiniteSet(S), NEW f, \A k \in S : f[k] \in Nat
    PROVE  IsFiniteSet(Blocks(f, S)) /\ Cardinality(Blocks(f, S)) \in Nat
<1> DEFINE P == {{k} \X (1 .. f[k]) : k \in S}
<1>1. \A T \in P : IsFiniteSet(T)
  <2> TAKE T \in P
  <2>1. PICK k \in S : T = {k} \X (1 .. f[k])
    OBVIOUS
  <2>2. f[k] \in Nat
    OBVIOUS
  <2>3. IsFiniteSet({k} \X (1 .. f[k]))
    BY <2>2, OneBlock
  <2> QED
    BY <2>1, <2>3
<1>2. IsFiniteSet(P)
  <2>1. PICK g : g = [k \in S |-> {k} \X (1 .. f[k])]
    OBVIOUS
  <2>2. g \in Surjection(S, P)
    BY <2>1 DEF Surjection
  <2> QED
    BY <2>2, FS_Surjection
<1>3. IsFiniteSet(UNION P)
  BY <1>1, <1>2, FS_UNION
<1> QED
  BY <1>3, FS_CardinalityType DEF Blocks

\* The sums over two disjoint sets add up to the sum over both.
LEMMA BlocksUnion ==
    ASSUME NEW S, NEW T, IsFiniteSet(S), IsFiniteSet(T), S \cap T = {},
           NEW f, \A k \in S \cup T : f[k] \in Nat
    PROVE  Cardinality(Blocks(f, S \cup T))
              = Cardinality(Blocks(f, S)) + Cardinality(Blocks(f, T))
<1>1. Blocks(f, S \cup T) = Blocks(f, S) \cup Blocks(f, T)
  BY DEF Blocks
<1>2. Blocks(f, S) \cap Blocks(f, T) = {}
  <2> SUFFICES ASSUME NEW u \in Blocks(f, S), u \in Blocks(f, T)
               PROVE  FALSE
    OBVIOUS
  <2>1. PICK k \in S : u \in {k} \X (1 .. f[k])
    BY DEF Blocks
  <2>2. PICK x \in T : u \in {x} \X (1 .. f[x])
    BY DEF Blocks
  <2> QED
    BY <2>1, <2>2
<1>3. IsFiniteSet(Blocks(f, S)) /\ Cardinality(Blocks(f, S)) \in Nat
  BY BlocksFinite
<1>4. IsFiniteSet(Blocks(f, T)) /\ Cardinality(Blocks(f, T)) \in Nat
  BY BlocksFinite
<1>5. Cardinality(Blocks(f, S) \cap Blocks(f, T)) = 0
  BY <1>2, FS_EmptySet
<1>6. Cardinality(Blocks(f, S) \cup Blocks(f, T))
        = Cardinality(Blocks(f, S)) + Cardinality(Blocks(f, T))
            - Cardinality(Blocks(f, S) \cap Blocks(f, T))
  BY <1>3, <1>4, FS_Union
<1>7. Cardinality(Blocks(f, S \cup T))
        = Cardinality(Blocks(f, S)) + Cardinality(Blocks(f, T)) - 0
  BY <1>1, <1>5, <1>6, Zenon
<1> QED
  BY <1>3, <1>4, <1>7

\* One more block adds its units.
LEMMA BlocksAdd ==
    ASSUME NEW S, IsFiniteSet(S), NEW k, k \notin S,
           NEW f, \A x \in S \cup {k} : f[x] \in Nat
    PROVE  Cardinality(Blocks(f, S \cup {k})) = Cardinality(Blocks(f, S)) + f[k]
<1>1. IsFiniteSet({k}) /\ S \cap {k} = {}
  BY FS_Singleton
<1>2. Cardinality(Blocks(f, S \cup {k}))
         = Cardinality(Blocks(f, S)) + Cardinality(Blocks(f, {k}))
  BY <1>1, BlocksUnion
<1>3. Blocks(f, {k}) = {k} \X (1 .. f[k]) /\ f[k] \in Nat
  BY DEF Blocks
<1>4. Cardinality({k} \X (1 .. f[k])) = f[k]
  BY <1>3, OneBlock
<1> QED
  BY <1>2, <1>3, <1>4

-----------------------------------------------------------------------------
\* The quantities a table of reservations may hold.
Quantities == [Reservation -> Nat]

\* The reservations of one stock item, of which there are finitely many.
LEMMA RowsFinite ==
    ASSUME NEW S \in SUBSET Reservation, NEW s \in Stock
    PROVE  IsFiniteSet({x \in S : x[2] = s})
<1>1. IsFiniteSet(Checkout \X {s})
  BY LedgerAssumption, FS_Singleton, FS_Product
<1>2. {x \in S : x[2] = s} \subseteq Checkout \X {s}
  BY DEF Reservation
<1> QED
  BY <1>1, <1>2, FS_Subset

\* Any reservations of one stock item stand for finitely many units.
LEMMA UnitsFinite ==
    ASSUME NEW q \in Quantities, NEW S \in SUBSET Reservation, NEW s \in Stock
    PROVE  IsFiniteSet(Units(q, S, s))
<1> DEFINE R == {x \in S : x[2] = s}
<1>1. IsFiniteSet(R)
  BY RowsFinite
<1>2. \A k \in R : q[k] \in Nat
  BY DEF Quantities
<1>3. Units(q, S, s) = Blocks(q, R)
  BY DEF Units, Blocks
<1> HIDE DEF R
<1> QED
  BY <1>1, <1>2, <1>3, BlocksFinite

\* The number of units held is a natural number.
LEMMA HeldType ==
    ASSUME NEW q \in Quantities, NEW S \in SUBSET Reservation, NEW s \in Stock
    PROVE  Held(q, S, s) \in Nat
BY UnitsFinite, FS_CardinalityType DEF Held

\* Two disjoint sets of reservations hold what each holds, added up.
LEMMA HeldUnion ==
    ASSUME NEW q \in Quantities, NEW s \in Stock,
           NEW S \in SUBSET Reservation, NEW T \in SUBSET Reservation,
           S \cap T = {}
    PROVE  Held(q, S \cup T, s) = Held(q, S, s) + Held(q, T, s)
<1> DEFINE of(R) == {x \in R : x[2] = s}
<1>1. of(S \cup T) = of(S) \cup of(T) /\ of(S) \cap of(T) = {}
  OBVIOUS
<1>2. IsFiniteSet(of(S)) /\ IsFiniteSet(of(T))
  BY RowsFinite
<1>3. \A k \in of(S) \cup of(T) : q[k] \in Nat
  BY DEF Quantities
<1>4. \A R : Held(q, R, s) = Cardinality(Blocks(q, of(R)))
  BY DEF Held, Units, Blocks
<1> HIDE DEF of
<1>5. Cardinality(Blocks(q, of(S) \cup of(T)))
        = Cardinality(Blocks(q, of(S))) + Cardinality(Blocks(q, of(T)))
  BY <1>1, <1>2, <1>3, BlocksUnion
<1> QED
  BY <1>1, <1>4, <1>5

\* Taking D out of S takes D's units out.
LEMMA HeldMinus ==
    ASSUME NEW q \in Quantities, NEW s \in Stock,
           NEW S \in SUBSET Reservation, NEW D \in SUBSET S
    PROVE  Held(q, S \ D, s) = Held(q, S, s) - Held(q, D, s)
<1>1. (S \ D) \cup D = S /\ (S \ D) \cap D = {}
  OBVIOUS
<1>2. D \in SUBSET Reservation /\ S \ D \in SUBSET Reservation
  OBVIOUS
<1>3. Held(q, S, s) = Held(q, S \ D, s) + Held(q, D, s)
  BY <1>1, <1>2, HeldUnion
<1> QED
  BY <1>2, <1>3, HeldType

\* What S holds depends on the quantities of the rows of S only.
LEMMA HeldSame ==
    ASSUME NEW p, NEW q, NEW S \in SUBSET Reservation, NEW s \in Stock,
           \A r \in S : p[r] = q[r]
    PROVE  Held(p, S, s) = Held(q, S, s)
<1>1. Units(p, S, s) = Units(q, S, s)
  BY DEF Units
<1> QED
  BY <1>1 DEF Held

\* Rows of other stock items hold nothing of s.
LEMMA HeldNothing ==
    ASSUME NEW q, NEW S \in SUBSET Reservation, NEW s \in Stock,
           \A r \in S : r[2] # s
    PROVE  Held(q, S, s) = 0
<1>1. Units(q, S, s) = {}
  BY DEF Units
<1> QED
  BY <1>1, FS_EmptySet DEF Held

\* Of a checkout's own rows only the one for s counts, with its quantity.
LEMMA HeldOne ==
    ASSUME NEW q \in Quantities, NEW S \in SUBSET Reservation, NEW s \in Stock,
           NEW c \in Checkout, <<c, s>> \in S, \A r \in S : r[1] = c
    PROVE  Held(q, S, s) = q[<<c, s>>]
<1> DEFINE t == <<c, s>>
<1>1. {x \in S : x[2] = s} = {t}
  BY DEF Reservation
<1>2. Units(q, S, s) = {t} \X (1 .. q[t])
  BY <1>1 DEF Units
<1>3. q[t] \in Nat /\ t \in Reservation
  BY DEF Quantities, Reservation
<1>4. Cardinality({t} \X (1 .. q[t])) = q[t]
  BY <1>3, OneBlock
<1> QED
  BY <1>2, <1>4 DEF Held

-----------------------------------------------------------------------------
\* The initial balances are empty, and so are the sums they must equal.
LEMMA LedgerInitInv == LedgerInit => LedgerInv
<1> SUFFICES ASSUME LedgerInit PROVE LedgerInv
  OBVIOUS
<1> USE DEF LedgerInit
<1>1. LedgerTypeOK
  BY DEF LedgerTypeOK, ReservationStatus
<1>2. WithStatus("ACTIVE") = {} /\ WithStatus("CONFIRMED") = {}
  BY DEF WithStatus
<1>3. \A s \in Stock : Held(quantity, {}, s) = 0
  BY HeldNothing
<1>4. ReservedBalanced /\ SoldBalanced
  BY <1>2, <1>3 DEF ReservedBalanced, SoldBalanced
<1>5. NoOversell /\ ReturnedWereSold
  BY DEF NoOversell, ReturnedWereSold
<1> QED
  BY <1>1, <1>4, <1>5 DEF LedgerInv

\* An adjustment moves the total only, and keeps it above what is committed.
LEMMA AdjustTotalInv ==
    ASSUME LedgerInv, NEW s \in Stock, NEW d \in Delta, AdjustTotal(s, d)
    PROVE  LedgerInv'
<1> USE DEF LedgerInv, AdjustTotal
<1>1. d \in Int
  BY LedgerAssumption
<1>2. LedgerTypeOK'
  BY <1>1 DEF LedgerTypeOK
<1>3. ReservedBalanced' /\ SoldBalanced' /\ ReturnedWereSold'
  BY DEF ReservedBalanced, SoldBalanced, ReturnedWereSold, WithStatus, Held, Units
<1>4. NoOversell'
  BY <1>1 DEF NoOversell, LedgerTypeOK
<1> QED
  BY <1>2, <1>3, <1>4

\* Booking closes D and opens one row per line, with the quantity of the line.
LEMMA BookInv ==
    ASSUME LedgerInv,
           NEW c \in Checkout, NEW W \in SUBSET Stock, NEW want \in [W -> Quantity],
           NEW D \in SUBSET WithStatus("ACTIVE"),
           Book(c, want, D)
    PROVE  LedgerInv'
<1> DEFINE A == WithStatus("ACTIVE")
           N == {r \in Reservation : r[1] = c /\ r[2] \in W}
           sold == WithStatus("CONFIRMED") \ returned
<1> USE DEF LedgerInv, Quantities
<1>1. DOMAIN want = W /\ \A s \in W : want[s] \in Nat
  BY LedgerAssumption
<1>2. /\ quantity \in Quantities
      /\ quantity' \in Quantities
      /\ A \in SUBSET Reservation
      /\ A \ D \in SUBSET Reservation
      /\ D \in SUBSET Reservation
      /\ N \in SUBSET Reservation
      /\ sold \in SUBSET Reservation
  BY <1>1 DEF Book, BookRows, LedgerTypeOK, WithStatus
<1>3. \A r \in N : status[r] = "NONE" /\ r = <<c, r[2]>>
  BY <1>1 DEF Book, BookRows, Reservation
<1>4. (A \ D) \cap N = {}
  BY <1>3 DEF WithStatus
<1>5. A' = (A \ D) \cup N
  BY <1>1, <1>3 DEF Book, BookRows, WithStatus
<1>6. \A r \in Reservation \ N : quantity'[r] = quantity[r]
  BY <1>1 DEF Book, BookRows
<1>7. \A s \in Stock : reservedStock'[s] = Held(quantity', A', s)
  <2> TAKE s \in Stock
  <2>1. Held(quantity', A', s) = Held(quantity', A \ D, s) + Held(quantity', N, s)
    BY <1>2, <1>4, <1>5, HeldUnion
  <2>2. Held(quantity', A \ D, s) = Held(quantity, A \ D, s)
    BY <1>2, <1>4, <1>6, HeldSame
  <2>3. Held(quantity, A \ D, s) = reservedStock[s] - Held(quantity, D, s)
    BY <1>2, HeldMinus DEF ReservedBalanced
  <2>4. Held(quantity', N, s) = IF s \in W THEN want[s] ELSE 0
    <3>1. CASE s \in W
      <4>1. <<c, s>> \in N /\ \A r \in N : r[1] = c
        BY <3>1 DEF Reservation
      <4>2. Held(quantity', N, s) = quantity'[<<c, s>>]
        BY <1>2, <4>1, HeldOne
      <4>3. quantity'[<<c, s>>] = want[s]
        BY <1>1, <3>1 DEF Book, BookRows, Reservation
      <4> QED
        BY <3>1, <4>2, <4>3
    <3>2. CASE s \notin W
      <4>1. \A r \in N : r[2] # s
        BY <3>2
      <4> QED
        BY <1>2, <3>2, <4>1, HeldNothing
    <3> QED
      BY <3>1, <3>2
  <2>5. reservedStock'[s] = reservedStock[s] - Held(quantity, D, s)
                              + (IF s \in W THEN want[s] ELSE 0)
    BY <1>1 DEF Book, BookRows
  <2> QED
    BY <2>1, <2>2, <2>3, <2>4, <2>5
<1>8. LedgerTypeOK'
  <2>1. A' \in SUBSET Reservation
    BY <1>2, <1>5
  <2>2. \A s \in Stock : reservedStock'[s] \in Nat
    BY <1>2, <1>7, <2>1, HeldType
  <2>3. reservedStock' \in [Stock -> Nat]
    BY <2>2 DEF Book, BookRows
  <2> QED
    BY <1>2, <2>3 DEF Book, BookRows, LedgerTypeOK, ReservationStatus
<1>9. SoldBalanced'
  <2>1. sold' = sold
    BY <1>1, <1>3 DEF Book, BookRows, WithStatus
  <2>2. \A r \in sold : r \in Reservation \ N
    BY <1>3 DEF WithStatus
  <2>3. \A s \in Stock : Held(quantity', sold, s) = Held(quantity, sold, s)
    BY <1>2, <1>6, <2>2, HeldSame
  <2> QED
    BY <2>1, <2>3 DEF Book, BookRows, SoldBalanced
<1>10. NoOversell'
  <2> SUFFICES ASSUME NEW s \in Stock
               PROVE  reservedStock'[s] + soldStock[s] <= totalStock[s]
    BY DEF Book, BookRows, NoOversell
  <2>1. Held(quantity, D, s) \in Nat
    BY <1>2, HeldType
  <2>2. reservedStock[s] \in Nat /\ soldStock[s] \in Nat /\ totalStock[s] \in Nat
    BY DEF LedgerTypeOK
  <2>3. reservedStock[s] + soldStock[s] <= totalStock[s]
    BY DEF NoOversell
  <2>4. CASE s \in W
    <3>1. want[s] <= totalStock[s] - soldStock[s] - (reservedStock[s] - Held(quantity, D, s))
      BY <1>1, <2>4 DEF Book, BookRows
    <3>2. reservedStock'[s] = reservedStock[s] - Held(quantity, D, s) + want[s]
      BY <1>1, <2>4 DEF Book, BookRows
    <3> QED
      BY <1>1, <2>1, <2>2, <2>4, <3>1, <3>2
  <2>5. CASE s \notin W
    <3>1. reservedStock'[s] = reservedStock[s] - Held(quantity, D, s) + 0
      BY <1>1, <2>5 DEF Book, BookRows
    <3> QED
      BY <2>1, <2>2, <2>3, <3>1
  <2> QED
    BY <2>4, <2>5
<1>11. ReturnedWereSold'
  BY <1>1, <1>3 DEF Book, BookRows, ReturnedWereSold, WithStatus
<1> QED
  BY <1>7, <1>8, <1>9, <1>10, <1>11 DEF ReservedBalanced

\* An edit moves the balance by what the resized rows hold more and the
\* released rows held.
LEMMA ResizeInv ==
    ASSUME LedgerInv,
           NEW R \in SUBSET WithStatus("ACTIVE"), NEW D \in SUBSET WithStatus("ACTIVE"),
           NEW new \in [R -> Quantity], Resize(new, D)
    PROVE  LedgerInv'
<1> DEFINE A == WithStatus("ACTIVE")
           K == A \ (R \cup D)
           sold == WithStatus("CONFIRMED") \ returned
           more(s) == Held(new, R, s) - Held(quantity, R \cup D, s)
<1> USE DEF LedgerInv, Quantities
<1>1. DOMAIN new = R /\ \A r \in R : new[r] \in Nat
  BY LedgerAssumption
<1>2. /\ R \cap D = {}
      /\ \A s \in Stock : more(s) <= totalStock[s] - soldStock[s] - reservedStock[s]
      /\ reservedStock' = [s \in Stock |-> reservedStock[s] + more(s)]
      /\ quantity' = [r \in Reservation |-> IF r \in R THEN new[r] ELSE quantity[r]]
      /\ status' = [r \in Reservation |-> IF r \in D THEN "RELEASED" ELSE status[r]]
      /\ UNCHANGED <<totalStock, soldStock, returned>>
  BY <1>1 DEF Resize
<1>3. /\ quantity \in Quantities /\ quantity' \in Quantities
      /\ A \in SUBSET Reservation /\ K \in SUBSET Reservation
      /\ R \in SUBSET Reservation /\ R \cup D \in SUBSET A /\ R \cup D \in SUBSET Reservation
      /\ sold \in SUBSET Reservation
  BY <1>1, <1>2 DEF LedgerTypeOK, WithStatus
<1>4. A' = K \cup R /\ K \cap R = {} /\ sold' = sold
  BY <1>2 DEF WithStatus
<1>5. \A s \in Stock : reservedStock'[s] = Held(quantity', A', s)
  <2> TAKE s \in Stock
  <2>1. Held(quantity', A', s) = Held(quantity', K, s) + Held(quantity', R, s)
    BY <1>3, <1>4, HeldUnion
  <2>2. Held(quantity', K, s) = Held(quantity, K, s)
    BY <1>2, <1>3, HeldSame
  <2>3. Held(quantity', R, s) = Held(new, R, s)
    BY <1>2, <1>3, HeldSame
  <2>4. Held(quantity, K, s) = Held(quantity, A, s) - Held(quantity, R \cup D, s)
    BY <1>3, HeldMinus
  <2>5. reservedStock[s] = Held(quantity, A, s)
    BY DEF ReservedBalanced
  <2>6. /\ Held(quantity, A, s) \in Nat /\ Held(quantity, R \cup D, s) \in Nat
        /\ Held(quantity', R, s) \in Nat
    BY <1>3, HeldType
  <2>7. reservedStock'[s] = reservedStock[s] + more(s)
    BY <1>2
  <2> QED
    BY <2>1, <2>2, <2>3, <2>4, <2>5, <2>6, <2>7
<1>6. LedgerTypeOK'
  <2>1. A' \in SUBSET Reservation
    BY <1>3, <1>4
  <2>2. \A s \in Stock : reservedStock'[s] \in Nat
    BY <1>3, <1>5, <2>1, HeldType
  <2>3. reservedStock' \in [Stock -> Nat]
    BY <1>2, <2>2
  <2> QED
    BY <1>2, <1>3, <2>3 DEF LedgerTypeOK, ReservationStatus
<1>7. ReservedBalanced'
  BY <1>5 DEF ReservedBalanced
<1>8. SoldBalanced'
  <2>1. \A r \in sold : quantity'[r] = quantity[r]
    BY <1>2, <1>3 DEF WithStatus
  <2>2. \A s \in Stock : Held(quantity', sold, s) = Held(quantity, sold, s)
    BY <1>3, <2>1, HeldSame
  <2> QED
    BY <1>2, <1>4, <2>2 DEF SoldBalanced
<1>9. NoOversell'
  <2> SUFFICES ASSUME NEW s \in Stock
               PROVE  reservedStock'[s] + soldStock[s] <= totalStock[s]
    BY <1>2 DEF NoOversell
  <2>1. reservedStock[s] \in Nat /\ soldStock[s] \in Nat /\ totalStock[s] \in Nat
    BY DEF LedgerTypeOK
  <2>2. more(s) \in Int
    <3>1. Held(quantity', R, s) \in Nat /\ Held(quantity, R \cup D, s) \in Nat
      BY <1>3, HeldType
    <3>2. Held(quantity', R, s) = Held(new, R, s)
      BY <1>2, <1>3, HeldSame
    <3> QED
      BY <3>1, <3>2
  <2>3. more(s) <= totalStock[s] - soldStock[s] - reservedStock[s]
    BY <1>2
  <2>4. reservedStock'[s] = reservedStock[s] + more(s)
    BY <1>2
  <2> HIDE DEF more
  <2> QED
    BY <2>1, <2>2, <2>3, <2>4
<1>10. ReturnedWereSold'
  BY <1>2 DEF ReturnedWereSold, WithStatus
<1> QED
  BY <1>6, <1>7, <1>8, <1>9, <1>10

\* Closing live reservations gives back what exactly those reservations held.
LEMMA CloseInv ==
    ASSUME LedgerInv,
           NEW D \in SUBSET WithStatus("ACTIVE"), NEW st \in {"RELEASED", "EXPIRED"},
           Close(D, st)
    PROVE  LedgerInv'
<1> DEFINE A == WithStatus("ACTIVE")
           sold == WithStatus("CONFIRMED") \ returned
<1> USE DEF LedgerInv, Quantities
<1>1. /\ quantity \in Quantities
      /\ A \in SUBSET Reservation
      /\ D \in SUBSET Reservation
      /\ A \ D \in SUBSET Reservation
  BY DEF LedgerTypeOK, WithStatus
<1>2. A' = A \ D /\ sold' = sold /\ quantity' = quantity
  BY DEF Close, CloseRows, WithStatus
<1>3. \A s \in Stock : reservedStock'[s] = Held(quantity, A \ D, s)
  BY <1>1, HeldMinus DEF Close, CloseRows, ReservedBalanced
<1>4. \A s \in Stock : reservedStock'[s] \in Nat /\ reservedStock'[s] <= reservedStock[s]
  <2> TAKE s \in Stock
  <2>1. Held(quantity, D, s) \in Nat /\ Held(quantity, A \ D, s) \in Nat
    BY <1>1, HeldType
  <2>2. reservedStock'[s] = reservedStock[s] - Held(quantity, D, s)
    BY DEF Close, CloseRows
  <2>3. reservedStock[s] \in Nat
    BY DEF LedgerTypeOK
  <2> QED
    BY <1>3, <2>1, <2>2, <2>3
<1>5. LedgerTypeOK'
  BY <1>4 DEF Close, CloseRows, LedgerTypeOK, ReservationStatus
<1>6. ReservedBalanced'
  BY <1>2, <1>3 DEF ReservedBalanced
<1>7. SoldBalanced'
  BY <1>2 DEF Close, CloseRows, SoldBalanced
<1>8. NoOversell'
  BY <1>4 DEF Close, CloseRows, NoOversell, LedgerTypeOK
<1>9. ReturnedWereSold'
  BY DEF Close, CloseRows, ReturnedWereSold, WithStatus
<1> QED
  BY <1>5, <1>6, <1>7, <1>8, <1>9

\* Selling moves what the reservations held from one sum to the other.
LEMMA SellInv ==
    ASSUME LedgerInv, NEW S \in SUBSET WithStatus("ACTIVE"), Sell(S)
    PROVE  LedgerInv'
<1> DEFINE A == WithStatus("ACTIVE")
           sold == WithStatus("CONFIRMED") \ returned
<1> USE DEF LedgerInv, Quantities
<1>1. /\ quantity \in Quantities
      /\ A \in SUBSET Reservation
      /\ S \in SUBSET Reservation
      /\ A \ S \in SUBSET Reservation
      /\ sold \in SUBSET Reservation
  BY DEF LedgerTypeOK, WithStatus
<1>2. S \cap sold = {} /\ S \cap returned = {}
  BY DEF WithStatus, ReturnedWereSold
<1>3. A' = A \ S /\ sold' = sold \cup S /\ quantity' = quantity
  BY <1>2 DEF Sell, SellRows, WithStatus
<1>4. \A s \in Stock :
        /\ reservedStock'[s] = Held(quantity, A \ S, s)
        /\ soldStock'[s] = Held(quantity, sold \cup S, s)
  BY <1>1, <1>2, HeldMinus, HeldUnion DEF Sell, SellRows, ReservedBalanced, SoldBalanced
<1>5. \A s \in Stock :
        /\ reservedStock'[s] \in Nat
        /\ soldStock'[s] \in Nat
        /\ reservedStock'[s] + soldStock'[s] = reservedStock[s] + soldStock[s]
  <2> TAKE s \in Stock
  <2>1. /\ Held(quantity, S, s) \in Nat
        /\ Held(quantity, A \ S, s) \in Nat
        /\ Held(quantity, sold \cup S, s) \in Nat
    BY <1>1, HeldType
  <2>2. /\ reservedStock'[s] = reservedStock[s] - Held(quantity, S, s)
        /\ soldStock'[s] = soldStock[s] + Held(quantity, S, s)
    BY DEF Sell, SellRows
  <2>3. reservedStock[s] \in Nat /\ soldStock[s] \in Nat
    BY DEF LedgerTypeOK
  <2> QED
    BY <1>4, <2>1, <2>2, <2>3
<1>6. LedgerTypeOK'
  BY <1>5 DEF Sell, SellRows, LedgerTypeOK, ReservationStatus
<1>7. ReservedBalanced' /\ SoldBalanced'
  BY <1>3, <1>4 DEF ReservedBalanced, SoldBalanced
<1>8. NoOversell'
  BY <1>5 DEF Sell, SellRows, NoOversell
<1>9. ReturnedWereSold'
  BY <1>2 DEF Sell, SellRows, ReturnedWereSold, WithStatus
<1> QED
  BY <1>6, <1>7, <1>8, <1>9

\* A refund takes back exactly what its reservations had bought.
LEMMA RestockInv ==
    ASSUME LedgerInv,
           NEW S \in SUBSET (WithStatus("CONFIRMED") \ returned), Restock(S)
    PROVE  LedgerInv'
<1> DEFINE sold == WithStatus("CONFIRMED") \ returned
<1> USE DEF LedgerInv, Quantities
<1>1. /\ quantity \in Quantities
      /\ S \in SUBSET Reservation
      /\ sold \in SUBSET Reservation
      /\ sold \ S \in SUBSET Reservation
  BY DEF LedgerTypeOK, WithStatus
<1>2. sold' = sold \ S /\ WithStatus("ACTIVE")' = WithStatus("ACTIVE")
  BY DEF Restock, RestockRows, WithStatus
<1>3. \A s \in Stock : soldStock'[s] = Held(quantity, sold \ S, s)
  BY <1>1, HeldMinus DEF Restock, RestockRows, SoldBalanced
<1>4. \A s \in Stock : soldStock'[s] \in Nat /\ soldStock'[s] <= soldStock[s]
  <2> TAKE s \in Stock
  <2>1. Held(quantity, S, s) \in Nat /\ Held(quantity, sold \ S, s) \in Nat
    BY <1>1, HeldType
  <2>2. soldStock'[s] = soldStock[s] - Held(quantity, S, s)
    BY DEF Restock, RestockRows
  <2>3. soldStock[s] \in Nat
    BY DEF LedgerTypeOK
  <2> QED
    BY <1>3, <2>1, <2>2, <2>3
<1>5. LedgerTypeOK'
  BY <1>1, <1>4 DEF Restock, RestockRows, LedgerTypeOK
<1>6. ReservedBalanced' /\ SoldBalanced'
  BY <1>2, <1>3 DEF Restock, RestockRows, ReservedBalanced, SoldBalanced
<1>7. NoOversell'
  BY <1>4 DEF Restock, RestockRows, NoOversell, LedgerTypeOK
<1>8. ReturnedWereSold'
  BY DEF Restock, RestockRows, ReturnedWereSold, WithStatus
<1> QED
  BY <1>5, <1>6, <1>7, <1>8

\* The invariant is inductive: every transaction preserves it.
LEMMA LedgerStepInv == LedgerInv /\ [LedgerNext]_ledgerVars => LedgerInv'
<1> SUFFICES ASSUME LedgerInv, [LedgerNext]_ledgerVars PROVE LedgerInv'
  OBVIOUS
<1>1. CASE \E s \in Stock, d \in Delta : AdjustTotal(s, d)
  BY <1>1, AdjustTotalInv
<1>2. CASE \E c \in Checkout, W \in SUBSET Stock, D \in SUBSET WithStatus("ACTIVE") :
              \E want \in [W -> Quantity] : Book(c, want, D)
  BY <1>2, BookInv
<1>3. CASE \E D \in SUBSET WithStatus("ACTIVE"), st \in {"RELEASED", "EXPIRED"} : Close(D, st)
  BY <1>3, CloseInv
<1>4. CASE \E S \in SUBSET WithStatus("ACTIVE") : Sell(S)
  BY <1>4, SellInv
<1>5. CASE \E S \in SUBSET (WithStatus("CONFIRMED") \ returned) : Restock(S)
  BY <1>5, RestockInv
<1>6. CASE \E R, D \in SUBSET WithStatus("ACTIVE") : \E new \in [R -> Quantity] : Resize(new, D)
  BY <1>6, ResizeInv
<1>7. CASE UNCHANGED ledgerVars
  BY <1>7 DEF ledgerVars, LedgerInv, LedgerTypeOK, ReservedBalanced, SoldBalanced,
              NoOversell, ReturnedWereSold, WithStatus, Held, Units
<1> QED
  BY <1>1, <1>2, <1>3, <1>4, <1>5, <1>6, <1>7 DEF LedgerNext

\* The stock engine never oversells and its balances always add up, whatever
\* stock, checkouts and quantities there are.
THEOREM LedgerCorrect == LedgerSpec => []LedgerInv
BY LedgerInitInv, LedgerStepInv, PTL DEF LedgerSpec
=============================================================================
