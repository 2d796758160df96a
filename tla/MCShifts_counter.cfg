\* Two requests at a time, both tenders, a crash, cancellation, expiry, and a
\* shift that is closed meanwhile.
SPECIFICATION CounterSpec
CONSTANTS
    Stock = {beans}
    Checkout = {o1}
    Quantity = {1}
    Delta <- MCNoDelta
    Total <- MCTotal
    Amount = {1, 2}
    Tender = {"CASH", "KHQR"}
    Request = {q1, q2}
    Meanwhile = {"cancel", "expire"}
    InitialTotal = {2}
    MaxPayments = 2
    MaxCrashes = 1
    Clerk = {k1}
    MaxDisturbances = 1
SYMMETRY Symmetric
INVARIANTS CounterTypeOK SoldIsCovered OrderlyStatus  ClosedOnRealCash OrderlyDrawer
PROPERTY OrderlyContract
CHECK_DEADLOCK FALSE
