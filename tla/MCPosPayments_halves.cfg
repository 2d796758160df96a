\* Two halves of an order are confirmed at the same time.
SPECIFICATION PosSpec
CONSTANTS
    Stock = {beans}
    Checkout = {o1}
    Quantity = {1}
    Delta <- MCNoDelta
    Total <- MCTotal
    Amount = {1, 2}
    Tender = {"KHQR"}
    Request = {q1, q2}
    Meanwhile = {}
    InitialTotal = {2}
    MaxPayments = 2
    MaxCrashes = 0
INVARIANT StatusFollowsLedger
CHECK_DEADLOCK FALSE
