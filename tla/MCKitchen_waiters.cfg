\* Two requests at a time, one of which may die.
SPECIFICATION CounterSpec
CONSTANTS
    Stock = {tea}
    Checkout = {o1}
    Quantity = {1, 2}
    Delta <- MCNoDelta
    Request = {q1, q2}
    Meanwhile = {}
    InitialTotal = {2}
    Balance = {2}
    MaxTickets = 2
    MaxCrashes = 1
SYMMETRY Symmetric
INVARIANTS SentMatchesTickets
CHECK_DEADLOCK FALSE
