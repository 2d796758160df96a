\* An order is paid while a line of it is being removed.
SPECIFICATION CounterSpec
CONSTANTS
    Stock = {tea, pie}
    Checkout = {o1}
    Quantity = {1}
    Delta <- MCNoDelta
    Request = {q1}
    Meanwhile = {"pay"}
    InitialTotal = {1}
    Balance = {0, 1, 2}
    MaxTickets = 1
    MaxCrashes = 0
PROPERTY SoldStaySold
CHECK_DEADLOCK FALSE
