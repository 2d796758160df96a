\* One request at a time; payment, cancellation and expiry between its steps.
SPECIFICATION CounterSpec
CONSTANTS
    Stock = {tea, pie}
    Checkout = {o1}
    Quantity = {1, 2}
    Delta <- MCNoDelta
    Request = {q1}
    Meanwhile = {"pay", "cancel", "expire"}
    InitialTotal = {1, 2}
    Balance = {0, 1, 2, 3}
    MaxTickets = 1
    MaxCrashes = 0
INVARIANTS KitchenTypeOK   
  
CHECK_DEADLOCK FALSE
