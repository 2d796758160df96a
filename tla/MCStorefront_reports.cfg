SPECIFICATION StorefrontSpec
CONSTANTS
  Stock = {s1, s2}
  Checkout = {c1}
  Quantity = {1}
  Delta <- MCShrinkage
  Worker = {w1}
  Buffer = {0}
  Channel = {"WEBSITE"}
  Lifetime = {1}
  BatchLimit = 1
  InitialTotal = {1}
  MaxTotal = 1
  MaxTime = 1
  MaxCrashes = 1
  Manual = {"adjust"}
  Request = {q1, q2}
  EventId = {e1, e2}
  MaxIntents = 2
SYMMETRY Symmetric
INVARIANTS
  StorefrontTypeOK
  PaidOnce
  
  CancelledHoldsNothing
  
PROPERTIES
  LedgerSpec
  
CHECK_DEADLOCK FALSE
