SPECIFICATION FairSpec
CONSTANTS
  Stock = {s1}
  Checkout = {c1, c2}
  Quantity = {1}
  Delta <- MCDelta
  Worker = {w1, w2}
  Buffer = {1}
  Channel = {"POS", "WEBSITE"}
  Lifetime = {1, 2}
  BatchLimit = 1
  InitialTotal = {2}
  MaxTotal = 3
  MaxTime = 2
  MaxCrashes = 1
INVARIANTS
  InventoryTypeOK
  NoOversell
PROPERTIES
  LedgerSpec
  ReservationsEndOnce
  OverdueIsClosed
CHECK_DEADLOCK FALSE
