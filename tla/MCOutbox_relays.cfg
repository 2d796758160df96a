SPECIFICATION FairOutbox
CONSTANTS
  Process = {p1, p2}
  Inside = {e1}
  Aside = {a1}
  BatchSize = 2
  MaxAttempts = 2
  MaxFailures = 3
  MaxCrashes = 1
INVARIANTS
  OutboxTypeOK
  NeverGivesUpEarly
PROPERTIES
  DeliversInside
CHECK_DEADLOCK FALSE
