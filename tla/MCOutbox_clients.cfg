\* A process dies after it marked an event and before it told its clients.
SPECIFICATION FairOutbox
CONSTANTS
  Process = {p1, p2}
  Inside = {e1}
  Aside = {}
  BatchSize = 1
  MaxAttempts = 2
  MaxFailures = 0
  MaxCrashes = 1
PROPERTY ReachesClients
CHECK_DEADLOCK FALSE
