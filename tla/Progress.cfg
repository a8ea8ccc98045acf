SPECIFICATION Spec
CONSTANTS
  t1 = t1
  t2 = t2
  c1 = c1
  c2 = c2
  Ticket = {t1, t2}
  Entry <- MCEntry
  Missing = Missing
  Request <- MCRequest
  Client = {c1, c2}
  None = None
  MaxTurns <- MCTurns
  MaxFaults = 2
  MaxCrashes = 1
INVARIANTS
  AcknowledgedStays
PROPERTY
  Atomic
