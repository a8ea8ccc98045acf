SPECIFICATION Spec
CONSTANTS
  Path <- MCPath
  Identity <- MCIdentity
  IdOf <- MCIdOf
  Doc <- MCDoc
  Absent = Absent
  Writer = {w1, w2}
  Request <- MCRequest
  Start <- MCStarts
  None = None
  Unread = Unread
  MaxTurns = 2
  MaxEdits = 0
  MaxFaults = 1
  MaxCrashes = 0
INVARIANTS
  TypeOK
  LockExclusion
  NoCircularWait
  DependenciesStable
  CapturesCurrent
PROPERTY
  Atomic
