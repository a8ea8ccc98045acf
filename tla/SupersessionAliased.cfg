SPECIFICATION Spec
CONSTANTS
  Path <- MCPath
  Identity <- MCIdentity
  IdOf <- MCIdOf
  Doc <- MCDoc
  Absent = Absent
  Writer = {w1}
  Request <- AliasedRequest
  Start <- MCStart
  None = None
  Unread = Unread
  MaxTurns = 4
  MaxEdits = 0
  MaxFaults = 0
  MaxCrashes = 0
INVARIANT
  NoSupersessionCycle
