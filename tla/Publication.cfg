SPECIFICATION BatchSpec
CONSTANTS
  Path <- MCPath
  Identity <- MCIdentity
  IdOf <- MCIdOf
  Doc <- MCDoc
  Absent = Absent
  Request <- MCRequest
  Start <- MCStart
  a = a
  b = b
  old = old
  new = new
  other = other
  Target = {a, b}
  Body = {old, new, other}
  Gone = Gone
  Transaction <- MCTransaction
  Node = {n1, n2, n3, n4}
  NoNode = NoNode
  Unknown = Unknown
  MaxEdits = 2
  MaxFaults = 2
SYMMETRY Symmetry
INVARIANTS
  NoReferenceInvented
  NothingHalfDoneUnreported
PROPERTIES
  NothingIntroduced
  EditsSurvive
