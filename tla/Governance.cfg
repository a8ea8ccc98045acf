SPECIFICATION Spec
CONSTANTS
  t1 = t1
  c1 = c1
  c2 = c2
  Absent = Absent
  WordMax = 15
  Client = {c1, c2}
  Phase = {"implementation", "review"}
  Ticket = {t1}
  Request <- MCRequest
  Start <- MCStart
  None = None
  MaxTurns <- MCTurns
  MaxMoves = 1
  MaxMishaps = 1
INVARIANTS
  PermitKeepsBinding
  BindingFits
  SelectionRecorded
  SelectedIsLawful
PROPERTY
  RecordsStay
SYMMETRY Symmetry
