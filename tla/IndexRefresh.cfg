SPECIFICATION Spec
CONSTANTS
  p1 = p1
  p2 = p2
  Process = {p1, p2}
  Files <- MCFiles
  Index0 <- MCIndex0
  None = None
  Cost <- MCCost
  MaxCalls = 2
  MaxEvents = 2
SYMMETRY Symmetry
INVARIANTS
  AnswersFresh
  CleanMeansCurrent
