SPECIFICATION Spec
CONSTANTS
  KindOf <- MCKindOf
  Path <- MCPath
  ScopeOf <- MCScopeOf
  Scopes <- MCScopes
  Target = {"store", "A"}
  Covers <- MCCovers
  Start <- MCStart
  Saves <- MCSaves
  None = None
  Capacity = 1
  MaxLoads = 2
  MaxMishaps = 1
INVARIANTS
  FactsAsFromScratch
  QuietLoadIsCurrent
  HandlesExact
  SleepersAreWoken
CHECK_DEADLOCK FALSE
