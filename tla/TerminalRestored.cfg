SPECIFICATION Spec
CONSTANTS
  Whole = "store"
  Project = {"alpha"}
  Investigation <- MCInvestigation
  ProjectOf <- MCProjectOf
  Overlap <- MCOverlap
  File = {"project.md", "note.md"}
  ScopeOf <- MCScopeOf
  None = None
  MaxEvents = 2
  MaxMishaps = 1
  MaxRefreshes = 2
  MaxContents = 1
INVARIANTS
  StaleIsWarned
