SPECIFICATION WorkbenchSpec
CONSTANTS
  Whole = "store"
  Project = {"alpha"}
  Investigation <- MCInvestigation
  ProjectOf <- MCProjectOf
  Overlap <- MCOverlap
  File = {"project.md", "note.md"}
  ScopeOf <- MCScopeOf
  None = None
  MaxEvents = 2
  MaxMishaps = 1
  MaxRefreshes = 2
  MaxContents = 1
  Projects <- MCProjects
  Investigations <- MCInvestigations
  Paths <- MCPaths
  PlaceOf <- MCPlaceOf
  FoldersOf <- MCFoldersOf
  Lazy = {"note.md"}
  DocsOf <- MCDocsOf
  Catalogues <- MCCatalogues
  Needles = {"done"}
  Starts <- MCStarts
INVARIANTS
  StaleIsWarnedUnlessBlind
  ShownAsLoaded
PROPERTY
  RefreshClearsWarnings
  SelectionIsFollowed
