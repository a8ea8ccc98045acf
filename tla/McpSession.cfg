SPECIFICATION FairSpec
CONSTANTS
  Worker = {w1, w2}
  Kind = {"record", "board"}
  RecordKind = "record"
  Path = {"f", "g"}
  Initial = {"g"}
  Request <- MCRequest
  PreviewLimit = 1
  MaxMessages = 4
  Others <- MCOthers
  MaxMishaps = 1
INVARIANTS
  CleanEndAnswersAll
  TakesEffectOnce
  RefusedOnlyIfEvicted
PROPERTIES
  SessionEnds
