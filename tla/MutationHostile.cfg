SPECIFICATION FairSpec
CONSTANTS
  Path <- PairPath
  Identity <- MCIdentity
  IdOf <- PairIdOf
  Doc <- PairDoc
  Absent = Absent
  Writer = {w1, w2}
  Request <- CrossedRequest
  Start <- PairStart
  None = None
  Unread = Unread
  MaxTurns = 2
  MaxEdits = 1
  MaxFaults = 1
  MaxCrashes = 1
PROPERTIES
  PublishesWhatWasApproved
  EveryOperationReturns
