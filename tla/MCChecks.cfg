SPECIFICATION Spec
CONSTANTS
  ProfileSets  <- SomeProfileSets
  Cards        <- SomeCards
  Transactions <- SomeTransactions
  Samples      <- SomeSamples
  Calendar     <- SomeCalendar
  OtherBits    <- SomeOtherBits
  MaxCount     = 3
  MaxCandidates = 2
INVARIANTS
  HigherPriorityRefused
  SelectedAsListed
  CounterFresh
  VelocityBounded
PROPERTIES
  OfflineApprovalWarranted
