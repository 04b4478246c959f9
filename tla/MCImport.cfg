SPECIFICATION Spec
CONSTANTS
  Lanes <- SomeLanes
  FileNames <- SomeFiles
  Contents <- SomeContents
  FreezeTargets <- SomeTargets
  MaxImported = 2
  MaxFindings = 2
  MaxChanges = 2
INVARIANTS
  QuietReport
  AcceptedAsManifested
