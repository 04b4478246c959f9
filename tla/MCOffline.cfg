SPECIFICATION Spec
CONSTANTS
  Gpos <- SomeGpos
  Bodies <- SomeBodies
  AcResponses <- SomeAcResponses
  Profiles <- SomeProfiles
  Terminal <- SomeTerminal
  Aips <- SomeAips
  Dols <- SomeDols
  Certificates <- SomeCertificates
  Signatures <- SomeSignatures
INVARIANTS
  SignedRecordsIntact
  OwnersRespected
  VerdictBacked
CHECK_DEADLOCK FALSE
