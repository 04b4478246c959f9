SPECIFICATION Spec
CONSTANTS
  MaxVersion = 1
  ProfileSet <- OnlineProfiles
  ParamChoices <- ContactOrOffline
  InputChoices <- NoInputs
  CardIac <- Iac
  AipChoices <- CdaOnly
  RecordChoices <- OnlineRecords
  MaxRecords = 1
  RestrictionChoices <- NoRestriction
  CvmChoices <- GoodCvm
  UnChoices <- Uns
  HostChoices <- ScriptResponses
  CallbackErrors <- TwoErrors
INVARIANT ScriptFailureAlwaysRecorded
