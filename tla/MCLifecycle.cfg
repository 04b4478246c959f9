SPECIFICATION Spec
CONSTANTS
  MaxVersion = 3
  ProfileSet <- ReloadProfiles
  ParamChoices <- ContactOrOffline
  InputChoices <- NoInputs
  CardIac <- Iac
  AipChoices <- CdaOnly
  RecordChoices <- OnlineRecords
  MaxRecords = 2
  RestrictionChoices <- NoRestriction
  CvmChoices <- GoodCvm
  UnChoices <- OneUn
  HostChoices <- ScriptResponses
  CallbackErrors <- OneError
INVARIANTS
  ScriptsInOrder
  ScriptFailuresRecorded
  BusyIsTransient
  ScriptsComplete
PROPERTIES
  OutcomeStable
  ImplementsLifecycle
  EveryCallReturns
