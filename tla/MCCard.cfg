SPECIFICATION Spec
CONSTANTS
  MaxVersion = 1
  ProfileSet <- CardProfiles
  ParamChoices <- CardParams
  InputChoices <- CardInputs
  CardIac <- Iac
  AipChoices <- CardAips
  RecordChoices <- CardRecords
  MaxRecords = 1
  RestrictionChoices <- CardRestrictions
  CvmChoices <- AnyCvm
  UnChoices <- Uns
  HostChoices <- OneResponse
  CallbackErrors <- OneError
INVARIANTS
  ApprovalJustified
  EvidenceChain
  PackageTvrCurrent
  OdaAccountedFor
  OutcomeWhenFinal
PROPERTIES
  RiskMonotone
  UnpredictableNumberFresh
  ContactlessApprovalWithinLimits
