SPECIFICATION Spec
CONSTANTS
  MaxDepth = 2
  MaxNodes = 18
  MaxValueLength = 425
  MaxTags = 3
  MaxDolEntries = 3
  MaxDolOutput = 252
  MaxIad = 4
  MinSignature = 3
  MaxCommands = 3
  MaxCommandLength = 7
  MaxPackage = 425
  Store <- Values
  Senders <- AllSenders
  StrayBytes <- Strays
  MaxSteps = 4
  MaxDamaged = 10
INVARIANTS
  TlvFaithful
  DolFaithful
  ResponsesFaithful
