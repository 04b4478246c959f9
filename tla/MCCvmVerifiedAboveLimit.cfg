SPECIFICATION CvmSpec
CONSTANTS
  CvmLists <- SomeLists
  Contexts <- SomeContexts
INVARIANTS
  VerifiedAboveLimit
CHECK_DEADLOCK FALSE
