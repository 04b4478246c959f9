SPECIFICATION CvmSpec
CONSTANTS
  CvmLists <- SomeLists
  Contexts <- SomeContexts
INVARIANTS
  CardPriorityKept
  FailureShown
CHECK_DEADLOCK FALSE
