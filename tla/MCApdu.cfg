SPECIFICATION Spec
CONSTANTS
  MaxFollowups = 4
  DataLengths <- Lengths
  LeValues <- Les
  CallbackErrors <- Errors
INVARIANTS
  AtMostOnce
  LeIsIndicated
PROPERTIES
  ImplementsCommand
