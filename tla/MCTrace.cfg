SPECIFICATION Spec
CONSTANTS
  Cases <- SomeCases
  PolicyChoices <- SomePolicies
  MaxAdded = 2
  MaxLost = 5
  MaxSwaps = 1
INVARIANTS
  UntouchedReviewable
  LostByCase
  ReviewableMasked
CHECK_DEADLOCK FALSE
