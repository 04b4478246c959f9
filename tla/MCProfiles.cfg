SPECIFICATION Spec
CONSTANTS
  Rids = {"r1", "r2"}
  Pixes = {"p1", "p2"}
  Names = {"A", "B", "C", "D"}
  Indices = {"k1", "k2"}
  Signers = {"s1", "s2"}
  Documents <- SomeDocuments
  Bundles <- SomeBundles
  TrustAnchors <- SomeAnchors
  MaxVersion = 3
  LastDay = 4
INVARIANTS
  AidsUnambiguous
  CapksSelectable
  ScopeExact
PROPERTIES
  RollbackProtected
