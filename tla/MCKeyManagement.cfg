SPECIFICATION Spec
CONSTANTS
  Key = {k1, k2, k3}
  None = None
  Call = {c1, c2}
SYMMETRY Symmetry
INVARIANTS TypeOK NeverFalselyRevoked DefaultSurvives RetiredHasSuccessor
PROPERTY OnlyLateFillsAreStale
