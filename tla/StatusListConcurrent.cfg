SPECIFICATION Spec
CONSTANTS
  Assertion = {1, 2, 3, 4}
  Issuer = {1, 2}
  Index = {1, 2}
  IssuerOf <- Split
  IndexOf <- Colliding
  Call = {c1, c2}
  MaxUpdates = 2
SYMMETRY Handlers
INVARIANTS OnlyAskedIsListed ColumnFollowsList PublishedStaysListed OneListPerIssuer
