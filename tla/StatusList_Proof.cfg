SPECIFICATION Spec
CONSTANTS
  Assertion = {1, 2, 3}
  Issuer = {1, 2}
  Index = {1, 2, 3}
  IssuerOf <- Split
  IndexOf <- Distinct
  Call = {c1}
  MaxUpdates = 2
INVARIANT StoredListsVerify
