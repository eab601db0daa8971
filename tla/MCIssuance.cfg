SPECIFICATION Spec
CONSTANTS
  a1 = a1
  a2 = a2
  a3 = a3
  i1 = i1
  i2 = i2
  Assertion = {a1, a2, a3}
  Issuer = {i1, i2}
  IssuerOf <- Issuers
  WellFormed = {a1, a3}
  Key = {k1, k2}
  Call = {c1, c2}
SYMMETRY Symmetry
INVARIANTS CredentialsVerify ReplyNotBehindRow VerdictsAreTimely
