SPECIFICATION Spec
CONSTANTS
  Email = {e1}
  Password = {p1, p2}
  Token = {t1, t2}
  CodeRow = {r1, r2}
  Secret = {s1}
  Client = {i1, i2}
  Call = {c1, c2}
  None = None
SYMMETRY Symmetry
INVARIANTS TypeOK RegistrantOwnsAccount UsedWereAttempted RevocationSticks
