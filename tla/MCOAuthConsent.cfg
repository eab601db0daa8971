SPECIFICATION Spec
CONSTANTS
  User = {u1, u2}
  Client = {i1}
  Scope = {s1, s2}
  Known = {s1}
  Call = {c1, c2}
SYMMETRY Symmetry
INVARIANTS TypeOK UnaskedWasRemembered RememberedIsKept
