SPECIFICATION Spec
CONSTANTS
  Issuer = {i1}
  Badge = {b1}
  Assertion = {a1}
  Field = {url}
  Value = {v1, v2}
  Url = url
  Host = {v1}
  Placeholder = none
  Call = {c1, c2, c3}
SYMMETRY Symmetry
INVARIANTS ProfileServedIsStored ProfileUpdatesKept BadgeUpdatesKept NothingDangles
