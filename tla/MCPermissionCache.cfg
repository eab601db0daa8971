SPECIFICATION Spec
CONSTANTS
  User = {u1, u2}
  Role = {r1}
  Perm = {p1}
  Call = {c1, c2}
  Ttl = 1
  SeedRoles = {}
  SeedPerms = {}
  MaxChanges = 3
SYMMETRY Symmetry
INVARIANTS TypeOK ReadsExact CacheCoherent GuardsFollowTables
