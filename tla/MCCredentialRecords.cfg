SPECIFICATION RecordsSpec
CONSTANTS
  Credential = {k1, k2, k3, k4}
  Uuid = {k1, k2, k4}
  Structured = {k1, k2, k4}
  Proven = {k1, k2, k4}
  KnownProof = {k1, k2}
  Addressed = {k1, k3, k4}
  Expiring = {k1}
  NoId = NoId
INVARIANTS ReadersOfRevocation ValidIsNotRevoked
PROPERTY RevocationIsRemembered
