SPECIFICATION Spec
CONSTANTS
  Code = {k1}
  Session = {s1}
  Machine = Machine
  Token = {t1, t2}
  None = None
  Call = {c1, c2}
INVARIANTS SpentFirst CodeTokensAreKnown AnsweredMeansRotated NoOrphanJwt OneTokenPerCode
SYMMETRY Symmetry
