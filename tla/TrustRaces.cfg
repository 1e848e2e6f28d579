CONSTANTS
  None = None
  Pages = {1, 2}
  Workers = {w1, w2}
  Owners = {o}
  MaxTime = 1
  MaxRevision = 2
  MaxVersion = 2
SPECIFICATION Spec
SYMMETRY Symmetry
INVARIANTS VerifiedIsCurrent ExpiryMissesNothing
