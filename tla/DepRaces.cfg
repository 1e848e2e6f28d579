CONSTANTS
  a = a  b = b  x = x
  None = None  Redirect = Redirect
  Paths = {a, b}
  UrlOf <- OwnUrl
  Workers = {w1, w2}
  MaxCommits = 2
  MaxAttempts = 2
  Crashes = TRUE
  Errors = TRUE
SPECIFICATION Spec
SYMMETRY Symmetry
INVARIANTS CertifiedIsServed DriftIsAccounted
PROPERTIES NoOlderRelease
\* A bounded number of deployments: in the end nothing is left to do.
CHECK_DEADLOCK FALSE
