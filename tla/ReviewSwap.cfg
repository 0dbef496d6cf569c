\* Two request threads and one candidate that never changes.
CONSTANTS
  Sessions   = {s1, s2}
  Versions   = {v1}
  Flawed     = {}
  Verdicts   = {TRUE}
  MaxImports = 1
  MaxAssets  = 1
  Torn       = Torn
  None       = None
SPECIFICATION Spec
INVARIANT
  BundledDecisionIsApprovers
\* The bounds on imports and assets may be used up.
CHECK_DEADLOCK FALSE
