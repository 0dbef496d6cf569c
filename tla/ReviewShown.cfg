\* One import between the two reads of a snapshot.
CONSTANTS
  Sessions   = {s1}
  Versions   = {v1, v2}
  Flawed     = {}
  Verdicts   = {TRUE, FALSE}
  MaxImports = 2
  MaxAssets  = 1
  Torn       = Torn
  None       = None
SPECIFICATION Spec
INVARIANT
  ApprovedAsShown
\* The bounds on imports and assets may be used up.
CHECK_DEADLOCK FALSE
