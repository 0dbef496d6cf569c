\* One failed stat after a head was moved.
CONSTANTS
  Docsets        = {d1}
  Assets         = {a1, a2}
  Runs           = {r1}
  Titles         = {t1}
  Procs          = {p1}
  Readers        = {}
  IdentityFaults = TRUE
  MaxClears      = 0
  None           = None
SPECIFICATION Spec
INVARIANTS
  UncertaintyStaysLocked
SYMMETRY Symmetry
\* When every lock is stale and no operator comes, nothing can run.
CHECK_DEADLOCK FALSE
