\* The stat that verifies a moved head may fail, an operator removes locks
\* once; no symmetry, which liveness checking does not allow.
CONSTANTS
  Docsets        = {d1}
  Assets         = {a1, a2}
  Runs           = {r1}
  Titles         = {t1}
  Procs          = {p1}
  Readers        = {}
  IdentityFaults = TRUE
  MaxClears      = 1
  None           = None
SPECIFICATION FairSpec
INVARIANTS
  LineageIntact
PROPERTIES
  TransactionsEnd
\* When every lock is stale and no operator comes, nothing can run.
CHECK_DEADLOCK FALSE
