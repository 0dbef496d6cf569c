\* Two docsets that share the catalog, chains of three approvals, two processes;
\* a reader of a third docset among its approvals, or an approval and registrations.
CONSTANTS
  d1 = d1
  d2 = d2
  d3 = d3
  a1 = a1
  a2 = a2
  a3 = a3
  a4 = a4
  a5 = a5
  a6 = a6
  t1 = t1
  t2 = t2
  t3 = t3
  t4 = t4
  p1 = p1
  p2 = p2
  p3 = p3
  Docsets        = {d1, d2, d3}
  Assets         = {a1, a2, a3, a4, a5, a6}
  Runs           = {r1}
  Titles         = {t1, t2, t3, t4}
  Procs          = {p1, p2, p3}
  Readers        = {u1}
  IdentityFaults = FALSE
  MaxClears      = 0
  None           = None
SPECIFICATION MCSpec
INVARIANTS
  LocksExclude
  QuiescentHeadsAgree
  AckedStaysInLineage
  NoOrphanRoots
  ReadsAreAtomic
SYMMETRY Symmetry
\* When every lock is stale and no operator comes, nothing can run.
CHECK_DEADLOCK FALSE
