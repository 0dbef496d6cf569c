\* One request thread of the workbench, with imports and approvals of others between any two
\* steps; two feedback commands on two cases and one reader; one run imported again and again
\* by two processes, a workbench saving late.
CONSTANTS
  s1 = s1
  v1 = v1
  v2 = v2
  p1 = p1
  p2 = p2
  r1 = r1
  c1 = c1
  c2 = c2
  d1 = d1
  d2 = d2
  d3 = d3
  d4 = d4
  d5 = d5
  pay = pay
  None = None
  Torn = Torn
  Sessions = {s1}
  Versions = {v1, v2}
  Flawed = {v2}
  Verdicts = {TRUE, FALSE}
  MaxImports = 6
  MaxAssets = 2
  Procs = {p1, p2}
  Readers = {r1}
  Cases = {c1, c2}
  Releases = 2
  Times = {1, 2}
  MaxLineage = 3
  LateFailures = {"case", "decision", "amendment", "asset"}
  MaxClears = 1
  Runs = {pay}
  Dirs = {d1, d2, d3, d4, d5}
  FewDirs = {d1, d2, d3, d4}
SPECIFICATION MCSpec
SYMMETRY Alike
INVARIANTS
  ApprovedAsBound ReviewedMeansAccepted BundledDecisionIsApprovers
  PromotionIsAllOrNothing PromotedStaysInLineage RecordedStays ServedWasCurrent
  FailureRestoresCandidate FailureRestoresBackups OneBackupAtCommit
  ForeignKeepsLocks CommittedIsKept
\* The bounds on imports, assets, releases and lock removals may be used up.
CHECK_DEADLOCK FALSE
