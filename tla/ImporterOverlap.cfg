\* Two runs, one of whose names begins like the other's backups.
CONSTANTS
  p1 = p1
  d1 = d1
  d2 = d2
  d3 = d3
  d4 = d4
  d5 = d5
  pay = pay
  backup2 = backup2
  None = None
  Procs = {p1}
  Runs = {pay, backup2}
  Dirs = {d1, d2, d3, d4, d5}
  Overlaps <- NamedAlike
  LateFailures = {}
  MaxClears = 0
SPECIFICATION Spec
INVARIANT PredecessorRetained
CHECK_DEADLOCK FALSE
