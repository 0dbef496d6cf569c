\* One assemble in every mode, any write of its core artifacts failing.
CONSTANTS
  p1 = p1
  d1 = d1
  None = None
  Procs = {p1}
  Dirs = {d1}
  Modes = {"legacy", "shadow", "strict"}
  MaxMeddles = 0
  Failing = {TRUE, FALSE}
SPECIFICATION Spec
INVARIANT BlockedIsRefused
\* The one directory may be used up.
CHECK_DEADLOCK FALSE
