\* The smallest instance in which a port's outcome is unknown and the command
\* is issued again.
CONSTANTS
  Callers    = {c1}
  SourceSets = {s1}
  Versions   = {v1}
  ClaimKinds = {k1}
  Metadata   = {m1}
  Compilers  = {openapi}
  Runtimes   = {r1}
  Approvers  = {human}
  None       = None
SPECIFICATION FairSpec
PROPERTY
  UnknownOutcomeNotReissued
