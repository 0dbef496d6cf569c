\* One aggregate, two callers; every payload has an alternative and one of the
\* approvers has the identity of a runtime.
CONSTANTS
  Callers    = {c1, c2}
  SourceSets = {s}
  Versions   = {v1, v2}
  ClaimKinds = {k1, k2}
  Metadata   = {m1}
  Compilers  = {openapi}
  Runtimes   = {r1, r2}
  Approvers  = {r1, human}
  None       = None
SPECIFICATION FairSpec
INVARIANTS
  TypeOK
  FenceExclusive
  CommitNeverRefused
  NoRepeatedEffect
  AuditTrailIsPath
  AnswersAreReceipts
  RuntimeNeverApproves
  PublicationsAreApproved
PROPERTIES
  RejectionIsFinal
  HistoryAppendOnly
  ImplementsLedger
  CallsReturn
