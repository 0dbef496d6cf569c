\* Two commands over three directories; one assemble in all modes; four claims; plans of two
\* entries; claims of a small OpenAPI document; extractions of a small contract; two
\* benchmark cases.
CONSTANTS
  p1 = p1
  p2 = p2
  d1 = d1
  d2 = d2
  d3 = d3
  e1 = e1
  e2 = e2
  None = None
  Procs = {p1, p2}
  Dirs = {d1, d2, d3}
  Modes = {"legacy"}
  MaxMeddles = 1
  Failing = {FALSE}
  SoleProcs = {p1}
  SoleDirs = {d1}
  Targets = {"status", "field", "token", "gap"}
  Fields = {"field"}
  Sensitive = {"token"}
  Documented = {"status", "field", "token"}
  Statuses = {"200", "404"}
  Scopes = {"live", "other"}
  Foreign = {"other"}
  AttemptLists <- FewAttempts
  MaxTime = 1
  MaxReleases = 2
  MaxAmendments = 2
  Entries = {e1, e2}
  Unlisted = {"rule"}
  Paths = {"required", "ref"}
  RefPath = "ref"
  CellPath = "required"
  Supplementary = {"notes"}
  Text = {"page"}
  Pointers = {"pointer", "link"}
  Cells = {"cell"}
  Plans <- FewPlans
  Documents <- FewDocuments
  Whole = "whole"
  Vague = "vague"
  ApiDocuments <- FewApiDocuments
  ApiClaims <- FewApiClaims
  ApiCitations <- FewApiCitations
  ErrorStatuses = {"404"}
  Unrooted = {"p"}
  Extractions <- FewExtractions
  Manifests <- FewManifests
  Focuses <- FewFocuses
  Profiles = {"ci", "review"}
  Scores <- FewScores
  Rounds = {1, 2}
  KeyOf <- FewKeys
  Label <- FewLabels
  Tokens <- FewTokens
  ContractStatuses = {"200", "201", "404"}
  Successes = {"200", "201"}
  Cases = {"pdf", "redacted"}
  Sanitized = {"redacted"}
  Derived = {"pdf"}
  Replayable = {"pdf", "redacted"}
  Commands <- FewCommands
  Starts <- FewStarts
  Regressions <- FewRegressions
  MaxEdits = 1
SPECIFICATION MCSpec
INVARIANTS
  ReturnedStands NameHoldsWholeRun StrictNeverPassesAsLegacy OverridesAreWarranted
  CandidateIsGrounded DerivedHolds BridgeFindsDerivation PassedMeansSupported
  AssuranceIsEarned
\* Directories, releases and amendments may be used up; a command ends.
CHECK_DEADLOCK FALSE
