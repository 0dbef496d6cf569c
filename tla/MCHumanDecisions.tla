--------------------------- MODULE MCHumanDecisions ---------------------------
(***************************************************************************)
(* The stores of human decisions for TLC: the workbench's candidate        *)
(* (ReviewWorkflow), the feedback of a scope (FeedbackPromotion) and the   *)
(* candidates of a docset as the import puts them there (Importer).  They  *)
(* are different directories and share no step, so a behaviour moves one   *)
(* of them and leaves the others alone.  The import is taken twice:        *)
(* "import" over more directories, "crashes" with more crashed commands.   *)
(***************************************************************************)
EXTENDS ReviewWorkflow, TLC

CONSTANTS Procs, Readers, Cases, Releases, Times, MaxLineage, LateFailures, MaxClears,
  Runs, Dirs, FewDirs

VARIABLES store, lock, normative, case, verdict, amended, effective, current,
          step, tx, reading, cleared, promoted, recorded,
          at, whole, importing, place, import, saving, removed, latest, predecessor

feedback == <<lock, normative, case, verdict, amended, effective, current,
              step, tx, reading, cleared, promoted, recorded>>

candidates == <<at, whole, importing, place, import, saving, removed, latest, predecessor>>

Feedback == INSTANCE FeedbackPromotion WITH
  decision <- verdict, assets <- effective, pc <- step

Import == INSTANCE Importer WITH
  lock <- importing, pc <- place, tx <- import, cleared <- removed,
  Overlaps <- {}, LateFailures <- {"backup", "publish"}, MaxClears <- 1

Crashes == INSTANCE Importer WITH
  lock <- importing, pc <- place, tx <- import, cleared <- removed,
  Dirs <- FewDirs, Overlaps <- {}, LateFailures <- {"backup", "publish"}, MaxClears <- 2

ASSUME DirectoriesApart ==
  Import!OverlapsAssumption /\ Import!DistinctNone /\ Crashes!DistinctNone

ASSUME LocksApart ==
  Feedback!LockNamesApart /\ Feedback!NoneApart /\ Import!LockNamesApart

MCInit ==
  /\ store \in {"candidate", "feedback", "import", "crashes"}
  /\ Init
  /\ IF store = "feedback" THEN Feedback!Init
     ELSE /\ lock = None /\ normative = None /\ case = None /\ verdict = None
          /\ amended = None /\ effective = None /\ current = None /\ step = None
          /\ tx = None /\ reading = None /\ cleared = None /\ promoted = None
          /\ recorded = None
  /\ CASE store = "import" -> Import!Init
       [] store = "crashes" -> Crashes!Init
       [] OTHER ->
          /\ at = None /\ whole = None /\ importing = None /\ place = None
          /\ import = None /\ saving = None /\ removed = None /\ latest = None
          /\ predecessor = None

MCNext ==
  /\ UNCHANGED store
  /\ \/ store = "candidate" /\ Next /\ UNCHANGED <<feedback, candidates>>
     \/ store = "feedback" /\ Feedback!Next /\ UNCHANGED <<vars, candidates>>
     \/ store = "import" /\ Import!Next /\ UNCHANGED <<vars, feedback>>
     \/ store = "crashes" /\ Crashes!Next /\ UNCHANGED <<vars, feedback>>

MCSpec == MCInit /\ [][MCNext]_<<vars, feedback, candidates, store>>

Alike == Permutations(Cases) \cup Permutations(Procs)

\* The properties of the stores.
PromotionIsAllOrNothing == store = "feedback" => Feedback!PromotionIsAllOrNothing
PromotedStaysInLineage == store = "feedback" => Feedback!PromotedStaysInLineage
RecordedStays == store = "feedback" => Feedback!RecordedStays
ServedWasCurrent == store = "feedback" => Feedback!ServedWasCurrent

FailureRestoresCandidate ==
  (store = "import" => Import!FailureRestoresCandidate) /\ (store = "crashes" => Crashes!FailureRestoresCandidate)
FailureRestoresBackups ==
  (store = "import" => Import!FailureRestoresBackups) /\ (store = "crashes" => Crashes!FailureRestoresBackups)
OneBackupAtCommit ==
  (store = "import" => Import!OneBackupAtCommit) /\ (store = "crashes" => Crashes!OneBackupAtCommit)
ForeignKeepsLocks ==
  (store = "import" => Import!ForeignKeepsLocks) /\ (store = "crashes" => Crashes!ForeignKeepsLocks)
CommittedIsKept ==
  (store = "import" => Import!CommittedIsKept) /\ (store = "crashes" => Crashes!CommittedIsKept)
=============================================================================
