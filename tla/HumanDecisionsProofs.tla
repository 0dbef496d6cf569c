-------------------------- MODULE HumanDecisionsProofs --------------------------
(***************************************************************************)
(* What MCHumanDecisions says of the feedback and of the imports, for      *)
(* every value of its constants.  A behaviour of MCSpec is about one       *)
(* store, and of this store's module: the theorems of that module's proofs *)
(* apply to it, and of the other stores the property says nothing.         *)
(*                                                                         *)
(* The modules of proofs are instances of their own here: Feedback and FP, *)
(* Import and IP, Crashes and CP say the same, definition by definition,   *)
(* which SameFeedback, SameImport and SameCrashes check.                   *)
(*                                                                         *)
(* The workbench's store is this module's own, ReviewWorkflow, and its     *)
(* theorems come last: an approval publishes what its draft was bound to,  *)
(* for any number of request threads, versions, imports and assets.  With  *)
(* one request at a time what is marked REVIEWED was accepted, and an      *)
(* asset holds its approver's decision.                                    *)
(***************************************************************************)
EXTENDS MCHumanDecisions, SequenceTheorems, TLAPS

FP == INSTANCE FeedbackPromotionProofs WITH
  decision <- verdict, assets <- effective, pc <- step

IP == INSTANCE ImporterProofs WITH
  lock <- importing, pc <- place, tx <- import, cleared <- removed,
  Overlaps <- {}, LateFailures <- {"backup", "publish"}, MaxClears <- 1

CP == INSTANCE ImporterProofs WITH
  lock <- importing, pc <- place, tx <- import, cleared <- removed,
  Dirs <- FewDirs, Overlaps <- {}, LateFailures <- {"backup", "publish"}, MaxClears <- 2

everything == <<vars, feedback, candidates, store>>

\* A behaviour is about one store.
LEMMA StoreStays ==
  /\ store = "feedback" /\ [MCNext]_everything => (store = "feedback")'
  /\ ~(store = "feedback") /\ [MCNext]_everything => (~(store = "feedback"))'
  /\ store = "import" /\ [MCNext]_everything => (store = "import")'
  /\ ~(store = "import") /\ [MCNext]_everything => (~(store = "import"))'
  /\ store = "crashes" /\ [MCNext]_everything => (store = "crashes")'
  /\ ~(store = "crashes") /\ [MCNext]_everything => (~(store = "crashes"))'
BY DEF MCNext, everything

-----------------------------------------------------------------------------
(* Feedback decisions and promotions.                                      *)

\* How many elements a set has, in either instance.
LEMMA SameSize == \A S : Feedback!Cardinality(S) = FP!Cardinality(S)
BY DEF Feedback!Cardinality, FP!Cardinality, Feedback!IsFiniteSet, FP!IsFiniteSet

\* A step of the feedback is one of the module that is proved about.
LEMMA SameFeedback == [Feedback!Next]_Feedback!vars => [FP!Next]_FP!vars
<1> USE DEF Feedback!vars, FP!vars, Feedback!governed, FP!governed, Feedback!outside, FP!outside,
            Feedback!AssetId, FP!AssetId, Feedback!Published, FP!Published, Feedback!Named, FP!Named,
            Feedback!Chain, FP!Chain, Feedback!Lineage, FP!Lineage, Feedback!Bound, FP!Bound,
            Feedback!Governed, FP!Governed, Feedback!Applied, FP!Applied, Feedback!Idle, FP!Idle,
            Feedback!Goto, FP!Goto, Feedback!Note, FP!Note, Feedback!Stop, FP!Stop, Feedback!LockFree,
            FP!LockFree, Feedback!KeepExisting, FP!KeepExisting, Feedback!NewAsset, FP!NewAsset,
            Feedback!RemoveLast, FP!RemoveLast, Feedback!Return, FP!Return, Feedback!NotReading,
            FP!NotReading, Feedback!BaseStillCurrent, FP!BaseStillCurrent
<1>1. \A p : /\ Feedback!Begin(p) <=> FP!Begin(p)
             /\ Feedback!Refuse(p) <=> FP!Refuse(p)
             /\ Feedback!PublishCase(p) <=> FP!PublishCase(p)
             /\ Feedback!WriteDecision(p) <=> FP!WriteDecision(p)
             /\ Feedback!Close(p) <=> FP!Close(p)
  BY DEF Feedback!Begin, FP!Begin, Feedback!Refuse, FP!Refuse, Feedback!PublishCase,
     FP!PublishCase, Feedback!WriteDecision, FP!WriteDecision, Feedback!Close, FP!Close
<1>2. \A i : Feedback!TooDeep(i) <=> FP!TooDeep(i)
  BY SameSize DEF Feedback!TooDeep, FP!TooDeep
<1>3. \A p : Feedback!Eligible(p) <=> FP!Eligible(p)
  BY <1>2 DEF Feedback!Eligible, FP!Eligible
<1>4. \A p : Feedback!WriteAmendment(p) <=> FP!WriteAmendment(p)
  BY <1>3 DEF Feedback!WriteAmendment, FP!WriteAmendment
<1>5. \A p : /\ Feedback!PublishAsset(p) <=> FP!PublishAsset(p)
             /\ Feedback!MovePointer(p) <=> FP!MovePointer(p)
             /\ Feedback!LinkPointer(p) <=> FP!LinkPointer(p)
             /\ Feedback!LinkFails(p) <=> FP!LinkFails(p)
             /\ Feedback!RetirePointer(p) <=> FP!RetirePointer(p)
             /\ Feedback!StepFails(p) <=> FP!StepFails(p)
  BY DEF Feedback!PublishAsset, FP!PublishAsset, Feedback!MovePointer, FP!MovePointer,
     Feedback!LinkPointer, FP!LinkPointer, Feedback!LinkFails, FP!LinkFails,
     Feedback!RetirePointer, FP!RetirePointer, Feedback!StepFails, FP!StepFails
<1>6. \A p : /\ Feedback!UnlinkPointer(p) <=> FP!UnlinkPointer(p)
             /\ Feedback!UnlinkFails(p) <=> FP!UnlinkFails(p)
             /\ Feedback!RestorePointer(p) <=> FP!RestorePointer(p)
             /\ Feedback!RemoveOutput(p) <=> FP!RemoveOutput(p)
             /\ Feedback!RemoveFails(p) <=> FP!RemoveFails(p)
             /\ Feedback!Undone(p) <=> FP!Undone(p)
             /\ Feedback!Crash(p) <=> FP!Crash(p)
  BY DEF Feedback!UnlinkPointer, FP!UnlinkPointer, Feedback!UnlinkFails, FP!UnlinkFails,
     Feedback!RestorePointer, FP!RestorePointer, Feedback!RemoveOutput, FP!RemoveOutput,
     Feedback!RemoveFails, FP!RemoveFails, Feedback!Undone, FP!Undone, Feedback!Crash, FP!Crash
<1>7. \A r : /\ Feedback!ReadPointer(r) <=> FP!ReadPointer(r)
             /\ Feedback!ReadAsset(r) <=> FP!ReadAsset(r)
             /\ Feedback!ReadBase(r) <=> FP!ReadBase(r)
             /\ Feedback!EndRead(r) <=> FP!EndRead(r)
  BY DEF Feedback!ReadPointer, FP!ReadPointer, Feedback!ReadAsset, FP!ReadAsset, Feedback!ReadBase,
     FP!ReadBase, Feedback!EndRead, FP!EndRead
<1>8. /\ Feedback!ApproveNormative <=> FP!ApproveNormative
      /\ Feedback!ClearLocks <=> FP!ClearLocks
  BY DEF Feedback!ApproveNormative, FP!ApproveNormative, Feedback!ClearLocks, FP!ClearLocks
<1> QED
  BY <1>1, <1>4, <1>5, <1>6, <1>7, <1>8 DEF Feedback!Next, FP!Next, Feedback!Command, FP!Command,
     Feedback!Promote, FP!Promote, Feedback!RollBack, FP!RollBack, Feedback!Read, FP!Read

\* A behaviour that begins with the feedback is one of its specification.
LEMMA FeedbackAlone == MCSpec /\ store = "feedback" => FP!Spec /\ [](store = "feedback")
<1>1. MCInit /\ store = "feedback" => FP!Init
  BY DEF MCInit, Feedback!Init, FP!Init, Feedback!Idle, FP!Idle, Feedback!NotReading, FP!NotReading
<1>2. store = "feedback" /\ [MCNext]_everything => [Feedback!Next]_Feedback!vars
  BY DEF MCNext, everything, feedback, Feedback!vars
<1>3. store = "feedback" /\ [MCNext]_everything => [FP!Next]_FP!vars
  BY <1>2, SameFeedback
<1> QED
  BY <1>1, <1>3, StoreStays, PTL DEF MCSpec, FP!Spec, everything

\* The others never come to it.
LEMMA NoFeedback == MCSpec /\ ~(store = "feedback") => [](~(store = "feedback"))
BY StoreStays, PTL DEF MCSpec, everything

\* What the theorems take for granted of the names.
LEMMA FeedbackNames == FP!LockNamesApart /\ FP!NoneApart
BY LocksApart DEF Feedback!LockNamesApart, FP!LockNamesApart, Feedback!NoneApart, FP!NoneApart

\* What was recorded as a feedback decision is what is read, for good, whoever records,
\* fails, retries or dies (foundry/feedback.py).
THEOREM RecordedForGood == MCSpec => []RecordedStays
<1>1. FP!Spec => []FP!RecordedStays
  BY FeedbackNames, FP!RecordedStaysAlways
<1>2. FP!RecordedStays => RecordedStays
  BY DEF RecordedStays, Feedback!RecordedStays, FP!RecordedStays
<1>3. ~(store = "feedback") => RecordedStays
  BY DEF RecordedStays
<1> QED
  BY <1>1, <1>2, <1>3, FeedbackAlone, NoFeedback, PTL

\* A reader without a lock is only served an asset whose base was the current release when
\* it read the scope's pointer (foundry/effective_binding.py).
THEOREM ServedCurrent == MCSpec => []ServedWasCurrent
<1>1. FP!Spec => []FP!ServedWasCurrent
  BY FeedbackNames, FP!ServedWasCurrentAlways
<1>2. FP!ServedWasCurrent => ServedWasCurrent
  BY DEF ServedWasCurrent, Feedback!ServedWasCurrent, FP!ServedWasCurrent
<1>3. ~(store = "feedback") => ServedWasCurrent
  BY DEF ServedWasCurrent
<1> QED
  BY <1>1, <1>2, <1>3, FeedbackAlone, NoFeedback, PTL

\* At rest a scope's pointer names an asset that is there with its whole lineage, and no
\* other asset or amendment is there, where a move of the pointer that was reported as failed
\* has not happened (effective_approval.py:580).
THEOREM PromotedWhole ==
  ASSUME "pointer" \notin LateFailures PROVE MCSpec => []PromotionIsAllOrNothing
<1>1. FP!Spec => []FP!PromotionIsAllOrNothing
  BY FeedbackNames, FP!PromotionsAreWhole
<1>2. FP!PromotionIsAllOrNothing => PromotionIsAllOrNothing
  BY DEF PromotionIsAllOrNothing, Feedback!Published, FP!Published, Feedback!Named, FP!Named,
     Feedback!Chain, FP!Chain, Feedback!Lineage, FP!Lineage, Feedback!Bound, FP!Bound,
     Feedback!Governed, FP!Governed, Feedback!PromotionIsAllOrNothing,
     FP!PromotionIsAllOrNothing
<1>3. ~(store = "feedback") => PromotionIsAllOrNothing
  BY DEF PromotionIsAllOrNothing
<1> QED
  BY <1>1, <1>2, <1>3, FeedbackAlone, NoFeedback, PTL

\* What was promoted is in the lineage every later promotion composes with, under the same
\* condition (effective_approval.py:580).
THEOREM PromotedForGood ==
  ASSUME "pointer" \notin LateFailures PROVE MCSpec => []PromotedStaysInLineage
<1>1. FP!Spec => []FP!PromotedStaysInLineage
  BY FeedbackNames, FP!PromotedStays
<1>2. FP!PromotedStaysInLineage => PromotedStaysInLineage
  BY DEF PromotedStaysInLineage, Feedback!Named, FP!Named, Feedback!Chain, FP!Chain,
     Feedback!Lineage, FP!Lineage, Feedback!Governed, FP!Governed,
     Feedback!PromotedStaysInLineage, FP!PromotedStaysInLineage
<1>3. ~(store = "feedback") => PromotedStaysInLineage
  BY DEF PromotedStaysInLineage
<1> QED
  BY <1>1, <1>2, <1>3, FeedbackAlone, NoFeedback, PTL

-----------------------------------------------------------------------------
(* Imports.                                                                *)

\* A step of an import is one of the module that is proved about.
LEMMA SameImport == [Import!Next]_Import!vars => [IP!Next]_IP!vars
<1> USE DEF Import!vars, IP!vars, Import!history, IP!history, Import!outside, IP!outside,
            Import!Kinds, IP!Kinds, Import!Name, IP!Name, Import!Unmade, IP!Unmade, Import!Tombstone,
            IP!Tombstone, Import!Entries, IP!Entries, Import!Unused, IP!Unused, Import!Fresh,
            IP!Fresh, Import!Occupant, IP!Occupant, Import!StaleBackups, IP!StaleBackups,
            Import!Found, IP!Found, Import!Idle, IP!Idle, Import!Before, IP!Before, Import!Move,
            IP!Move, Import!Goto, IP!Goto, Import!Note, IP!Note, Import!Stop, IP!Stop,
            Import!LockFree, IP!LockFree
<1>1. \A p : Import!ImportBegin(p) <=> IP!ImportBegin(p)
  BY DEF Import!ImportBegin, IP!ImportBegin
<1>2. \A p : /\ Import!ReadPrior(p) <=> IP!ReadPrior(p)
             /\ Import!CollectLeftovers(p) <=> IP!CollectLeftovers(p)
  BY DEF Import!ReadPrior, IP!ReadPrior, Import!CollectLeftovers, IP!CollectLeftovers
<1>3. \A p : Import!StageCandidate(p) <=> IP!StageCandidate(p)
  BY DEF Import!StageCandidate, IP!StageCandidate
<1>4. \A p : Import!StagingFails(p) <=> IP!StagingFails(p)
  BY DEF Import!StagingFails, IP!StagingFails
<1>5. \A p : Import!QuarantineBackup(p) <=> IP!QuarantineBackup(p)
  BY DEF Import!QuarantineBackup, IP!QuarantineBackup
<1>6. \A p : /\ Import!MoveAside(p) <=> IP!MoveAside(p)
             /\ Import!PublishStage(p) <=> IP!PublishStage(p)
             /\ Import!Close(p) <=> IP!Close(p)
             /\ Import!StepFails(p) <=> IP!StepFails(p)
  BY DEF Import!MoveAside, IP!MoveAside, Import!PublishStage, IP!PublishStage, Import!Close,
     IP!Close, Import!StepFails, IP!StepFails
<1>7. \A p : /\ Import!Reconcile(p) <=> IP!Reconcile(p)
             /\ Import!UndoPublication(p) <=> IP!UndoPublication(p)
  BY DEF Import!Reconcile, IP!Reconcile, Import!UndoPublication, IP!UndoPublication
<1>8. \A p : /\ Import!Surrender(p) <=> IP!Surrender(p)
             /\ Import!PutBack(p) <=> IP!PutBack(p)
             /\ Import!RestoreBackup(p) <=> IP!RestoreBackup(p)
  BY DEF Import!Surrender, IP!Surrender, Import!PutBack, IP!PutBack, Import!RestoreBackup,
     IP!RestoreBackup
<1>9. \A p : /\ Import!Release(p) <=> IP!Release(p)
             /\ Import!Abandon(p) <=> IP!Abandon(p)
             /\ Import!RetireQuarantine(p) <=> IP!RetireQuarantine(p)
  BY DEF Import!Release, IP!Release, Import!Abandon, IP!Abandon, Import!RetireQuarantine,
     IP!RetireQuarantine
<1>10. \A r : Import!SaveBegin(r) <=> IP!SaveBegin(r)
  BY DEF Import!SaveBegin, IP!SaveBegin
<1>11. \A r : Import!SaveDecision(r) <=> IP!SaveDecision(r)
  BY DEF Import!SaveDecision, IP!SaveDecision
<1>12. Import!ClearLocks <=> IP!ClearLocks
  BY DEF Import!ClearLocks, IP!ClearLocks
<1> QED
  BY <1>1, <1>2, <1>3, <1>4, <1>5, <1>6, <1>7, <1>8, <1>9, <1>10, <1>11, <1>12
     DEF Import!Next, IP!Next

\* A step of an import among crashes is one of the module that is proved about.
LEMMA SameCrashes == [Crashes!Next]_Crashes!vars => [CP!Next]_CP!vars
<1> USE DEF Crashes!vars, CP!vars, Crashes!history, CP!history, Crashes!outside, CP!outside,
            Crashes!Kinds, CP!Kinds, Crashes!Name, CP!Name, Crashes!Unmade, CP!Unmade,
            Crashes!Tombstone, CP!Tombstone, Crashes!Entries, CP!Entries, Crashes!Unused, CP!Unused,
            Crashes!Fresh, CP!Fresh, Crashes!Occupant, CP!Occupant, Crashes!StaleBackups,
            CP!StaleBackups, Crashes!Found, CP!Found, Crashes!Idle, CP!Idle, Crashes!Before,
            CP!Before, Crashes!Move, CP!Move, Crashes!Goto, CP!Goto, Crashes!Note, CP!Note,
            Crashes!Stop, CP!Stop, Crashes!LockFree, CP!LockFree
<1>1. \A p : Crashes!ImportBegin(p) <=> CP!ImportBegin(p)
  BY DEF Crashes!ImportBegin, CP!ImportBegin
<1>2. \A p : /\ Crashes!ReadPrior(p) <=> CP!ReadPrior(p)
             /\ Crashes!CollectLeftovers(p) <=> CP!CollectLeftovers(p)
  BY DEF Crashes!ReadPrior, CP!ReadPrior, Crashes!CollectLeftovers, CP!CollectLeftovers
<1>3. \A p : Crashes!StageCandidate(p) <=> CP!StageCandidate(p)
  BY DEF Crashes!StageCandidate, CP!StageCandidate
<1>4. \A p : Crashes!StagingFails(p) <=> CP!StagingFails(p)
  BY DEF Crashes!StagingFails, CP!StagingFails
<1>5. \A p : Crashes!QuarantineBackup(p) <=> CP!QuarantineBackup(p)
  BY DEF Crashes!QuarantineBackup, CP!QuarantineBackup
<1>6. \A p : /\ Crashes!MoveAside(p) <=> CP!MoveAside(p)
             /\ Crashes!PublishStage(p) <=> CP!PublishStage(p)
             /\ Crashes!Close(p) <=> CP!Close(p)
             /\ Crashes!StepFails(p) <=> CP!StepFails(p)
  BY DEF Crashes!MoveAside, CP!MoveAside, Crashes!PublishStage, CP!PublishStage, Crashes!Close,
     CP!Close, Crashes!StepFails, CP!StepFails
<1>7. \A p : /\ Crashes!Reconcile(p) <=> CP!Reconcile(p)
             /\ Crashes!UndoPublication(p) <=> CP!UndoPublication(p)
  BY DEF Crashes!Reconcile, CP!Reconcile, Crashes!UndoPublication, CP!UndoPublication
<1>8. \A p : /\ Crashes!Surrender(p) <=> CP!Surrender(p)
             /\ Crashes!PutBack(p) <=> CP!PutBack(p)
             /\ Crashes!RestoreBackup(p) <=> CP!RestoreBackup(p)
  BY DEF Crashes!Surrender, CP!Surrender, Crashes!PutBack, CP!PutBack, Crashes!RestoreBackup,
     CP!RestoreBackup
<1>9. \A p : /\ Crashes!Release(p) <=> CP!Release(p)
             /\ Crashes!Abandon(p) <=> CP!Abandon(p)
             /\ Crashes!RetireQuarantine(p) <=> CP!RetireQuarantine(p)
  BY DEF Crashes!Release, CP!Release, Crashes!Abandon, CP!Abandon, Crashes!RetireQuarantine,
     CP!RetireQuarantine
<1>10. \A r : Crashes!SaveBegin(r) <=> CP!SaveBegin(r)
  BY DEF Crashes!SaveBegin, CP!SaveBegin
<1>11. \A r : Crashes!SaveDecision(r) <=> CP!SaveDecision(r)
  BY DEF Crashes!SaveDecision, CP!SaveDecision
<1>12. Crashes!ClearLocks <=> CP!ClearLocks
  BY DEF Crashes!ClearLocks, CP!ClearLocks
<1> QED
  BY <1>1, <1>2, <1>3, <1>4, <1>5, <1>6, <1>7, <1>8, <1>9, <1>10, <1>11, <1>12
     DEF Crashes!Next, CP!Next

\* A behaviour that begins with the imports over more directories is one of their specification.
LEMMA ImportAlone == MCSpec /\ store = "import" => IP!Spec /\ [](store = "import")
<1>1. MCInit /\ store = "import" => IP!Init
  BY DEF MCInit, Import!Init, IP!Init, Import!Idle, IP!Idle, Import!Unmade, IP!Unmade, Import!Name,
     IP!Name
<1>2. store = "import" /\ [MCNext]_everything => [Import!Next]_Import!vars
  BY DEF MCNext, everything, candidates, Import!vars, Import!history
<1>3. store = "import" /\ [MCNext]_everything => [IP!Next]_IP!vars
  BY <1>2, SameImport
<1> QED
  BY <1>1, <1>3, StoreStays, PTL DEF MCSpec, IP!Spec, everything

\* The others never come to them.
LEMMA NoImport == MCSpec /\ ~(store = "import") => []~(store = "import")
BY StoreStays, PTL DEF MCSpec, everything

\* A behaviour that begins with the crashed imports is one of their specification.
LEMMA CrashesAlone == MCSpec /\ store = "crashes" => CP!Spec /\ [](store = "crashes")
<1>1. MCInit /\ store = "crashes" => CP!Init
  BY DEF MCInit, Crashes!Init, CP!Init, Crashes!Idle, CP!Idle, Crashes!Unmade, CP!Unmade,
     Crashes!Name, CP!Name
<1>2. store = "crashes" /\ [MCNext]_everything => [Crashes!Next]_Crashes!vars
  BY DEF MCNext, everything, candidates, Crashes!vars, Crashes!history
<1>3. store = "crashes" /\ [MCNext]_everything => [CP!Next]_CP!vars
  BY <1>2, SameCrashes
<1> QED
  BY <1>1, <1>3, StoreStays, PTL DEF MCSpec, CP!Spec, everything

\* The others never come to them.
LEMMA NoCrashes == MCSpec /\ ~(store = "crashes") => []~(store = "crashes")
BY StoreStays, PTL DEF MCSpec, everything

\* What the theorems take for granted of the names and bounds.
LEMMA ImportNames ==
  /\ IP!DistinctNone /\ IP!LockNamesApart /\ IP!OverlapsAssumption
  /\ CP!DistinctNone /\ CP!LockNamesApart /\ CP!OverlapsAssumption
BY LocksApart, DirectoriesApart DEF Import!LockNamesApart, Import!DistinctNone,
   Crashes!DistinctNone, IP!DistinctNone, IP!LockNamesApart, IP!OverlapsAssumption,
   CP!DistinctNone, CP!LockNamesApart, CP!OverlapsAssumption

\* An import that fails and gives its locks back leaves under the candidate's name the
\* directory it found there, or no complete run (importer.py:145-172).
THEOREM ImportRestoresCandidate == MCSpec => []FailureRestoresCandidate
<1>1. IP!Spec => []IP!FailureRestoresCandidate
  BY ImportNames, IP!CandidateIsRestored
<1>2. CP!Spec => []CP!FailureRestoresCandidate
  BY ImportNames, CP!CandidateIsRestored
<1> DEFINE Imported == store = "import" => Import!FailureRestoresCandidate
           Crashed == store = "crashes" => Crashes!FailureRestoresCandidate
<1>3. (IP!FailureRestoresCandidate => Imported) /\ (~(store = "import") => Imported)
  BY DEF Import!Name, IP!Name, Import!Entries, IP!Entries, Import!Occupant, IP!Occupant,
     Import!FailureRestoresCandidate, IP!FailureRestoresCandidate
<1>4. (CP!FailureRestoresCandidate => Crashed) /\ (~(store = "crashes") => Crashed)
  BY DEF Crashes!Name, CP!Name, Crashes!Entries, CP!Entries, Crashes!Occupant, CP!Occupant,
     Crashes!FailureRestoresCandidate, CP!FailureRestoresCandidate
<1>5. Imported /\ Crashed => FailureRestoresCandidate
  BY DEF FailureRestoresCandidate
<1> HIDE DEF Imported, Crashed
<1> QED
  BY <1>1, <1>2, <1>3, <1>4, <1>5, ImportAlone, NoImport, CrashesAlone, NoCrashes, PTL

\* It has also put back every backup it found (tests/foundry/test_importer.py:187).
THEOREM ImportRestoresBackups == MCSpec => []FailureRestoresBackups
<1>1. IP!Spec => []IP!FailureRestoresBackups
  BY ImportNames, IP!BackupsAreRestored
<1>2. CP!Spec => []CP!FailureRestoresBackups
  BY ImportNames, CP!BackupsAreRestored
<1> DEFINE Imported == store = "import" => Import!FailureRestoresBackups
           Crashed == store = "crashes" => Crashes!FailureRestoresBackups
<1>3. (IP!FailureRestoresBackups => Imported) /\ (~(store = "import") => Imported)
  BY DEF Import!Name, IP!Name, Import!Entries, IP!Entries, Import!FailureRestoresBackups,
     IP!FailureRestoresBackups
<1>4. (CP!FailureRestoresBackups => Crashed) /\ (~(store = "crashes") => Crashed)
  BY DEF Crashes!Name, CP!Name, Crashes!Entries, CP!Entries, Crashes!FailureRestoresBackups,
     CP!FailureRestoresBackups
<1>5. Imported /\ Crashed => FailureRestoresBackups
  BY DEF FailureRestoresBackups
<1> HIDE DEF Imported, Crashed
<1> QED
  BY <1>1, <1>2, <1>3, <1>4, <1>5, ImportAlone, NoImport, CrashesAlone, NoCrashes, PTL

\* When an overwrite commits, what it replaced is the one backup of the run
\* (docs/ARCHITECTURE.md:453).
THEOREM ImportHasOneBackup == MCSpec => []OneBackupAtCommit
<1>1. IP!Spec => []IP!OneBackupAtCommit
  BY ImportNames, IP!PredecessorIsTheBackup
<1>2. CP!Spec => []CP!OneBackupAtCommit
  BY ImportNames, CP!PredecessorIsTheBackup
<1> DEFINE Imported == store = "import" => Import!OneBackupAtCommit
           Crashed == store = "crashes" => Crashes!OneBackupAtCommit
<1>3. (IP!OneBackupAtCommit => Imported) /\ (~(store = "import") => Imported)
  BY DEF Import!Name, IP!Name, Import!Entries, IP!Entries, Import!OneBackupAtCommit,
     IP!OneBackupAtCommit
<1>4. (CP!OneBackupAtCommit => Crashed) /\ (~(store = "crashes") => Crashed)
  BY DEF Crashes!Name, CP!Name, Crashes!Entries, CP!Entries, Crashes!OneBackupAtCommit,
     CP!OneBackupAtCommit
<1>5. Imported /\ Crashed => OneBackupAtCommit
  BY DEF OneBackupAtCommit
<1> HIDE DEF Imported, Crashed
<1> QED
  BY <1>1, <1>2, <1>3, <1>4, <1>5, ImportAlone, NoImport, CrashesAlone, NoCrashes, PTL

\* A directory that a failed import did not know under the candidate's name keeps the locks
\* until the operator removes them (importer.py:338-360).
THEOREM ImportKeepsLocks == MCSpec => []ForeignKeepsLocks
<1>1. IP!Spec => []IP!ForeignKeepsLocks
  BY ImportNames, IP!ForeignKeepsTheLocks
<1>2. CP!Spec => []CP!ForeignKeepsLocks
  BY ImportNames, CP!ForeignKeepsTheLocks
<1> DEFINE Imported == store = "import" => Import!ForeignKeepsLocks
           Crashed == store = "crashes" => Crashes!ForeignKeepsLocks
<1>3. (IP!ForeignKeepsLocks => Imported) /\ (~(store = "import") => Imported)
  BY DEF Import!Name, IP!Name, Import!Entries, IP!Entries, Import!LockFree, IP!LockFree,
     Import!ForeignKeepsLocks, IP!ForeignKeepsLocks
<1>4. (CP!ForeignKeepsLocks => Crashed) /\ (~(store = "crashes") => Crashed)
  BY DEF Crashes!Name, CP!Name, Crashes!Entries, CP!Entries, Crashes!LockFree, CP!LockFree,
     Crashes!ForeignKeepsLocks, CP!ForeignKeepsLocks
<1>5. Imported /\ Crashed => ForeignKeepsLocks
  BY DEF ForeignKeepsLocks
<1> HIDE DEF Imported, Crashed
<1> QED
  BY <1>1, <1>2, <1>3, <1>4, <1>5, ImportAlone, NoImport, CrashesAlone, NoCrashes, PTL

\* A committed candidate is never retired, nor what it replaced while the locks are as the
\* program left them (importer.py:145-172, :338-360).
THEOREM ImportedIsKept == MCSpec => []CommittedIsKept
<1>1. IP!Spec => []IP!CommittedIsKept
  BY ImportNames, IP!CommittedIsNeverRetired
<1>2. CP!Spec => []CP!CommittedIsKept
  BY ImportNames, CP!CommittedIsNeverRetired
<1> DEFINE Imported == store = "import" => Import!CommittedIsKept
           Crashed == store = "crashes" => Crashes!CommittedIsKept
<1>3. (IP!CommittedIsKept => Imported) /\ (~(store = "import") => Imported)
  BY DEF Import!Name, IP!Name, Import!Tombstone, IP!Tombstone, Import!CommittedIsKept,
     IP!CommittedIsKept
<1>4. (CP!CommittedIsKept => Crashed) /\ (~(store = "crashes") => Crashed)
  BY DEF Crashes!Name, CP!Name, Crashes!Tombstone, CP!Tombstone, Crashes!CommittedIsKept,
     CP!CommittedIsKept
<1>5. Imported /\ Crashed => CommittedIsKept
  BY DEF CommittedIsKept
<1> HIDE DEF Imported, Crashed
<1> QED
  BY <1>1, <1>2, <1>3, <1>4, <1>5, ImportAlone, NoImport, CrashesAlone, NoCrashes, PTL

-----------------------------------------------------------------------------
(* The inductive invariant.  Assets are only appended, so a snapshot's     *)
(* diff stays what it was; a request past the comparison of snapshots has  *)
(* its draft's binding in its view; and the baseline a snapshot read is    *)
(* not older than the base it read before.                                 *)

AssetsAppended == \E S : assets \in Seq(S)

Shapes ==
  /\ pc = [s \in Sessions |-> pc[s]]
  /\ req = [s \in Sessions |-> req[s]]
  /\ view = [s \in Sessions |-> view[s]]
  /\ \A s \in Sessions : pc[s] # "idle" =>
       DOMAIN req[s] = {"stage", "approve", "shown", "draft", "edition", "expects"}

ViewsOfAssets ==
  \A s \in Sessions :
    /\ DOMAIN view[s] = {"loaded", "base", "baseline", "cand"}
    /\ view[s].base \in 0..Len(assets)
    /\ view[s].baseline \in 0..Len(assets)

BaselineNotOlder ==
  \A s \in Sessions :
    pc[s] \in {"digests", "decision", "binding", "approving"} =>
      view[s].base <= view[s].baseline

DraftsBound ==
  \A s \in Sessions :
    pc[s] \in {"binding", "approving"} => req[s].draft.binding = Binding(view[s])

BoundInv ==
  /\ AssetsAppended /\ Shapes /\ ViewsOfAssets /\ BaselineNotOlder /\ DraftsBound
  /\ ApprovedAsBound

-----------------------------------------------------------------------------
(* Appending to a sequence.                                                *)

LEMMA AppendKeeps ==
  ASSUME NEW q, \E S : q \in Seq(S), NEW x
  PROVE  /\ \E S : Append(q, x) \in Seq(S)
         /\ Len(q) \in Nat /\ Len(Append(q, x)) = Len(q) + 1
         /\ DOMAIN q = 1..Len(q) /\ DOMAIN Append(q, x) = 1..(Len(q) + 1)
         /\ \A i \in 1..Len(q) : Append(q, x)[i] = q[i]
         /\ Append(q, x)[Len(q) + 1] = x
<1>1. PICK S : q \in Seq(S)
  OBVIOUS
<1> DEFINE T == S \cup {x}
<1>2. q \in Seq(T)
  BY <1>1, SeqMonotonic
<1>3. x \in T
  OBVIOUS
<1> HIDE DEF T
<1>4. /\ Append(q, x) \in Seq(T)
      /\ Len(Append(q, x)) = Len(q) + 1
      /\ \A i \in 1..Len(q) : Append(q, x)[i] = q[i]
      /\ Append(q, x)[Len(q) + 1] = x
  BY <1>2, <1>3, AppendProperties
<1>5. Len(q) \in Nat /\ DOMAIN q = 1..Len(q)
  BY <1>2, LenProperties
<1>6. DOMAIN Append(q, x) = 1..(Len(q) + 1)
  BY <1>4, LenProperties
<1> QED
  BY <1>4, <1>5, <1>6

-----------------------------------------------------------------------------
(* A step that leaves the assets alone preserves the invariant when it     *)
(* moves one request s to another label and leaves a view whose claims     *)
(* hold of the assets.                                                     *)

Moves(s, to) ==
  /\ Goto(s, to)
  /\ UNCHANGED assets
  /\ \A o \in Sessions \ {s} : req'[o] = req[o] /\ view'[o] = view[o]
  /\ req' = [o \in Sessions |-> req'[o]] /\ view' = [o \in Sessions |-> view'[o]]

LEMMA MoveKeeps ==
  ASSUME BoundInv, NEW s \in Sessions, NEW to, Moves(s, to),
         to # "idle" => DOMAIN req'[s] = DOMAIN Request("open", FALSE, Blank, {}),
         DOMAIN view'[s] = DOMAIN Blank,
         view'[s].base \in 0..Len(assets), view'[s].baseline \in 0..Len(assets),
         to \in {"digests", "decision", "binding", "approving"} =>
           view'[s].base <= view'[s].baseline,
         to \in {"binding", "approving"} =>
           req'[s].draft.binding = Binding(view[s]) /\ view'[s] = view[s]
  PROVE  BoundInv'
<1> USE DEF BoundInv, Moves, Goto
<1>1. AssetsAppended'
  BY DEF AssetsAppended
<1>2. Shapes'
  BY DEF Shapes, Request, Blank
<1>3. ViewsOfAssets'
  BY DEF ViewsOfAssets, Blank
<1>4. BaselineNotOlder'
  BY DEF BaselineNotOlder, Shapes
<1>5. DraftsBound'
  BY DEF DraftsBound, Binding, Diff, Shapes
<1>6. ApprovedAsBound'
  BY DEF ApprovedAsBound, Workbench
<1> QED
  BY <1>1, <1>2, <1>3, <1>4, <1>5, <1>6

(* A step that leaves assets and requests alone preserves it.              *)
LEMMA StillKeeps ==
  ASSUME BoundInv, UNCHANGED <<assets, pc, req, view>>
  PROVE  BoundInv'
BY DEF BoundInv, AssetsAppended, Shapes, ViewsOfAssets, BaselineNotOlder, DraftsBound,
       Binding, Diff, ApprovedAsBound, Workbench

(* A step that appends an asset preserves it when the asset is what its    *)
(* draft was bound to and no request gets past the comparison of snapshots.*)
LEMMA AppendStepKeeps ==
  ASSUME BoundInv, NEW x, assets' = Append(assets, x),
         x.by # None => /\ x.version = x.draft.binding.cand
                        /\ x.base = x.draft.binding.base
                        /\ x.base = x.draft.binding.baseline,
         Shapes',
         \A s \in Sessions :
           \/ view'[s] = view[s] /\ req'[s] = req[s] /\ pc'[s] = pc[s]
           \/ view'[s] = Blank /\ pc'[s] = "idle"
  PROVE  BoundInv'
<1> USE DEF BoundInv
<1>1. /\ AssetsAppended'
      /\ Len(assets) \in Nat /\ Len(assets') = Len(assets) + 1
      /\ DOMAIN assets = 1..Len(assets) /\ DOMAIN assets' = 1..(Len(assets) + 1)
      /\ \A i \in 1..Len(assets) : assets'[i] = assets[i]
      /\ assets'[Len(assets) + 1] = x
  BY AppendKeeps, ZenonT(60) DEF AssetsAppended
<1>2. ViewsOfAssets'
  BY <1>1 DEF ViewsOfAssets, Blank
<1>3. BaselineNotOlder'
  BY <1>1 DEF BaselineNotOlder
<1>4. DraftsBound'
  <2> SUFFICES ASSUME NEW s \in Sessions, pc'[s] \in {"binding", "approving"}
               PROVE  req'[s].draft.binding = Binding(view[s])'
    BY DEF DraftsBound
  <2>1. view'[s] = view[s] /\ req'[s] = req[s] /\ pc'[s] = pc[s]
    OBVIOUS
  <2>2. Diff(view[s])' = Diff(view[s])
    <3>1. view[s].baseline \in 0..Len(assets)
      BY DEF ViewsOfAssets
    <3>2. view[s].baseline # 0 => assets'[view[s].baseline] = assets[view[s].baseline]
      BY <1>1, <3>1
    <3> QED
      BY <2>1, <3>2 DEF Diff
  <2> QED
    BY <2>1, <2>2 DEF DraftsBound, Binding
<1>5. ApprovedAsBound'
  <2> SUFFICES ASSUME NEW i \in 1..(Len(assets) + 1), assets'[i].by # None
               PROVE  /\ assets'[i].version = assets'[i].draft.binding.cand
                      /\ assets'[i].base = assets'[i].draft.binding.base
                      /\ assets'[i].base = assets'[i].draft.binding.baseline
    BY <1>1 DEF ApprovedAsBound, Workbench
  <2>1. CASE i = Len(assets) + 1
    BY <1>1, <2>1
  <2>2. CASE i # Len(assets) + 1
    <3>1. i \in 1..Len(assets)
      BY <1>1, <2>2
    <3> QED
      BY <1>1, <3>1 DEF ApprovedAsBound, Workbench
  <2> QED
    BY <2>1, <2>2
<1> QED
  BY <1>1, <1>2, <1>3, <1>4, <1>5

-----------------------------------------------------------------------------
(* The actions, one by one.                                                *)

(* A request that starts a snapshot.                                       *)
LEMMA SnapshotKeeps ==
  ASSUME BoundInv, NEW s \in Sessions, NEW r, Snapshot(s, r), UNCHANGED assets,
         DOMAIN r = DOMAIN Request("open", FALSE, Blank, {})
  PROVE  BoundInv'
<1>1. Moves(s, "candidate") /\ view'[s] = Blank /\ req'[s] = r
  BY DEF Snapshot, Serve, Look, Goto, Moves, BoundInv, Shapes
<1>2. Len(assets) \in Nat
  BY AppendKeeps DEF BoundInv, AssetsAppended
<1>3. /\ DOMAIN view'[s] = DOMAIN Blank
      /\ view'[s].base \in 0..Len(assets) /\ view'[s].baseline \in 0..Len(assets)
  BY <1>1, <1>2 DEF Blank
<1> QED
  BY <1>1, <1>3, MoveKeeps

(* A request that is answered.                                             *)
LEMMA RespondKeeps ==
  ASSUME BoundInv, NEW s \in Sessions, NEW q, Respond(s, q), UNCHANGED assets
  PROVE  BoundInv'
<1>1. Moves(s, "idle") /\ view'[s] = Blank
  BY DEF Respond, Serve, Look, Goto, Moves, BoundInv, Shapes
<1>2. Len(assets) \in Nat
  BY AppendKeeps DEF BoundInv, AssetsAppended
<1>3. /\ DOMAIN view'[s] = DOMAIN Blank
      /\ view'[s].base \in 0..Len(assets) /\ view'[s].baseline \in 0..Len(assets)
  BY <1>1, <1>2 DEF Blank
<1> QED
  BY <1>1, <1>3, MoveKeeps

(* What a record keeps of a view when the snapshot learns one more field.  *)
LEMMA ViewFields ==
  ASSUME NEW v, DOMAIN v = {"loaded", "base", "baseline", "cand"}, NEW x
  PROVE  /\ DOMAIN [v EXCEPT !.base = x] = DOMAIN Blank
         /\ [v EXCEPT !.base = x].base = x
         /\ [v EXCEPT !.base = x].baseline = v.baseline
         /\ DOMAIN [v EXCEPT !.baseline = x] = DOMAIN Blank
         /\ [v EXCEPT !.baseline = x].base = v.base
         /\ [v EXCEPT !.baseline = x].baseline = x
BY DEF Blank

LEMMA ViewBounds ==
  ASSUME BoundInv, NEW s \in Sessions
  PROVE  /\ DOMAIN view[s] = {"loaded", "base", "baseline", "cand"}
         /\ view[s].base \in 0..Len(assets) /\ view[s].baseline \in 0..Len(assets)
         /\ pc[s] # "idle" => DOMAIN req[s] = DOMAIN Request("open", FALSE, Blank, {})
<1>1. /\ DOMAIN view[s] = {"loaded", "base", "baseline", "cand"}
      /\ view[s].base \in 0..Len(assets) /\ view[s].baseline \in 0..Len(assets)
  BY DEF BoundInv, ViewsOfAssets
<1>2. pc[s] # "idle" => DOMAIN req[s] = DOMAIN Request("open", FALSE, Blank, {})
  BY DEF BoundInv, Shapes, Request
<1> QED
  BY <1>1, <1>2

LEMMA BoundStep == BoundInv /\ [Next]_vars => BoundInv'
<1> SUFFICES ASSUME BoundInv, [Next]_vars PROVE BoundInv'
  OBVIOUS
<1> USE DEF disk
<1>0. Len(assets) \in Nat
  BY AppendKeeps DEF BoundInv, AssetsAppended
<1>1. ASSUME NEW s \in Sessions, OpenReview(s) PROVE BoundInv'
  BY <1>1, SnapshotKeeps DEF OpenReview, Request
<1>2. ASSUME NEW s \in Sessions, SaveDecision(s) \/ ApproveReview(s) PROVE BoundInv'
  BY <1>2, SnapshotKeeps DEF SaveDecision, ApproveReview, Request
<1>3. ASSUME NEW s \in Sessions, ReadCandidate(s) PROVE BoundInv'
  <2>1. Moves(s, "current") /\ req' = req /\ pc[s] = "candidate"
        /\ view'[s] = [view[s] EXCEPT !.loaded = candidate]
    BY <1>3 DEF ReadCandidate, Look, Goto, Moves, BoundInv, Shapes
  <2> QED
    BY <2>1, MoveKeeps DEF BoundInv, Shapes, ViewsOfAssets, Blank, Request
<1>4. ASSUME NEW s \in Sessions, ReadCurrent(s) PROVE BoundInv'
  <2>1. req' = req /\ pc[s] = "current"
        /\ view'[s] = [view[s] EXCEPT !.base = Len(assets)]
    BY <1>4 DEF ReadCurrent, Look, Goto, BoundInv, Shapes
  <2>2. /\ DOMAIN view'[s] = DOMAIN Blank
        /\ view'[s].base = Len(assets) /\ view'[s].baseline = view[s].baseline
    <3>1. DOMAIN view[s] = {"loaded", "base", "baseline", "cand"}
      BY ViewBounds
    <3> QED
      BY <2>1, <3>1, ViewFields
  <2>3. view[s].baseline \in 0..Len(assets)
    BY ViewBounds
  <2>4. view'[s].base \in 0..Len(assets) /\ view'[s].baseline \in 0..Len(assets)
    BY <1>0, <2>2, <2>3
  <2>5. DOMAIN req'[s] = DOMAIN Request("open", FALSE, Blank, {})
    BY <2>1, ViewBounds
  <2>6. CASE assets = <<>>
    <3>1. Moves(s, "digests")
      BY <1>4, <2>6 DEF ReadCurrent, Look, Goto, Moves, BoundInv, Shapes
    <3>2. Len(assets) = 0
      BY <2>6
    <3>3. view'[s].base <= view'[s].baseline
      BY <2>2, <2>3, <3>2
    <3> QED
      BY <2>2, <2>4, <2>5, <3>1, <3>3, MoveKeeps
  <2>7. CASE assets # <<>>
    <3>1. Moves(s, "baseline")
      BY <1>4, <2>7 DEF ReadCurrent, Look, Goto, Moves, BoundInv, Shapes
    <3> QED
      BY <2>2, <2>4, <2>5, <3>1, MoveKeeps
  <2> QED
    BY <2>6, <2>7
<1>5. ASSUME NEW s \in Sessions, ReadBaseline(s) PROVE BoundInv'
  <2>1. Moves(s, "digests") /\ req' = req /\ pc[s] = "baseline"
        /\ view'[s] = [view[s] EXCEPT !.baseline = Len(assets)]
    BY <1>5 DEF ReadBaseline, Look, Goto, Moves, BoundInv, Shapes
  <2>2. /\ DOMAIN view'[s] = DOMAIN Blank
        /\ view'[s].base = view[s].base /\ view'[s].baseline = Len(assets)
    <3>1. DOMAIN view[s] = {"loaded", "base", "baseline", "cand"}
      BY ViewBounds
    <3> QED
      BY <2>1, <3>1, ViewFields
  <2>3. view[s].base \in 0..Len(assets)
    BY ViewBounds
  <2>4. /\ view'[s].base \in 0..Len(assets) /\ view'[s].baseline \in 0..Len(assets)
        /\ view'[s].base <= view'[s].baseline
    BY <1>0, <2>2, <2>3
  <2>5. DOMAIN req'[s] = DOMAIN Request("open", FALSE, Blank, {})
    BY <2>1, ViewBounds
  <2> QED
    BY <2>1, <2>2, <2>4, <2>5, MoveKeeps
<1>6. ASSUME NEW s \in Sessions, DigestCandidate(s) PROVE BoundInv'
  <2>1. Moves(s, "decision") /\ req' = req /\ pc[s] = "digests"
        /\ view'[s] = [view[s] EXCEPT !.cand = candidate]
    BY <1>6 DEF DigestCandidate, Look, Goto, Moves, BoundInv, Shapes
  <2> QED
    BY <2>1, MoveKeeps DEF BoundInv, Shapes, ViewsOfAssets, BaselineNotOlder, Blank, Request
<1>7. ASSUME NEW s \in Sessions, ReadDecision(s) PROVE BoundInv'
  <2>1. CASE Respond(s, view[s])
    BY <1>7, <2>1, RespondKeeps DEF ReadDecision
  <2>2. CASE Goto(s, "writing") /\ UNCHANGED <<req, view, page>>
    <3>1. Moves(s, "writing") /\ pc[s] = "decision"
      BY <1>7, <2>2 DEF ReadDecision, Moves, BoundInv, Shapes
    <3> QED
      BY <2>2, <3>1, MoveKeeps DEF BoundInv, Shapes, ViewsOfAssets, Blank, Request
  <2>3. CASE StillBound(s) /\ Goto(s, "binding") /\ UNCHANGED <<req, view, page>>
    <3>1. Moves(s, "binding") /\ pc[s] = "decision"
      BY <1>7, <2>3 DEF ReadDecision, Moves, BoundInv, Shapes
    <3> QED
      BY <2>3, <3>1, MoveKeeps
      DEF StillBound, BoundInv, Shapes, ViewsOfAssets, BaselineNotOlder, Blank, Request
  <2> QED
    BY <1>7, <2>1, <2>2, <2>3 DEF ReadDecision
<1>8. ASSUME NEW s \in Sessions, TruncateDecision(s) PROVE BoundInv'
  <2>1. Moves(s, "written") /\ pc[s] = "writing" /\ view' = view
        /\ req'[s] = [req[s] EXCEPT !.edition = edition]
    BY <1>8 DEF TruncateDecision, Serve, Goto, Moves, BoundInv, Shapes
  <2> QED
    BY <2>1, MoveKeeps DEF BoundInv, Shapes, ViewsOfAssets, Blank, Request
<1>9. ASSUME NEW s \in Sessions, WriteDecision(s) PROVE BoundInv'
  <2>1. CASE Snapshot(s, [req[s] EXCEPT !.stage = "fresh"])
    BY <1>9, <2>1, SnapshotKeeps DEF WriteDecision, BoundInv, Shapes, Request
  <2>2. CASE Respond(s, view[s])
    BY <1>9, <2>2, RespondKeeps DEF WriteDecision
  <2> QED
    BY <1>9, <2>1, <2>2 DEF WriteDecision
<1>10. ASSUME NEW s \in Sessions, BindDecision(s) PROVE BoundInv'
  <2>1. Moves(s, "approving") /\ pc[s] = "binding" /\ view' = view
        /\ req'[s] = [req[s] EXCEPT !.expects = decision]
    BY <1>10 DEF BindDecision, Serve, Goto, Moves, BoundInv, Shapes
  <2> QED
    BY <2>1, MoveKeeps
    DEF BoundInv, Shapes, ViewsOfAssets, BaselineNotOlder, DraftsBound, Blank, Request
<1>11. ASSUME NEW s \in Sessions, ApproveCandidate(s) PROVE BoundInv'
  <2>1. PICK x : /\ assets' = Append(assets, x)
                 /\ x.version = candidate /\ x.base = Len(assets) /\ x.draft = req[s].draft
    BY <1>11 DEF ApproveCandidate
  <2>2. /\ candidate = req[s].draft.binding.cand
        /\ Len(assets) = req[s].draft.binding.base
        /\ Len(assets) = req[s].draft.binding.baseline
    <3>1. /\ view[s].base = Len(assets) /\ candidate = view[s].cand
          /\ req[s].draft.binding = Binding(view[s])
      BY <1>11 DEF ApproveCandidate, CandidateBound, BoundInv, DraftsBound
    <3>2. view[s].base <= view[s].baseline
      BY <1>11 DEF ApproveCandidate, BoundInv, BaselineNotOlder
    <3>3. view[s].baseline \in 0..Len(assets)
      BY ViewBounds
    <3>4. view[s].baseline = Len(assets)
      BY <1>0, <3>1, <3>2, <3>3
    <3> QED
      BY <3>1, <3>4 DEF Binding
  <2>3. Shapes' /\ \A o \in Sessions :
           \/ view'[o] = view[o] /\ req'[o] = req[o] /\ pc'[o] = pc[o]
           \/ view'[o] = Blank /\ pc'[o] = "idle"
    BY <1>11 DEF ApproveCandidate, Respond, Serve, Look, Goto, BoundInv, Shapes
  <2> QED
    BY <2>1, <2>2, <2>3, AppendStepKeeps
<1>12. ASSUME NEW s \in Sessions, Raise(s) PROVE BoundInv'
  BY <1>12, RespondKeeps DEF Raise
<1>13. CASE ImportRun
  BY <1>13, StillKeeps DEF ImportRun
<1>14. CASE ApproveElsewhere
  <2>1. PICK x : assets' = Append(assets, x) /\ x.by = None
    BY <1>14 DEF ApproveElsewhere
  <2>2. UNCHANGED <<pc, req, view>>
    BY <1>14 DEF ApproveElsewhere
  <2>3. Shapes'
    BY <2>2 DEF BoundInv, Shapes
  <2> QED
    BY <2>1, <2>2, <2>3, AppendStepKeeps
<1>15. CASE UNCHANGED vars
  BY <1>15, StillKeeps DEF vars
<1> QED
  BY <1>1, <1>2, <1>3, <1>4, <1>5, <1>6, <1>7, <1>8, <1>9, <1>10, <1>11, <1>12, <1>13,
     <1>14, <1>15 DEF Next

LEMMA BoundInit == Init => BoundInv
<1> SUFFICES ASSUME Init PROVE BoundInv
  OBVIOUS
<1>1. AssetsAppended /\ Len(assets) = 0
  BY EmptySeq DEF Init, AssetsAppended
<1>2. Shapes /\ BaselineNotOlder /\ DraftsBound
  BY DEF Init, Shapes, BaselineNotOlder, DraftsBound
<1>3. ViewsOfAssets
  <2>1. \A s \in Sessions : view[s] = Blank
    BY DEF Init
  <2>2. DOMAIN Blank = {"loaded", "base", "baseline", "cand"}
        /\ Blank.base = 0 /\ Blank.baseline = 0
    BY DEF Blank
  <2>3. Blank.base \in 0..Len(assets) /\ Blank.baseline \in 0..Len(assets)
    BY <1>1, <2>2
  <2> QED
    BY <2>1, <2>2, <2>3 DEF ViewsOfAssets
<1>4. ApprovedAsBound
  BY DEF Init, ApprovedAsBound, Workbench
<1> QED
  BY <1>1, <1>2, <1>3, <1>4 DEF BoundInv

(* Whatever was imported, approved or saved between the page and the       *)
(* publication, and by however many request threads, an asset approved on  *)
(* the workbench has the contents and the predecessor of its draft's       *)
(* binding (workflow.py: three snapshots; approve.py: the bound copy).     *)
THEOREM PublishedAsBound == Spec => []ApprovedAsBound
<1>1. BoundInv => ApprovedAsBound
  BY DEF BoundInv
<1> QED
  BY <1>1, BoundInit, BoundStep, PTL DEF Spec

-----------------------------------------------------------------------------
(* One request at a time.  With two, the decision file another thread saves *)
(* may complete the set an approval is bound to; with one, a decision that  *)
(* is there when the approval binds its digest is the approver's, and the   *)
(* run was not imported again since it was saved.                           *)

OneThread == \A s, o \in Sessions : s = o

\* The file between its truncation and its write: an import may take it away.
WriteFits(s) ==
  pc[s] = "written" =>
    /\ req[s].edition \in Nat /\ req[s].edition <= edition
    /\ decision = IF req[s].edition = edition THEN Torn ELSE None

\* After the write: where the decision is there still, so are the contents it was made on.
FreshFits(s) ==
  pc[s] # "idle" /\ req[s].stage = "fresh" =>
    /\ pc[s] \notin {"writing", "written"}
    /\ decision \in {None, Decision(s, req[s].draft)}
    /\ pc[s] # "candidate" /\ decision # None => view[s].loaded = candidate

StageFits(s) ==
  /\ pc[s] \in {"binding", "approving"} => req[s].stage = "fresh"
  /\ pc[s] = "approving" => req[s].expects # None

\* The record an asset's own contents and predecessor make.
Own(i) == [loaded |-> assets[i].version, base |-> assets[i].base,
           baseline |-> assets[i].base, cand |-> assets[i].version]

Bases == \A i \in DOMAIN assets : assets[i].base \in 0..(i - 1)

ThreadInv ==
  /\ edition \in Nat /\ Bases
  /\ \A s \in Sessions : WriteFits(s) /\ FreshFits(s) /\ StageFits(s)
  /\ ReviewedMeansAccepted /\ BundledDecisionIsApprovers

\* A step of the one request thread, or beside it, that leaves the assets alone.
LEMMA ThreadStill ==
  ASSUME ThreadInv, UNCHANGED assets, edition' \in Nat,
         \A s \in Sessions : WriteFits(s)' /\ FreshFits(s)' /\ StageFits(s)'
  PROVE  ThreadInv'
<1>1. ReviewedMeansAccepted'
  BY DEF ThreadInv, ReviewedMeansAccepted, Workbench, Subjects, Diff
<1>2. BundledDecisionIsApprovers' /\ Bases'
  BY DEF ThreadInv, BundledDecisionIsApprovers, Workbench, Bases
<1> QED
  BY <1>1, <1>2 DEF ThreadInv

\* What a request's step leaves in the thread's variables.
LEMMA ThreadUpdates ==
  ASSUME BoundInv, NEW s \in Sessions
  PROVE  /\ \A l : Goto(s, l) => pc'[s] = l
         /\ \A r : req' = [req EXCEPT ![s] = r] => req'[s] = r
         /\ \A v : Look(s, v) => view'[s] = v
BY DEF BoundInv, Shapes, Goto, Look

LEMMA AnswerFits ==
  ASSUME BoundInv, ThreadInv, OneThread, NEW s \in Sessions, pc'[s] = "idle",
         UNCHANGED assets, edition' \in Nat
  PROVE  ThreadInv'
<1>1. \A o \in Sessions : o = s
  BY DEF OneThread
<1>2. WriteFits(s)' /\ FreshFits(s)' /\ StageFits(s)'
  BY DEF WriteFits, FreshFits, StageFits
<1> QED
  BY <1>1, <1>2, ThreadStill

\* A request that starts, or starts over with its decision saved.
LEMMA StartFits ==
  ASSUME BoundInv, ThreadInv, OneThread, NEW s \in Sessions, NEW r, Snapshot(s, r),
         UNCHANGED assets, edition' \in Nat,
         r.stage = "fresh" => decision' \in {None, Decision(s, r.draft)}
  PROVE  ThreadInv'
<1>1. \A o \in Sessions : o = s
  BY DEF OneThread
<1>2. pc'[s] = "candidate" /\ req'[s] = r
  BY ThreadUpdates DEF Snapshot, Serve
<1>3. WriteFits(s)' /\ StageFits(s)'
  BY <1>2 DEF WriteFits, StageFits
<1>4. FreshFits(s)'
  BY <1>2 DEF FreshFits, Decision
<1> QED
  BY <1>1, <1>3, <1>4, ThreadStill

\* A read of a snapshot, or the comparison at its end.
LEMMA ReadFits ==
  ASSUME BoundInv, ThreadInv, OneThread, NEW s \in Sessions, NEW to, Goto(s, to),
         UNCHANGED <<disk, req>>, to \notin {"written", "approving"},
         pc[s] # "idle",
         pc[s] = "candidate" \/ view'[s].loaded = view[s].loaded,
         to \notin {"idle", "candidate"} /\ pc[s] = "candidate" => view'[s].loaded = candidate,
         to \in {"writing"} => req[s].stage # "fresh",
         to = "binding" => req[s].stage = "fresh"
  PROVE  ThreadInv'
<1>1. \A o \in Sessions : o = s
  BY DEF OneThread
<1>2. pc'[s] = to /\ UNCHANGED <<candidate, edition, decision, assets, req>>
  BY ThreadUpdates DEF disk
<1>3. WriteFits(s)' /\ StageFits(s)'
  BY <1>2 DEF WriteFits, StageFits
<1>4. FreshFits(s)'
  BY <1>2 DEF FreshFits, ThreadInv, Decision
<1>5. edition' \in Nat
  BY <1>2 DEF ThreadInv
<1> QED
  BY <1>1, <1>2, <1>3, <1>4, <1>5, ThreadStill

\* A request keeps its other fields.
LEMMA RequestFields ==
  ASSUME NEW r, DOMAIN r = DOMAIN Request("open", FALSE, Blank, {}), NEW x
  PROVE  /\ [r EXCEPT !.edition = x].edition = x /\ [r EXCEPT !.edition = x].stage = r.stage
         /\ [r EXCEPT !.stage = x].stage = x /\ [r EXCEPT !.stage = x].draft = r.draft
         /\ [r EXCEPT !.expects = x].expects = x /\ [r EXCEPT !.expects = x].stage = r.stage
         /\ [r EXCEPT !.expects = x].draft = r.draft
BY DEF Request

LEMMA ApproveFits ==
  ASSUME BoundInv, ThreadInv, OneThread, NEW s \in Sessions, ApproveCandidate(s)
  PROVE  ThreadInv'
<1>1. PICK x :
        /\ assets' = Append(assets, x)
        /\ x = [version |-> candidate, base |-> Len(assets), decision |-> decision,
                by |-> s, shown |-> req[s].shown, draft |-> req[s].draft,
                reviewed |-> Resolved(view[s], req[s].draft)]
  BY DEF ApproveCandidate
<1>2. /\ x.version = candidate /\ x.base = Len(assets) /\ x.decision = decision /\ x.by = s
      /\ x.draft = req[s].draft /\ x.reviewed = Resolved(view[s], req[s].draft)
  BY <1>1
<1>3. /\ pc[s] = "approving" /\ view[s].base = Len(assets) /\ candidate = view[s].cand
      /\ decision = req[s].expects /\ pc'[s] = "idle" /\ UNCHANGED <<candidate, edition, decision>>
  BY ThreadUpdates DEF ApproveCandidate, CandidateBound, Respond, Serve
<1>4. decision = Decision(s, req[s].draft) /\ view[s].loaded = candidate
  BY <1>3 DEF ThreadInv, StageFits, FreshFits
<1>5. /\ Len(assets) \in Nat /\ Len(assets') = Len(assets) + 1
      /\ DOMAIN assets = 1..Len(assets) /\ DOMAIN assets' = 1..(Len(assets) + 1)
      /\ \A i \in 1..Len(assets) : assets'[i] = assets[i]
      /\ assets'[Len(assets) + 1] = x
  BY <1>1, AppendKeeps DEF BoundInv, AssetsAppended
<1>6. view[s].baseline = Len(assets)
  <2>1. view[s].base <= view[s].baseline /\ view[s].baseline \in 0..Len(assets)
    BY <1>3, ViewBounds DEF BoundInv, BaselineNotOlder
  <2> QED
    BY <1>3, <1>5, <2>1
<1>7. Bases'
  BY <1>2, <1>5 DEF Bases, ThreadInv
<1>8. BundledDecisionIsApprovers'
  BY <1>2, <1>4, <1>5 DEF BundledDecisionIsApprovers, Workbench, ThreadInv, Decision
\* A diff only reads the assets up to its baseline.
<1>9. ASSUME NEW v, v.baseline \in 0..Len(assets) PROVE Subjects(v)' = Subjects(v)
  BY <1>5, <1>9 DEF Subjects, Diff
<1>10. ReviewedMeansAccepted'
  <2> SUFFICES ASSUME NEW i \in 1..(Len(assets) + 1), assets'[i].by # None, assets'[i].reviewed
               PROVE  /\ Own(i)'.loaded \notin Flawed
                      /\ Subjects(Own(i))' \subseteq assets'[i].draft.accepts
    BY <1>5 DEF ReviewedMeansAccepted, Workbench, Own
  <2>1. CASE i = Len(assets) + 1
    <3>1. /\ Own(i)' = [loaded |-> candidate, base |-> Len(assets),
                        baseline |-> Len(assets), cand |-> candidate]
          /\ assets'[i].draft = req[s].draft
      BY <1>2, <1>5, <2>1 DEF Own
    <3>2. view[s].loaded \notin Flawed /\ Subjects(view[s]) \subseteq req[s].draft.accepts
      BY <1>2, <1>5, <2>1 DEF Resolved
    <3> DEFINE own == [loaded |-> candidate, base |-> Len(assets),
                       baseline |-> Len(assets), cand |-> candidate]
    <3>3. Subjects(own) = Subjects(view[s])
      BY <1>4, <1>6 DEF Subjects, Diff
    <3>4. Subjects(Own(i))' = Subjects(own)
      BY <1>5, <3>1 DEF Subjects, Diff
    <3> QED
      BY <1>4, <3>1, <3>2, <3>3, <3>4
  <2>2. CASE i # Len(assets) + 1
    <3>1. i \in 1..Len(assets) /\ assets'[i] = assets[i] /\ i \in Workbench
      BY <1>5, <2>2 DEF Workbench
    <3>2. Own(i).loaded \notin Flawed /\ Subjects(Own(i)) \subseteq assets[i].draft.accepts
      BY <3>1 DEF ThreadInv, ReviewedMeansAccepted, Own
    <3>3. Own(i)' = Own(i) /\ Own(i).baseline \in 0..Len(assets)
      BY <1>5, <3>1 DEF Own, ThreadInv, Bases
    <3>4. Subjects(Own(i))' = Subjects(Own(i))
      BY <1>5, <3>3 DEF Subjects, Diff
    <3> QED
      BY <3>1, <3>2, <3>3, <3>4
  <2> QED
    BY <2>1, <2>2
<1>11. \A o \in Sessions : WriteFits(o)' /\ FreshFits(o)' /\ StageFits(o)'
  <2>1. \A o \in Sessions : o = s
    BY DEF OneThread
  <2>2. WriteFits(s)' /\ FreshFits(s)' /\ StageFits(s)'
    BY <1>3 DEF WriteFits, FreshFits, StageFits
  <2> QED
    BY <2>1, <2>2
<1> QED
  BY <1>3, <1>7, <1>8, <1>10, <1>11 DEF ThreadInv

\* Another candidate is approved.
LEMMA ElsewhereFits == ASSUME BoundInv, ThreadInv, ApproveElsewhere PROVE ThreadInv'
<1>1. PICK x : assets' = Append(assets, x) /\ x.by = None /\ x.base = Len(assets)
  BY DEF ApproveElsewhere
<1>2. UNCHANGED <<candidate, edition, decision, pc, req, view>>
  BY DEF ApproveElsewhere
<1>3. /\ Len(assets) \in Nat /\ Len(assets') = Len(assets) + 1
      /\ DOMAIN assets = 1..Len(assets) /\ DOMAIN assets' = 1..(Len(assets) + 1)
      /\ \A i \in 1..Len(assets) : assets'[i] = assets[i]
      /\ assets'[Len(assets) + 1] = x
  BY <1>1, AppendKeeps DEF BoundInv, AssetsAppended
<1>4. Workbench' = Workbench /\ \A i \in Workbench : i \in 1..Len(assets) /\ assets'[i] = assets[i]
  BY <1>1, <1>3 DEF Workbench
<1>5. Bases'
  BY <1>1, <1>3 DEF Bases, ThreadInv
<1>6. BundledDecisionIsApprovers'
  BY <1>4 DEF BundledDecisionIsApprovers, ThreadInv
<1>7. ReviewedMeansAccepted'
  <2> SUFFICES ASSUME NEW i \in Workbench, assets'[i].reviewed
               PROVE  /\ Own(i)'.loaded \notin Flawed
                      /\ Subjects(Own(i))' \subseteq assets'[i].draft.accepts
    BY <1>4 DEF ReviewedMeansAccepted, Own
  <2>1. Own(i).loaded \notin Flawed /\ Subjects(Own(i)) \subseteq assets[i].draft.accepts
    BY <1>4 DEF ThreadInv, ReviewedMeansAccepted, Own
  <2>2. Own(i)' = Own(i) /\ Own(i).baseline \in 0..Len(assets)
    BY <1>3, <1>4 DEF Own, ThreadInv, Bases
  <2>3. Subjects(Own(i))' = Subjects(Own(i))
    BY <1>3, <2>2 DEF Subjects, Diff
  <2> QED
    BY <1>4, <2>1, <2>2, <2>3
<1>8. \A o \in Sessions : WriteFits(o)' /\ FreshFits(o)' /\ StageFits(o)'
  BY <1>2 DEF ThreadInv, WriteFits, FreshFits, StageFits, Decision
<1> QED
  BY <1>2, <1>5, <1>6, <1>7, <1>8 DEF ThreadInv

\* The run is imported again: no decision is there any more.
LEMMA ImportFits == ASSUME BoundInv, ThreadInv, ImportRun PROVE ThreadInv'
<1>1. /\ edition' = edition + 1 /\ decision' = None /\ UNCHANGED <<assets, pc, req, view>>
      /\ edition \in Nat
  BY DEF ImportRun, ThreadInv
<1>2. ASSUME NEW s \in Sessions PROVE WriteFits(s)' /\ FreshFits(s)' /\ StageFits(s)'
  <2>1. WriteFits(s) /\ FreshFits(s) /\ StageFits(s)
    BY DEF ThreadInv
  <2>2. WriteFits(s)'
    BY <1>1, <2>1 DEF WriteFits
  <2> QED
    BY <1>1, <2>1, <2>2 DEF FreshFits, StageFits
<1> QED
  BY <1>1, <1>2, ThreadStill

LEMMA ThreadStep == ASSUME BoundInv, ThreadInv, OneThread, [Next]_vars PROVE ThreadInv'
<1> USE DEF disk
<1>0. edition \in Nat
  BY DEF ThreadInv
<1>1. ASSUME NEW s \in Sessions, OpenReview(s) PROVE ThreadInv'
  <2>1. Snapshot(s, Request("open", FALSE, Blank, {})) /\ UNCHANGED assets
    BY <1>1 DEF OpenReview
  <2>2. edition' = edition \/ edition' = edition + 1
    BY <1>1 DEF OpenReview
  <2> QED
    BY <1>0, <2>1, <2>2, StartFits DEF Request
<1>2. ASSUME NEW s \in Sessions, SaveDecision(s) \/ ApproveReview(s) PROVE ThreadInv'
  <2>1. PICK r : r.stage = "save" /\ Snapshot(s, r)
    BY <1>2 DEF SaveDecision, ApproveReview, Request
  <2>2. UNCHANGED assets /\ edition' \in Nat
    BY <1>0, <1>2 DEF SaveDecision, ApproveReview
  <2> QED
    BY <2>1, <2>2, StartFits
<1>3. ASSUME NEW s \in Sessions, ReadCandidate(s) PROVE ThreadInv'
  <2>1. view'[s].loaded = candidate
    BY <1>3, ThreadUpdates, ViewBounds DEF ReadCandidate
  <2> QED
    BY <1>3, <2>1, ReadFits DEF ReadCandidate
<1>4. ASSUME NEW s \in Sessions, ReadCurrent(s) PROVE ThreadInv'
  <2>1. view'[s].loaded = view[s].loaded
    BY <1>4, ThreadUpdates, ViewBounds DEF ReadCurrent
  <2>2. PICK to \in {"digests", "baseline"} : Goto(s, to)
    BY <1>4 DEF ReadCurrent
  <2> QED
    BY <1>4, <2>1, <2>2, ReadFits DEF ReadCurrent
<1>5. ASSUME NEW s \in Sessions, ReadBaseline(s) PROVE ThreadInv'
  <2>1. view'[s].loaded = view[s].loaded
    BY <1>5, ThreadUpdates, ViewBounds DEF ReadBaseline
  <2> QED
    BY <1>5, <2>1, ReadFits DEF ReadBaseline
<1>6. ASSUME NEW s \in Sessions, DigestCandidate(s) PROVE ThreadInv'
  <2>1. view'[s].loaded = view[s].loaded
    BY <1>6, ThreadUpdates, ViewBounds DEF DigestCandidate
  <2> QED
    BY <1>6, <2>1, ReadFits DEF DigestCandidate
<1>7. ASSUME NEW s \in Sessions, ReadDecision(s) PROVE ThreadInv'
  <2>1. CASE Respond(s, view[s])
    BY <1>0, <1>7, <2>1, ThreadUpdates, AnswerFits DEF ReadDecision, Respond, Serve
  <2>2. CASE req[s].stage = "save" /\ Goto(s, "writing") /\ UNCHANGED <<req, view, page>>
    BY <1>7, <2>2, ReadFits DEF ReadDecision
  <2>3. CASE req[s].stage = "fresh" /\ Goto(s, "binding") /\ UNCHANGED <<req, view, page>>
    BY <1>7, <2>3, ReadFits DEF ReadDecision
  <2> QED
    BY <1>7, <2>1, <2>2, <2>3 DEF ReadDecision
<1>8. ASSUME NEW s \in Sessions, TruncateDecision(s) PROVE ThreadInv'
  <2>1. /\ pc[s] = "writing" /\ pc'[s] = "written" /\ decision' = Torn
        /\ req'[s] = [req[s] EXCEPT !.edition = edition]
        /\ UNCHANGED <<candidate, edition, assets>>
    BY <1>8, ThreadUpdates DEF TruncateDecision, Serve
  <2>2. req'[s].edition = edition /\ req'[s].stage = req[s].stage
    BY <2>1, ViewBounds, RequestFields
  <2>3. req[s].stage # "fresh"
    BY <2>1 DEF ThreadInv, FreshFits
  <2>4. WriteFits(s)' /\ FreshFits(s)' /\ StageFits(s)'
    BY <1>0, <2>1, <2>2, <2>3 DEF WriteFits, FreshFits, StageFits
  <2>5. \A o \in Sessions : o = s
    BY DEF OneThread
  <2> QED
    BY <1>0, <2>1, <2>4, <2>5, ThreadStill
<1>9. ASSUME NEW s \in Sessions, WriteDecision(s) PROVE ThreadInv'
  <2>1. /\ pc[s] = "written" /\ UNCHANGED <<candidate, edition, assets>>
        /\ decision' \in IF req[s].edition # edition THEN {decision}
                         ELSE IF decision = Torn THEN {Decision(s, req[s].draft)}
                              ELSE {Decision(s, req[s].draft), Torn}
    BY <1>9 DEF WriteDecision
  <2>2. decision' \in {None, Decision(s, req[s].draft)}
    BY <2>1 DEF ThreadInv, WriteFits
  <2>3. CASE Snapshot(s, [req[s] EXCEPT !.stage = "fresh"])
    <3>1. [req[s] EXCEPT !.stage = "fresh"].draft = req[s].draft
      BY <2>1, ViewBounds, RequestFields
    <3> HIDE DEF disk
    <3> QED
      BY <1>0, <2>1, <2>2, <2>3, <3>1, StartFits
  <2>4. CASE Respond(s, view[s])
    BY <1>0, <2>1, <2>4, ThreadUpdates, AnswerFits DEF Respond, Serve
  <2> QED
    BY <1>9, <2>3, <2>4 DEF WriteDecision
<1>10. ASSUME NEW s \in Sessions, BindDecision(s) PROVE ThreadInv'
  <2>1. /\ pc[s] = "binding" /\ pc'[s] = "approving" /\ decision # None
        /\ req'[s] = [req[s] EXCEPT !.expects = decision]
        /\ UNCHANGED <<candidate, edition, assets, decision, view>>
    BY <1>10, ThreadUpdates DEF BindDecision, Serve
  <2>2. req'[s].expects = decision /\ req'[s].stage = req[s].stage /\ req'[s].draft = req[s].draft
    BY <2>1, ViewBounds, RequestFields
  <2>3. WriteFits(s)' /\ FreshFits(s)' /\ StageFits(s)'
    BY <2>1, <2>2 DEF WriteFits, FreshFits, StageFits, ThreadInv, Decision
  <2>4. \A o \in Sessions : o = s
    BY DEF OneThread
  <2> QED
    BY <1>0, <2>1, <2>3, <2>4, ThreadStill
<1>11. ASSUME NEW s \in Sessions, Raise(s) PROVE ThreadInv'
  BY <1>0, <1>11, ThreadUpdates, AnswerFits DEF Raise, Respond, Serve
<1>12. CASE UNCHANGED vars
  <2>1. UNCHANGED <<candidate, edition, decision, assets, pc, req, view>>
    BY <1>12 DEF vars
  <2>2. \A o \in Sessions : WriteFits(o)' /\ FreshFits(o)' /\ StageFits(o)'
    BY <2>1 DEF ThreadInv, WriteFits, FreshFits, StageFits, Decision
  <2> QED
    BY <1>0, <2>1, <2>2, ThreadStill
<1> QED
  BY <1>1, <1>2, <1>3, <1>4, <1>5, <1>6, <1>7, <1>8, <1>9, <1>10, <1>11, <1>12,
     ApproveFits, ElsewhereFits, ImportFits DEF Next

LEMMA ThreadInit == Init => ThreadInv
<1> SUFFICES ASSUME Init PROVE ThreadInv
  OBVIOUS
<1>1. edition \in Nat /\ DOMAIN assets = {} /\ \A s \in Sessions : pc[s] = "idle"
  BY DEF Init
<1>2. \A s \in Sessions : WriteFits(s) /\ FreshFits(s) /\ StageFits(s)
  BY <1>1 DEF WriteFits, FreshFits, StageFits
<1>3. Bases /\ ReviewedMeansAccepted /\ BundledDecisionIsApprovers
  BY <1>1 DEF Bases, ReviewedMeansAccepted, BundledDecisionIsApprovers, Workbench
<1> QED
  BY <1>1, <1>2, <1>3 DEF ThreadInv

\* With one request at a time, an asset marked REVIEWED has no failed validation, and every
\* finding of its own contents and every difference from its own predecessor was accepted,
\* however often the run is imported again between the reads of a snapshot.
THEOREM ReviewedWasAccepted == ASSUME OneThread PROVE Spec => []ReviewedMeansAccepted
<1>1. Init => BoundInv /\ ThreadInv
  BY BoundInit, ThreadInit
<1>2. BoundInv /\ ThreadInv /\ [Next]_vars => BoundInv' /\ ThreadInv'
  BY BoundStep, ThreadStep
<1>3. ThreadInv => ReviewedMeansAccepted
  BY DEF ThreadInv
<1> QED
  BY <1>1, <1>2, <1>3, PTL DEF Spec

\* With one request at a time, the decision inside an asset is the one its approver saved
\* for it (save_review_decision truncates and writes without a lock).
THEOREM BundledIsTheApprovers == ASSUME OneThread PROVE Spec => []BundledDecisionIsApprovers
<1>1. Init => BoundInv /\ ThreadInv
  BY BoundInit, ThreadInit
<1>2. BoundInv /\ ThreadInv /\ [Next]_vars => BoundInv' /\ ThreadInv'
  BY BoundStep, ThreadStep
<1>3. ThreadInv => BundledDecisionIsApprovers
  BY DEF ThreadInv
<1> QED
  BY <1>1, <1>2, <1>3, PTL DEF Spec
=============================================================================
