------------------------------- MODULE Importer -------------------------------
(***************************************************************************)
(* foundry import (foundry/importer.py): a run is copied into a stage      *)
(* beside the docset's candidates and renamed to its name.  An overwrite   *)
(* first moves older backups to quarantine names and the predecessor to a  *)
(* backup name; a failure undoes all of it or, when it cannot, keeps the   *)
(* locks.  After the commit the quarantines are retired without the locks. *)
(*                                                                         *)
(* A directory is its inode and stands under one name; the uuid in a       *)
(* hidden name is the directory it names.  Nothing is unlinked: a retired  *)
(* directory keeps a tombstone name (descriptor_namespace.py:331).         *)
(* The two lock directories are one lock here, FoundryApproval has both.   *)
(***************************************************************************)
EXTENDS Naturals, Sequences

CONSTANTS
  Procs,        \* processes that run foundry import
  Runs,         \* run ids of one docset
  Dirs,         \* bound: the directories that are ever made
  Overlaps,     \* <<r, q>>: the hidden names of another run q begin with r's
                \* backup prefix, as with the run ids "pay" and "pay-backup-2"
  LateFailures, \* moves whose failure may be reported after they happened
  MaxClears,    \* bound: how often the operator removes stale locks
  None

\* What the model takes for granted of its parameters (assumed by its MC modules).
OverlapsAssumption ==
  /\ Overlaps \subseteq Runs \X Runs /\ \A r \in Runs : <<r, r>> \notin Overlaps
  /\ LateFailures \subseteq {"quarantine", "backup", "publish"}
  /\ MaxClears \in Nat
DistinctNone == None \notin Procs \cup Runs \cup Dirs

\* The lock tells a process from its own two states.
LockNamesApart == "free" \notin Procs /\ "stale" \notin Procs

VARIABLES
  at,          \* Dirs -> the name the directory stands under
  whole,       \* the directories that hold a complete eligible run
  lock,        \* "free", "stale" or the process inside the transaction
  pc,          \* Procs -> where the import is
  tx,          \* Procs -> its local variables
  saving,      \* runs whose decision the review workbench is about to write
  cleared,     \* how often locks were removed by hand
  latest,      \* history: Runs -> the candidate committed last
  predecessor  \* history: Runs -> what that commit replaced

vars == <<at, whole, lock, pc, tx, saving, cleared, latest, predecessor>>

-----------------------------------------------------------------------------
(* Names.                                                                  *)

Kinds == {"candidate", "stage", "backup", "prune", "recovery"}
Name(kind, r) == [kind |-> kind, run |-> r]
Unmade == Name("unmade", None)
Tombstone == Name("tombstone", None)

Entries(kind, r) == {d \in Dirs : at[d] = Name(kind, r)}
Unused == {d \in Dirs : at[d] = Unmade}

\* The directory a mkdir makes: one that never was is like another.
Fresh == IF Unused = {} THEN {} ELSE {CHOOSE d \in Unused : TRUE}

\* entry_identity_relative of the candidate's name.
Occupant(r) ==
  IF Entries("candidate", r) = {} THEN None
  ELSE CHOOSE d \in Dirs : at[d] = Name("candidate", r)

\* Mutant: older backups are not looked for.
NoStaleBackups(r) == {}

\* os.listdir filtered with the prefix of r's backups; r's own quarantines have
\* the prefix too, and have been collected when this is asked.
StaleBackups(r) ==
  {d \in Dirs :
     \/ at[d] = Name("backup", r)
     \/ <<r, at[d].run>> \in Overlaps /\ at[d].kind \in Kinds \ {"candidate"}}

\* History: what an import found before it did anything.
Found(r) == [candidate |-> Occupant(r), backups |-> Entries("backup", r)]

Idle == [run |-> None, overwrite |-> FALSE, prior |-> None, stage |-> None,
         backup |-> None, pruned |-> <<>>, found |-> None]

Before == {"check", "collect", "stage", "quarantine", "backup", "publish", "close"}
Rollback == {"reconcile", "undo", "surrender", "putback", "restore", "release"}

Move(d, name) == at' = [at EXCEPT ![d] = name]
Goto(p, label) == pc' = [pc EXCEPT ![p] = label]
Note(p, t) == tx' = [tx EXCEPT ![p] = t]
Stop(p) == Goto(p, "idle") /\ Note(p, Idle)

history == <<latest, predecessor>>
outside == <<saving, cleared, history>>

-----------------------------------------------------------------------------
(* import_run up to its commit.                                            *)

\* Mutant: mkdir with exist_ok.
LockIgnored == TRUE

LockFree == lock = "free"

ImportBegin(p) ==
  /\ pc[p] = "idle" /\ LockFree
  /\ lock' = p
  /\ \E r \in Runs, overwrite \in BOOLEAN :
       Note(p, [Idle EXCEPT !.run = r, !.overwrite = overwrite, !.found = Found(r)])
  /\ Goto(p, "check")
  /\ UNCHANGED <<at, whole, outside>>

ReadPrior(p) ==
  LET t == tx[p]  prior == Occupant(t.run) IN
  /\ pc[p] = "check"
  /\ prior # None => t.overwrite
  /\ Note(p, [t EXCEPT !.prior = prior])
  /\ Goto(p, "collect")
  /\ UNCHANGED <<at, whole, lock, outside>>

\* _finalize_stale_backup_quarantines.
CollectLeftovers(p) ==
  LET leftovers == Entries("prune", tx[p].run) IN
  /\ pc[p] = "collect"
  /\ \/ \E d \in leftovers : Move(d, Tombstone) /\ UNCHANGED pc
     \/ leftovers = {} /\ Goto(p, "stage") /\ UNCHANGED at
  /\ UNCHANGED <<whole, lock, tx, outside>>

StageCandidate(p) ==
  LET t == tx[p] IN
  /\ pc[p] = "stage"
  /\ \E d \in Fresh :
       /\ Move(d, Name("stage", t.run))
       /\ whole' = whole \cup {d}
       /\ Note(p, [t EXCEPT !.stage = d])
  /\ Goto(p, IF t.prior = None THEN "publish" ELSE "quarantine")
  /\ UNCHANGED <<lock, outside>>

\* The copy fails; its own clean-up may fail as well.
StagingFails(p) ==
  /\ pc[p] = "stage"
  /\ \E d \in Fresh, left \in {Tombstone, Name("stage", tx[p].run)} : Move(d, left)
  /\ Goto(p, "reconcile")
  /\ UNCHANGED <<whole, lock, tx, outside>>

\* _quarantine_stale_backups: a move is recorded when it has returned.
QuarantineBackup(p) ==
  LET t == tx[p] IN
  /\ pc[p] = "quarantine"
  /\ \/ \E d \in StaleBackups(t.run) :
          /\ Move(d, Name("prune", t.run))
          /\ \/ /\ Note(p, [t EXCEPT !.pruned = Append(@, [dir |-> d, from |-> at[d]])])
                /\ UNCHANGED pc
             \/ "quarantine" \in LateFailures /\ Goto(p, "reconcile") /\ UNCHANGED tx
     \/ StaleBackups(t.run) = {} /\ Goto(p, "backup") /\ UNCHANGED <<at, tx>>
  /\ UNCHANGED <<whole, lock, outside>>

MoveAside(p) ==
  LET t == tx[p] IN
  /\ pc[p] = "backup" /\ Occupant(t.run) = t.prior
  /\ Move(t.prior, Name("backup", t.run))
  /\ \/ Note(p, [t EXCEPT !.backup = t.prior]) /\ Goto(p, "publish")
     \/ "backup" \in LateFailures /\ Goto(p, "reconcile") /\ UNCHANGED tx
  /\ UNCHANGED <<whole, lock, outside>>

\* publish_asset renames without replacing.
PublishStage(p) ==
  LET t == tx[p] IN
  /\ pc[p] = "publish" /\ Occupant(t.run) = None
  /\ Move(t.stage, Name("candidate", t.run))
  /\ \/ Goto(p, "close")
     \/ "publish" \in LateFailures /\ Goto(p, "reconcile")
  /\ UNCHANGED <<whole, lock, tx, outside>>

\* transaction.close() commits.
Close(p) ==
  LET t == tx[p] IN
  /\ pc[p] = "close"
  /\ lock' = "free"
  /\ latest' = [latest EXCEPT ![t.run] = t.stage]
  /\ predecessor' = [predecessor EXCEPT ![t.run] = t.prior]
  /\ Goto(p, "cleanup")
  /\ UNCHANGED <<at, whole, tx, saving, cleared>>

\* A refusal, a failed validation or a call that failed without effect, a
\* close that could not remove the catalog lock included.
StepFails(p) ==
  /\ pc[p] \in Before
  /\ Goto(p, "reconcile")
  /\ UNCHANGED <<at, whole, lock, tx, outside>>

-----------------------------------------------------------------------------
(* The failure of an import.  What fails in here, like the death of the    *)
(* process anywhere, leaves the locks (transaction.abandon).               *)

\* Mutant: the identity of a move that failed is not looked up.
ReconcileNothing(p) ==
  pc[p] = "reconcile" /\ Goto(p, "undo") /\ UNCHANGED <<at, whole, lock, tx, outside>>

\* _reconcile_backup_for_rollback: the predecessor may have been moved.
Reconcile(p) ==
  LET t == tx[p]
      moved == t.prior # None /\ at[t.prior] = Name("backup", t.run) IN
  /\ pc[p] = "reconcile"
  /\ Note(p, [t EXCEPT !.backup = IF moved THEN t.prior ELSE None])
  /\ Goto(p, "undo")
  /\ UNCHANGED <<at, whole, lock, outside>>

\* Mutant: whatever has the candidate's name counts as the failed publication.
UndoAnyOccupant(p) ==
  LET t == tx[p] IN
  /\ pc[p] = "undo"
  /\ IF Occupant(t.run) # None THEN Move(Occupant(t.run), Tombstone) ELSE UNCHANGED at
  /\ Goto(p, "putback")
  /\ UNCHANGED <<whole, lock, tx, outside>>

\* _rollback_candidate_import retires the stage, under whichever name, and
\* moves a directory it does not know out of the way.
UndoPublication(p) ==
  LET t == tx[p]
      foreign == Occupant(t.run) \notin {None, t.prior, t.stage} IN
  /\ pc[p] = "undo"
  /\ \/ t.stage = None /\ Goto(p, "putback") /\ UNCHANGED at
     \/ t.stage # None /\ ~foreign /\ Move(t.stage, Tombstone) /\ Goto(p, "putback")
     \/ /\ t.stage # None /\ foreign
        /\ Move(Occupant(t.run), Name("recovery", t.run))
        /\ Goto(p, "surrender")
  /\ UNCHANGED <<whole, lock, tx, outside>>

\* Mutant: the locks are given back as after any failure.
SurrenderReleasing(p) ==
  pc[p] = "surrender" /\ Goto(p, "putback") /\ UNCHANGED <<at, whole, lock, tx, outside>>

\* The predecessor is put back; the caller is told that recovery is required.
Surrender(p) ==
  LET t == tx[p] IN
  /\ pc[p] = "surrender"
  /\ IF t.backup # None /\ Occupant(t.run) = None
     THEN Move(t.backup, Name("candidate", t.run)) ELSE UNCHANGED at
  /\ lock' = "stale"
  /\ Stop(p)
  /\ UNCHANGED <<whole, outside>>

PutBack(p) ==
  LET t == tx[p] IN
  /\ pc[p] = "putback"
  /\ \/ t.backup = None /\ UNCHANGED at
     \/ /\ t.backup # None /\ Occupant(t.run) = None
        /\ Move(t.backup, Name("candidate", t.run))
  /\ Goto(p, "restore")
  /\ UNCHANGED <<whole, lock, tx, outside>>

\* Mutant: only the predecessor is put back.
RestoreNothing(p) ==
  pc[p] = "restore" /\ Goto(p, "release") /\ UNCHANGED <<at, whole, lock, tx, outside>>

\* _restore_quarantined_backups, the last one first.
RestoreBackup(p) ==
  LET t == tx[p]  n == Len(t.pruned) IN
  /\ pc[p] = "restore"
  /\ \/ /\ n > 0
        /\ Move(t.pruned[n].dir, t.pruned[n].from)
        /\ Note(p, [t EXCEPT !.pruned = SubSeq(@, 1, n - 1)])
        /\ UNCHANGED pc
     \/ n = 0 /\ Goto(p, "release") /\ UNCHANGED <<at, tx>>
  /\ UNCHANGED <<whole, lock, outside>>

\* close, then force_close, which may leave a lock as well.
Release(p) ==
  /\ pc[p] = "release"
  /\ lock' \in {"free", "stale"}
  /\ Stop(p)
  /\ UNCHANGED <<at, whole, outside>>

\* The process dies, or its rollback fails.
Abandon(p) ==
  /\ pc[p] # "idle"
  /\ lock' = IF lock = p THEN "stale" ELSE lock
  /\ Stop(p)
  /\ UNCHANGED <<at, whole, outside>>

-----------------------------------------------------------------------------
(* After the commit, and outside.                                          *)

\* _finalize_backup_quarantines takes no lock; what it cannot retire it
\* leaves to the next import, which may have been there first.
RetireQuarantine(p) ==
  LET t == tx[p] IN
  /\ pc[p] = "cleanup"
  /\ \/ /\ t.pruned # <<>>
        /\ LET d == Head(t.pruned).dir IN
             \/ at[d] = Name("prune", t.run) /\ Move(d, Tombstone)
             \/ UNCHANGED at
        /\ Note(p, [t EXCEPT !.pruned = Tail(@)])
        /\ UNCHANGED pc
     \/ t.pruned = <<>> /\ Stop(p) /\ UNCHANGED at
  /\ UNCHANGED <<whole, lock, outside>>

\* The operator, once no import is active.
ClearLocks ==
  /\ lock = "stale" /\ cleared < MaxClears
  /\ lock' = "free" /\ cleared' = cleared + 1
  /\ UNCHANGED <<at, whole, pc, tx, saving, history>>

\* The workbench has read a complete candidate and is about to save.
SaveBegin(r) ==
  /\ r \notin saving /\ Occupant(r) \in whole
  /\ saving' = saving \cup {r}
  /\ UNCHANGED <<at, whole, lock, pc, tx, cleared, history>>

\* save_review_decision makes the parents of its file: where the candidate
\* was moved away it makes a directory with nothing else in it.
SaveDecision(r) ==
  /\ r \in saving
  /\ saving' = saving \ {r}
  /\ \/ Occupant(r) # None /\ UNCHANGED at
     \/ Occupant(r) = None /\ \E d \in Fresh : Move(d, Name("candidate", r))
  /\ UNCHANGED <<whole, lock, pc, tx, cleared, history>>

Init ==
  /\ at = [d \in Dirs |-> Unmade] /\ whole = {} /\ lock = "free"
  /\ pc = [p \in Procs |-> "idle"] /\ tx = [p \in Procs |-> Idle]
  /\ saving = {} /\ cleared = 0
  /\ latest = [r \in Runs |-> None] /\ predecessor = [r \in Runs |-> None]

Next ==
  \/ \E p \in Procs :
       \/ ImportBegin(p) \/ ReadPrior(p) \/ CollectLeftovers(p)
       \/ StageCandidate(p) \/ StagingFails(p) \/ QuarantineBackup(p)
       \/ MoveAside(p) \/ PublishStage(p) \/ Close(p) \/ StepFails(p)
       \/ Reconcile(p) \/ UndoPublication(p) \/ Surrender(p) \/ PutBack(p)
       \/ RestoreBackup(p) \/ Release(p) \/ Abandon(p) \/ RetireQuarantine(p)
  \/ \E r \in Runs : SaveBegin(r) \/ SaveDecision(r)
  \/ ClearLocks

Spec == Init /\ [][Next]_vars

-----------------------------------------------------------------------------
(* Properties.                                                             *)

\* At most one directory stands under a candidate's name, and whoever is inside
\* a transaction, its rollback included, holds the lock.
TypeOK ==
  /\ at \in [Dirs -> {Name(k, r) : k \in Kinds, r \in Runs} \cup {Unmade, Tombstone}]
  /\ whole \subseteq Dirs /\ saving \subseteq Runs
  /\ \A d, e \in Dirs : at[d] = at[e] /\ at[d].kind = "candidate" => d = e
  /\ \A p \in Procs :
       /\ pc[p] \in Before \cup Rollback <=> lock = p
       /\ tx[p] = Idle <=> pc[p] = "idle"

\* An import that fails and gives its locks back has put the predecessor back
\* under the candidate's name; where there was none, no complete run is there
\* (importer.py:145-172, tests/foundry/test_importer.py "restores old candidate").
FailureRestoresCandidate ==
  \A p \in Procs : pc[p] = "release" =>
    IF tx[p].found.candidate = None THEN Occupant(tx[p].run) \notin whole
    ELSE Occupant(tx[p].run) = tx[p].found.candidate

\* It has also put back every backup it found (tests/foundry/test_importer.py:187,
\* "put both generations back exactly as it found them").
FailureRestoresBackups ==
  \A p \in Procs : pc[p] = "release" => 
    tx[p].found.backups \subseteq Entries("backup", tx[p].run)

\* When an overwrite commits, its predecessor is the one backup of the run
\* (docs/ARCHITECTURE.md:453).
OneBackupAtCommit ==
  \A p \in Procs : pc[p] = "close" /\ tx[p].prior # None =>
    Entries("backup", tx[p].run) = {tx[p].prior}

\* When a failed import met a directory it did not know under the candidate's
\* name, such as the one a late save makes, it keeps it and keeps its locks
\* (importer.py:338-360).
ForeignKeepsLocks ==
  \A r \in Runs : cleared = 0 /\ Entries("recovery", r) # {} => ~LockFree

\* The candidate committed last is never retired, nor is what it replaced while
\* the locks are as the program left them: a failed or interrupted overwrite
\* leaves them for recovery.
CommittedIsKept ==
  \A r \in Runs :
    /\ cleared <= 1 /\ latest[r] # None => at[latest[r]] # Tombstone
    /\ cleared = 0 /\ predecessor[r] # None => at[predecessor[r]] # Tombstone

\* importer.py:32 and docs/ARCHITECTURE.md:453: the immediate predecessor is
\* retained until the next overwrite of the run has committed.
PredecessorRetained ==
  \A r \in Runs : predecessor[r] # None => at[predecessor[r]] # Tombstone
=============================================================================
