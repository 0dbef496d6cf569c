---------------------------- MODULE FeedbackPromotion ----------------------------
(***************************************************************************)
(* Implementation feedback under governance: a case is persisted           *)
(* (foundry/feedback.py), a human decision is recorded once, and an        *)
(* approved case is promoted to an effective asset of its scope            *)
(* (foundry/effective_approval.py).  Each operation holds the docset's     *)
(* locks; the promotion writes the amendment, the asset and, last, the     *)
(* scope's current.json, and undoes exactly what it wrote when a later     *)
(* step fails.  Readers (query.py) take no lock.                           *)
(*                                                                         *)
(* One docset and one scope.  A proposal and its amendment are named by    *)
(* their case; an asset by what its id digests.  The two lock directories  *)
(* are one lock here, FoundryApproval has both.                            *)
(***************************************************************************)
EXTENDS Naturals, FiniteSets, Sequences

CONSTANTS
  Procs,         \* processes that run a feedback command
  Readers,       \* callers of load_current_effective_asset
  Cases,         \* feedback cases
  Releases,      \* bound: the normative releases 1..Releases, in order
  Times,         \* composition times (as_of) a caller may ask for
  MaxLineage,    \* read_effective_lineage: longest lineage it follows
  LateFailures,  \* steps whose failure may be reported after they happened
  MaxClears,     \* bound: how often the operator removes stale locks
  None

\* The lock tells a process from its own two states.
LockNamesApart == "free" \notin Procs /\ "stale" \notin Procs

\* None is not an asset's id.
NoneApart == None \notin [base : Nat, asOf : Times, applied : SUBSET Cases]

VARIABLES
  lock,       \* "free", "stale" or the process inside a transaction
  normative,  \* the approved current release of the docset
  case,       \* Cases -> None or the published case directory
  decision,   \* Cases -> None or review/decision.json
  amended,    \* the cases with an approved-amendment.json
  assets,     \* the effective asset roots of the scope, by id
  current,    \* the scope's current.json: None or an asset id
  pc, tx,     \* Procs -> where the command is, and its local variables
  reading,    \* Readers -> what a reader read so far
  cleared,    \* how often locks were removed by hand
  promoted,   \* history: the cases whose promotion returned
  recorded    \* history: the decisions whose recording returned, by case

vars == <<lock, normative, case, decision, amended, assets, current, pc, tx,
          reading, cleared, promoted, recorded>>

governed == <<case, decision, amended, assets, current>>
outside == <<normative, reading, cleared, promoted, recorded>>

-----------------------------------------------------------------------------
(* Assets.                                                                 *)

\* compose: the id digests the base, the time and the applied amendments.
AssetId(base, asOf, applied) == [base |-> base, asOf |-> asOf, applied |-> applied]

Published(id) == \E a \in assets : a.id = id

\* The ids that files name, id among them.
Named(id) == {id} \cup UNION {{a.id, a.supersedes} : a \in assets}

\* read_effective_lineage: what the chain of supersedes reaches, each asset checked
\* against its successor's digest.
Chain(id) ==
  {i \in Named(id) \ {None} :
     \A S \in SUBSET Named(id) :
       id \in S /\ (\A a \in assets : a.id \in S => a.supersedes \in S) => i \in S}

Lineage(id) == {a.amendment : a \in {b \in assets : b.id \in Chain(id)}}

Bound(id) == id # None /\ \A i \in Chain(id) : Published(i)
TooDeep(id) == id # None /\ Cardinality(Chain(id)) > MaxLineage

Governed(id) == IF id = None THEN {} ELSE Lineage(id)

\* compose leaves out the amendments made for another base (_amendment_is_current).
Applied(amendments, base) == {c \in amendments : case[c].base = base}

-----------------------------------------------------------------------------
(* Transactions.                                                           *)

Idle == [op |-> "none", case |-> None, asOf |-> 0, found |-> None, outputs |-> <<>>,
         head |-> "kept", supersedes |-> None, id |-> None]

Goto(p, label) == pc' = [pc EXCEPT ![p] = label]
Note(p, t) == tx' = [tx EXCEPT ![p] = t]
Stop(p) == Goto(p, "idle") /\ Note(p, Idle)

\* Mutant: mkdir with exist_ok.
LockIgnored == TRUE

LockFree == lock = "free"

\* begin_governance_transaction.
Begin(p) ==
  /\ pc[p] = "idle" /\ LockFree
  /\ lock' = p
  /\ \E op \in {"persist", "review", "promote"}, c \in Cases, t \in Times :
       /\ op # "promote" => t = CHOOSE u \in Times : TRUE
       /\ Note(p, [Idle EXCEPT !.op = op, !.case = c, !.asOf = t, !.found = current])
  /\ Goto(p, "check")
  /\ UNCHANGED <<governed, outside>>

\* A check that fails writes nothing: close.
Refuse(p) ==
  /\ pc[p] = "check"
  /\ lock' = "free" /\ Stop(p)
  /\ UNCHANGED <<governed, outside>>

-----------------------------------------------------------------------------
(* persist_feedback_case.                                                  *)

\* publish_asset of the stage under the case's name, which must be free.
PublishCase(p) ==
  LET t == tx[p] IN
  /\ pc[p] = "check" /\ t.op = "persist"
  /\ case[t.case] = None
  /\ \E base \in 1..normative, proposal \in BOOLEAN, late \in {FALSE} \cup
          {"case" \in LateFailures} :
       /\ case' = [case EXCEPT ![t.case] = [base |-> base, proposal |-> proposal]]
       /\ Note(p, [t EXCEPT !.outputs = <<"case">>])
       /\ Goto(p, IF late THEN "outputs" ELSE "close")
  /\ UNCHANGED <<lock, decision, amended, assets, current, outside>>

(* record_feedback_review.                                                 *)

\* Mutant: a decision found in place is taken for the one just written.
AdoptExisting(p) ==
  LET t == tx[p] IN
  /\ decision[t.case] # None
  /\ Note(p, [t EXCEPT !.outputs = <<"decision">>]) /\ Goto(p, "outputs")
  /\ UNCHANGED decision

\* write_once_model_relative refuses an existing leaf and owns nothing.
KeepExisting(p) ==
  /\ decision[tx[p].case] # None
  /\ Goto(p, "outputs")
  /\ UNCHANGED <<decision, tx>>

WriteDecision(p) ==
  LET t == tx[p] IN
  /\ pc[p] = "check" /\ t.op = "review"
  /\ case[t.case] # None
  /\ \/ KeepExisting(p)
     \/ /\ decision[t.case] = None
        /\ \E d \in {"approved", "rejected"}, late \in {FALSE} \cup
               {"decision" \in LateFailures} :
             /\ decision' = [decision EXCEPT ![t.case] = d]
             /\ Goto(p, IF late THEN "outputs" ELSE "close")
        /\ Note(p, [t EXCEPT !.outputs = <<"decision">>])
  /\ UNCHANGED <<lock, case, amended, assets, current, outside>>

-----------------------------------------------------------------------------
(* approve_feedback_case.                                                  *)

\* The decision approves the case, the base is the normative current, the scope's
\* pointer is bound and its lineage complete.  What the caller composed is the
\* composition of that lineage with the amendment, or the check refuses.
Eligible(p) ==
  LET t == tx[p]  c == t.case IN
  /\ case[c] # None /\ case[c].proposal
  /\ decision[c] = "approved"
  /\ case[c].base = normative
  /\ t.found # None => Bound(t.found) /\ ~TooDeep(t.found)

\* A case of the lineage is released again with its own amendment, unless the
\* pointer already stands for the same asset; any other amendment file refuses.
WriteAmendment(p) ==
  LET t == tx[p]  c == t.case
      base == case[c].base
      id == AssetId(base, t.asOf, Applied(Governed(t.found) \cup {c}, base))
      t2 == [t EXCEPT !.id = id, !.supersedes = t.found]
  IN
  /\ pc[p] = "check" /\ t.op = "promote" /\ Eligible(p)
  /\ \/ /\ c \in Governed(t.found) /\ c \in amended
        /\ t.found # id
        /\ Note(p, t2) /\ Goto(p, "asset")
        /\ UNCHANGED amended
     \/ /\ c \notin Governed(t.found) /\ c \notin amended
        /\ amended' = amended \cup {c}
        /\ Note(p, [t2 EXCEPT !.outputs = <<"amendment">>])
        /\ \E late \in {FALSE} \cup {"amendment" \in LateFailures} :
             Goto(p, IF late THEN "undo" ELSE "asset")
  /\ UNCHANGED <<lock, case, decision, assets, current, outside>>

\* Mutant: the asset does not name the one it replaces.
NewAssetDetached(t) == [id |-> t.id, supersedes |-> None, amendment |-> t.case]

NewAsset(t) == [id |-> t.id, supersedes |-> t.supersedes, amendment |-> t.case]

\* An asset root of that id is reused when it is equal, and then not owned.
PublishAsset(p) ==
  LET t == tx[p] IN
  /\ pc[p] = "asset"
  /\ \/ /\ NewAsset(t) \in assets
        /\ Goto(p, "pointer")
        /\ UNCHANGED <<assets, tx>>
     \/ /\ ~Published(t.id)
        /\ assets' = assets \cup {NewAsset(t)}
        /\ Note(p, [t EXCEPT !.outputs = Append(@, "asset")])
        /\ \E late \in {FALSE} \cup {"asset" \in LateFailures} :
             Goto(p, IF late THEN "undo" ELSE "pointer")
  /\ UNCHANGED <<lock, case, decision, amended, current, outside>>

\* _publish_temporary_head_relative: an existing head is moved aside first.
MovePointer(p) ==
  LET t == tx[p] IN
  /\ pc[p] = "pointer" /\ t.found # None
  /\ current' = None
  /\ Note(p, [t EXCEPT !.head = "moved"])
  /\ Goto(p, "link")
  /\ UNCHANGED <<lock, case, decision, amended, assets, outside>>

\* published_identity is recorded once the linked name was verified: a stat that
\* raises before ("pointer" in LateFailures) leaves the link unrecorded.
LinkPointer(p) ==
  LET t == tx[p] IN
  /\ \/ pc[p] = "pointer" /\ t.found = None
     \/ pc[p] = "link"
  /\ current' = t.id
  /\ \/ Note(p, [t EXCEPT !.head = "linked"]) /\ Goto(p, "retire")
     \/ /\ "pointer" \in LateFailures
        /\ Note(p, [t EXCEPT !.head = "kept"]) /\ Goto(p, "undo")
  /\ UNCHANGED <<lock, case, decision, amended, assets, outside>>

\* The link fails: the old head is put back, or recovery is required.
LinkFails(p) ==
  LET t == tx[p] IN
  /\ pc[p] = "link"
  /\ \/ /\ current' = t.found
        /\ Note(p, [t EXCEPT !.head = "kept"]) /\ Goto(p, "undo")
        /\ UNCHANGED lock
     \/ /\ lock' = "stale" /\ Stop(p)
        /\ UNCHANGED current
  /\ UNCHANGED <<case, decision, amended, assets, outside>>

\* The quarantined head is verified, then the amendment and the namespace;
\* a quarantine that cannot be verified requires recovery (abandon).
RetirePointer(p) ==
  /\ pc[p] = "retire"
  /\ \/ Goto(p, "close") /\ UNCHANGED <<lock, tx>>
     \/ Goto(p, "undo") /\ UNCHANGED <<lock, tx>>
     \/ lock' = "stale" /\ Stop(p)
  /\ UNCHANGED <<governed, outside>>

-----------------------------------------------------------------------------
(* Failure and the end of a transaction.                                   *)

\* A step fails without effect; a stage that cannot be removed because its name
\* holds something else requires recovery.
StepFails(p) ==
  /\ pc[p] \in {"asset", "pointer"}
  /\ \/ Goto(p, "undo") /\ UNCHANGED <<lock, tx>>
     \/ pc[p] = "asset" /\ lock' = "stale" /\ Stop(p)
  /\ UNCHANGED <<governed, outside>>

\* restore_head_relative moves the new head away ...
UnlinkPointer(p) ==
  LET t == tx[p] IN
  /\ pc[p] = "undo"
  /\ \/ /\ t.head # "linked"
        /\ Goto(p, "outputs")
        /\ UNCHANGED <<current, tx>>
     \/ /\ t.head = "linked"
        /\ current' = None
        /\ Note(p, [t EXCEPT !.head = "moved"])
        /\ Goto(p, IF t.found = None THEN "outputs" ELSE "restore")
  /\ UNCHANGED <<lock, case, decision, amended, assets, outside>>

\* ... and links the old bytes; when that fails the new head is put back.
RestorePointer(p) ==
  LET t == tx[p] IN
  /\ pc[p] = "restore"
  /\ \/ /\ current' = t.found
        /\ Goto(p, "outputs")
        /\ UNCHANGED <<lock, tx>>
     \/ /\ current' \in {t.id, None}
        /\ lock' = "stale" /\ Stop(p)
  /\ UNCHANGED <<case, decision, amended, assets, outside>>

UnlinkFails(p) ==
  /\ pc[p] = "undo" /\ tx[p].head = "linked"
  /\ current' \in {current, None}
  /\ lock' = "stale" /\ Stop(p)
  /\ UNCHANGED <<case, decision, amended, assets, outside>>

\* Mutant: the outputs are removed in the order they were made, the first only.
RemoveFirst(p) ==
  LET t == tx[p] IN
  /\ t.outputs # <<>>
  /\ assets' = IF Head(t.outputs) = "asset" THEN assets \ {NewAsset(t)} ELSE assets
  /\ amended' = IF Head(t.outputs) = "amendment" THEN amended \ {t.case} ELSE amended
  /\ case' = IF Head(t.outputs) = "case" THEN [case EXCEPT ![t.case] = None] ELSE case
  /\ decision' = IF Head(t.outputs) = "decision"
                 THEN [decision EXCEPT ![t.case] = None] ELSE decision
  /\ Note(p, [t EXCEPT !.outputs = <<>>])

\* remove_owned_entry_relative of the last output not yet removed.
RemoveLast(p) ==
  LET t == tx[p]  last == t.outputs[Len(t.outputs)] IN
  /\ t.outputs # <<>>
  /\ assets' = IF last = "asset" THEN assets \ {NewAsset(t)} ELSE assets
  /\ amended' = IF last = "amendment" THEN amended \ {t.case} ELSE amended
  /\ case' = IF last = "case" THEN [case EXCEPT ![t.case] = None] ELSE case
  /\ decision' = IF last = "decision" THEN [decision EXCEPT ![t.case] = None] ELSE decision
  /\ Note(p, [t EXCEPT !.outputs = SubSeq(@, 1, Len(@) - 1)])

RemoveOutput(p) ==
  /\ pc[p] = "outputs"
  /\ RemoveLast(p)
  /\ UNCHANGED <<lock, current, pc, outside>>

\* A failed removal is collected, the rest is still removed, the locks stay.
RemoveFails(p) ==
  LET t == tx[p] IN
  /\ pc[p] = "outputs" /\ t.outputs # <<>>
  /\ lock' = "stale"
  /\ \/ Stop(p) /\ UNCHANGED <<assets, amended>>
     \/ /\ t.outputs = <<"amendment", "asset">>
        /\ amended' = amended \ {t.case}
        /\ Stop(p) /\ UNCHANGED assets
  /\ UNCHANGED <<case, decision, current, outside>>

\* transaction.close() after the rollback, or force_close() when that fails.
Undone(p) ==
  /\ pc[p] = "outputs" /\ tx[p].outputs = <<>>
  /\ lock' \in {"free", "stale"}
  /\ Stop(p)
  /\ UNCHANGED <<governed, outside>>

Return(p) ==
  LET t == tx[p] IN
  /\ promoted' = IF t.op = "promote" THEN promoted \cup {t.case} ELSE promoted
  /\ recorded' = IF t.op = "review"
                 THEN [recorded EXCEPT ![t.case] = decision[t.case]] ELSE recorded

\* transaction.close() after success; when it fails all of it is undone.
Close(p) ==
  /\ pc[p] = "close"
  /\ \/ /\ lock' = "free"
        /\ Return(p) /\ Stop(p)
     \/ /\ Goto(p, IF tx[p].op = "promote" THEN "undo" ELSE "outputs")
        /\ UNCHANGED <<lock, tx, promoted, recorded>>
  /\ UNCHANGED <<governed, normative, reading, cleared>>

Crash(p) ==
  /\ pc[p] # "idle"
  /\ lock' = "stale" /\ Stop(p)
  /\ UNCHANGED <<governed, outside>>

-----------------------------------------------------------------------------
(* Others.                                                                 *)

\* approve_candidate of another process: FoundryApproval has its steps.
ApproveNormative ==
  /\ lock = "free" /\ normative < Releases
  /\ normative' = normative + 1
  /\ UNCHANGED <<lock, governed, pc, tx, reading, cleared, promoted, recorded>>

ClearLocks ==
  /\ lock = "stale" /\ cleared < MaxClears
  /\ lock' = "free" /\ cleared' = cleared + 1
  /\ UNCHANGED <<governed, normative, pc, tx, reading, promoted, recorded>>

NotReading == [step |-> "idle", pointer |-> None, since |-> 0]

\* _load_current_effective_snapshot: the pointer (since: the release then current).
ReadPointer(r) ==
  /\ reading[r].step = "idle" /\ current # None
  /\ reading' = [reading EXCEPT ![r] =
       [step |-> "asset", pointer |-> current, since |-> normative]]
  /\ UNCHANGED <<lock, governed, normative, pc, tx, cleared, promoted, recorded>>

\* read_bound_effective: the asset the pointer names; none, and the read raises.
ReadAsset(r) ==
  /\ reading[r].step = "asset"
  /\ reading' = [reading EXCEPT ![r] =
       IF Published(@.pointer) THEN [@ EXCEPT !.step = "base"] ELSE NotReading]
  /\ UNCHANGED <<lock, governed, normative, pc, tx, cleared, promoted, recorded>>

\* Mutant: the base is not compared.
StillCurrent(r) == TRUE

BaseStillCurrent(r) == reading[r].pointer.base = normative

\* The normative current must be the asset's base; else the read raises.
ReadBase(r) ==
  /\ reading[r].step = "base"
  /\ reading' = [reading EXCEPT ![r] =
       IF BaseStillCurrent(r) THEN [@ EXCEPT !.step = "served"] ELSE NotReading]
  /\ UNCHANGED <<lock, governed, normative, pc, tx, cleared, promoted, recorded>>

EndRead(r) ==
  /\ reading[r].step = "served"
  /\ reading' = [reading EXCEPT ![r] = NotReading]
  /\ UNCHANGED <<lock, governed, normative, pc, tx, cleared, promoted, recorded>>

-----------------------------------------------------------------------------
Init ==
  /\ lock = "free" /\ normative = 1
  /\ case = [c \in Cases |-> None] /\ decision = [c \in Cases |-> None]
  /\ amended = {} /\ assets = {} /\ current = None
  /\ pc = [p \in Procs |-> "idle"] /\ tx = [p \in Procs |-> Idle]
  /\ reading = [r \in Readers |-> NotReading]
  /\ cleared = 0 /\ promoted = {} /\ recorded = [c \in Cases |-> None]

Promote(p) ==
  \/ WriteAmendment(p) \/ PublishAsset(p) \/ MovePointer(p) \/ LinkPointer(p)
  \/ LinkFails(p) \/ RetirePointer(p) \/ StepFails(p)

RollBack(p) ==
  \/ UnlinkPointer(p) \/ UnlinkFails(p) \/ RestorePointer(p)
  \/ RemoveOutput(p) \/ RemoveFails(p) \/ Undone(p)

Command(p) ==
  \/ Refuse(p) \/ PublishCase(p) \/ WriteDecision(p)
  \/ Promote(p) \/ RollBack(p) \/ Close(p)

Read(r) == ReadPointer(r) \/ ReadAsset(r) \/ ReadBase(r) \/ EndRead(r)

Next ==
  \/ \E p \in Procs : Begin(p) \/ Command(p) \/ Crash(p)
  \/ \E r \in Readers : Read(r)
  \/ ApproveNormative \/ ClearLocks

Spec == Init /\ [][Next]_vars

-----------------------------------------------------------------------------
(* Correctness.                                                            *)

\* While no process is inside a transaction and none left its locks behind, the
\* scope's pointer names an asset that is there with its whole lineage, and every
\* amendment file belongs to that lineage: a promotion that raised left neither
\* (effective_approval.py:580).  Until locks were removed by hand.
PromotionIsAllOrNothing ==
  lock = "free" /\ cleared = 0 =>
    /\ current # None => Bound(current)
    /\ amended = Governed(current)
    /\ \A a \in assets : current # None /\ a.id \in Chain(current)

\* A promotion that returned stays in the lineage every later one composes
\* with (composition_amendments), whoever promotes next and whatever the base.
PromotedStaysInLineage ==
  lock = "free" /\ cleared = 0 => promoted \subseteq Governed(current)

\* Decisions are written once: what was recorded is what is read, for
\* good, even when the write is tried again by another process (feedback.py:244).
RecordedStays == \A c \in Cases : recorded[c] # None => decision[c] = recorded[c]

\* A reader is only given an effective asset whose base was the normative current
\* when it was the scope's pointer, though it reads the two one after the other.
ServedWasCurrent ==
  \A r \in Readers : reading[r].step = "served" => reading[r].pointer.base = reading[r].since
=============================================================================
