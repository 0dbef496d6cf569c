---------------------------- MODULE ReviewWorkflow ----------------------------
(***************************************************************************)
(* The review workbench (review/workflow.py behind review/web.py): request *)
(* threads open, save and approve reviews of one candidate of a docset.    *)
(* They take no lock: a snapshot is five separate reads, the decision file *)
(* is truncated and then written in place, and only approve_candidate runs *)
(* under the foundry's locks.  Meanwhile other processes import the run    *)
(* again with overwrite and approve other candidates.                      *)
(*                                                                         *)
(* The foundry is what FoundryApproval establishes of it: readers get the  *)
(* current asset of one instant, an approval either happens in one step or *)
(* not at all, and neither an approval nor an import overlaps another.     *)
(***************************************************************************)
EXTENDS Naturals, Sequences

CONSTANTS
  Sessions,   \* request threads of the workbench, one user's tabs or clicks
  Versions,   \* contents the run's directory may have
  Flawed,     \* versions whose validation fails or whose score is low
  Verdicts,   \* what a user may answer: TRUE accepts all the page asks
  MaxImports, \* bound: how often the run is imported
  MaxAssets,  \* bound: how many assets are approved
  Torn,       \* a decision file that is not a decision
  None

ASSUME BoundsAssumption == MaxImports \in Nat /\ MaxAssets \in Nat
ASSUME FlawedAssumption == Flawed \subseteq Versions /\ Verdicts \subseteq BOOLEAN
ASSUME NoneAssumption == None \notin Versions \cup Sessions /\ Torn # None

VARIABLES
  candidate, \* what the candidate directory holds, None before the import
  edition,   \* how often it was imported: each import is another directory
  decision,  \* its review/decision.json: None, Torn or a decision
  assets,    \* the approved assets; the last one is current
  pc,        \* Sessions -> where the request is
  req,       \* Sessions -> the request being served, None when idle
  view,      \* Sessions -> the snapshot being taken
  page       \* Sessions -> the snapshot the user looks at

disk == <<candidate, edition, decision, assets>>
vars == <<disk, pc, req, view, page>>

-----------------------------------------------------------------------------
(* Snapshots, bindings and drafts.                                         *)

Blank == [loaded |-> None, base |-> 0, baseline |-> 0, cand |-> None]

\* The report depends on the contents that are compared; equal contents differ
\* in nothing.
Diff(v) ==
  IF v.baseline = 0 \/ assets[v.baseline].version = v.loaded THEN <<>>
  ELSE <<assets[v.baseline].version, v.loaded>>

Binding(v) == [cand |-> v.cand, base |-> v.base, baseline |-> v.baseline,
               diff |-> Diff(v)]

\* What has to be decided: the candidate's validation findings and the diff.
Subjects(v) ==
  {<<"validation", v.loaded>>} \cup
    IF Diff(v) = <<>> THEN {} ELSE {<<"diff", Diff(v)>>}

Answer(p, verdict) == IF verdict THEN Subjects(p) ELSE {}

\* ReviewDraft: it carries the binding of the page it was made on, and it
\* accepts everything the page asks or nothing.
Draft(p, accepts) == [binding |-> Binding(p), accepts |-> accepts]
Decision(s, draft) == [by |-> s, draft |-> draft]

Request(stage, approve, p, accepts) ==
  [stage |-> stage, approve |-> approve, shown |-> p,
   draft |-> Draft(p, accepts), edition |-> 0, expects |-> None]

\* Mutant: open handoffs and rejected subjects do not count.
NoFollowUp(v, draft) == v.loaded \notin Flawed

\* _review_outcome without anything unresolved.
Resolved(v, draft) == v.loaded \notin Flawed /\ Subjects(v) \subseteq draft.accepts

-----------------------------------------------------------------------------
(* Serving a request.                                                      *)

Goto(s, label) == pc' = [pc EXCEPT ![s] = label]
Serve(s, label, r) == Goto(s, label) /\ req' = [req EXCEPT ![s] = r]
Look(s, v) == view' = [view EXCEPT ![s] = v]

\* Mutant: the thread keeps its request after the answer.
RespondHolding(s, p) ==
  Goto(s, "idle") /\ Look(s, Blank) /\ page' = [page EXCEPT ![s] = p] /\ UNCHANGED req

Respond(s, p) ==
  /\ Serve(s, "idle", None)
  /\ Look(s, Blank)
  /\ page' = [page EXCEPT ![s] = p]

Snapshot(s, r) == Serve(s, "candidate", r) /\ Look(s, Blank) /\ UNCHANGED page

\* _import_or_reopen: a candidate with other contents than the run is refused.
OpenReview(s) ==
  /\ pc[s] = "idle"
  /\ \/ candidate # None /\ UNCHANGED disk
     \/ /\ candidate = None /\ edition < MaxImports
        /\ candidate' \in Versions
        /\ edition' = edition + 1
        /\ UNCHANGED <<decision, assets>>
  /\ Snapshot(s, Request("open", FALSE, Blank, {}))

SaveDecision(s) ==
  /\ pc[s] = "idle" /\ page[s] # Blank
  /\ \E verdict \in Verdicts :
       Snapshot(s, Request("save", FALSE, page[s], Answer(page[s], verdict)))
  /\ UNCHANGED disk

ApproveReview(s) ==
  /\ pc[s] = "idle" /\ page[s] # Blank
  /\ \E verdict \in Verdicts :
       Snapshot(s, Request("save", TRUE, page[s], Answer(page[s], verdict)))
  /\ UNCHANGED disk

-----------------------------------------------------------------------------
(* _snapshot: the candidate, the current asset, the baseline's artifacts,  *)
(* the candidate's digests, the saved decision.                            *)

ReadCandidate(s) ==
  /\ pc[s] = "candidate" /\ candidate # None
  /\ Look(s, [view[s] EXCEPT !.loaded = candidate])
  /\ Goto(s, "current")
  /\ UNCHANGED <<disk, req, page>>

ReadCurrent(s) ==
  /\ pc[s] = "current"
  /\ Look(s, [view[s] EXCEPT !.base = Len(assets)])
  /\ Goto(s, IF assets = <<>> THEN "digests" ELSE "baseline")
  /\ UNCHANGED <<disk, req, page>>

ReadBaseline(s) ==
  /\ pc[s] = "baseline"
  /\ Look(s, [view[s] EXCEPT !.baseline = Len(assets)])
  /\ Goto(s, "digests")
  /\ UNCHANGED <<disk, req, page>>

DigestCandidate(s) ==
  /\ pc[s] = "digests"
  /\ Look(s, [view[s] EXCEPT !.cand = candidate])
  /\ Goto(s, "decision")
  /\ UNCHANGED <<disk, req, page>>

Stale(s) ==
  /\ decision # None
  /\ decision = Torn \/ decision.draft.binding # Binding(view[s])

\* _validate_draft: the draft is for this evidence and for these subjects.
DraftValid(s) ==
  /\ req[s].draft.binding = Binding(view[s])
  /\ req[s].draft.accepts \subseteq Subjects(view[s])

StillBound(s) == Binding(view[s]) = req[s].draft.binding

ReadDecision(s) ==
  /\ pc[s] = "decision" /\ ~Stale(s)
  /\ \/ req[s].stage = "open" /\ Respond(s, view[s])
     \/ /\ req[s].stage = "save" /\ DraftValid(s)
        /\ Goto(s, "writing") /\ UNCHANGED <<req, view, page>>
     \/ /\ req[s].stage = "fresh" /\ StillBound(s)
        /\ Goto(s, "binding") /\ UNCHANGED <<req, view, page>>
  /\ UNCHANGED disk

-----------------------------------------------------------------------------
(* save_review_decision truncates the file and then writes it.             *)

TruncateDecision(s) ==
  /\ pc[s] = "writing"
  /\ decision' = Torn
  /\ Serve(s, "written", [req[s] EXCEPT !.edition = edition])
  /\ UNCHANGED <<candidate, edition, assets, view, page>>

\* The bytes go to the file that was opened, in the directory of that edition;
\* over the bytes another thread wrote meanwhile they may leave a mixture.
WriteDecision(s) ==
  LET saved == Decision(s, req[s].draft) IN
  /\ pc[s] = "written"
  /\ decision' \in IF req[s].edition # edition THEN {decision}
                   ELSE IF decision = Torn THEN {saved} ELSE {saved, Torn}
  /\ IF req[s].approve
     THEN Snapshot(s, [req[s] EXCEPT !.stage = "fresh"])
     ELSE Respond(s, view[s])
  /\ UNCHANGED <<candidate, edition, assets>>

-----------------------------------------------------------------------------
(* approve_review: the digest of the decision file, whatever it holds now, *)
(* completes the set approve_candidate has to find.                        *)

BindDecision(s) ==
  /\ pc[s] = "binding" /\ decision # None
  /\ Serve(s, "approving", [req[s] EXCEPT !.expects = decision])
  /\ UNCHANGED <<disk, view, page>>

\* Mutant: the candidate is not compared before and after the copy.
CopiesAnything(s) == view[s].base = Len(assets)

\* enforce_expected_base, and _verify_candidate_binding around the copy.
CandidateBound(s) ==
  /\ view[s].base = Len(assets)
  /\ candidate = view[s].cand
  /\ decision = req[s].expects

ApproveCandidate(s) ==
  /\ pc[s] = "approving" /\ CandidateBound(s)
  /\ Len(assets) < MaxAssets
  /\ assets' = Append(assets,
       [version |-> candidate, base |-> Len(assets), decision |-> decision,
        by |-> s, shown |-> req[s].shown, draft |-> req[s].draft,
        reviewed |-> Resolved(view[s], req[s].draft)])
  /\ Respond(s, page[s])
  /\ UNCHANGED <<candidate, edition, decision>>

-----------------------------------------------------------------------------
(* Any step may raise; the browser still shows the page it showed.  A      *)
(* request that does not survive its write leaves the file as it is.       *)

Raise(s) == pc[s] # "idle" /\ Respond(s, page[s]) /\ UNCHANGED disk

(* foundry import --overwrite: another directory, without a decision.      *)
ImportRun ==
  /\ candidate # None /\ edition < MaxImports
  /\ candidate' \in Versions
  /\ edition' = edition + 1
  /\ decision' = None
  /\ UNCHANGED <<assets, pc, req, view, page>>

(* foundry approve of another candidate.                                   *)
ApproveElsewhere ==
  /\ Len(assets) < MaxAssets
  /\ \E v \in Versions :
       assets' = Append(assets,
         [version |-> v, base |-> Len(assets), decision |-> None, by |-> None,
          shown |-> Blank, draft |-> None, reviewed |-> FALSE])
  /\ UNCHANGED <<candidate, edition, decision, pc, req, view, page>>

Init ==
  /\ candidate = None /\ edition = 0 /\ decision = None /\ assets = <<>>
  /\ pc = [s \in Sessions |-> "idle"] /\ req = [s \in Sessions |-> None]
  /\ view = [s \in Sessions |-> Blank] /\ page = [s \in Sessions |-> Blank]

Next ==
  \/ \E s \in Sessions :
       \/ OpenReview(s) \/ SaveDecision(s) \/ ApproveReview(s)
       \/ ReadCandidate(s) \/ ReadCurrent(s) \/ ReadBaseline(s)
       \/ DigestCandidate(s) \/ ReadDecision(s)
       \/ TruncateDecision(s) \/ WriteDecision(s)
       \/ BindDecision(s) \/ ApproveCandidate(s) \/ Raise(s)
  \/ ImportRun
  \/ ApproveElsewhere

Spec == Init /\ [][Next]_vars

-----------------------------------------------------------------------------
(* Properties.                                                             *)

Workbench == {i \in DOMAIN assets : assets[i].by # None}

\* The types of the files; a request is being served exactly outside "idle".
TypeOK ==
  /\ candidate \in Versions \cup {None} /\ edition \in 0..MaxImports
  /\ decision \in {None, Torn} \/ decision.by \in Sessions
  /\ candidate = None => decision = None
  /\ Len(assets) <= MaxAssets
  /\ \A s \in Sessions : req[s] = None <=> pc[s] = "idle"

\* What a workbench approval publishes is what its draft was bound to: the very
\* candidate contents and, as predecessor, the very current asset, whatever was
\* imported, approved or saved between the page and the publication
\* (approve_review compares three snapshots, approve_candidate the copy).
ApprovedAsBound ==
  \A i \in Workbench :
    /\ assets[i].version = assets[i].draft.binding.cand
    /\ assets[i].base = assets[i].draft.binding.base
    /\ assets[i].base = assets[i].draft.binding.baseline

\* An asset marked REVIEWED has no failed validation, and every finding of its
\* own contents and every difference from its own predecessor was accepted.
ReviewedMeansAccepted ==
  \A i \in Workbench : assets[i].reviewed =>
    LET own == [loaded |-> assets[i].version, base |-> assets[i].base,
                baseline |-> assets[i].base, cand |-> assets[i].version]
    IN /\ own.loaded \notin Flawed
       /\ Subjects(own) \subseteq assets[i].draft.accepts

\* The decision inside an asset is the one its approver saved for it
\* (tests/review/test_workflow.py: a substituted reviewer is rejected).
BundledDecisionIsApprovers ==
  \A i \in Workbench :
    assets[i].decision = Decision(assets[i].by, assets[i].draft)

\* docs/ARCHITECTURE.md, "fingerprints the reviewed artifacts": the contents an
\* approver approves are the ones whose findings the page showed.
ApprovedAsShown ==
  \A i \in Workbench : assets[i].version = assets[i].shown.loaded
=============================================================================
