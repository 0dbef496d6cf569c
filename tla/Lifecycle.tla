------------------------------ MODULE Lifecycle ------------------------------
(***************************************************************************)
(* The lifecycle graph of one source set, as core/lifecycle.py states it:  *)
(* which stage may follow which, which kinds of actor may perform a        *)
(* transition and which artifacts it needs.  LifecycleMachine is a pure    *)
(* function of a workflow record, so this module has no variables; a       *)
(* record is [state, artifacts, keys, runtimes].                           *)
(***************************************************************************)

Stages == {"registered", "acquired", "claims_proposed", "reconciled",
           "contract_built", "validated", "review_required",
           "approval_ready", "approved", "published", "stale",
           "superseded", "revoked"}

Artifacts == {"source_set", "evidence_bundle", "runtime_result",
              "grounded_claims", "contract", "validation_decision",
              "candidate_release", "projections"}

ActorKinds == {"system", "runtime", "policy", "approver", "publisher"}

(* _ALLOWED: the successors of a stage; a stage the table does not name    *)
(* (superseded, revoked) has none.                                         *)
Allowed(stage) ==
  CASE stage = "registered"      -> {"acquired"}
    [] stage = "acquired"        -> {"claims_proposed"}
    [] stage = "claims_proposed" -> {"reconciled"}
    [] stage = "reconciled"      -> {"contract_built"}
    [] stage = "contract_built"  -> {"validated"}
    [] stage = "validated"       -> {"review_required", "approval_ready"}
    [] stage \in {"review_required", "approval_ready"} -> {"approved", "revoked"}
    [] stage = "approved"        -> {"published", "revoked"}
    [] stage = "published"       -> {"stale", "superseded", "revoked"}
    [] stage = "stale"           -> {"superseded", "revoked"}
    [] OTHER                     -> {}

(* _REQUIRED: the artifacts a transition into a stage needs.               *)
Required(stage) ==
  CASE stage = "acquired"        -> {"evidence_bundle"}
    [] stage = "claims_proposed" -> {"runtime_result"}
    [] stage = "reconciled"      -> {"grounded_claims"}
    [] stage = "contract_built"  -> {"contract"}
    [] stage = "validated"       -> {"validation_decision"}
    [] stage \in {"review_required", "approval_ready", "approved"} ->
         {"validation_decision", "candidate_release"}
    [] stage = "published"       -> {"projections"}
    [] OTHER                     -> {}

(* _ACTORS: the kinds of actor a transition accepts, every kind where the  *)
(* table is silent.                                                        *)
Performers(stage) ==
  CASE stage = "claims_proposed" -> {"runtime", "system"}
    [] stage \in {"validated", "review_required", "approval_ready"} ->
         {"policy", "system"}
    [] stage = "approved"        -> {"approver"}
    [] stage = "published"       -> {"publisher", "system"}
    [] OTHER                     -> ActorKinds

(* LifecycleMachine.preflight: TRUE where it returns, FALSE where it       *)
(* raises InvalidTransition.                                               *)
IsRetry(wf, target, key) == key \in wf.keys /\ target = wf.state

Preflight(wf, target, kind, key, supplied) ==
  \/ IsRetry(wf, target, key)
  \/ /\ target \in Allowed(wf.state)
     /\ kind \in Performers(target)
     /\ Required(target) \subseteq wf.artifacts \cup supplied

(* LifecycleMachine.transition, once preflight let it pass as new work.    *)
Transition(wf, target, key, supplied) ==
  [wf EXCEPT !.state     = target,
             !.artifacts = @ \cup supplied,
             !.keys      = @ \cup {key}]
=============================================================================
