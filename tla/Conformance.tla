----------------------------- MODULE Conformance -----------------------------
(***************************************************************************)
(* Implementation feedback as the Core judges it (core/conformance.py): a  *)
(* bundle of observations is assessed against a normative release, safe    *)
(* contradictions become proposals, an independent human approves them as  *)
(* amendments that expire, and a composition overlays the amendments of    *)
(* one exact scope on the release, as of one moment.                       *)
(*                                                                         *)
(* Time is the composition time callers pass; it never goes back here.     *)
(* FeedbackPromotion has the files and locks these steps are stored under. *)
(***************************************************************************)
EXTENDS Naturals, Sequences, FiniteSets, FiniteSetsExt

CONSTANTS
  Targets,      \* material claim paths of the contract
  Fields,       \* targets that document a response field, not a status
  Sensitive,    \* targets whose claim kind or path is a high-risk one
  Documented,   \* targets with documentary evidence in the release
  Statuses,     \* values a response status may have
  Scopes,       \* applicability envelopes
  Foreign,      \* scopes of another provider or product
  AttemptLists, \* the attempts an observation may report
  MaxTime,      \* bound: composition times 0..MaxTime
  MaxReleases,  \* bound: normative releases 1..MaxReleases
  MaxAmendments,\* bound: approved amendments
  None

VARIABLES
  now,        \* the time of the next command
  release,    \* the current normative release
  assessment, \* the assessment file at hand, or None
  proposals,  \* proposals waiting for a human
  amendments, \* approved amendments, in the order of their approval
  effective   \* the last composition, or None

vars == <<now, release, assessment, proposals, amendments, effective>>

-----------------------------------------------------------------------------
(* Observations.                                                           *)

Lineages == {"independent", "contract_derived", "manual"}

\* What the release documents for a target; a release may document another value.
Normative(t, r) ==
  IF t \in Fields THEN "name"
  ELSE CHOOSE s \in Statuses : \A u \in Statuses : (r % 2 = 1) = (s = "200")

\* verify_observation_target and the validators of ImplementationObservation: the
\* kind fits the claim, and an API response carries a value of that kind.
ObservedValues(t) == IF t \in Fields THEN {"present", "absent"} ELSE Statuses

WellFormed(o) ==
  \A i \in DOMAIN o.attempts :
    IF o.attempts[i].outcome = "api_response"
    THEN o.attempts[i].observed \in ObservedValues(o.target)
    ELSE o.attempts[i].observed = None

Observations ==
  {o \in [target : Targets, lineage : Lineages, attempts : AttemptLists] : WellFormed(o)}

Bundles == {{o1, o2} : o1, o2 \in Observations}

Outcomes(o) == {o.attempts[i].outcome : i \in DOMAIN o.attempts}
Observed(o) == {o.attempts[i].observed : i \in DOMAIN o.attempts}

\* An observation reports its attempts, at least one of them (domain/conformance.py:223).
AttemptsStated == \A a \in AttemptLists : Len(a) \in Nat \ {0} /\ DOMAIN a = 1..Len(a)

\* Attempts that disagree within one observation.
Unsteady(o) == Cardinality(Outcomes(o)) > 1 \/ Cardinality(Observed(o)) > 1

\* _matches.
Matches(t, observed, r) ==
  IF t \in Fields THEN observed = "present" ELSE observed = Normative(t, r)

\* _assess_observation, in the order of its branches.
Judge(o, scope, r) ==
  LET only == o.attempts[1]
      matches == Matches(o.target, only.observed, r)
  IN  IF scope \in Foreign THEN "out_of_scope"
      ELSE IF only.outcome # "api_response" THEN "inconclusive"
      ELSE IF o.lineage = "contract_derived" /\ matches THEN "inconclusive"
      ELSE IF o.lineage = "manual" THEN "inconclusive"
      ELSE IF matches THEN "confirms" ELSE "contradicts"

Relationship(o, scope, r) ==
  [observation |-> o, target |-> o.target, relationship |-> Judge(o, scope, r),
   outcome |-> IF Unsteady(o) THEN None ELSE o.attempts[1].outcome,
   observed |-> IF scope \in Foreign THEN None ELSE o.attempts[1].observed]

Decided(rel) == rel.relationship \in {"confirms", "contradicts"}

\* _reject_conflicting_observations.
Conflicting(rels) ==
  \E x, y \in rels : Decided(x) /\ Decided(y) /\ x.target = y.target /\ x.observed # y.observed

\* assess raises on attempts or observations that disagree; out of scope, nothing
\* is looked at.
Assessable(bundle, scope, r) ==
  /\ scope \in Foreign \/ \A o \in bundle : ~Unsteady(o)
  /\ ~Conflicting({Relationship(o, scope, r) : o \in bundle})

-----------------------------------------------------------------------------
(* Routes and proposals.                                                   *)

\* Mutant: only the kind counts.
HighRiskByKind(rel) == rel.target \in Fields

\* is_high_risk: response fields are, by their kind.
HighRisk(rel) == rel.target \in Fields \cup Sensitive

\* route_feedback.
Route(rels) ==
  LET of(kind) == {x \in rels : x.relationship = kind}
      unclear(outcomes) == \E x \in of("inconclusive") : x.outcome \in outcomes
      repeated(x) == Len(x.observation.attempts) >= 2
  IN  IF of("contradicts") # {}
      THEN IF \A x \in of("contradicts") : HighRisk(x) THEN "provider_clarification"
           ELSE IF \E x \in of("contradicts") : x.target \notin Documented
           THEN "extraction_correction" ELSE "amendment_proposal"
      ELSE IF of("out_of_scope") # {} THEN "environment_configuration_correction"
      ELSE IF of("inconclusive") = {} THEN "closed_no_change"
      ELSE IF unclear({"harness_failure", "fixture_failure"}) THEN "implementation_correction"
      ELSE IF unclear({"dns_failure", "proxy_failure", "gateway_failure"})
      THEN "environment_configuration_correction"
      ELSE IF \E x \in of("inconclusive") :
                repeated(x) /\ x.outcome \in {"network_failure", "timeout", "rate_limited"}
      THEN "provider_runtime_regression_review"
      ELSE "needs_evidence"

\* The coverage and the verdict an assessment reports.
Targeted(rels, kinds) == {x.target : x \in {y \in rels : y.relationship \in kinds}}
FullyVerified(rels) ==
  /\ Targets # {} /\ Targeted(rels, {"confirms"}) = Targets
  /\ \A x \in rels : x.relationship = "confirms"

\* The bounds: one bundle at a time, and none that could not be approved any more.
Assess ==
  /\ assessment = None /\ proposals = {} /\ effective = None
  /\ Len(amendments) < MaxAmendments
  /\ \E bundle \in Bundles, scope \in Scopes :
       LET rels == {Relationship(o, scope, release) : o \in bundle} IN
       /\ Assessable(bundle, scope, release)
       /\ assessment' = [base |-> release, scope |-> scope, at |-> now,
                         decided |-> {x \in rels : Decided(x)}, route |-> Route(rels),
                         verified |-> FullyVerified(rels)]
  /\ UNCHANGED <<now, release, proposals, amendments, effective>>

\* propose: a contradicted target that is not high-risk, with the value all of its
\* contradictions observed, and what else the bundle decided.
ProposalOf(a, t) ==
  LET of == {x \in a.decided : x.relationship = "contradicts" /\ x.target = t}
  IN  [base |-> a.base, scope |-> a.scope, target |-> t, created |-> now,
       proposed |-> (CHOOSE x \in of : TRUE).observed,
       because |-> {x.observation : x \in of},
       confirmed |-> Targeted(a.decided, {"confirms"}),
       contradicted |-> Targeted(a.decided, {"contradicts"})]

Propose ==
  /\ assessment # None
  /\ proposals' =
       IF assessment.route # "amendment_proposal" THEN proposals
       ELSE proposals \cup {ProposalOf(assessment, x.target) :
              x \in {y \in assessment.decided :
                       y.relationship = "contradicts" /\ ~HighRisk(y)}}
  /\ assessment' = None
  /\ UNCHANGED <<now, release, amendments, effective>>

-----------------------------------------------------------------------------
(* Composition.                                                            *)

Indices(ams) == DOMAIN ams

Inapplicable(ams, scope) == {i \in Indices(ams) : ams[i].proposal.scope # scope}

\* _amendment_is_current: made for this release and what it documents.
Current(am, r) == am.proposal.base = r

Stale(ams, scope, r, at) ==
  {i \in Indices(ams) \ Inapplicable(ams, scope) :
     \/ ams[i].approved > at
     \/ ams[i].expires > at /\ ~Current(ams[i], r)}

Expired(ams, scope, r, at) ==
  {i \in Indices(ams) \ Inapplicable(ams, scope) :
     ams[i].approved <= at /\ ams[i].expires <= at}

Active(ams, scope, r, at) ==
  Indices(ams) \ (Inapplicable(ams, scope) \cup Stale(ams, scope, r, at)
                  \cup Expired(ams, scope, r, at))

\* An active amendment replaces the active one it supersedes; one whose
\* replacement is not active is in force again.
Superseded(ams, active) == {ams[i].supersedes : i \in active} \cap active

InForce(ams, scope, r, at) ==
  LET active == Active(ams, scope, r, at) IN active \ Superseded(ams, active)

\* Supersession keeps scope and target; two in force for one target are an error.
Composable(ams, scope, r, at) ==
  /\ \A i \in Active(ams, scope, r, at) :
       LET s == ams[i].supersedes IN
       s # None => /\ ams[s].proposal.target = ams[i].proposal.target
                   /\ ams[s].proposal.scope = ams[i].proposal.scope
  /\ \A i, j \in InForce(ams, scope, r, at) :
       ams[i].proposal.target = ams[j].proposal.target => i = j

\* compose.
Composition(ams, scope, r, at) ==
  LET force == InForce(ams, scope, r, at)
      decided == UNION {ams[i].proposal.confirmed \cup ams[i].proposal.contradicted : i \in force}
      disputed == UNION {ams[i].proposal.contradicted : i \in force}
      resolved == {ams[i].proposal.target : i \in force}
  IN  [base |-> r, scope |-> scope, at |-> at, applied |-> force,
       until |-> IF force = {} THEN None ELSE Min({ams[i].expires : i \in force}),
       values |-> [t \in Targets |->
         IF t \in resolved
         THEN ams[CHOOSE i \in force : ams[i].proposal.target = t].proposal.proposed
         ELSE Normative(t, r)],
       open |-> Cardinality(Expired(ams, scope, r, at)) + Cardinality(Stale(ams, scope, r, at))
                + Cardinality(Targets \ decided) + Cardinality(disputed \ resolved)]

\* A behaviour ends with its composition, which changes nothing in the stores.
Compose ==
  /\ effective = None
  /\ \E scope \in Scopes :
       /\ Composable(amendments, scope, release, now)
       /\ effective' = Composition(amendments, scope, release, now)
  /\ UNCHANGED <<now, release, assessment, proposals, amendments>>

\* The validator of CompatibilityAmendment, and the composition with it that has
\* to succeed before an approval is recorded.
Approve ==
  /\ effective = None /\ Len(amendments) < MaxAmendments
  /\ \E p \in proposals, expires \in 0..MaxTime + 1,
        supersedes \in Indices(amendments) \cup {None} :
       LET ams == Append(amendments, [proposal |-> p, approved |-> now,
                                      expires |-> expires, supersedes |-> supersedes]) IN
       /\ expires > now /\ p.created <= now /\ p.base = release
       /\ Composable(ams, p.scope, release, now)
       /\ amendments' = ams
       /\ proposals' = proposals \ {p}
  /\ UNCHANGED <<now, release, assessment, effective>>

-----------------------------------------------------------------------------
PassTime == effective = None /\ now < MaxTime /\ now' = now + 1
            /\ UNCHANGED <<release, assessment, proposals, amendments, effective>>

ApproveNormative == effective = None /\ release < MaxReleases /\ release' = release + 1
                    /\ UNCHANGED <<now, assessment, proposals, amendments, effective>>

Init == /\ now = 0 /\ release = 1 /\ assessment = None /\ proposals = {}
        /\ amendments = <<>> /\ effective = None

Next == Assess \/ Propose \/ Approve \/ Compose \/ PassTime \/ ApproveNormative

Spec == Init /\ [][Next]_vars

-----------------------------------------------------------------------------
(* Correctness.                                                            *)

\* An effective value differs from the documented one only where someone saw it:
\* a repeatable API response, not a manual report, of exactly this scope and of
\* this release, about a documented claim that is not high-risk, approved and not
\* expired at that time - whatever else the bundle, the lineage or the history of
\* releases and supersessions held (conformance.py:318, conformance_policy.py:81).
OverridesAreWarranted ==
  effective # None => \A t \in Targets :
    effective.values[t] # Normative(t, effective.base) =>
      \E i \in effective.applied :
        LET am == amendments[i] IN
        /\ am.proposal.target = t /\ am.proposal.proposed = effective.values[t]
        /\ am.proposal.scope = effective.scope /\ am.proposal.base = effective.base
        /\ am.approved <= effective.at /\ effective.at < am.expires
        /\ t \in Documented \ (Fields \cup Sensitive)
        /\ effective.scope \notin Foreign
        /\ am.proposal.because # {}
        /\ \A o \in am.proposal.because :
             /\ o.lineage # "manual" /\ o.target = t
             /\ Outcomes(o) = {"api_response"} /\ Observed(o) = {effective.values[t]}
=============================================================================
